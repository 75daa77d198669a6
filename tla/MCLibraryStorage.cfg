SPECIFICATION Spec
CONSTANTS
  Uploads = {u1, u2}
  Requests = {q1, q2}
  Workers = {w1, w2}
  Nobody = Nobody
  Quota = 2
  MaxFaults = 1
SYMMETRY Symmetry
CHECK_DEADLOCK FALSE
INVARIANTS DeletionIsConfirmed BytesAccounted
PROPERTY ReservationsReleasedOnce
