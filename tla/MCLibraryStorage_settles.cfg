SPECIFICATION FairSpec
CONSTANTS
  Uploads = {u1, u2}
  Requests = {q1}
  Workers = {w1, w2}
  Nobody = Nobody
  Quota = 2
  MaxFaults = 1
CHECK_DEADLOCK FALSE
PROPERTY StorageSettles
