SPECIFICATION Spec
CONSTANTS
  Pollers = {p1, p2}
  MaxDeliveries = 3
  MaxRecoveries = 3
SYMMETRY Symmetry
INVARIANTS ActionAtMostOnce NotAttemptedIsTrue ReceiptsReconcile
