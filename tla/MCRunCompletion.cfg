CONSTANTS
  d1 = d1
  d2 = d2
  d3 = d3
  Nobody = Nobody
  Deliveries = {d1, d2, d3}
SPECIFICATION Spec
SYMMETRY DeliverySymmetry
INVARIANTS OneResponse ResponseTellsOutcome ActivityBeforeOutcome
PROPERTIES AcknowledgedIsEnded
CHECK_DEADLOCK FALSE
