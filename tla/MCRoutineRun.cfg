SPECIFICATION RoutineSpec
CONSTANTS
  Calls = {"call1", "call2"}
  Args = {"a1"}
  Workers = {w1}
  Reads = {}
  Redacted = {"call1", "call2"}
  Settled = {"call1", "call2"}
  Legacy <- NoRows
  MaxEffects = 2
  NumSteps = 3
  AgentSteps = {1}
  WaitSteps = {2}
  StepOf <- CapabilityLast
  Skipped = {}
  Broken = {}
  PartialCalls = {}
  AllowPartial = {}
  MaxTurns = 1
  Completers = {p1}
CHECK_DEADLOCK FALSE
INVARIANTS SuccessIsConfirmed InFlightIsUncertain StepsInOrder
