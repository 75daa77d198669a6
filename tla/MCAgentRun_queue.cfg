CONSTANTS
  a1 = a1
  a2 = a2
  r1 = r1
  r2 = r2
  s1 = s1
  t0 = t0
  t1 = t1
  w1 = w1
  w2 = w2
  Nobody = Nobody
  Gone = Gone
  Agents = {a1}
  Runs = {r1, r2}
  AgentOf <- TwoAgents
  TaskRuns = {}
  LegacyRuns = {}
  Backlog <- NoBacklog
  Workers = {w1, w2}
  Limit = 2
  MaxAttempts = 2
  MaxCrashes = 1
SPECIFICATION Spec
SYMMETRY QueueSymmetry
CONSTRAINT UntilDispatch
INVARIANTS SingleActivePerAgent
CHECK_DEADLOCK FALSE
