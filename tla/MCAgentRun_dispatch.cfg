CONSTANTS
  a1 = a1
  a2 = a2
  r1 = r1
  r2 = r2
  s1 = s1
  t0 = t0
  t1 = t1
  w1 = w1
  w2 = w2
  Nobody = Nobody
  Gone = Gone
  Agents = {a1, a2}
  Runs = {s1, t0, t1}
  AgentOf <- TwoAgents
  TaskRuns = {t0, t1}
  LegacyRuns = {t0}
  Backlog <- OneStranded
  Workers = {w1, w2}
  Limit = 2
  MaxAttempts = 2
  MaxCrashes = 2
SPECIFICATION FairSpec
INVARIANTS TypeOK NoDuplicateSubmission OneIdentity JobAgreesWithRun
PROPERTIES DispatchedNeverRestarts OutcomeIsFinal EndedRunFreesAgent LostRuntimeSurfaces
CHECK_DEADLOCK FALSE
