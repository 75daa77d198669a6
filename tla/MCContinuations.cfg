CONSTANTS
  NumCalls = 2
  Approvals = {1}
  Devices = {1}
  UserActions = {2}
  MaxAttempts = 2
  Workers = {w1}
  MaxFaults = 1
SPECIFICATION FairSpec
INVARIANTS ConsentIsReal LaterInvocationWaitSurvives
PROPERTIES AnswerArrives OverdueWaitEnds
CHECK_DEADLOCK FALSE
