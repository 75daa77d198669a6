CONSTANTS Replicas = {r1, r2}  Handlers = {h1, h2}  Results = {"proposal", "unusable"}  StartAttempts = 2  MaxRequests = 3  MaxWaits = 0  MaxFaults = 1
SPECIFICATION Spec
SYMMETRY Symmetry
INVARIANTS FinishedIsRecorded RepeatsAreRecordedOnce
PROPERTIES StreamIsAsPromised
CHECK_DEADLOCK FALSE
