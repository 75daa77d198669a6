CONSTANTS Replicas = {r1}  Handlers = {h1, h2}  Results = {"success"}  StartAttempts = 2  MaxRequests = 3  MaxWaits = 1  MaxFaults = 1
SPECIFICATION FairSpec
PROPERTIES RunSettles
CHECK_DEADLOCK FALSE
