CONSTANTS
    r1 = r1
    r2 = r2
    r3 = r3
    Replicas = {r1, r2, r3}
    MaxFaults = 3
SPECIFICATION FairSpec
INVARIANTS ServingMeansLedger StartsBounded
PROPERTIES AllServe
CHECK_DEADLOCK FALSE
