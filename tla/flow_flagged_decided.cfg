CONSTANTS
    t1 = t1
    r1 = r1
    r2 = r2
    Txn = {t1}
    Req = {r1, r2}
    MaxFaults = 2
SPECIFICATION FairSpec
PROPERTIES
    FlaggedIsDecided
