CONSTANTS
    r1 = r1
    r2 = r2
    t1 = t1
    t2 = t2
    Txn = {t1, t2}
    Seeded = {t1}
    Req = {r1, r2}
SPECIFICATION Spec
SYMMETRY RequestSymmetry
INVARIANTS
    TypeOK
    VerdictIsBacked
    OnlyFlaggedReviewed
    PendingIsUntouched
    AckIsOnRecord
    TrailMatchesStatus
    OneRowPerRequest
PROPERTIES
    SettledIsFinal
    ImplementsLifecycle
