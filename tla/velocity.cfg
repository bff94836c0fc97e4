CONSTANTS
    s1 = s1
    s2 = s2
    s3 = s3
    Sub = {s1, s2, s3}
    Amount = {20, 100}
    Five = 1
    Hour = 3
    Slow = 1
    Failures = TRUE
    FewIn5 = 2
    FewIn1h = 2
    Trivial = 10
    MaxTime = 5
SPECIFICATION Spec
SYMMETRY Symmetry
INVARIANTS
    CountedIsReal
    AmountsCountOnce
    UnusualIsUnusual
PROPERTIES
    RecordedIsCounted
CHECK_DEADLOCK FALSE
