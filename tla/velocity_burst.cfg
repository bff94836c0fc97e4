CONSTANTS
    s1 = s1
    s2 = s2
    s3 = s3
    Sub = {s1, s2, s3}
    Amount = {20}
    Five = 1
    Hour = 3
    Slow = 1
    Failures = FALSE
    FewIn5 = 2
    FewIn1h = 2
    Trivial = 10
    MaxTime = 1
SPECIFICATION Spec
SYMMETRY Symmetry
INVARIANTS
    BurstIsCaught
CHECK_DEADLOCK FALSE
