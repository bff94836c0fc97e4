CONSTANTS
    t1 = t1
    t2 = t2
    Tab = {t1, t2}
    MaxToken = 3
SPECIFICATION Spec
PROPERTIES
    GoodTokenIsKept
