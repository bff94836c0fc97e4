CONSTANTS
    r1 = r1
    r2 = r2
    t1 = t1
    Txn = {t1}
    Seeded = {}
    Req = {r1, r2}
SPECIFICATION Spec
SYMMETRY RequestSymmetry
PROPERTIES
    VerdictIsFinal
