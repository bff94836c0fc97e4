CONSTANTS
    u1 = u1
    p1 = p1
    p2 = p2
    p3 = p3
    r1 = r1
    r2 = r2
    User = {u1}
    Password = {p1, p2, p3}
    Weak = {p3}
    Req = {r1, r2}
    Life = 1
    MaxTime = 2
SPECIFICATION Spec
INVARIANTS
    SuccessorFollowsRevocation
    OneOwnerPerToken
PROPERTIES
    SpentIsFinal
    AccountIsMadeOnce
