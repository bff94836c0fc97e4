CONSTANTS
    Limit = 1
    MaxRow = 2
SPECIFICATION FairSpec
INVARIANTS
    EachCountedOnce
PROPERTIES
    DecisionIsShown
    SubmittedJoinsList
