CONSTANTS
    Limit = 1
    MaxRow = 2
SPECIFICATION FairSpec
PROPERTIES
    SubmittedIsShown
