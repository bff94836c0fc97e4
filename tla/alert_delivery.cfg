CONSTANTS
    t1 = t1
    t2 = t2
    Txn = {t1, t2}
SPECIFICATION FairSpec
INVARIANTS
    AlertIsForFlagged
    AtMostOneAlert
    KeyNeverPreempts
    AnswerMatchesRow
PROPERTIES
    SubmissionEnds
