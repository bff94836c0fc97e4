CONSTANTS
    m1 = m1
    m2 = m2
    m3 = m3
    Model = {m1, m2, m3}
    Case <- MCCase
    Fraud <- MCFraud
    Grid <- MCGrid
    Score <- MCScore
    Txn <- MCTxn
    Prob <- MCProb
    Profile <- MCProfile
SPECIFICATION Spec
INVARIANTS
    NoOtherThresholdPays
    RecommendedIsSelected
    TargetsAreMet
    RecallPolicyReviewsNoMore
    MatchedInOrder
    FlaggedIsExplained
    PreviewFlagsNoMore
    LevelMeetsFlag
    OnlineFlagNeedsRule
