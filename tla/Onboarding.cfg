\* Two pods, two terminals, a chain of three merchants and one to come.
CONSTANTS
    None = None
    Pods = {p1, p2}
    Rows = {r1}
    MaxDisturbances = 2
    Transactions = {c1, c2}
    Merchants = {1, 2, 3, 4}
    Stores = {1, 2}
    Tenancies <- TwoTenancies
    Chain <- ChainOfThree
    MaxChanges = 2
    Depth = 2
    Bodies <- FewBodies
    ColumnMax = 50
SPECIFICATION OnboardingSpec
INVARIANTS
    OnboardingTypeOK
    LedgerIsTrue
    NewReleaseFindsSchema
    OnlyDisturbedPodsFail
    TenantIsWhole
    ListingIsSubtree
    RowsAddUp
PROPERTIES
    RolloutGoesThrough
    ReportsAreTrue
    EveryCommandEnds
    WalksAgree
    AnswerHoldsAtSomeTime
