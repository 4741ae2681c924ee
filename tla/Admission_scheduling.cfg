SPECIFICATION FairSpec
CONSTANTS
    r1 = r1
    r2 = r2
    r3 = r3
    r4 = r4
    r5 = r5
    g1 = g1
    g2 = g2
    g3 = g3
    g4 = g4
    io = io
    cpu = cpu
    tn = tn
    rs = rs
    Nobody = Nobody
    Requests <- FiveRequests
    Groups <- FourGroups
    Lanes <- TwoLanes
    Tenants <- OneTenant
    Resources <- OneResource
    GroupOf <- FirstTwoTogether
    LaneOf <- FirstAndThirdIo
    TenantOf <- TenantOfOthers
    ResourceOf <- ResourceOfSecond
    Rank <- FirstIsLow
    Rejecting <- TwoReject
    Impatient <- Second
    MaxTotal = 2
    MaxGroup = 1
    MaxTenant = 1
    MaxResource = 1
    LaneLimit <- OneIoTwoCpu
    MaxRank = 1
INVARIANTS
    TypeOK
    AccountingMatchesLeases
    BudgetRespected
    SelectionIsCurrent
PROPERTIES
    RejectNeverOvertakes
    FittingWaitersTakeTurns
