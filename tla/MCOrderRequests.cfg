SPECIFICATION FairSpec
CONSTANTS
    o1 = o1
    o2 = o2
    r1 = r1
    k1 = k1
    u1 = u1
    p1 = p1
    p2 = p2
    Orders <- MCOrders
    Keys = {k1}
    Asset <- MCAsset
    Terms <- MCTerms
    Refs <- MCRefs
    Blank = Blank
    NoRef = NoRef
    NoKey = NoKey
    NoTerms = NoTerms
    GuardContexts <- MCGuardContexts
    Clients = {c1, c2}
    Requests <- MCRequests
    Accounts = {u1}
    AccountOf <- MCAccountOf
    Policies = {p1, p2}
    MaxFailures = 1
    NoOrder = NoOrder
    NoPolicy = NoPolicy
    NoRequest = NoRequest
INVARIANTS
    RTypeOK
    RecordsMatchOrders
    OkMeansDone
PROPERTIES
    RefinesKeyedOrders
    EveryRequestAnswered
    MadeIsAcknowledged
CHECK_DEADLOCK FALSE
