SPECIFICATION FairSpec
CONSTANTS
    o1 = o1
    r1 = r1
    Orders <- MCOrders
    Keys = {k1}
    Asset <- MCAsset
    Terms <- MCTerms
    Refs <- MCRefs
    Blank = Blank
    NoRef = NoRef
    NoKey = NoKey
    NoTerms = NoTerms
    GuardContexts <- MCGuardContexts
    TransferAgentWorkers = {t1, t2}
    ReconciliationWorkers = {w1}
    Approvers = {}
    Deliveries <- MCTwice
    MaxReceives = 1
    RefOf <- MCRefOf
    Faults <- MCNone
    NoDelivery = NoDelivery
    NoOrder = NoOrder
INVARIANT
    OneBooker
PROPERTY
    OrdersComplete
CHECK_DEADLOCK FALSE
