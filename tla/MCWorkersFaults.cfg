SPECIFICATION FairSpec
CONSTANTS
    o1 = o1
    r1 = r1
    Orders <- MCOrders
    Keys = {k1}
    Asset <- MCAsset
    Terms <- MCTerms
    Refs <- MCRefs
    Blank = Blank
    NoRef = NoRef
    NoKey = NoKey
    NoTerms = NoTerms
    GuardContexts <- MCGuardContexts
    TransferAgentWorkers = {t1}
    ReconciliationWorkers = {w1}
    Approvers = {a1}
    Deliveries <- MCOnce
    MaxReceives = 2
    RefOf <- MCRefOf
    Faults <- MCFaults
    NoDelivery = NoDelivery
    NoOrder = NoOrder
PROPERTIES
    QueueDrains
    OrdersCompleteOrDropped
    MismatchOpensException
CHECK_DEADLOCK FALSE
