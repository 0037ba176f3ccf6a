SPECIFICATION WSpec
CONSTANTS
    o1 = o1
    r1 = r1
    Orders <- MCOrders
    Keys = {k1}
    Asset <- MCAsset
    Terms <- MCTerms
    Refs <- MCRefs
    Blank = Blank
    NoRef = NoRef
    NoKey = NoKey
    NoTerms = NoTerms
    GuardContexts <- MCGuardContexts
    TransferAgentWorkers = {t1, t2}
    ReconciliationWorkers = {w1}
    Approvers = {}
    Deliveries <- MCIgnored
    MaxReceives = 2
    RefOf <- MCRefOf
    Faults <- MCFaults
    NoDelivery = NoDelivery
    NoOrder = NoOrder
SYMMETRY MCSymmetry
INVARIANTS
    WTypeOK
    HandledAtMostOnce
    ReviewedAfterBooking
    RedemptionNotReviewed
PROPERTY
    LeftForGood
CHECK_DEADLOCK FALSE
