SPECIFICATION Spec
CONSTANTS
    o1 = o1
    o2 = o2
    r1 = r1
    r2 = r2
    Orders <- MCOrders
    Keys = {k1, k2}
    Asset <- MCAsset
    Terms <- MCTerms
    Refs <- MCRefs
    Blank = Blank
    NoRef = NoRef
    NoKey = NoKey
    NoTerms = NoTerms
    GuardContexts <- MCGuardContexts
SYMMETRY MCSymmetry
INVARIANTS
    TypeOK
    TimelineFaithful
    LedgerExact
    PositionBacked
    EventsExact
    CancelledMovedNothing
    BreakTracksException
    CertifierPasses
PROPERTIES
    Irreversible
    FollowsAbstractSweep
CHECK_DEADLOCK FALSE
