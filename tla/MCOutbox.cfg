SPECIFICATION FairSpec
CONSTANTS
    Publishers = {p1, p2}
    Rows <- MCRows
    Limit = 2
    MaxErrors = 1
    Faults <- MCFaults
    NoRow = NoRow
INVARIANTS
    TypeOK
    OneHolder
    ResentOnlyAfterError
PROPERTIES
    PublishedIsFinal
    EventuallyPublished
CHECK_DEADLOCK FALSE
