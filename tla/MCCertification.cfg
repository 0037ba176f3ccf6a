SPECIFICATION CSpec
CONSTANTS
    s1 = s1
    s2 = s2
    c1 = c1
    Publishers = {p1}
    Rows <- MCRows
    Limit = 2
    MaxErrors = 1
    Faults <- MCFaults
    NoRow = NoRow
    Consumers = {c1}
    Services = {s1, s2}
    ConsumerOf <- MCConsumerOf
    MaxReceives = 2
    BatchSize = 2
    ServiceFaults <- MCServiceFaults
    Width = 8
    Inputs <- MCInputs
INVARIANTS
    CampaignAdmission
    DTypeOK
    CertifiedMeansTaken
PROPERTIES
    RefinesEventBus
    EventuallyRecorded
    OrphanFailsEveryRun
CHECK_DEADLOCK FALSE
