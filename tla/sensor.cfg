CONSTANTS
    Clients = {c1, c2}
    Servers = {s1, s2}
    None = None
    Askers = {c1}
    MaxAsk = 1
SPECIFICATION FairSpec
INVARIANTS
    TypeOK
    OneServer
    NobodyCutOff
PROPERTIES
    LeaseHolds
    OwnAnswer
    PatientIsServed
    ServerLeaves
CHECK_DEADLOCK FALSE
