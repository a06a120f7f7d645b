\* The documented workflow: DCP before PN_Connect, I/O between PN_Connect and
\* PN_Disconnect.
SPECIFICATION FairSpec
CONSTANTS
    Clients = {c1}
    Devices = {d1, d2}
    NoDevice = NoDevice
    MaxAR = 2
    DcpWhileActive = FALSE
    IoDuringLifecycle = FALSE
INVARIANTS
    TypeOK
    StatsAgree
PROPERTIES
    ImplementsRelation
\* The program ends after PN_Shutdown.
CHECK_DEADLOCK FALSE
