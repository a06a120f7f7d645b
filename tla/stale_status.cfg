\* The documented workflow, two connections one after the other.
SPECIFICATION FairSpec
CONSTANTS
    Clients = {c1}
    Devices = {d1}
    NoDevice = NoDevice
    MaxAR = 2
    DcpWhileActive = FALSE
    IoDuringLifecycle = FALSE
PROPERTIES
    StatusFromThisConnection
\* The program ends after PN_Shutdown.
CHECK_DEADLOCK FALSE
