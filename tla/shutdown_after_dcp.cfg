\* A DCP call while cyclic I/O runs, then PN_Shutdown.
SPECIFICATION FairSpec
CONSTANTS
    Clients = {c1}
    Devices = {d1}
    NoDevice = NoDevice
    MaxAR = 2
    DcpWhileActive = TRUE
    IoDuringLifecycle = FALSE
INVARIANTS
    ShutdownStopsThreads
\* The program ends after PN_Shutdown.
CHECK_DEADLOCK FALSE
