\* Client calls overlap the owner's calls; DCP is left to the disconnected state.
SPECIFICATION FairSpec
CONSTANTS
    Clients = {c1}
    Devices = {d1}
    NoDevice = NoDevice
    MaxAR = 2
    DcpWhileActive = FALSE
    IoDuringLifecycle = TRUE
INVARIANTS
    OneCyclicThread
    ShutdownStopsThreads
    NoSocketLost
    ConnectedIsExchanging
PROPERTIES
    CallsReturn
\* The program ends after PN_Shutdown.
CHECK_DEADLOCK FALSE
