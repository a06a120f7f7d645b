\* The documented workflow, and a device that goes away.
SPECIFICATION FairSpec
CONSTANTS
    Clients = {c1}
    Devices = {d1}
    NoDevice = NoDevice
    MaxAR = 2
    DcpWhileActive = FALSE
    IoDuringLifecycle = FALSE
PROPERTIES
    DeviceLossNoticed
\* The program ends after PN_Shutdown.
CHECK_DEADLOCK FALSE
