\* One AR, no fault: connect, release, and the device keeps sending.
SPECIFICATION Spec
CONSTANTS
    MaxAR = 2
    MaxFaults = 0
    PortReset = FALSE
INVARIANT
    ReleasedIsSilent
CHECK_DEADLOCK FALSE
