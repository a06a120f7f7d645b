\* Four ARs and six faults: attempts that fail half way, later ones whose datagrams
\* meet what the earlier ones left behind, and restarts of the device in between.
SPECIFICATION FairSpec
CONSTANTS
    MaxAR = 4
    MaxFaults = 6
    PortReset = TRUE
INVARIANTS
    TypeOK
    Agreement
    Undisturbed
PROPERTIES
    ConnectCompletes
    CallsEnd
CHECK_DEADLOCK FALSE
