\* Two drives and a client that sends whole flat frames over TCP.
SPECIFICATION FairSpec
CONSTANTS
    N = 2
    Commands = {run}
    Forced = forced
    Safe = safe
    Empty = empty
    Nothing = nothing
    Protocol = "TCP"
    Framed = FALSE
    Timeout = 1
    OperatorActs = TRUE
INVARIANTS
    TypeOK
    CommandsAreWatched
PROPERTIES
    FailSafe
    BufferReachesWire
    TripClears
