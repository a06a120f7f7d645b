\* Two drives and a client whose STM messages may be too short for both.
SPECIFICATION FairSpec
CONSTANTS
    N = 2
    Commands = {run}
    Forced = forced
    Safe = safe
    Empty = empty
    Nothing = nothing
    Protocol = "STM"
    Framed = FALSE
    Timeout = 1
    OperatorActs = FALSE
PROPERTIES
    FailSafe
