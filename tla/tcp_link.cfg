CONSTANTS
  Protocols = {"TCP", "STREAM", "STM", "UDP"}
  MaxSessions = 2
  MaxPolls = 2
  SocketBuffer = 3
  Samples <- MCSamples
SPECIFICATION FairLink
INVARIANTS
  LinkTypeOK
  AnswerFits
  FramesUnderstood
PROPERTIES
  ImplementsChannel
  EveryoneServed
  CommandsArrive
  PollEnds
CHECK_DEADLOCK FALSE
