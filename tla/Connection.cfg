\* Pipes that hold one frame, or one log line; everybody may die at any time.
SPECIFICATION FairSpec
CONSTANTS
  Word = 16384
  MaxSessions = 3
  Base = 2
  HeaderBytes = 1
  MaxMessageBytes = 1
  PipeBytes = 2
  Creations <- SomeCreations
  FedTimes = {0, 9000}
  ErrLines = 1
  MaxLogLines = 2
  MaxRequests = 3
INVARIANTS
  TypeOK
  ScriptsPlayOnce
  NoCircularWait
PROPERTIES
  ImplementsRemoteBackend
  RequestsReturn
  BridgeLeavesToo
