\* A create after the bridge has died.
SPECIFICATION FairSpec
CONSTANTS
  Handles = {h1, h2}
  Nobody = Nobody
  MaxSessions = 2
  MaxAnnotations = 1
  PipeCapacity = 1
  SlotCounts = {1}
  MaxRequests = 4
PROPERTIES
  CreateRespawns
