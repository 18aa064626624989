\* Two handles called from two threads: what one call drains of another's.
SPECIFICATION Spec
CONSTANTS
  Handles = {h1, h2}
  Nobody = Nobody
  MaxSessions = 2
  MaxAnnotations = 1
  PipeCapacity = 1
  SlotCounts = {1}
  MaxRequests = 5
INVARIANTS
  OkMeansComplete
