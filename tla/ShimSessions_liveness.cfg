\* Two handles called from two threads: every call returns.
SPECIFICATION FairSpec
CONSTANTS
  Handles = {h1, h2}
  Nobody = Nobody
  MaxSessions = 2
  MaxAnnotations = 2
  PipeCapacity = 1
  SlotCounts = {1}
  MaxRequests = 4
PROPERTIES
  CallsReturn
