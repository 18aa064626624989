\* Two handles called from two threads, a crash at any time.
SPECIFICATION Spec
CONSTANTS
  Handles = {h1, h2}
  Nobody = Nobody
  MaxSessions = 3
  MaxAnnotations = 2
  PipeCapacity = 1
  SlotCounts = {1, 2}
  MaxRequests = 6
SYMMETRY HandleSymmetry
INVARIANTS
  TypeOK
  OneInFlight
  OwnInOrder
  SessionTablesAgree
  NoCallIsStuck
PROPERTIES
  DeliveryOnlyAppends
  LossOnlyInWindow
  ImplementsDecodeService
