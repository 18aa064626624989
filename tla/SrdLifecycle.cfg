\* Four sessions opened over three addresses, of which one may fail half-way
\* while two are open.  The system stops when the backend is gone.
SPECIFICATION Spec
CONSTANTS
  Handle = {p1, p2, p3}
  NoHandle = NoHandle
  MaxSessions = 4
SYMMETRY AddressSymmetry
INVARIANTS
  ResourcesAgree
  CallbackTargetAlive
  ReleasesAreOwned
  LibraryExitsLast
CHECK_DEADLOCK FALSE
