\* A bridge whose backend cannot be initialised.
SPECIFICATION FairSpec
CONSTANTS
  ListLengths = {0, 1, 2}
  SlotCounts = {0, 1, 2}
  MaxChildren = 3
PROPERTIES
  InitFailureShowsNoDecoders
