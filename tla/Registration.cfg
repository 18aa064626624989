\* Three processes, lists of up to two decoders.
SPECIFICATION FairSpec
CONSTANTS
  ListLengths = {0, 1, 2}
  SlotCounts = {0, 1, 2}
  MaxChildren = 3
INVARIANTS
  TypeOK
  AdvertisedIsKept
  NoProcessLeftBehind
PROPERTIES
  SecondCallFits
  RegisterReturns
