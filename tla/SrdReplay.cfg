\* Chunks of two samples, two time units per sample, sub-sample glitches,
\* time running backwards, refused chunks, an annotation at any time.
SPECIFICATION Spec
CONSTANTS
  NumChannels = 2
  FedChannels = 1
  FsPerSample = 2
  ChunkSamples = 2
  LastFs = 7
  MaxFs = 6
  MaxFeeds = 3
  MaxRaised = 1
  MaxRefused = 1
INVARIANTS
  TypeOK
  ReplayIsTheWave
  NothingDropped
  RefusalIsMadeUp
PROPERTIES
  RetryIsHarmless
