\* Frames cut at any byte, frames over the limit, a pipe of less than two frames.
SPECIFICATION FairSpec
CONSTANTS
  Byte = {0, 1}
  Base = 2
  HeaderBytes = 2
  MaxMessageBytes = 2
  Bodies <- SomeBodies
  PipeBytes = 3
  MaxFrames = 3
INVARIANTS
  TypeOK
PROPERTIES
  ImplementsFramePipe
  FramesArrive
