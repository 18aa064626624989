\* Five channels, required or optional, bound or not, in every combination.
SPECIFICATION Spec
CONSTANTS
  NumChannels = 5
  ByteBits = 4
INVARIANTS
  DecoderSeesItsSignals
  PositionsFillTheFrame
CHECK_DEADLOCK FALSE
