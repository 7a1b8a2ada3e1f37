SPECIFICATION RingSpec
CONSTANTS
  a = a
  b = b
  Cap <- MCCap
  Data <- MCData
  Zero <- MCZero
  MaxChunk <- MCMaxChunk
INVARIANT RingTypeOK
PROPERTY FifoSpec
CHECK_DEADLOCK FALSE
