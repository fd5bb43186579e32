CONSTANTS
  Byte = {0, 1}
  Zero = 0
  CheapPrepend = 2
  InitialSize = 2
  MaxChunk = 2
  MaxReadable = 3
SPECIFICATION BufferSpec
INVARIANT
  GrowthIsBounded
PROPERTY
  ImplementsQueue
