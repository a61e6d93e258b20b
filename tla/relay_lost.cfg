SPECIFICATION FairSpec
CONSTANTS
  BufferChunks = 2
  MaxChunks = 6
PROPERTY SelfCancelWakesCaller
