SPECIFICATION Spec
CONSTANTS
  Byte = {0, 1}
  Zero = 0
  RamSize = 2
  FlashSize = 4
  Chunks <- MCChunks
INVARIANTS
  TypeOK
  OneBuffer
PROPERTIES
  ImplementsLog
