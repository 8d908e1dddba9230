CONSTANTS
  Threads <- MCThreads
  NoThread = NoThread
  Byte <- MCByte
  Zero = "0"
  None = None
  Fault = Fault
  MEM_SIZE = 5
  UseMutex = TRUE
  WriteBufs = {}
  Counts = {}
  Rooms = {}
  Offsets = {}
  MaxWrites = 2
  RW_BUFF_SIZE = 4
  Letter <- MCLetter
SPECIFICATION MCSpec
INVARIANTS NoTornReadWithMutex EveryCellWritten
PROPERTY AppTerminates
