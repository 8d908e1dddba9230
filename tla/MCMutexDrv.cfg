CONSTANTS
  Threads = {t1, t2}
  NoThread = NoThread
  Byte <- MCByte
  Zero = "0"
  None = None
  Fault = Fault
  MEM_SIZE = 2
  UseMutex = TRUE
  WriteBufs <- MCWriteBufs
  Counts = {2}
  Rooms = {1, 2}
  Offsets <- MCOffsets
  MaxWrites = 2
SPECIFICATION Spec
INVARIANTS LockInv InBounds ReadStable
PROPERTY Linearizable
SYMMETRY Perms

