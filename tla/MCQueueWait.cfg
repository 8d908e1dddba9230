SPECIFICATION Spec
CONSTANTS
  Readers = {r1, r2}
  Writers = {w1}
  Letter <- MCLetter
  Zero = Zero
  Junk = Junk
  None = None
  Size = 2
  BUF_SIZE = 2
  ReadRooms = {2}
  WriteRooms = {1, 3}
  MaxWrites = 2
INVARIANTS NoLostWakeup IndexInBuffer OneWriteDelivered
CHECK_DEADLOCK FALSE
SYMMETRY Perms
