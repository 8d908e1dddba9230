SPECIFICATION FairSpec
CONSTANTS
  Readers = {r1}
  Writers = {w1, w2}
  Letter <- MCOneLetter
  Zero = Zero
  Junk = Zero
  None = None
  Size = 1
  BUF_SIZE = 3
  ReadRooms = {0, 1}
  WriteRooms = {2}
  MaxWrites = 2
PROPERTIES PublishedIsTaken WriteReturns
CHECK_DEADLOCK FALSE
