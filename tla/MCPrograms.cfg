SPECIFICATION MCSpec
CONSTANTS
  Readers <- MCReaders
  Writers = {w1, w2}
  Kind <- MCKind
  CAP = 1
  MaxFifos = 2
  Root = TRUE
  Apps = {a1}
  Shells = {s1}
  Pausers = {m1}
  NoPid = NoPid
  MaxQueued = 1
  QueueRuns = {q1, q2, q3}
  ShmRuns = {h1, h2, h3}
  MSGS = 1
  Clients = {c1, c2, c3}
  SIZE = 3
  BACKLOG = 1
INVARIANTS
  SelectMeansData WrittenIsKept AppSignalsItself SignalReceived NothingLeft PrintedIsSent
PROPERTIES
  MessageIsRead PauseEnds BothEnd EveryoneServed
CHECK_DEADLOCK FALSE
