-------------------------------- MODULE Fifo --------------------------------
(***************************************************************************)
(* The FIFO programs of 01-ProcessCtrl and 03-fileOperate/fileOperate: a   *)
(* reader that blocks (fifoRead_block.c), one that polls (fifo_Read.c, the *)
(* same as fifoRead_nonblock.c), one that waits in select                  *)
(* (fifoRead_selectBlock.c), and the writer fifo_write.c.  They are run in *)
(* one directory, in any order; a reader ends only when it is killed.      *)
(*                                                                         *)
(* Every read and write moves the 100 bytes of one message, which a FIFO   *)
(* moves as a whole; a message is known by its writer.  A FIFO that is     *)
(* unlinked lives on as long as somebody has it open.                      *)
(***************************************************************************)
EXTENDS Integers, Sequences

CONSTANTS
  Readers,
  Writers,
  Kind,        \* Kind[r]: "block", "poll" or "select"
  CAP,         \* messages a FIFO holds
  MaxFifos,    \* bound: how many FIFOs are created
  Root         \* the programs run as root

ASSUME FifoAssumption ==
  /\ Readers \cap Writers = {}
  /\ Kind \in [Readers -> {"block", "poll", "select"}]
  /\ CAP \in Nat \ {0}
  /\ MaxFifos \in Nat
  /\ Root \in BOOLEAN

Procs == Readers \cup Writers
Fifos == 1 .. MaxFifos

VARIABLES
  path,        \* the FIFO ./myfifo names, 0 for none
  made,        \* how many FIFOs were created
  queue,       \* per FIFO: the messages in it
  pc,          \* per process: where in main it is
  ino,         \* per process: the FIFO it has open, 0 for none
  last,        \* per reader that runs: what its last read returned
  told,        \* writers that have printed that the message is written
  taken,       \* messages that reads have returned
  lost,        \* messages dropped with the last close of their FIFO
  killed       \* readers that were killed

vars == <<path, made, queue, pc, ino, last, told, taken, lost, killed>>

Init ==
  /\ path = 0
  /\ made = 0
  /\ queue = [n \in Fifos |-> <<>>]
  /\ pc = [q \in Procs |-> "start"]
  /\ ino = [q \in Procs |-> 0]
  /\ last = [r \in Readers |-> "none"]
  /\ told = {} /\ taken = {} /\ lost = {}
  /\ killed = {}

Goto(q, l) == pc' = [pc EXCEPT ![q] = l]

(* Mutant: the select reader opens the FIFO with O_RDONLY.                 *)
WriteEndsReadOnly(n) == {w \in Writers : ino[w] = n}

(* Who has FIFO n open for reading and for writing: O_RDWR is both.        *)
ReadEnds(n) == {r \in Readers : ino[r] = n}
WriteEnds(n) == {q \in Procs : ino[q] = n /\ (q \in Readers => Kind[q] = "select")}

(* The messages in FIFO n.                                                 *)
Queued(n) == {queue[n][k] : k \in DOMAIN queue[n]}

(* external: open for writing lets the readers go that block in open, even *)
(* if it is closed again before they run.                                  *)
Awake(n, q, l) ==
  [s \in Procs |-> IF s = q THEN l
                   ELSE IF s \in ReadEnds(n) /\ pc[s] = "opening" THEN "loop"
                   ELSE pc[s]]

(* external: q closes what it has open; what nobody has open is dropped.   *)
Close(q) ==
  LET n == ino[q]
      last_one == n # 0 /\ ReadEnds(n) \cup WriteEnds(n) = {q}
  IN /\ ino' = [ino EXCEPT ![q] = 0]
     /\ queue' = IF last_one THEN [queue EXCEPT ![n] = <<>>] ELSE queue
     /\ UNCHANGED <<told, taken>>
     /\ lost' = IF last_one THEN lost \cup Queued(n) ELSE lost

-----------------------------------------------------------------------------
(* Only the select reader removes the FIFO it finds.                       *)
Unlink(r) ==
  /\ pc[r] = "start"
  /\ path' = IF Kind[r] = "select" THEN 0 ELSE path
  /\ Goto(r, "mkfifo")
  /\ UNCHANGED <<made, queue, ino, last, told, taken, lost, killed>>

Mkfifo(r) ==
  /\ pc[r] = "mkfifo"
  /\ \/ path # 0 /\ UNCHANGED <<path, made>>
     \/ path = 0 /\ made < MaxFifos /\ made' = made + 1 /\ path' = made'
  /\ Goto(r, "open")
  /\ UNCHANGED <<queue, ino, last, told, taken, lost, killed>>

(* The second argument of mkfifo is a mode: O_CREAT|O_EXCL is 0300, which  *)
(* lets the owner write and nobody but root read.                          *)
Readable == Root

Open(r) ==
  /\ pc[r] = "open"
  /\ \/ /\ path # 0 /\ Readable
        /\ ino' = [ino EXCEPT ![r] = path]
        /\ CASE Kind[r] = "select" -> pc' = Awake(path, r, "loop")
             [] Kind[r] = "poll" -> Goto(r, "loop")
             [] OTHER -> Goto(r, IF WriteEnds(path) = {} THEN "opening" ELSE "loop")
     \/ /\ path = 0 \/ ~Readable
        /\ Goto(r, "exit")
        /\ UNCHANGED ino
  /\ UNCHANGED <<path, made, queue, last, told, taken, lost, killed>>

(* external: what read finds in FIFO n.                                    *)
Found(n) ==
  IF queue[n] # <<>> THEN "data" ELSE IF WriteEnds(n) = {} THEN "eof" ELSE "again"

Take(r) ==
  /\ last' = [last EXCEPT ![r] = Found(ino[r])]
  /\ IF last'[r] = "data"
       THEN /\ queue' = [queue EXCEPT ![ino[r]] = Tail(@)]
            /\ taken' = taken \cup {Head(queue[ino[r]])}
       ELSE UNCHANGED <<queue, taken>>
  /\ UNCHANGED told

(* Mutant: the loop ends once a read has returned 0.                       *)
ReadUntilEof(r) ==
  /\ pc[r] = "loop"
  /\ Kind[r] # "select"
  /\ Kind[r] = "block" => Found(ino[r]) # "again"
  /\ \/ last[r] = "eof" /\ Goto(r, "exit") /\ Close(r) /\ UNCHANGED last
     \/ last[r] # "eof" /\ Take(r) /\ UNCHANGED <<pc, ino, lost>>
  /\ UNCHANGED <<path, made, killed>>

(* One round of the loop of the blocking and of the polling reader: 0 and  *)
(* EAGAIN are followed by the next round, a second later.                  *)
Read(r) ==
  /\ pc[r] = "loop"
  /\ Kind[r] # "select"
  /\ Kind[r] = "block" => Found(ino[r]) # "again"
  /\ Take(r)
  /\ UNCHANGED <<path, made, pc, ino, lost, killed>>

(* Mutant: the set is not copied again after a timeout has cleared it.     *)
SelectCleared(r) ==
  /\ pc[r] = "loop"
  /\ Kind[r] = "select"
  /\ last[r] # "again"
  /\ \/ Found(ino[r]) # "again" /\ Goto(r, "ready") /\ UNCHANGED last
     \/ Found(ino[r]) = "again" /\ last' = [last EXCEPT ![r] = "again"] /\ UNCHANGED pc
  /\ UNCHANGED <<path, made, queue, ino, told, taken, lost, killed>>

(* select, with a timeout of five seconds after which it is called again:  *)
(* a FIFO with data is ready, and so is one without writers.               *)
Select(r) ==
  /\ pc[r] = "loop"
  /\ Kind[r] = "select"
  /\ Found(ino[r]) # "again"
  /\ Goto(r, "ready")
  /\ UNCHANGED <<path, made, queue, ino, last, told, taken, lost, killed>>

SelectRead(r) ==
  /\ pc[r] = "ready"
  /\ Take(r)
  /\ Goto(r, "loop")
  /\ UNCHANGED <<path, made, ino, lost, killed>>

Kill(r) ==
  /\ pc[r] \in {"opening", "loop", "ready"}
  /\ Close(r)
  /\ Goto(r, "exit")
  /\ killed' = killed \cup {r}
  /\ last' = [last EXCEPT ![r] = "none"]
  /\ UNCHANGED <<path, made>>

-----------------------------------------------------------------------------
(* open with O_NONBLOCK fails when there is no FIFO or nobody has it open  *)
(* for reading; the result is not looked at, the write to -1 fails, and    *)
(* nothing is printed.                                                     *)
WriterOpen(w) ==
  /\ pc[w] = "start"
  /\ \/ /\ path # 0 /\ ReadEnds(path) # {}
        /\ pc' = Awake(path, w, "write")
        /\ ino' = [ino EXCEPT ![w] = path]
     \/ /\ path = 0 \/ ReadEnds(path) = {}
        /\ Goto(w, "failed")
        /\ UNCHANGED ino
  /\ UNCHANGED <<path, made, queue, last, told, taken, lost, killed>>

(* Mutant: the write is reported whatever it has returned.                 *)
WriteUnchecked(w) ==
  /\ pc[w] = "write" /\ ReadEnds(ino[w]) # {}
  /\ queue' = IF Len(queue[ino[w]]) < CAP THEN [queue EXCEPT ![ino[w]] = Append(@, w)]
                                         ELSE queue
  /\ told' = told \cup {w}
  /\ Goto(w, "written")
  /\ UNCHANGED <<path, made, ino, last, taken, lost, killed>>

(* write: SIGPIPE without a reader, EAGAIN ("has not been read yet") when  *)
(* there is no room; otherwise the program prints that it has written.     *)
Write(w) ==
  /\ pc[w] = "write"
  /\ \/ /\ ReadEnds(ino[w]) # {} /\ Len(queue[ino[w]]) < CAP
        /\ queue' = [queue EXCEPT ![ino[w]] = Append(@, w)]
        /\ told' = told \cup {w}
        /\ Goto(w, "written")
     \/ /\ ReadEnds(ino[w]) = {} \/ Len(queue[ino[w]]) = CAP
        /\ Goto(w, "refused")
        /\ UNCHANGED <<queue, told>>
  /\ UNCHANGED <<path, made, ino, last, taken, lost, killed>>

(* Called without an argument the program ends before the write.           *)
NoArgument(w) ==
  /\ pc[w] = "write"
  /\ Goto(w, "refused")
  /\ UNCHANGED <<path, made, queue, ino, last, told, taken, lost, killed>>

WriterExit(w) ==
  /\ pc[w] \in {"failed", "written", "refused"}
  /\ Close(w)
  /\ Goto(w, "exit")
  /\ UNCHANGED <<path, made, last, killed>>

-----------------------------------------------------------------------------
ReaderStep(r) ==
  Unlink(r) \/ Mkfifo(r) \/ Open(r) \/ Read(r) \/ Select(r) \/ SelectRead(r)

WriterStep(w) == WriterOpen(w) \/ Write(w) \/ NoArgument(w) \/ WriterExit(w)

Next ==
  \/ \E r \in Readers : ReaderStep(r) \/ Kill(r)
  \/ \E w \in Writers : WriterStep(w)

Spec == Init /\ [][Next]_vars

(* The programs run on; nobody has to kill a reader.  A reader that shares *)
(* its FIFO with another gets its turn.                                    *)
FairSpec ==
  /\ Spec
  /\ \A r \in Readers : WF_vars(ReaderStep(r))
  /\ \A w \in Writers : WF_vars(WriterStep(w))

-----------------------------------------------------------------------------
TypeOK ==
  /\ path \in {0} \cup Fifos
  /\ made \in 0 .. MaxFifos
  /\ queue \in [Fifos -> Seq(Writers)]
  /\ \A n \in Fifos : Len(queue[n]) <= CAP
  /\ pc \in [Procs -> {"start", "mkfifo", "open", "opening", "loop", "ready",
                       "write", "written", "refused", "failed", "exit"}]
  /\ ino \in [Procs -> {0} \cup Fifos]
  /\ last \in [Readers -> {"none", "data", "eof", "again"}]
  /\ told \cup taken \cup lost \subseteq Writers
  /\ killed \subseteq Readers

(* The comment in the select reader: opened for reading and writing, the   *)
(* FIFO never shows it an end of file, so select reports data only.  When  *)
(* no other reader has the FIFO open, the read after select finds data.    *)
SelectMeansData ==
  \A r \in Readers : Kind[r] = "select" =>
    /\ last[r] # "eof"
    /\ pc[r] = "ready" /\ ReadEnds(ino[r]) = {r} /\ killed = {}
         => queue[ino[r]] # <<>>

(* A message counts as written exactly if it is in one FIFO, was returned  *)
(* by one read, or was dropped, however full the FIFO was and whoever came *)
(* and went; and it is dropped only if somebody kills a reader: readers do *)
(* not give up at an end of file between two writers.                      *)
WrittenIsKept ==
  /\ told = taken \cup lost \cup UNION {Queued(n) : n \in Fifos}
  /\ taken \cap lost = {}
  /\ \A n \in Fifos :
       /\ Queued(n) \cap (taken \cup lost) = {}
       /\ \A m \in Fifos \ {n} : Queued(n) \cap Queued(m) = {}
       /\ \A j, k \in DOMAIN queue[n] : queue[n][j] = queue[n][k] => j = k
  /\ lost # {} => killed # {}

(* A message is read when the loop of some reader runs on its FIFO and     *)
(* nobody kills readers.  (A blocking reader that comes later does not get *)
(* past its open before there is another writer.)                          *)
MessageIsRead ==
  \A w \in Writers :
    (\E n \in Fifos : w \in Queued(n) /\ \E r \in ReadEnds(n) : pc[r] \in {"loop", "ready"})
      ~> (\A n \in Fifos : w \notin Queued(n)) \/ killed # {}

(* The readme: run the reader, which creates the FIFO, before the writer.  *)
(* A single reader that has got to its open makes the writer's succeed.    *)
ReadFirst ==
  [][\A w \in Writers : pc[w] = "start" /\ pc'[w] = "failed" =>
       \A r \in Readers : pc[r] \in {"start", "mkfifo", "open"} \/ r \in killed]_vars
=============================================================================
