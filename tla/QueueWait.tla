----------------------------- MODULE QueueWait -----------------------------
(***************************************************************************)
(* The misc driver of 04-queue_wait (queue_wait_dev.c): a one-place        *)
(* mailbox.  A write fills byte[], sets havedata and wakes the wait queue; *)
(* a read sleeps on the queue until havedata is set, clears it and copies  *)
(* byte[] out.  Nothing is locked: byte, buff_len (which is also the loop  *)
(* variable of every write), havedata and queue_rw are shared by all       *)
(* callers, and a step is one access to one of them.                       *)
(*                                                                         *)
(* The model starts after example_init; read.c and write.c are callers.    *)
(***************************************************************************)
EXTENDS Integers

CONSTANTS
  Readers,     \* processes that run read.c
  Writers,     \* processes that run write.c
  Letter,      \* Letter[w]: the byte writer w fills its buffer with
  Zero,        \* the byte of untouched driver memory
  Junk,        \* what user memory holds past the buffer of a write
  None,        \* a byte of a read buffer that was not delivered
  Size,        \* bytes a call asks for (5 in both programs)
  BUF_SIZE,    \* length of byte[] (100 in the code)
  ReadRooms,   \* how many bytes from a reader's pointer on are accessible
  WriteRooms,  \* how many bytes from a writer's pointer on are accessible
  MaxWrites    \* bound: how many writes are called in all

Procs == Readers \cup Writers
Idx == 0 .. BUF_SIZE - 1
Data == {Letter[w] : w \in Writers} \cup {Zero, Junk}

ASSUME QueueWaitAssumption ==
  /\ Readers \cap Writers = {}
  /\ Size \in Nat \ {0}
  /\ BUF_SIZE \in Nat /\ Size <= BUF_SIZE
  /\ ReadRooms \subseteq Nat
  /\ WriteRooms \subseteq Nat
  /\ MaxWrites \in Nat
  /\ None \notin Data

VARIABLES
  byte,        \* the driver's buffer
  buff_len,    \* bytes in it; the loop variable of example_write
  havedata,    \* whether a write has been published and not taken
  queue_rw,    \* processes that are on the wait queue
  writes,      \* how many writes were called
  pc,          \* per process: where in the driver it is
  nonblock,    \* per process: its file was opened with O_NONBLOCK
  signalled,   \* waiting readers that have a signal pending
  room,        \* per process: accessible bytes of its user buffer
  off,         \* per process: bytes of the user buffer passed so far
  tmp,         \* per process: the value of buff_len it has loaded
  rdbuf,       \* per process: what its last read stored
  ret          \* per process: what its last call returned

vars == <<byte, buff_len, havedata, queue_rw, writes, pc, nonblock, signalled,
          room, off, tmp, rdbuf, ret>>

shared == <<byte, buff_len, havedata, queue_rw, writes>>

EAGAIN == -11
EFAULT == -14

WaitPCs == {"r_test", "r_prep", "r_check", "r_sleep"}
ReadPCs == WaitPCs \cup {"r_take", "r_copy", "r_len", "r_reset"}
WritePCs == {"w_test", "w_idx", "w_copy", "w_load", "w_store", "w_pub",
             "w_wake", "w_ret"}
PCs == {"closed", "open"} \cup ReadPCs \cup WritePCs

Nothing == [k \in 0 .. Size - 1 |-> None]

Init ==
  /\ byte = [k \in Idx |-> Zero]
  /\ buff_len = 0
  /\ havedata = FALSE
  /\ queue_rw = {}
  /\ writes = 0
  /\ pc = [q \in Procs |-> "closed"]
  /\ nonblock = [q \in Procs |-> FALSE]
  /\ signalled = {}
  /\ room = [q \in Procs |-> 0]
  /\ off = [q \in Procs |-> 0]
  /\ tmp = [q \in Procs |-> 0]
  /\ rdbuf = [q \in Procs |-> Nothing]
  /\ ret = [q \in Procs |-> 0]

Goto(q, l) == pc' = [pc EXCEPT ![q] = l]

-----------------------------------------------------------------------------
(* example_open only logs; the flags of the open file decide whether a     *)
(* read blocks, and no other operation looks at them.                      *)
Open(q) ==
  /\ pc[q] = "closed"
  /\ Goto(q, "open")
  /\ \E flag \in IF q \in Readers THEN BOOLEAN ELSE {FALSE} :
       nonblock' = [nonblock EXCEPT ![q] = flag]
  /\ UNCHANGED <<shared, signalled, room, off, tmp, rdbuf, ret>>

(* Both programs end after close.                                          *)
Close(q) ==
  /\ pc[q] = "open"
  /\ Goto(q, "closed")
  /\ nonblock' = [nonblock EXCEPT ![q] = FALSE]
  /\ rdbuf' = [rdbuf EXCEPT ![q] = Nothing]
  /\ ret' = [ret EXCEPT ![q] = 0]
  /\ UNCHANGED <<shared, signalled, room, off, tmp>>

(* A signal for a reader stays pending while it waits; later it does not   *)
(* matter to the driver.                                                   *)
Signal(q) ==
  /\ pc[q] \in WaitPCs
  /\ signalled' = signalled \cup {q}
  /\ UNCHANGED <<shared, pc, nonblock, room, off, tmp, rdbuf, ret>>

(* A call returns to user mode, where a pending signal is handled; its     *)
(* locals are gone.                                                        *)
ReturnFrom(q, value) ==
  /\ Goto(q, "open")
  /\ ret' = [ret EXCEPT ![q] = value]
  /\ signalled' = signalled \ {q}
  /\ room' = [room EXCEPT ![q] = 0]
  /\ off' = [off EXCEPT ![q] = 0]
  /\ tmp' = [tmp EXCEPT ![q] = 0]

-----------------------------------------------------------------------------
(* The call read(fd, &num, Size) of read.c.                                *)
ReadEnter(r, n) ==
  /\ pc[r] = "open"
  /\ Goto(r, "r_test")
  /\ room' = [room EXCEPT ![r] = n]
  /\ rdbuf' = [rdbuf EXCEPT ![r] = Nothing]
  /\ UNCHANGED <<shared, nonblock, signalled, off, tmp, ret>>

(* The head of example_read's loop: while (!havedata).                     *)
ReadTest(r) ==
  /\ pc[r] = "r_test"
  /\ \/ /\ havedata
        /\ Goto(r, "r_take")
        /\ signalled' = signalled \ {r}
        /\ UNCHANGED <<room, off, tmp, ret>>
     \/ /\ ~havedata /\ nonblock[r]
        /\ ReturnFrom(r, EAGAIN)
     \/ /\ ~havedata /\ ~nonblock[r]
        /\ Goto(r, "r_prep")
        /\ UNCHANGED <<signalled, room, off, tmp, ret>>
  /\ UNCHANGED <<shared, nonblock, rdbuf>>

(* external: wait_event_interruptible.  It puts the process on the queue,  *)
(* then tests the condition, then sleeps, and starts over when woken.      *)
WaitPrepare(r) ==
  /\ pc[r] = "r_prep"
  /\ queue_rw' = queue_rw \cup {r}
  /\ Goto(r, "r_check")
  /\ UNCHANGED <<byte, buff_len, havedata, writes, nonblock, signalled, room, off, tmp, rdbuf, ret>>

(* Mutants: the condition is not tested again once on the queue; or the    *)
(* read tests havedata with if, and a signal ends the wait.                *)
WaitCheckBlind(r) ==
  /\ pc[r] = "r_check"
  /\ Goto(r, "r_sleep")
  /\ UNCHANGED <<shared, nonblock, signalled, room, off, tmp, rdbuf, ret>>

WaitCheckOnce(r) ==
  /\ pc[r] = "r_check"
  /\ \/ /\ havedata \/ r \in signalled
        /\ queue_rw' = queue_rw \ {r}
        /\ Goto(r, "r_take")
     \/ /\ ~havedata /\ r \notin signalled
        /\ Goto(r, "r_sleep")
        /\ UNCHANGED queue_rw
  /\ UNCHANGED <<byte, buff_len, havedata, writes, nonblock, signalled, room, off, tmp, rdbuf, ret>>

(* The driver ignores its result: interrupted or not, the loop tests       *)
(* havedata again.                                                         *)
WaitCheck(r) ==
  /\ pc[r] = "r_check"
  /\ \/ /\ havedata \/ r \in signalled
        /\ queue_rw' = queue_rw \ {r}
        /\ Goto(r, "r_test")
     \/ /\ ~havedata /\ r \notin signalled
        /\ Goto(r, "r_sleep")
        /\ UNCHANGED queue_rw
  /\ UNCHANGED <<byte, buff_len, havedata, writes, nonblock, signalled, room, off, tmp, rdbuf, ret>>

(* A sleeper runs again when a wake_up has taken it off the queue or a     *)
(* signal is pending.                                                      *)
WaitWoken(r) ==
  /\ pc[r] = "r_sleep"
  /\ r \notin queue_rw \/ r \in signalled
  /\ Goto(r, "r_prep")
  /\ UNCHANGED <<shared, nonblock, signalled, room, off, tmp, rdbuf, ret>>

ReadTake(r) ==
  /\ pc[r] = "r_take"
  /\ havedata' = FALSE
  /\ Goto(r, "r_copy")
  /\ UNCHANGED <<byte, buff_len, queue_rw, writes, nonblock, signalled, room, off, tmp, rdbuf, ret>>

(* copy_to_user of Size bytes, whatever buff_len is, a byte at a time; an  *)
(* inaccessible byte ends the call, and the data is gone.                  *)
ReadCopy(r) ==
  /\ pc[r] = "r_copy"
  /\ \/ /\ off[r] < Size /\ off[r] < room[r]
        /\ rdbuf' = [rdbuf EXCEPT ![r][off[r]] = byte[off[r]]]
        /\ off' = [off EXCEPT ![r] = @ + 1]
        /\ UNCHANGED <<pc, signalled, room, tmp, ret>>
     \/ /\ off[r] < Size /\ off[r] >= room[r]
        /\ ReturnFrom(r, EFAULT)
        /\ UNCHANGED rdbuf
     \/ /\ off[r] = Size
        /\ Goto(r, "r_len")
        /\ UNCHANGED <<signalled, room, off, tmp, rdbuf, ret>>
  /\ UNCHANGED <<shared, nonblock>>

(* len = buff_len                                                          *)
ReadLen(r) ==
  /\ pc[r] = "r_len"
  /\ tmp' = [tmp EXCEPT ![r] = buff_len]
  /\ Goto(r, "r_reset")
  /\ UNCHANGED <<shared, nonblock, signalled, room, off, rdbuf, ret>>

(* buff_len = 0; return len                                                *)
ReadReset(r) ==
  /\ pc[r] = "r_reset"
  /\ buff_len' = 0
  /\ ReturnFrom(r, tmp[r])
  /\ UNCHANGED <<byte, havedata, queue_rw, writes, nonblock, rdbuf>>

-----------------------------------------------------------------------------
(* The call write(fd, &num, Size) of write.c, up to buff_len = 0.          *)
WriteEnter(w, n) ==
  /\ pc[w] = "open"
  /\ writes < MaxWrites
  /\ writes' = writes + 1
  /\ buff_len' = 0
  /\ room' = [room EXCEPT ![w] = n]
  /\ Goto(w, "w_test")
  /\ UNCHANGED <<byte, havedata, queue_rw, nonblock, signalled, off, tmp, rdbuf, ret>>

(* Mutant: buff_len <= size                                                *)
WriteTestLong(w) ==
  /\ pc[w] = "w_test"
  /\ Goto(w, IF buff_len <= Size THEN "w_idx" ELSE "w_pub")
  /\ UNCHANGED <<shared, nonblock, signalled, room, off, tmp, rdbuf, ret>>

(* buff_len < size                                                         *)
WriteTest(w) ==
  /\ pc[w] = "w_test"
  /\ Goto(w, IF buff_len < Size THEN "w_idx" ELSE "w_pub")
  /\ UNCHANGED <<shared, nonblock, signalled, room, off, tmp, rdbuf, ret>>

(* &byte[buff_len]                                                         *)
WriteIndex(w) ==
  /\ pc[w] = "w_idx"
  /\ tmp' = [tmp EXCEPT ![w] = buff_len]
  /\ Goto(w, "w_copy")
  /\ UNCHANGED <<shared, nonblock, signalled, room, off, rdbuf, ret>>

(* The user's pointer moves on with every byte: when a read resets         *)
(* buff_len under the loop, it leaves the buffer of Size bytes.            *)
UserByte(w, k) == IF k < Size THEN Letter[w] ELSE Junk

(* copy_from_user(&byte[buff_len], buf++, 1), or break when it fails; then *)
(* it has put a zero there, as it does for whatever it cannot read.        *)
WriteByte(w) ==
  /\ pc[w] = "w_copy"
  /\ \/ /\ off[w] < room[w]
        /\ byte' = [byte EXCEPT ![tmp[w]] = UserByte(w, off[w])]
        /\ off' = [off EXCEPT ![w] = @ + 1]
        /\ Goto(w, "w_load")
     \/ /\ off[w] >= room[w]
        /\ byte' = [byte EXCEPT ![tmp[w]] = Zero]
        /\ Goto(w, "w_pub")
        /\ UNCHANGED off
  /\ tmp' = [tmp EXCEPT ![w] = 0]
  /\ UNCHANGED <<buff_len, havedata, queue_rw, writes, nonblock, signalled, room, rdbuf, ret>>

(* ++buff_len, its load and its store.                                     *)
WriteLoad(w) ==
  /\ pc[w] = "w_load"
  /\ tmp' = [tmp EXCEPT ![w] = buff_len]
  /\ Goto(w, "w_store")
  /\ UNCHANGED <<shared, nonblock, signalled, room, off, rdbuf, ret>>

WriteStore(w) ==
  /\ pc[w] = "w_store"
  /\ buff_len' = tmp[w] + 1
  /\ tmp' = [tmp EXCEPT ![w] = 0]
  /\ Goto(w, "w_test")
  /\ UNCHANGED <<byte, havedata, queue_rw, writes, nonblock, signalled, room, off, rdbuf, ret>>

(* havedata = 1                                                            *)
WritePublish(w) ==
  /\ pc[w] = "w_pub"
  /\ havedata' = TRUE
  /\ Goto(w, "w_wake")
  /\ UNCHANGED <<byte, buff_len, queue_rw, writes, nonblock, signalled, room, off, tmp, rdbuf, ret>>

(* Mutant: wake_up is forgotten.                                           *)
WriteWakeNobody(w) ==
  /\ pc[w] = "w_wake"
  /\ Goto(w, "w_ret")
  /\ UNCHANGED <<shared, nonblock, signalled, room, off, tmp, rdbuf, ret>>

(* wake_up: no waiter is exclusive, so all of them leave the queue.        *)
WriteWake(w) ==
  /\ pc[w] = "w_wake"
  /\ queue_rw' = {}
  /\ Goto(w, "w_ret")
  /\ UNCHANGED <<byte, buff_len, havedata, writes, nonblock, signalled, room, off, tmp, rdbuf, ret>>

(* Mutant: a write waits until its data is taken.                          *)
WriteReturnWhenTaken(w) ==
  /\ pc[w] = "w_ret"
  /\ ~havedata
  /\ ReturnFrom(w, buff_len)
  /\ UNCHANGED <<shared, nonblock, rdbuf>>

(* After mdelay(200) the shared buff_len is returned, by then perhaps 0.   *)
WriteReturn(w) ==
  /\ pc[w] = "w_ret"
  /\ ReturnFrom(w, buff_len)
  /\ UNCHANGED <<shared, nonblock, rdbuf>>

-----------------------------------------------------------------------------
ReadStep(r) ==
  \/ ReadTest(r) \/ WaitPrepare(r) \/ WaitCheck(r) \/ WaitWoken(r)
  \/ ReadTake(r) \/ ReadCopy(r) \/ ReadLen(r) \/ ReadReset(r)

WriteStep(w) ==
  \/ WriteTest(w) \/ WriteIndex(w) \/ WriteByte(w) \/ WriteLoad(w)
  \/ WriteStore(w) \/ WritePublish(w) \/ WriteWake(w) \/ WriteReturn(w)

Next ==
  \/ \E q \in Procs : Open(q) \/ Close(q)
  \/ \E r \in Readers : Signal(r) \/ ReadStep(r) \/ \E n \in ReadRooms : ReadEnter(r, n)
  \/ \E w \in Writers : WriteStep(w) \/ \E n \in WriteRooms : WriteEnter(w, n)

(* A process inside the driver is scheduled; nobody has to make a call or  *)
(* to send a signal.                                                       *)
Fairness ==
  /\ \A r \in Readers : WF_vars(ReadStep(r))
  /\ \A w \in Writers : WF_vars(WriteStep(w))

Spec == Init /\ [][Next]_vars

FairSpec == Spec /\ Fairness

-----------------------------------------------------------------------------
TypeOK ==
  /\ byte \in [Idx -> Data]
  /\ buff_len \in Nat
  /\ havedata \in BOOLEAN
  /\ queue_rw \subseteq Readers
  /\ writes \in 0 .. MaxWrites
  /\ pc \in [Procs -> PCs]
  /\ \A r \in Readers : pc[r] \notin WritePCs
  /\ \A w \in Writers : pc[w] \notin ReadPCs
  /\ nonblock \in [Procs -> BOOLEAN]
  /\ signalled \subseteq Readers
  /\ room \in [Procs -> Nat]
  /\ off \in [Procs -> Nat]
  /\ tmp \in [Procs -> Nat]
  /\ rdbuf \in [Procs -> [0 .. Size - 1 -> Data \cup {None}]]
  /\ ret \in [Procs -> Int]

(* No wake-up is lost: once the data is published and no write is between  *)
(* havedata = 1 and wake_up, no reader sleeps on the queue, although the   *)
(* flag is tested and the queue entered without a lock.                    *)
NoLostWakeup ==
  havedata /\ (\A w \in Writers : pc[w] # "w_wake") =>
    \A r \in Readers : pc[r] = "r_sleep" => r \notin queue_rw

(* With one writer the loop of example_write stays in the first Size bytes *)
(* even while reads reset its loop variable.                               *)
IndexInBuffer ==
  (\A v, w \in Writers : v = w) =>
    /\ buff_len <= Size
    /\ \A w \in Writers : pc[w] \in {"w_copy", "w_store"} => tmp[w] < Size

(* As long as one write has been made, a read that reports len bytes has   *)
(* delivered that many bytes of the write.                                 *)
OneWriteDelivered ==
  writes <= 1 =>
    \A r \in Readers : pc[r] = "open" /\ ret[r] > 0 =>
      /\ ret[r] <= Size
      /\ \A k \in 0 .. ret[r] - 1 : \E w \in Writers : rdbuf[r][k] = Letter[w]

(* Published data does not stay while a reader waits for it.               *)
PublishedIsTaken ==
  (havedata /\ \E r \in Readers : pc[r] \in WaitPCs) ~> ~havedata

(* A write returns, although every read that ends resets its loop          *)
(* variable; it never waits for a reader.                                  *)
WriteReturns == \A w \in Writers : pc[w] \in WritePCs ~> pc[w] = "open"
=============================================================================
