-------------------------- MODULE QueueWaitProofs --------------------------
(***************************************************************************)
(* Proofs about the driver of 04-queue_wait for any number of readers and  *)
(* writers: no wake-up is lost, one writer stays inside the buffer, and    *)
(* what a single write has published is what a read delivers.              *)
(***************************************************************************)
EXTENDS QueueWait, TLAPS

(* A user buffer holds letters, then whatever follows it.                  *)
LEMMA UserByteType ==
  ASSUME NEW w \in Writers, NEW k \in Nat
  PROVE  UserByte(w, k) \in Data
  BY QueueWaitAssumption DEF UserByte, Data

-----------------------------------------------------------------------------
(* Type correctness.                                                       *)
LEMMA TypeInit == Init => TypeOK
  <1> SUFFICES ASSUME Init PROVE TypeOK
    OBVIOUS
  <1>1. byte \in [Idx -> Data]
    BY DEF Init, Data
  <1>2. rdbuf \in [Procs -> [0 .. Size - 1 -> Data \cup {None}]]
    BY DEF Init, Nothing
  <1>3. /\ pc \in [Procs -> PCs]
        /\ \A r \in Readers : pc[r] \notin WritePCs
        /\ \A w \in Writers : pc[w] \notin ReadPCs
    BY DEF Init, PCs, ReadPCs, WaitPCs, WritePCs, Procs
  <1>4. havedata \in BOOLEAN /\ nonblock \in [Procs -> BOOLEAN]
    BY Zenon DEF Init
  <1>5. /\ buff_len \in Nat /\ writes \in 0 .. MaxWrites
        /\ queue_rw \subseteq Readers /\ signalled \subseteq Readers
        /\ room \in [Procs -> Nat]
        /\ off \in [Procs -> Nat] /\ tmp \in [Procs -> Nat] /\ ret \in [Procs -> Int]
    BY QueueWaitAssumption DEF Init
  <1> QED
    BY <1>1, <1>2, <1>3, <1>4, <1>5 DEF TypeOK

LEMMA TypeEnter ==
  ASSUME TypeOK,
         \/ \E q \in Procs : Open(q) \/ Close(q)
         \/ \E r \in Readers : Signal(r) \/ \E n \in ReadRooms : ReadEnter(r, n)
         \/ \E w \in Writers, n \in WriteRooms : WriteEnter(w, n)
  PROVE  TypeOK'
  <1> USE QueueWaitAssumption DEF TypeOK, Goto, shared, Procs, PCs, ReadPCs, WaitPCs, WritePCs
  <1>1. ASSUME NEW q \in Procs, Open(q) PROVE TypeOK'
    BY <1>1 DEF Open
  <1>2. ASSUME NEW q \in Procs, Close(q) PROVE TypeOK'
    BY <1>2 DEF Close, Nothing
  <1>3. ASSUME NEW r \in Readers, Signal(r) PROVE TypeOK'
    BY <1>3 DEF Signal
  <1>4. ASSUME NEW r \in Readers, NEW n \in ReadRooms, ReadEnter(r, n) PROVE TypeOK'
    BY <1>4 DEF ReadEnter, Nothing
  <1>5. ASSUME NEW w \in Writers, NEW n \in WriteRooms, WriteEnter(w, n) PROVE TypeOK'
    BY <1>5 DEF WriteEnter
  <1> QED
    BY <1>1, <1>2, <1>3, <1>4, <1>5

(* The type invariant survives the return of a call, whatever it returns.  *)
LEMMA TypeReturn ==
  ASSUME TypeOK, NEW q \in Procs, NEW value \in Int, ReturnFrom(q, value),
         byte' \in [Idx -> Data], buff_len' \in Nat,
         UNCHANGED <<havedata, queue_rw, writes, nonblock, rdbuf>>
  PROVE  TypeOK'
  BY DEF TypeOK, ReturnFrom, Goto, Procs, PCs, ReadPCs, WaitPCs, WritePCs

LEMMA TypeReadStep ==
  ASSUME TypeOK, NEW r \in Readers, ReadStep(r)
  PROVE  TypeOK'
  <1>1. CASE ReadTest(r)
    <2>1. CASE ReturnFrom(r, EAGAIN)
      <3>1. EAGAIN \in Int /\ r \in Procs
        BY DEF EAGAIN, Procs
      <3>2. UNCHANGED <<byte, buff_len, havedata, queue_rw, writes, nonblock, rdbuf>>
        BY <1>1 DEF ReadTest, shared
      <3>3. byte' \in [Idx -> Data] /\ buff_len' \in Nat
        BY <3>2 DEF TypeOK
      <3> QED
        BY <2>1, <3>1, <3>2, <3>3, TypeReturn
    <2>2. CASE Goto(r, "r_take") /\ signalled' = signalled \ {r}
               /\ UNCHANGED <<room, off, tmp, ret>>
      BY <1>1, <2>2 DEF ReadTest, TypeOK, Goto, shared, Procs, PCs, ReadPCs, WaitPCs, WritePCs
    <2>3. CASE Goto(r, "r_prep") /\ UNCHANGED <<signalled, room, off, tmp, ret>>
      BY <1>1, <2>3 DEF ReadTest, TypeOK, Goto, shared, Procs, PCs, ReadPCs, WaitPCs, WritePCs
    <2> QED
      BY <1>1, <2>1, <2>2, <2>3 DEF ReadTest
  <1>2. CASE WaitPrepare(r) \/ WaitCheck(r) \/ WaitWoken(r)
    <2>1. UNCHANGED <<byte, buff_len, havedata, writes, nonblock, signalled, room, off, tmp, rdbuf, ret>>
      BY <1>2 DEF WaitPrepare, WaitCheck, WaitWoken, shared
    <2>2. queue_rw' \subseteq Readers
      BY <1>2 DEF WaitPrepare, WaitCheck, WaitWoken, shared, TypeOK
    <2>3. PICK l \in {"r_test", "r_prep", "r_check", "r_sleep"} : pc' = [pc EXCEPT ![r] = l]
      BY <1>2 DEF WaitPrepare, WaitCheck, WaitWoken, Goto
    <2>4. l \in PCs /\ l \notin WritePCs
      BY DEF PCs, ReadPCs, WaitPCs, WritePCs
    <2>5. /\ pc' \in [Procs -> PCs]
          /\ \A s \in Readers : pc'[s] \notin WritePCs
          /\ \A w \in Writers : pc'[w] \notin ReadPCs
      BY <2>3, <2>4, QueueWaitAssumption DEF TypeOK, Procs
    <2> QED
      BY <2>1, <2>2, <2>5 DEF TypeOK
  <1>5. CASE ReadTake(r)
    BY <1>5 DEF ReadTake, TypeOK, Goto, Procs, PCs, ReadPCs, WaitPCs, WritePCs, shared
  <1>6. CASE ReadCopy(r)
    <2>1. CASE /\ off[r] < Size
               /\ rdbuf' = [rdbuf EXCEPT ![r][off[r]] = byte[off[r]]]
               /\ off' = [off EXCEPT ![r] = @ + 1]
               /\ UNCHANGED <<pc, signalled, room, tmp, ret>>
      <3>1. byte[off[r]] \in Data
        BY <2>1, QueueWaitAssumption DEF Idx, TypeOK, Procs
      <3>2. rdbuf' \in [Procs -> [0 .. Size - 1 -> Data \cup {None}]]
        BY <2>1, <3>1 DEF TypeOK
      <3> QED
        BY <1>6, <2>1, <3>2 DEF ReadCopy, TypeOK, shared, Procs
    <2>2. CASE ReturnFrom(r, EFAULT) /\ UNCHANGED rdbuf
      <3>1. EFAULT \in Int /\ r \in Procs
        BY DEF EFAULT, Procs
      <3>2. UNCHANGED <<byte, buff_len, havedata, queue_rw, writes, nonblock, rdbuf>>
        BY <1>6, <2>2 DEF ReadCopy, shared
      <3>3. byte' \in [Idx -> Data] /\ buff_len' \in Nat
        BY <3>2 DEF TypeOK
      <3> QED
        BY <2>2, <3>1, <3>2, <3>3, TypeReturn
    <2>3. CASE Goto(r, "r_len") /\ UNCHANGED <<signalled, room, off, tmp, rdbuf, ret>>
      BY <1>6, <2>3 DEF ReadCopy, TypeOK, Goto, shared, Procs, PCs, ReadPCs, WaitPCs, WritePCs
    <2> QED
      BY <1>6, <2>1, <2>2, <2>3 DEF ReadCopy
  <1>7. CASE ReadLen(r)
    BY <1>7 DEF ReadLen, TypeOK, Goto, Procs, PCs, ReadPCs, WaitPCs, WritePCs, shared
  <1>8. CASE ReadReset(r)
    <2>1. tmp[r] \in Int /\ r \in Procs /\ byte \in [Idx -> Data]
      BY DEF TypeOK, Procs
    <2>2. /\ ReturnFrom(r, tmp[r]) /\ buff_len' \in Nat
          /\ UNCHANGED <<byte, havedata, queue_rw, writes, nonblock, rdbuf>>
      BY <1>8 DEF ReadReset
    <2> QED
      BY <2>1, <2>2, TypeReturn
  <1> QED
    BY <1>1, <1>2, <1>5, <1>6, <1>7, <1>8 DEF ReadStep

LEMMA TypeWriteStep ==
  ASSUME TypeOK, NEW w \in Writers, WriteStep(w)
  PROVE  TypeOK'
  <1>1. CASE WriteTest(w)
    BY <1>1 DEF WriteTest, TypeOK, Goto, Procs, PCs, ReadPCs, WaitPCs, WritePCs, shared
  <1>2. CASE WriteIndex(w)
    BY <1>2 DEF WriteIndex, TypeOK, Goto, Procs, PCs, ReadPCs, WaitPCs, WritePCs, shared
  <1>3. CASE WriteByte(w)
    <2>0. /\ w \in Procs /\ off \in [Procs -> Nat] /\ tmp \in [Procs -> Nat]
          /\ byte \in [Idx -> Data]
      BY DEF TypeOK, Procs
    <2>1. byte' \in [Idx -> Data]
      <3>1. UserByte(w, off[w]) \in Data /\ Zero \in Data
        BY <2>0, UserByteType DEF Data
      <3> QED
        BY <1>3, <2>0, <3>1 DEF WriteByte
    <2>2. off' \in [Procs -> Nat] /\ tmp' \in [Procs -> Nat]
      BY <1>3, <2>0 DEF WriteByte
    <2>3. /\ pc'[w] \in {"w_load", "w_pub"} /\ \A q \in Procs \ {w} : pc'[q] = pc[q]
          /\ pc' \in [Procs -> {"w_load", "w_pub"} \cup PCs]
      BY <1>3, <2>0 DEF WriteByte, Goto, TypeOK
    <2>4. UNCHANGED <<buff_len, havedata, queue_rw, writes, nonblock, signalled, room, rdbuf, ret>>
      BY <1>3 DEF WriteByte
    <2>5. {"w_load", "w_pub"} \subseteq WritePCs /\ WritePCs \subseteq PCs
          /\ WritePCs \cap ReadPCs = {}
      BY DEF PCs, ReadPCs, WaitPCs, WritePCs
    <2> QED
      BY <2>0, <2>1, <2>2, <2>3, <2>4, <2>5, QueueWaitAssumption DEF TypeOK, Procs
  <1>4. CASE WriteLoad(w)
    BY <1>4 DEF WriteLoad, TypeOK, Goto, Procs, PCs, ReadPCs, WaitPCs, WritePCs, shared
  <1>5. CASE WriteStore(w)
    BY <1>5 DEF WriteStore, TypeOK, Goto, Procs, PCs, ReadPCs, WaitPCs, WritePCs, shared
  <1>6. CASE WritePublish(w)
    BY <1>6 DEF WritePublish, TypeOK, Goto, Procs, PCs, ReadPCs, WaitPCs, WritePCs, shared
  <1>7. CASE WriteWake(w)
    BY <1>7 DEF WriteWake, TypeOK, Goto, Procs, PCs, ReadPCs, WaitPCs, WritePCs, shared
  <1>8. CASE WriteReturn(w)
    <2>1. buff_len \in Nat /\ w \in Procs /\ byte \in [Idx -> Data]
      BY DEF TypeOK, Procs
    <2>2. /\ ReturnFrom(w, buff_len)
          /\ UNCHANGED <<byte, buff_len, havedata, queue_rw, writes, nonblock, rdbuf>>
      BY <1>8 DEF WriteReturn, shared
    <2> QED
      BY <2>1, <2>2, TypeReturn
  <1> QED
    BY <1>1, <1>2, <1>3, <1>4, <1>5, <1>6, <1>7, <1>8 DEF WriteStep

LEMMA TypeNext == TypeOK /\ [Next]_vars => TypeOK'
  <1> SUFFICES ASSUME TypeOK, [Next]_vars
               PROVE  TypeOK'
    OBVIOUS
  <1>1. CASE UNCHANGED vars
    BY <1>1 DEF TypeOK, vars
  <1> QED
    BY <1>1, TypeEnter, TypeReadStep, TypeWriteStep DEF Next

(* Every reachable state is well typed; a reader is never at a step of     *)
(* example_write nor a writer at one of example_read.                      *)
THEOREM TypeCorrect == Spec => []TypeOK
  BY TypeInit, TypeNext, PTL DEF Spec

-----------------------------------------------------------------------------
(* No wake-up is lost.  The steps that matter: a reader goes to sleep only *)
(* when it is on the queue and then sees havedata clear; a write sets      *)
(* havedata before it empties the queue.                                   *)
LEMMA WakeupInit == Init => NoLostWakeup
  BY DEF Init, NoLostWakeup

LEMMA WakeupNext == TypeOK /\ NoLostWakeup /\ [Next]_vars => NoLostWakeup'
  <1> SUFFICES ASSUME TypeOK, NoLostWakeup, [Next]_vars
               PROVE  NoLostWakeup'
    OBVIOUS
  <1>0. /\ pc \in [Procs -> PCs] /\ Readers \subseteq Procs /\ Writers \subseteq Procs
        /\ Readers \cap Writers = {}
        /\ \A w \in Writers : pc[w] # "r_sleep"
        /\ \A r \in Readers : pc[r] # "w_wake"
    BY QueueWaitAssumption DEF TypeOK, Procs, ReadPCs, WaitPCs, WritePCs
  (* Who stays asleep was asleep; who wakes the queue wakes everybody.     *)
  <1>1. ASSUME ~havedata' \/ havedata' = havedata,
               queue_rw' \subseteq queue_rw,
               \A r \in Readers : pc'[r] = "r_sleep" => pc[r] = "r_sleep",
               \A w \in Writers : pc[w] = "w_wake" => pc'[w] = "w_wake"
        PROVE  NoLostWakeup'
    BY <1>1 DEF NoLostWakeup
  <1>2. CASE UNCHANGED vars
    BY <1>1, <1>2 DEF vars
  <1>3. ASSUME NEW q \in Procs, Open(q) \/ Close(q)
        PROVE  NoLostWakeup'
    BY <1>0, <1>1, <1>3 DEF Open, Close, shared, Goto
  <1>4. ASSUME NEW r \in Readers, Signal(r)
        PROVE  NoLostWakeup'
    BY <1>1, <1>4 DEF Signal, shared
  <1>5. ASSUME NEW r \in Readers, NEW n \in ReadRooms, ReadEnter(r, n)
        PROVE  NoLostWakeup'
    BY <1>0, <1>1, <1>5 DEF ReadEnter, shared, Goto
  <1>6. ASSUME NEW r \in Readers, ReadStep(r)
        PROVE  NoLostWakeup'
    <2>1. CASE ReadTest(r) \/ ReadCopy(r) \/ ReadLen(r)
      BY <1>0, <1>1, <2>1 DEF ReadTest, ReadCopy, ReadLen, ReturnFrom, shared, Goto
    <2>2. CASE ReadTake(r) \/ ReadReset(r) \/ WaitWoken(r)
      BY <1>0, <1>1, <2>2 DEF ReadTake, ReadReset, WaitWoken, ReturnFrom, shared, Goto
    <2>3. CASE WaitPrepare(r)
      <3>1. /\ pc' = [pc EXCEPT ![r] = "r_check"] /\ havedata' = havedata
            /\ queue_rw' = queue_rw \cup {r}
        BY <2>3 DEF WaitPrepare, Goto
      <3> QED
        BY <1>0, <3>1 DEF NoLostWakeup
    <2>4. CASE WaitCheck(r)
      <3>1. CASE queue_rw' = queue_rw \ {r} /\ Goto(r, "r_test")
        BY <1>0, <1>1, <2>4, <3>1 DEF WaitCheck, Goto
      <3>2. CASE ~havedata
        BY <2>4, <3>2 DEF WaitCheck, NoLostWakeup
      <3> QED
        BY <2>4, <3>1, <3>2 DEF WaitCheck
    <2> QED
      BY <1>6, <2>1, <2>2, <2>3, <2>4 DEF ReadStep
  <1>7. ASSUME NEW w \in Writers, NEW n \in WriteRooms, WriteEnter(w, n)
        PROVE  NoLostWakeup'
    BY <1>0, <1>1, <1>7 DEF WriteEnter, Goto
  <1>8. ASSUME NEW w \in Writers, WriteStep(w)
        PROVE  NoLostWakeup'
    <2>1. CASE WriteTest(w) \/ WriteIndex(w) \/ WriteByte(w)
      BY <1>0, <1>1, <2>1 DEF WriteTest, WriteIndex, WriteByte, shared, Goto
    <2>2. CASE WriteLoad(w) \/ WriteStore(w) \/ WriteReturn(w)
      BY <1>0, <1>1, <2>2 DEF WriteLoad, WriteStore, WriteReturn, ReturnFrom, shared, Goto
    <2>3. CASE WritePublish(w)
      <3>1. pc'[w] = "w_wake"
        BY <1>0, <2>3 DEF WritePublish, Goto
      <3> QED
        BY <3>1 DEF NoLostWakeup
    <2>4. CASE WriteWake(w)
      BY <2>4 DEF WriteWake, NoLostWakeup
    <2> QED
      BY <1>8, <2>1, <2>2, <2>3, <2>4 DEF WriteStep
  <1> QED
    BY <1>2, <1>3, <1>4, <1>5, <1>6, <1>7, <1>8 DEF Next

(* However many readers and writers there are and however they interleave, *)
(* no reader sleeps through a published write.                             *)
THEOREM WakeupNotLost == Spec => []NoLostWakeup
  BY TypeInit, TypeNext, WakeupInit, WakeupNext, PTL DEF Spec

-----------------------------------------------------------------------------
(* The buffer of a single writer.  Between the test of the loop and the    *)
(* store of ++buff_len the only other change of buff_len is a read's reset *)
(* to 0, so what was below Size stays below Size.                          *)
IndexInv ==
  (\A v, w \in Writers : v = w) =>
    /\ buff_len <= Size
    /\ \A w \in Writers :
         /\ pc[w] \in {"w_idx", "w_copy", "w_load"} => buff_len < Size
         /\ pc[w] \in {"w_copy", "w_store"} => tmp[w] < Size

LEMMA IndexInit == Init => IndexInv
  BY QueueWaitAssumption DEF Init, IndexInv, Procs

LEMMA IndexNext == TypeOK /\ IndexInv /\ [Next]_vars => IndexInv'
  <1> SUFFICES ASSUME TypeOK, IndexInv, [Next]_vars, \A v, w \in Writers : v = w
               PROVE  /\ (buff_len <= Size)'
                      /\ \A w \in Writers :
                           /\ pc'[w] \in {"w_idx", "w_copy", "w_load"} => buff_len' < Size
                           /\ pc'[w] \in {"w_copy", "w_store"} => tmp'[w] < Size
    BY DEF IndexInv
  <1> DEFINE Goal == /\ buff_len' <= Size
                     /\ \A w \in Writers :
                          /\ pc'[w] \in {"w_idx", "w_copy", "w_load"} => buff_len' < Size
                          /\ pc'[w] \in {"w_copy", "w_store"} => tmp'[w] < Size
  <1>0. /\ pc \in [Procs -> PCs] /\ Readers \subseteq Procs /\ Writers \subseteq Procs
        /\ tmp \in [Procs -> Nat] /\ Readers \cap Writers = {}
        /\ buff_len \in Nat /\ Size \in Nat /\ Size > 0
    BY QueueWaitAssumption DEF TypeOK, Procs
  (* A step that is not the writer's: it leaves buff_len alone or zeroes it. *)
  <1>1. ASSUME buff_len' = buff_len \/ buff_len' = 0,
               \A w \in Writers : /\ tmp'[w] = tmp[w]
                                  /\ pc'[w] = pc[w] \/ pc'[w] \in {"open", "closed"}
        PROVE  Goal
    BY <1>0, <1>1 DEF IndexInv
  <1>2. CASE UNCHANGED vars
    BY <1>1, <1>2 DEF vars
  <1>3. ASSUME NEW q \in Procs, Open(q) \/ Close(q)
        PROVE  Goal
    BY <1>0, <1>1, <1>3 DEF Open, Close, shared, Goto
  <1>4. ASSUME NEW r \in Readers, Signal(r)
        PROVE  Goal
    BY <1>1, <1>4 DEF Signal, shared
  <1>5. ASSUME NEW r \in Readers, NEW n \in ReadRooms, ReadEnter(r, n)
        PROVE  Goal
    BY <1>0, <1>1, <1>5 DEF ReadEnter, shared, Goto
  <1>6. ASSUME NEW r \in Readers, ReadStep(r)
        PROVE  Goal
    <2>1. CASE ReadTest(r) \/ ReadCopy(r) \/ ReadLen(r) \/ ReadTake(r)
      BY <1>0, <1>1, <2>1 DEF ReadTest, ReadCopy, ReadLen, ReadTake, ReturnFrom, shared, Goto
    <2>2. CASE ReadReset(r)
      BY <1>0, <1>1, <2>2 DEF ReadReset, ReturnFrom, Goto
    <2>3. CASE WaitPrepare(r) \/ WaitCheck(r) \/ WaitWoken(r)
      BY <1>0, <1>1, <2>3 DEF WaitPrepare, WaitCheck, WaitWoken, shared, Goto
    <2> QED
      BY <1>6, <2>1, <2>2, <2>3 DEF ReadStep
  <1>7. ASSUME NEW w \in Writers, NEW n \in WriteRooms, WriteEnter(w, n)
        PROVE  Goal
    BY <1>0, <1>7 DEF WriteEnter, Goto
  <1>8. ASSUME NEW w \in Writers, WriteStep(w)
        PROVE  Goal
    <2>0. Writers = {w}
      OBVIOUS
    <2> HIDE DEF Goal
    <2>1. CASE WriteTest(w)
      BY <1>0, <2>0, <2>1 DEF WriteTest, shared, Goto, IndexInv, Goal
    <2>2. CASE WriteIndex(w) \/ WriteLoad(w)
      BY <1>0, <2>0, <2>2 DEF WriteIndex, WriteLoad, shared, Goto, IndexInv, Goal
    <2>3. CASE WriteByte(w)
      BY <1>0, <2>0, <2>3 DEF WriteByte, Goto, IndexInv, Goal
    <2>4. CASE WriteStore(w)
      BY <1>0, <2>0, <2>4 DEF WriteStore, Goto, IndexInv, Goal
    <2>5. CASE WritePublish(w) \/ WriteWake(w) \/ WriteReturn(w)
      BY <1>0, <2>0, <2>5 DEF WritePublish, WriteWake, WriteReturn, ReturnFrom, shared, Goto, IndexInv, Goal
    <2> QED
      BY <1>8, <2>1, <2>2, <2>3, <2>4, <2>5 DEF WriteStep
  <1> QED
    BY <1>2, <1>3, <1>4, <1>5, <1>6, <1>7, <1>8 DEF Next

(* One writer never indexes past the Size bytes of its call, whatever the  *)
(* readers do to its loop variable.                                        *)
THEOREM WriterInBuffer == Spec => []IndexInBuffer
  <1>1. IndexInv => IndexInBuffer
    BY DEF IndexInv, IndexInBuffer
  <1> QED
    BY <1>1, TypeInit, TypeNext, IndexInit, IndexNext, PTL DEF Spec

-----------------------------------------------------------------------------
(* The delivery of a single write.  Until it is published no read is past  *)
(* the loop of example_read, so nobody resets buff_len under the loop of   *)
(* example_write; from then on byte[] does not change.                     *)
FillPCs == {"w_test", "w_idx", "w_copy", "w_load", "w_store", "w_pub"}
GetPCs == {"r_take", "r_copy", "r_len", "r_reset"}

Written(n) == n <= Size /\ \A k \in 0 .. n - 1 : \E w \in Writers : byte[k] = Letter[w]

Unpublished == writes = 0 \/ \E w \in Writers : pc[w] \in FillPCs

Filling(w) ==
  /\ pc[w] \in {"open", "closed"} => off[w] = 0
  /\ pc[w] \in {"w_test", "w_idx", "w_copy", "w_pub"} => off[w] = buff_len
  /\ pc[w] \in {"w_load", "w_store"} => off[w] = buff_len + 1 /\ Written(buff_len + 1)
  /\ pc[w] \in {"w_copy", "w_store"} => tmp[w] = buff_len
  /\ pc[w] \in {"w_idx", "w_copy"} => buff_len < Size

Getting(r) ==
  /\ pc[r] \notin {"r_copy", "r_len", "r_reset"} => off[r] = 0
  /\ pc[r] \in {"r_copy", "r_len", "r_reset"} =>
       \A k \in 0 .. Size - 1 : k < off[r] => rdbuf[r][k] = byte[k]
  /\ pc[r] \in {"r_len", "r_reset"} => off[r] = Size
  /\ pc[r] = "r_reset" => Written(tmp[r])
  /\ pc[r] = "closed" => ret[r] = 0
  /\ pc[r] = "open" /\ ret[r] > 0 =>
       /\ ret[r] <= Size
       /\ \A k \in 0 .. ret[r] - 1 : \E w \in Writers : rdbuf[r][k] = Letter[w]

OneWriteInv ==
  writes <= 1 =>
    /\ \A v, w \in Writers : pc[v] \in WritePCs /\ pc[w] \in WritePCs => v = w
    /\ writes = 0 => \A w \in Writers : pc[w] \notin WritePCs
    /\ Unpublished => ~havedata /\ \A r \in Readers : pc[r] \notin GetPCs
    /\ Written(buff_len)
    /\ \A w \in Writers : Filling(w)
    /\ \A r \in Readers : Getting(r)

LEMMA OneWriteInit == Init => OneWriteInv
  <1> SUFFICES ASSUME Init PROVE OneWriteInv
    OBVIOUS
  <1>1. \A q \in Procs : pc[q] = "closed" /\ off[q] = 0 /\ ret[q] = 0
    BY DEF Init
  <1>2. Written(buff_len) /\ ~havedata
    BY QueueWaitAssumption DEF Init, Written
  <1> QED
    BY <1>1, <1>2 DEF OneWriteInv, Filling, Getting, Procs, WritePCs, GetPCs

(* A step of process q, as the others see it.                              *)
StepOf(q) ==
  \A s \in Procs \ {q} : /\ pc'[s] = pc[s] /\ off'[s] = off[s] /\ tmp'[s] = tmp[s]
                         /\ rdbuf'[s] = rdbuf[s] /\ ret'[s] = ret[s]

(* A step of a reader: what it may do to havedata and buff_len.            *)
LEMMA OneWriteReader ==
  ASSUME TypeOK, OneWriteInv, writes <= 1, NEW r \in Readers, StepOf(r), UNCHANGED <<byte, writes>>,
         havedata' => havedata, buff_len' = buff_len \/ (buff_len' = 0 /\ pc[r] \in GetPCs),
         pc'[r] \in GetPCs => pc[r] \in GetPCs \/ havedata,
         Getting(r)'
  PROVE  OneWriteInv'
  <1>1. r \in Procs /\ Readers \subseteq Procs /\ Writers \subseteq Procs /\ r \notin Writers
    BY QueueWaitAssumption DEF Procs
  <1>2. \A w \in Writers : pc'[w] = pc[w] /\ off'[w] = off[w] /\ tmp'[w] = tmp[w]
    BY <1>1 DEF StepOf
  <1>3. Unpublished' <=> Unpublished
    BY <1>2 DEF Unpublished
  <1>4. \A n : Written(n)' <=> Written(n)
    BY DEF Written
  <1>5. ASSUME NEW s \in Readers \ {r} PROVE Getting(s)'
    <2>1. Getting(s)
      BY DEF OneWriteInv
    <2>2. pc'[s] = pc[s] /\ off'[s] = off[s] /\ tmp'[s] = tmp[s] /\ rdbuf'[s] = rdbuf[s] /\ ret'[s] = ret[s]
      BY <1>1 DEF StepOf
    <2> QED
      BY <2>1, <2>2 DEF Getting, Written
  <1>6. Unpublished' => ~havedata' /\ \A s \in Readers : pc'[s] \notin GetPCs
    <2>1. \A s \in Readers \ {r} : pc'[s] = pc[s]
      BY <1>1 DEF StepOf
    <2> QED
      BY <1>3, <2>1 DEF OneWriteInv
  <1>7. CASE buff_len' = buff_len
    <2>1. Written(buff_len)'
      BY <1>7 DEF OneWriteInv, Written
    <2>2. \A w \in Writers : Filling(w)'
      BY <1>2, <1>7 DEF OneWriteInv, Filling, Written
    <2> QED
      BY <1>2, <1>5, <1>6, <2>1, <2>2 DEF OneWriteInv
  <1>8. CASE buff_len' = 0 /\ pc[r] \in GetPCs
    <2>1. Written(buff_len)'
      BY <1>8, QueueWaitAssumption DEF Written
    <2>2. \A w \in Writers : pc[w] \notin FillPCs
      BY <1>8 DEF OneWriteInv, Unpublished
    <2>3. \A w \in Writers : Filling(w)'
      BY <1>2, <2>2 DEF OneWriteInv, Filling, FillPCs
    <2> QED
      BY <1>2, <1>5, <1>6, <2>1, <2>3 DEF OneWriteInv
  <1> QED
    BY <1>7, <1>8

LEMMA OneWriteRead ==
  ASSUME TypeOK, OneWriteInv, writes <= 1, NEW r \in Readers,
         \/ Open(r) \/ Close(r) \/ Signal(r) \/ \E n \in ReadRooms : ReadEnter(r, n)
         \/ ReadStep(r)
  PROVE  OneWriteInv'
  <1>1. r \in Procs /\ Getting(r) /\ Size \in Nat /\ Size > 0
    BY QueueWaitAssumption DEF Procs, OneWriteInv
  <1>2. /\ pc \in [Procs -> PCs] /\ off \in [Procs -> Nat] /\ tmp \in [Procs -> Nat]
        /\ rdbuf \in [Procs -> [0 .. Size - 1 -> Data \cup {None}]] /\ ret \in [Procs -> Int]
        /\ byte \in [Idx -> Data] /\ buff_len \in Nat
    BY DEF TypeOK
  <1>3. CASE Open(r) \/ Close(r) \/ \E n \in ReadRooms : ReadEnter(r, n)
    <2>1. StepOf(r) /\ UNCHANGED <<byte, writes, havedata, buff_len, off, tmp>>
      BY <1>2, <1>3 DEF Open, Close, ReadEnter, StepOf, Goto, shared
    <2>2. \/ pc[r] = "closed" /\ pc'[r] = "open" /\ ret'[r] = ret[r]
          \/ pc[r] = "open" /\ pc'[r] = "closed" /\ ret'[r] = 0
          \/ pc[r] = "open" /\ pc'[r] = "r_test" /\ ret'[r] = ret[r]
      BY <1>1, <1>2, <1>3 DEF Open, Close, ReadEnter, Goto
    <2>3. Getting(r)'
      BY <1>1, <2>1, <2>2 DEF Getting
    <2> QED
      BY <2>1, <2>2, <2>3, OneWriteReader DEF GetPCs
  <1>4. CASE Signal(r)
    <2>1. UNCHANGED <<byte, writes, havedata, buff_len, off, tmp, pc, rdbuf, ret>>
      BY <1>4 DEF Signal, shared
    <2>2. Getting(r)' /\ StepOf(r)
      BY <1>1, <2>1 DEF Getting, Written, StepOf
    <2> QED
      BY <2>1, <2>2, OneWriteReader
  <1>5. CASE ReadTest(r)
    <2>1. UNCHANGED <<byte, writes, havedata, buff_len, rdbuf>>
      BY <1>5 DEF ReadTest, shared
    <2>2. StepOf(r)
      BY <1>2, <1>5 DEF ReadTest, ReturnFrom, Goto, StepOf
    <2>3. \/ pc'[r] = "r_take" /\ off' = off /\ havedata
          \/ pc'[r] = "open" /\ off'[r] = 0 /\ ret'[r] = EAGAIN
          \/ pc'[r] = "r_prep" /\ off' = off
      BY <1>1, <1>2, <1>5 DEF ReadTest, ReturnFrom, Goto
    <2>4. Getting(r)'
      BY <1>1, <1>5, <2>3 DEF Getting, ReadTest, EAGAIN
    <2> QED
      BY <2>1, <2>2, <2>3, <2>4, OneWriteReader DEF GetPCs
  <1>6. CASE WaitPrepare(r) \/ WaitCheck(r) \/ WaitWoken(r)
    <2>1. UNCHANGED <<byte, writes, havedata, buff_len, off, tmp, rdbuf, ret>>
      BY <1>6 DEF WaitPrepare, WaitCheck, WaitWoken, shared
    <2>2. pc[r] \in WaitPCs /\ pc'[r] \in WaitPCs /\ \A s \in Procs \ {r} : pc'[s] = pc[s]
      BY <1>1, <1>2, <1>6 DEF WaitPrepare, WaitCheck, WaitWoken, Goto, WaitPCs
    <2>3. Getting(r)' /\ StepOf(r)
      BY <1>1, <2>1, <2>2 DEF Getting, StepOf, WaitPCs
    <2> QED
      BY <2>1, <2>2, <2>3, OneWriteReader DEF GetPCs, WaitPCs
  <1>7. CASE ReadTake(r)
    <2>1. UNCHANGED <<byte, writes, buff_len, off, tmp, rdbuf, ret>> /\ ~havedata'
      BY <1>7 DEF ReadTake
    <2>2. pc[r] = "r_take" /\ pc'[r] = "r_copy" /\ \A s \in Procs \ {r} : pc'[s] = pc[s]
      BY <1>1, <1>2, <1>7 DEF ReadTake, Goto
    <2>3. Getting(r)' /\ StepOf(r)
      BY <1>1, <2>1, <2>2 DEF Getting, StepOf
    <2> QED
      BY <2>1, <2>2, <2>3, OneWriteReader DEF GetPCs
  <1>8. CASE ReadCopy(r)
    <2>1. UNCHANGED <<byte, writes, havedata, buff_len>> /\ pc[r] = "r_copy"
      BY <1>8 DEF ReadCopy, shared
    <2>2. CASE /\ off[r] < Size
               /\ rdbuf' = [rdbuf EXCEPT ![r][off[r]] = byte[off[r]]]
               /\ off' = [off EXCEPT ![r] = @ + 1]
               /\ UNCHANGED <<pc, signalled, room, tmp, ret>>
      <3>1. StepOf(r) /\ off'[r] = off[r] + 1 /\ off[r] \in Nat
        BY <1>1, <1>2, <2>2 DEF StepOf
      <3>2. \A k \in 0 .. Size - 1 : rdbuf'[r][k] = IF k = off[r] THEN byte[k] ELSE rdbuf[r][k]
        BY <1>1, <1>2, <2>2
      <3>3. \A k \in 0 .. Size - 1 : k < off'[r] => rdbuf'[r][k] = byte'[k]
        <4>1. TAKE k \in 0 .. Size - 1
        <4>2. k < off[r] + 1 => k < off[r] \/ k = off[r]
          BY <3>1
        <4> QED
          BY <1>1, <2>1, <3>1, <3>2, <4>2 DEF Getting
      <3>4. Getting(r)'
        BY <2>1, <2>2, <3>3 DEF Getting
      <3> QED
        BY <2>1, <2>2, <3>1, <3>4, OneWriteReader
    <2>3. CASE ReturnFrom(r, EFAULT) /\ UNCHANGED rdbuf
      <3>1. StepOf(r) /\ pc'[r] = "open" /\ off'[r] = 0 /\ ret'[r] = EFAULT
        BY <1>1, <1>2, <2>3 DEF ReturnFrom, Goto, StepOf
      <3>2. Getting(r)'
        BY <3>1 DEF Getting, EFAULT
      <3> QED
        BY <2>1, <3>1, <3>2, OneWriteReader DEF GetPCs
    <2>4. CASE off[r] = Size /\ Goto(r, "r_len") /\ UNCHANGED <<signalled, room, off, tmp, rdbuf, ret>>
      <3>1. StepOf(r) /\ pc'[r] = "r_len"
        BY <1>1, <1>2, <2>4 DEF Goto, StepOf
      <3>2. Getting(r)'
        BY <1>1, <2>1, <2>4, <3>1 DEF Getting
      <3> QED
        BY <2>1, <3>1, <3>2, OneWriteReader DEF GetPCs
    <2> QED
      BY <1>8, <2>2, <2>3, <2>4 DEF ReadCopy
  <1>9. CASE ReadLen(r)
    <2>1. UNCHANGED <<byte, writes, havedata, buff_len, off, rdbuf, ret>> /\ pc[r] = "r_len"
      BY <1>9 DEF ReadLen, shared
    <2>2. StepOf(r) /\ pc'[r] = "r_reset" /\ tmp'[r] = buff_len
      BY <1>1, <1>2, <1>9 DEF ReadLen, Goto, StepOf
    <2>3. Written(tmp[r])'
      BY <2>1, <2>2 DEF OneWriteInv, Written
    <2>4. Getting(r)'
      BY <1>1, <2>1, <2>2, <2>3 DEF Getting
    <2> QED
      BY <2>1, <2>2, <2>4, OneWriteReader DEF GetPCs
  <1>10. CASE ReadReset(r)
    <2>1. UNCHANGED <<byte, writes, havedata, rdbuf>> /\ pc[r] = "r_reset" /\ buff_len' = 0
      BY <1>10 DEF ReadReset
    <2>2. StepOf(r) /\ pc'[r] = "open" /\ off'[r] = 0 /\ ret'[r] = tmp[r]
      BY <1>1, <1>2, <1>10 DEF ReadReset, ReturnFrom, Goto, StepOf
    <2>3. tmp[r] <= Size /\ tmp[r] \in Nat /\ \A k \in 0 .. tmp[r] - 1 : \E w \in Writers : rdbuf[r][k] = Letter[w]
      <3>1. Written(tmp[r]) /\ off[r] = Size /\ tmp[r] \in Nat
        BY <1>1, <1>2, <2>1 DEF Getting
      <3>2. tmp[r] <= Size /\ \A k \in 0 .. tmp[r] - 1 : k \in 0 .. Size - 1 /\ k < off[r]
        BY <1>1, <3>1 DEF Written
      <3>3. \A k \in 0 .. Size - 1 : k < off[r] => rdbuf[r][k] = byte[k]
        BY <1>1, <2>1 DEF Getting
      <3> QED
        BY <3>1, <3>2, <3>3 DEF Written
    <2>4. Getting(r)'
      BY <2>1, <2>2, <2>3 DEF Getting
    <2> QED
      BY <2>1, <2>2, <2>4, OneWriteReader DEF GetPCs
  <1> QED
    BY <1>3, <1>4, <1>5, <1>6, <1>7, <1>8, <1>9, <1>10 DEF ReadStep

(* A step of the write under way; it is the only one.                      *)
LEMMA OneWriteWriter ==
  ASSUME TypeOK, OneWriteInv, writes <= 1, NEW w \in Writers, StepOf(w), UNCHANGED writes,
         pc[w] \in WritePCs, pc'[w] \in FillPCs => pc[w] \in FillPCs /\ UNCHANGED havedata,
         byte' = byte \/ pc[w] \in FillPCs,
         Written(buff_len)', Filling(w)'
  PROVE  OneWriteInv'
  <1>1. w \in Procs /\ Readers \subseteq Procs /\ Writers \subseteq Procs /\ w \notin Readers
        /\ FillPCs \subseteq WritePCs
    BY QueueWaitAssumption DEF Procs, FillPCs, WritePCs
  <1>2. \A v \in Writers \ {w} : pc'[v] = pc[v] /\ off'[v] = off[v] /\ pc[v] \in {"open", "closed"}
    <2>1. \A v \in Writers \ {w} : pc[v] \notin WritePCs /\ pc[v] \notin ReadPCs /\ pc[v] \in PCs
      BY <1>1 DEF OneWriteInv, TypeOK
    <2> QED
      BY <1>1, <2>1 DEF StepOf, PCs
  <1>3. \A v \in Writers \ {w} : Filling(v)'
    BY <1>2 DEF OneWriteInv, Filling
  <1>4. writes # 0
    BY DEF OneWriteInv
  <1>5. Unpublished' => pc'[w] \in FillPCs
    BY <1>2, <1>4 DEF Unpublished, FillPCs
  <1>6. pc[w] \in FillPCs => ~havedata /\ \A r \in Readers : pc[r] \notin GetPCs
    BY DEF OneWriteInv, Unpublished
  <1>7. ASSUME NEW r \in Readers PROVE pc'[r] = pc[r] /\ Getting(r)'
    <2>1. Getting(r) /\ (byte' = byte \/ pc[r] \notin GetPCs)
      BY <1>6 DEF OneWriteInv
    <2>2. pc'[r] = pc[r] /\ off'[r] = off[r] /\ tmp'[r] = tmp[r] /\ rdbuf'[r] = rdbuf[r] /\ ret'[r] = ret[r]
      BY <1>1 DEF StepOf
    <2>3. CASE byte' = byte
      BY <2>1, <2>2, <2>3 DEF Getting, Written
    <2>4. CASE pc[r] \notin GetPCs
      BY <2>1, <2>2, <2>4 DEF Getting, GetPCs
    <2> QED
      BY <2>1, <2>2, <2>3, <2>4
  <1>8. \A u, v \in Writers : pc'[u] \in WritePCs /\ pc'[v] \in WritePCs => u = v
    BY <1>2 DEF WritePCs
  <1> QED
    BY <1>3, <1>4, <1>5, <1>6, <1>7, <1>8 DEF OneWriteInv

LEMMA OneWriteStep ==
  ASSUME TypeOK, OneWriteInv, writes <= 1, NEW w \in Writers, WriteStep(w)
  PROVE  OneWriteInv'
  <1>1. w \in Procs /\ Filling(w) /\ Written(buff_len) /\ Size \in Nat /\ buff_len \in Nat
    BY QueueWaitAssumption DEF Procs, OneWriteInv, TypeOK
  <1>2. /\ pc \in [Procs -> PCs] /\ off \in [Procs -> Nat] /\ tmp \in [Procs -> Nat]
        /\ byte \in [Idx -> Data] /\ ret \in [Procs -> Int]
    BY DEF TypeOK
  <1>3. CASE WriteTest(w)
    <2>1. UNCHANGED <<byte, writes, havedata, buff_len, off, tmp, rdbuf, ret>> /\ pc[w] = "w_test"
      BY <1>3 DEF WriteTest, shared
    <2>2. StepOf(w) /\ pc'[w] = IF buff_len < Size THEN "w_idx" ELSE "w_pub"
      BY <1>1, <1>2, <1>3, <2>1 DEF WriteTest, Goto, StepOf
    <2>3. Filling(w)' /\ Written(buff_len)'
      BY <1>1, <2>1, <2>2 DEF Filling, Written
    <2> QED
      BY <2>1, <2>2, <2>3, OneWriteWriter DEF FillPCs, WritePCs
  <1>4. CASE WriteIndex(w)
    <2>1. UNCHANGED <<byte, writes, havedata, buff_len, off, rdbuf, ret>> /\ pc[w] = "w_idx"
      BY <1>4 DEF WriteIndex, shared
    <2>2. StepOf(w) /\ pc'[w] = "w_copy" /\ tmp'[w] = buff_len
      BY <1>1, <1>2, <1>4, <2>1 DEF WriteIndex, Goto, StepOf
    <2>3. Filling(w)' /\ Written(buff_len)'
      BY <1>1, <2>1, <2>2 DEF Filling, Written
    <2> QED
      BY <2>1, <2>2, <2>3, OneWriteWriter DEF FillPCs, WritePCs
  <1>5. CASE WriteByte(w)
    <2>1. /\ UNCHANGED <<writes, havedata, buff_len, rdbuf, ret>> /\ pc[w] = "w_copy"
          /\ off[w] = buff_len /\ tmp[w] = buff_len /\ buff_len < Size
      BY <1>1, <1>5 DEF WriteByte, Filling
    <2>2. CASE off[w] < room[w]
      <3>1. /\ StepOf(w) /\ pc'[w] = "w_load" /\ off'[w] = buff_len + 1
            /\ byte' = [byte EXCEPT ![buff_len] = UserByte(w, buff_len)]
        <4>1. off[w] \in Nat /\ room[w] \in Nat /\ ~(off[w] >= room[w])
          BY <1>1, <1>2, <2>2 DEF TypeOK
        <4>2. /\ byte' = [byte EXCEPT ![tmp[w]] = UserByte(w, off[w])]
              /\ off' = [off EXCEPT ![w] = @ + 1] /\ Goto(w, "w_load")
              /\ tmp' = [tmp EXCEPT ![w] = 0] /\ UNCHANGED <<rdbuf, ret>>
          BY <1>5, <4>1 DEF WriteByte
        <4> QED
          BY <1>1, <1>2, <2>1, <4>2 DEF Goto, StepOf
      <3>2. UserByte(w, buff_len) = Letter[w]
        BY <2>1 DEF UserByte
      <3>3. buff_len \in Idx /\ \A k \in 0 .. Size - 1 : k \in Idx
        BY <1>1, <2>1, QueueWaitAssumption DEF Idx
      <3>4. \A k \in 0 .. Size - 1 : byte'[k] = IF k = buff_len THEN Letter[w] ELSE byte[k]
        BY <1>2, <3>1, <3>2, <3>3
      <3>5. \A k \in 0 .. buff_len : \E v \in Writers : byte'[k] = Letter[v]
        <4>1. TAKE k \in 0 .. buff_len
        <4>2. k \in 0 .. Size - 1
          BY <1>1, <2>1
        <4>3. CASE k = buff_len
          BY <3>4, <4>2, <4>3
        <4>4. CASE k # buff_len
          <5>1. k \in 0 .. buff_len - 1
            BY <1>1, <4>4
          <5> QED
            BY <1>1, <3>4, <4>2, <4>4, <5>1 DEF Written
        <4> QED
          BY <4>3, <4>4
      <3>6. Written(buff_len)' /\ Written(buff_len + 1)'
        <4>1. buff_len' = buff_len /\ buff_len + 1 <= Size /\ buff_len <= Size
          BY <1>1, <2>1
        <4>2. (buff_len + 1) - 1 = buff_len /\ \A k \in 0 .. buff_len - 1 : k \in 0 .. buff_len
          BY <1>1
        <4> QED
          BY <3>5, <4>1, <4>2 DEF Written
      <3>7. Filling(w)'
        BY <2>1, <3>1, <3>6 DEF Filling
      <3> QED
        BY <2>1, <3>1, <3>6, <3>7, OneWriteWriter DEF FillPCs, WritePCs
    <2>3. CASE off[w] >= room[w]
      <3>1. ~(off[w] < room[w])
        BY <1>1, <1>2, <2>3 DEF TypeOK
      <3>2. /\ StepOf(w) /\ pc'[w] = "w_pub" /\ off' = off
            /\ byte' = [byte EXCEPT ![buff_len] = Zero]
        BY <1>1, <1>2, <1>5, <2>1, <3>1 DEF WriteByte, Goto, StepOf
      <3>2a. \A k \in 0 .. buff_len - 1 : byte'[k] = byte[k]
        <4>1. \A k \in 0 .. buff_len - 1 : k \in Idx /\ k # buff_len
          BY <1>1, <2>1, QueueWaitAssumption DEF Idx
        <4> QED
          BY <1>2, <3>2, <4>1
      <3>3. Filling(w)' /\ Written(buff_len)'
        <4>1. Written(buff_len)'
          BY <1>1, <2>1, <3>2a DEF Written
        <4> QED
          BY <1>1, <2>1, <3>2, <4>1 DEF Filling
      <3> QED
        BY <2>1, <3>2, <3>3, OneWriteWriter DEF FillPCs, WritePCs
    <2> QED
      BY <1>5, <2>2, <2>3 DEF WriteByte
  <1>6. CASE WriteLoad(w)
    <2>1. UNCHANGED <<byte, writes, havedata, buff_len, off, rdbuf, ret>> /\ pc[w] = "w_load"
      BY <1>6 DEF WriteLoad, shared
    <2>2. StepOf(w) /\ pc'[w] = "w_store" /\ tmp'[w] = buff_len
      BY <1>1, <1>2, <1>6, <2>1 DEF WriteLoad, Goto, StepOf
    <2>3. Filling(w)' /\ Written(buff_len)'
      BY <1>1, <2>1, <2>2 DEF Filling, Written
    <2> QED
      BY <2>1, <2>2, <2>3, OneWriteWriter DEF FillPCs, WritePCs
  <1>7. CASE WriteStore(w)
    <2>1. /\ UNCHANGED <<byte, writes, havedata, off, rdbuf, ret>> /\ pc[w] = "w_store"
          /\ buff_len' = buff_len + 1
      BY <1>1, <1>7 DEF WriteStore, Filling
    <2>2. StepOf(w) /\ pc'[w] = "w_test"
      BY <1>1, <1>2, <1>7, <2>1 DEF WriteStore, Goto, StepOf
    <2>3. Filling(w)' /\ Written(buff_len)'
      BY <1>1, <2>1, <2>2 DEF Filling, Written
    <2> QED
      BY <2>1, <2>2, <2>3, OneWriteWriter DEF FillPCs, WritePCs
  <1>8. CASE WritePublish(w) \/ WriteWake(w)
    <2>1. /\ UNCHANGED <<byte, writes, buff_len, off, tmp, rdbuf, ret>>
          /\ pc[w] \in {"w_pub", "w_wake"}
      BY <1>8 DEF WritePublish, WriteWake
    <2>2. StepOf(w) /\ pc'[w] \in {"w_wake", "w_ret"}
      BY <1>1, <1>2, <1>8, <2>1 DEF WritePublish, WriteWake, Goto, StepOf
    <2>3. Filling(w)' /\ Written(buff_len)'
      BY <1>1, <2>1, <2>2 DEF Filling, Written
    <2> QED
      BY <2>1, <2>2, <2>3, OneWriteWriter DEF FillPCs, WritePCs
  <1>9. CASE WriteReturn(w)
    <2>1. UNCHANGED <<byte, writes, havedata, buff_len, rdbuf>> /\ pc[w] = "w_ret"
      BY <1>9 DEF WriteReturn, shared
    <2>2. StepOf(w) /\ pc'[w] = "open" /\ off'[w] = 0
      BY <1>1, <1>2, <1>9, <2>1 DEF WriteReturn, ReturnFrom, Goto, StepOf
    <2>3. Filling(w)' /\ Written(buff_len)'
      BY <1>1, <2>1, <2>2 DEF Filling, Written
    <2> QED
      BY <2>1, <2>2, <2>3, OneWriteWriter DEF FillPCs, WritePCs
  <1> QED
    BY <1>3, <1>4, <1>5, <1>6, <1>7, <1>8, <1>9 DEF WriteStep

(* A writer opens or closes the device, or calls write for the first time. *)
LEMMA OneWriteCall ==
  ASSUME TypeOK, OneWriteInv, writes' <= 1, NEW w \in Writers,
         Open(w) \/ Close(w) \/ \E n \in WriteRooms : WriteEnter(w, n)
  PROVE  OneWriteInv'
  <1>1. w \in Procs /\ Readers \subseteq Procs /\ Writers \subseteq Procs /\ w \notin Readers
        /\ writes \in Nat
    BY QueueWaitAssumption DEF Procs, TypeOK
  <1>2. UNCHANGED <<byte, havedata, off, tmp>> /\ StepOf(w)
    BY DEF Open, Close, WriteEnter, StepOf, Goto, shared, TypeOK
  <1>3. \/ UNCHANGED <<writes, buff_len>> /\ pc[w] \in {"open", "closed"} /\ pc'[w] \in {"open", "closed"}
        \/ writes' = writes + 1 /\ buff_len' = 0 /\ pc[w] = "open" /\ pc'[w] = "w_test"
    BY <1>1 DEF Open, Close, WriteEnter, Goto, shared, TypeOK
  <1>4. writes <= 1 /\ (writes' # writes => writes = 0)
    BY <1>1, <1>3
  <1>5. ASSUME NEW r \in Readers PROVE pc'[r] = pc[r] /\ Getting(r)'
    <2>1. Getting(r)
      BY <1>4 DEF OneWriteInv
    <2>2. pc'[r] = pc[r] /\ off'[r] = off[r] /\ tmp'[r] = tmp[r] /\ rdbuf'[r] = rdbuf[r] /\ ret'[r] = ret[r]
      BY <1>1, <1>2 DEF StepOf
    <2> QED
      BY <1>2, <2>1, <2>2 DEF Getting, Written
  <1>6. \A v \in Writers \ {w} : pc'[v] = pc[v]
    BY <1>1, <1>2 DEF StepOf
  <1>7. off[w] = 0
    BY <1>3, <1>4 DEF OneWriteInv, Filling
  <1>8. CASE UNCHANGED <<writes, buff_len>> /\ pc[w] \in {"open", "closed"} /\ pc'[w] \in {"open", "closed"}
    <2>1. \A v \in Writers : Filling(v)'
      BY <1>2, <1>4, <1>6, <1>7, <1>8 DEF OneWriteInv, Filling, Written
    <2>2. Written(buff_len)'
      BY <1>2, <1>4, <1>8 DEF OneWriteInv, Written
    <2>3. Unpublished' => Unpublished
      BY <1>6, <1>8 DEF Unpublished, FillPCs
    <2>4. \A v \in Writers : pc'[v] \in WritePCs => pc[v] \in WritePCs
      BY <1>6, <1>8 DEF WritePCs
    <2> QED
      BY <1>2, <1>4, <1>5, <1>8, <2>1, <2>2, <2>3, <2>4 DEF OneWriteInv
  <1>9. CASE writes' = writes + 1 /\ buff_len' = 0 /\ pc[w] = "open" /\ pc'[w] = "w_test"
    <2>1. writes = 0 /\ Unpublished /\ \A v \in Writers : pc[v] \notin WritePCs
      BY <1>1, <1>4, <1>9 DEF OneWriteInv, Unpublished
    <2>2. \A v \in Writers \ {w} : pc[v] \in {"open", "closed"}
      BY <1>1, <2>1 DEF TypeOK, PCs
    <2>3. \A v \in Writers : Filling(v)'
      BY <1>2, <1>4, <1>6, <1>7, <1>9, <2>2 DEF OneWriteInv, Filling
    <2>4. Written(buff_len)'
      BY <1>9, QueueWaitAssumption DEF Written
    <2>5. \A u, v \in Writers : pc'[u] \in WritePCs /\ pc'[v] \in WritePCs => u = v
      BY <1>6, <2>1
    <2>6. writes' # 0 /\ ~havedata' /\ \A r \in Readers : pc'[r] \notin GetPCs
      BY <1>1, <1>2, <1>4, <1>5, <1>9, <2>1 DEF OneWriteInv
    <2> QED
      BY <1>5, <2>3, <2>4, <2>5, <2>6 DEF OneWriteInv
  <1> QED
    BY <1>3, <1>8, <1>9

LEMMA OneWriteNext == TypeOK /\ OneWriteInv /\ [Next]_vars => OneWriteInv'
  <1> SUFFICES ASSUME TypeOK, OneWriteInv, [Next]_vars, writes' <= 1
               PROVE  OneWriteInv'
    BY DEF OneWriteInv
  <1>1. CASE UNCHANGED vars
    BY <1>1 DEF vars, OneWriteInv, Unpublished, Written, Filling, Getting
  <1>2. ASSUME NEW q \in Procs, Open(q) \/ Close(q) PROVE OneWriteInv'
    <2>1. writes' = writes
      BY <1>2 DEF Open, Close, shared
    <2> QED
      BY <1>2, <2>1, OneWriteRead, OneWriteCall DEF Procs
  <1>3. ASSUME NEW r \in Readers,
               Signal(r) \/ ReadStep(r) \/ \E n \in ReadRooms : ReadEnter(r, n)
        PROVE  OneWriteInv'
    <2>1. writes' = writes
      BY <1>3 DEF Signal, ReadStep, ReadEnter, ReadTest, WaitPrepare, WaitCheck, WaitWoken, ReadTake,
                  ReadCopy, ReadLen, ReadReset, shared
    <2> QED
      BY <1>3, <2>1, OneWriteRead
  <1>4. ASSUME NEW w \in Writers, WriteStep(w) PROVE OneWriteInv'
    <2>1. writes' = writes
      BY <1>4 DEF WriteStep, WriteTest, WriteIndex, WriteByte, WriteLoad, WriteStore, WritePublish,
                  WriteWake, WriteReturn, shared
    <2> QED
      BY <1>4, <2>1, OneWriteStep
  <1>5. ASSUME NEW w \in Writers, NEW n \in WriteRooms, WriteEnter(w, n) PROVE OneWriteInv'
    BY <1>5, OneWriteCall
  <1> QED
    BY <1>1, <1>2, <1>3, <1>4, <1>5 DEF Next

(* What a read of queue_wait_dev.c returns when there has been one write:  *)
(* as many bytes of it as the read reports, for any number of readers,     *)
(* although byte[] and buff_len are shared and nothing is locked.          *)
THEOREM OneWriteIsDelivered == Spec => []OneWriteDelivered
  <1>1. OneWriteInv => OneWriteDelivered
    BY DEF OneWriteInv, Getting, OneWriteDelivered
  <1> QED
    BY <1>1, TypeInit, TypeNext, OneWriteInit, OneWriteNext, PTL DEF Spec
=============================================================================
