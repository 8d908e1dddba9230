--------------------------- MODULE MutexDrvProofs ---------------------------
(***************************************************************************)
(* Proofs about MutexDrv, for any number of callers, any size of the       *)
(* memory and any arguments of the calls: the invariants, and then that    *)
(* the driver implements ShareMem.                                         *)
(***************************************************************************)
EXTENDS MutexDrv, TLAPS

(* The inductive invariant.  The type of f_pos needs InBounds (a position  *)
(* moves by a count that was clamped against it), ReadStable needs LockInv *)
(* (nobody else writes while a reader copies).                             *)
Inv == TypeOK /\ LockInv /\ InBounds /\ ReadStable

(* The initial state of the driver, after mod_init, satisfies it.          *)
LEMMA InvInit == Init => Inv
  <1> USE MutexDrvAssumption
  <1> SUFFICES ASSUME Init PROVE Inv
    OBVIOUS
  <1>1. TypeOK
    BY DEF Init, TypeOK, PCs, Idx, Nothing, NoBuff
  <1>2. LockInv
    BY DEF Init, LockInv, InCritical
  <1>3. InBounds
    BY DEF Init, InBounds
  <1>4. ReadStable
    BY DEF Init, ReadStable
  <1> QED
    BY <1>1, <1>2, <1>3, <1>4 DEF Inv

(* open gives a file at position 0 and close takes it away.                *)
LEMMA InvOpenRelease ==
  ASSUME Inv, NEW t \in Threads, Open(t) \/ Release(t)
  PROVE  Inv'
  <1> USE MutexDrvAssumption
  <1>1. TypeOK'
    <2>1. f_pos' \in [Threads -> 0 .. MEM_SIZE]
      BY DEF Inv, TypeOK, Open, Release
    <2>2. pc' \in [Threads -> PCs]
      BY DEF Inv, TypeOK, PCs, Open, Release
    <2> QED
      BY <2>1, <2>2 DEF Inv, TypeOK, Open, Release
  <1>2. LockInv'
    BY DEF Inv, TypeOK, LockInv, InCritical, Open, Release
  <1>3. InBounds'
    BY DEF Inv, TypeOK, InBounds, Open, Release
  <1>4. ReadStable'
    BY DEF Inv, TypeOK, ReadStable, Open, Release
  <1> QED
    BY <1>1, <1>2, <1>3, <1>4 DEF Inv

(* No seek leaves 0 .. MEM_SIZE.                                           *)
LEMMA InvLlseek ==
  ASSUME Inv, NEW t \in Threads, NEW offset \in Int, NEW whence \in Int,
         Llseek(t, offset, whence)
  PROVE  Inv'
  <1> USE MutexDrvAssumption
  <1>1. f_pos' \in [Threads -> 0 .. MEM_SIZE]
    <2>1. ASSUME whence \in {SEEK_SET, SEEK_CUR, SEEK_END}
          PROVE  NewPos(t, offset, whence) \in Int
      BY <2>1 DEF NewPos, Inv, TypeOK, SEEK_SET, SEEK_CUR, SEEK_END
    <2> QED
      BY <2>1 DEF Llseek, Inv, TypeOK
  <1>2. pc[t] = "open" /\ \A s \in Threads : s # t => f_pos'[s] = f_pos[s]
    BY DEF Llseek, Inv, TypeOK
  <1>3. UNCHANGED <<mem, owner, writecount, pc, p, count, i, tmp, branch, buff, room, rdbuf, ret>>
    BY DEF Llseek
  <1>4. TypeOK'
    BY <1>1, <1>3 DEF Inv, TypeOK
  <1>5. LockInv'
    BY <1>3 DEF Inv, LockInv, InCritical
  <1>6. InBounds'
    BY <1>2, <1>3 DEF Inv, TypeOK, InBounds
  <1>7. ReadStable'
    BY <1>3 DEF Inv, ReadStable
  <1> QED
    BY <1>4, <1>5, <1>6, <1>7 DEF Inv

-----------------------------------------------------------------------------
(* What the end of every call does to the types of the caller's locals.    *)
LEMMA ReturnFromType ==
  ASSUME TypeOK, NEW t \in Threads, NEW value \in Int, ReturnFrom(t, value)
  PROVE  /\ pc' \in [Threads -> PCs] /\ ret' \in [Threads -> Int]
         /\ p' \in [Threads -> 0 .. MEM_SIZE] /\ count' \in [Threads -> Nat]
         /\ i' \in [Threads -> 0 .. MEM_SIZE] /\ tmp' \in [Threads -> Nat]
         /\ branch' \in [Threads -> {0, 1}] /\ room' \in [Threads -> Nat]
         /\ buff' \in [Threads -> [Idx -> Byte \cup {Fault}]]
         /\ pc'[t] = "open"
         /\ \A s \in Threads : s # t =>
              /\ pc'[s] = pc[s] /\ p'[s] = p[s] /\ count'[s] = count[s]
              /\ i'[s] = i[s] /\ room'[s] = room[s] /\ buff'[s] = buff[s]
  <1> USE MutexDrvAssumption DEF TypeOK, ReturnFrom
  <1>1. 0 \in 0 .. MEM_SIZE /\ "open" \in PCs /\ NoBuff \in [Idx -> Byte \cup {Fault}]
    BY DEF PCs, NoBuff
  <1>2. pc' \in [Threads -> PCs] /\ ret' \in [Threads -> Int]
    BY <1>1
  <1>3. /\ p' \in [Threads -> 0 .. MEM_SIZE] /\ i' \in [Threads -> 0 .. MEM_SIZE]
        /\ count' \in [Threads -> Nat] /\ tmp' \in [Threads -> Nat]
        /\ branch' \in [Threads -> {0, 1}] /\ room' \in [Threads -> Nat]
    BY <1>1
  <1>4. buff' \in [Threads -> [Idx -> Byte \cup {Fault}]]
    BY <1>1
  <1>5. pc'[t] = "open"
    OBVIOUS
  <1>6. ASSUME NEW s \in Threads, s # t
        PROVE  /\ pc'[s] = pc[s] /\ p'[s] = p[s] /\ count'[s] = count[s]
               /\ i'[s] = i[s] /\ room'[s] = room[s] /\ buff'[s] = buff[s]
    BY <1>6
  <1> QED
    BY <1>2, <1>3, <1>4, <1>5, <1>6

(* A call that returns disturbs no read that goes on.                      *)
LEMMA ReturnFromStable ==
  ASSUME TypeOK, ReadStable, NEW t \in Threads, NEW value \in Int, ReturnFrom(t, value),
         UNCHANGED <<mem, rdbuf>>
  PROVE  ReadStable'
  <1> SUFFICES ASSUME UseMutex, NEW s \in Threads, pc'[s] \in {"r_lock", "r_loop"}
               PROVE  /\ pc'[s] = "r_lock" => rdbuf'[s] = Nothing
                      /\ pc'[s] = "r_loop" =>
                           /\ i'[s] <= room'[s]
                           /\ \A k \in Idx : rdbuf'[s][k] = IF k < i'[s] THEN mem'[p'[s] + k] ELSE None
    BY DEF ReadStable
  <1>1. s # t
    BY ReturnFromType
  <1>2. pc'[s] = pc[s] /\ p'[s] = p[s] /\ i'[s] = i[s] /\ room'[s] = room[s]
    BY <1>1, ReturnFromType
  <1> QED
    BY <1>2 DEF ReadStable

(* The entry of _write, outside the mutex.                                 *)
LEMMA InvWriteEnter ==
  ASSUME Inv, NEW t \in Threads, NEW cnt \in Nat, NEW b \in [Idx -> Byte \cup {Fault}],
         WriteEnter(t, cnt, b)
  PROVE  Inv'
  <1> USE MutexDrvAssumption DEF WriteEnter
  <1>1. TypeOK'
    <2>1. cnt \in Nat /\ b \in [Idx -> Byte \cup {Fault}]
      OBVIOUS
    <2>2. /\ p' \in [Threads -> 0 .. MEM_SIZE] /\ i' \in [Threads -> 0 .. MEM_SIZE]
          /\ count' \in [Threads -> Nat] /\ tmp' \in [Threads -> Nat]
      BY <2>1 DEF Inv, TypeOK
    <2>3. buff' \in [Threads -> [Idx -> Byte \cup {Fault}]] /\ pc' \in [Threads -> PCs]
      BY <2>1 DEF Inv, TypeOK, PCs
    <2> QED
      BY <2>2, <2>3 DEF Inv, TypeOK
  <1>2. LockInv'
    BY DEF Inv, TypeOK, LockInv, InCritical
  <1>3. InBounds'
    BY DEF Inv, TypeOK, InBounds
  <1>4. ReadStable'
    BY DEF Inv, TypeOK, ReadStable
  <1> QED
    BY <1>1, <1>2, <1>3, <1>4 DEF Inv

(* writecount++ and the clamp of count to what is left after p.            *)
LEMMA InvWriteCount ==
  ASSUME Inv, NEW t \in Threads, WriteCount(t)
  PROVE  Inv'
  <1> USE MutexDrvAssumption
  <1>0. writecount' \in Nat /\ pc[t] = "w_inc"
    BY DEF WriteCount, Inv, TypeOK
  <1>1. CASE p[t] >= MEM_SIZE /\ ReturnFrom(t, 0)
    <2>1. UNCHANGED <<mem, owner, f_pos, rdbuf>>
      BY DEF WriteCount
    <2>2. TypeOK'
      BY <1>0, <1>1, <2>1, ReturnFromType DEF Inv, TypeOK
    <2>3. LockInv'
      BY <1>0, <1>1, <2>1, ReturnFromType DEF Inv, LockInv, InCritical, TypeOK
    <2>4. InBounds'
      BY <1>1, <2>1, ReturnFromType DEF Inv, InBounds
    <2>5. ReadStable'
      BY <1>1, <2>1, ReturnFromStable DEF Inv
    <2> QED
      BY <2>2, <2>3, <2>4, <2>5 DEF Inv
  <1>2. CASE /\ p[t] < MEM_SIZE
             /\ count' = [count EXCEPT ![t] = Min2(count[t], MEM_SIZE - p[t])]
             /\ tmp' = [tmp EXCEPT ![t] = 0]
             /\ pc' = [pc EXCEPT ![t] = "w_lock"]
             /\ UNCHANGED <<p, i, branch, buff, room, ret>>
    <2>1. UNCHANGED <<mem, owner, f_pos, rdbuf>>
      BY DEF WriteCount
    <2>2. /\ Min2(count[t], MEM_SIZE - p[t]) \in Nat
          /\ p[t] + Min2(count[t], MEM_SIZE - p[t]) <= MEM_SIZE
      BY <1>2 DEF Min2, Inv, TypeOK
    <2>3. TypeOK'
      BY <1>0, <1>2, <2>1, <2>2 DEF Inv, TypeOK, PCs
    <2>4. LockInv'
      BY <1>0, <1>2, <2>1 DEF Inv, LockInv, InCritical, TypeOK
    <2>5. InBounds'
      BY <1>0, <1>2, <2>1, <2>2 DEF Inv, InBounds, TypeOK
    <2>6. ReadStable'
      BY <1>0, <1>2, <2>1 DEF Inv, ReadStable, TypeOK
    <2> QED
      BY <2>3, <2>4, <2>5, <2>6 DEF Inv
  <1> QED
    BY <1>1, <1>2 DEF WriteCount

(* Both mutex_lock calls.                                                  *)
LEMMA InvLock ==
  ASSUME Inv, NEW t \in Threads, WriteLock(t) \/ ReadLock(t)
  PROVE  Inv'
  <1> USE MutexDrvAssumption
  <1>1. TypeOK'
    <2>1. writecount % 2 \in {0, 1}
      BY DEF Inv, TypeOK
    <2>2. branch' \in [Threads -> {0, 1}]
      BY <2>1 DEF Inv, TypeOK, WriteLock, ReadLock
    <2>3. pc' \in [Threads -> PCs]
      BY DEF Inv, TypeOK, PCs, WriteLock, ReadLock
    <2>4. owner' \in Threads \cup {NoThread}
      BY DEF Inv, TypeOK, MutexLock, WriteLock, ReadLock
    <2> QED
      BY <2>2, <2>3, <2>4 DEF Inv, TypeOK, WriteLock, ReadLock
  <1>2. LockInv'
    BY DEF Inv, TypeOK, LockInv, InCritical, WriteLock, ReadLock, MutexLock
  <1>3. InBounds'
    BY DEF Inv, TypeOK, InBounds, WriteLock, ReadLock
  <1>4. ReadStable'
    <2>1. /\ UNCHANGED <<mem, p, i, room, rdbuf>>
          /\ \A s \in Threads : s # t => pc'[s] = pc[s]
      BY DEF Inv, TypeOK, WriteLock, ReadLock
    <2>2. CASE pc'[t] = "w_loop"
      BY <2>1, <2>2 DEF Inv, ReadStable
    <2>3. CASE ReadLock(t)
      <3>1. pc[t] = "r_lock" /\ i[t] = 0 /\ room[t] \in Nat
        BY <2>3 DEF ReadLock, Inv, InBounds, TypeOK
      <3>2. UseMutex => \A k \in Idx : rdbuf[t][k] = None
        BY <3>1 DEF Inv, ReadStable, Nothing
      <3> QED
        BY <2>1, <3>1, <3>2 DEF Inv, ReadStable, Idx
    <2> QED
      BY <2>2, <2>3 DEF WriteLock, Inv, TypeOK
  <1> QED
    BY <1>1, <1>2, <1>3, <1>4 DEF Inv

(* One byte of a write: under the mutex no reader is between its bytes.    *)
LEMMA InvWriteByte ==
  ASSUME Inv, NEW t \in Threads, WriteByte(t)
  PROVE  Inv'
  <1> USE MutexDrvAssumption DEF WriteByte
  <1>1. i[t] \in Idx /\ i[t] + 1 \in 0 .. MEM_SIZE /\ p[t] + i[t] \in Idx
    <2>1. /\ p[t] + count[t] <= MEM_SIZE /\ i[t] < count[t]
          /\ p[t] \in Nat /\ i[t] \in Nat /\ count[t] \in Nat /\ MEM_SIZE \in Nat
      BY DEF Inv, TypeOK, InBounds
    <2> QED
      BY <2>1 DEF Idx
  <1>2. TypeOK'
    <2>1. CopyFromUser(buff[t][i[t]]) \in Byte
      BY <1>1 DEF Inv, TypeOK, CopyFromUser
    <2> QED
      BY <1>1, <2>1 DEF Inv, TypeOK
  <1>3. LockInv'
    BY DEF Inv, TypeOK, LockInv, InCritical
  <1>4. InBounds'
    BY <1>1 DEF Inv, TypeOK, InBounds
  <1>5. ReadStable'
    BY DEF Inv, TypeOK, LockInv, InCritical, ReadStable
  <1> QED
    BY <1>2, <1>3, <1>4, <1>5 DEF Inv

(* The end of a write gives the mutex back and moves the position.         *)
LEMMA InvWriteDone ==
  ASSUME Inv, NEW t \in Threads, WriteDone(t)
  PROVE  Inv'
  <1> USE MutexDrvAssumption
  <1>1. ReturnFrom(t, count[t]) /\ count[t] \in Int /\ InCritical(t)
    BY DEF WriteDone, Inv, TypeOK, InCritical
  <1>2. f_pos' \in [Threads -> 0 .. MEM_SIZE]
    BY DEF WriteDone, Inv, TypeOK, InBounds
  <1>3. \A s \in Threads : s # t => f_pos'[s] = f_pos[s]
    BY DEF WriteDone, Inv, TypeOK
  <1>4. owner' \in Threads \cup {NoThread}
    BY DEF WriteDone, MutexUnlock, Inv, TypeOK
  <1>5. UNCHANGED <<mem, writecount, rdbuf>>
    BY DEF WriteDone
  <1>6. TypeOK'
    BY <1>1, <1>2, <1>4, <1>5, ReturnFromType DEF Inv, TypeOK
  <1>7. LockInv'
    BY <1>1, ReturnFromType DEF WriteDone, MutexUnlock, Inv, LockInv, InCritical
  <1>8. InBounds'
    BY <1>1, <1>3, ReturnFromType DEF Inv, InBounds
  <1>9. ReadStable'
    BY <1>1, <1>5, ReturnFromStable DEF Inv
  <1> QED
    BY <1>6, <1>7, <1>8, <1>9 DEF Inv
-----------------------------------------------------------------------------
(* The entry of _read.                                                     *)
LEMMA InvReadEnter ==
  ASSUME Inv, NEW t \in Threads, NEW cnt \in Nat, NEW r \in Nat,
         ReadEnter(t, cnt, r)
  PROVE  Inv'
  <1> USE MutexDrvAssumption
  <1>0. pc[t] = "open" /\ UNCHANGED <<mem, owner, writecount, f_pos>>
    BY DEF ReadEnter
  <1>1. CASE ReturnFrom(t, 0) /\ UNCHANGED rdbuf
    <2>1. TypeOK'
      BY <1>0, <1>1, ReturnFromType DEF Inv, TypeOK
    <2>2. LockInv'
      BY <1>0, <1>1, ReturnFromType DEF Inv, LockInv, InCritical, TypeOK
    <2>3. InBounds'
      BY <1>0, <1>1, ReturnFromType DEF Inv, InBounds
    <2>4. ReadStable'
      BY <1>0, <1>1, ReturnFromStable DEF Inv
    <2> QED
      BY <2>1, <2>2, <2>3, <2>4 DEF Inv
  <1>2. CASE /\ f_pos[t] < MEM_SIZE
             /\ p' = [p EXCEPT ![t] = f_pos[t]]
             /\ count' = [count EXCEPT ![t] = Min2(cnt, MEM_SIZE - f_pos[t])]
             /\ i' = [i EXCEPT ![t] = 0]
             /\ room' = [room EXCEPT ![t] = r]
             /\ rdbuf' = [rdbuf EXCEPT ![t] = Nothing]
             /\ pc' = [pc EXCEPT ![t] = "r_lock"]
             /\ UNCHANGED <<tmp, branch, buff, ret>>
    <2>1. /\ Min2(cnt, MEM_SIZE - f_pos[t]) \in Nat
          /\ f_pos[t] + Min2(cnt, MEM_SIZE - f_pos[t]) <= MEM_SIZE
      BY <1>2 DEF Min2, Inv, TypeOK
    <2>2. /\ p' \in [Threads -> 0 .. MEM_SIZE] /\ i' \in [Threads -> 0 .. MEM_SIZE]
          /\ count' \in [Threads -> Nat] /\ room' \in [Threads -> Nat]
      BY <1>2, <2>1 DEF Inv, TypeOK
    <2>3. Nothing \in [Idx -> Byte \cup {None}]
      BY DEF Nothing
    <2>4. rdbuf' \in [Threads -> [Idx -> Byte \cup {None}]] /\ pc' \in [Threads -> PCs]
      BY <1>2, <2>3 DEF Inv, TypeOK, PCs
    <2>5. TypeOK'
      BY <1>0, <1>2, <2>2, <2>4 DEF Inv, TypeOK
    <2>6. LockInv'
      BY <1>0, <1>2 DEF Inv, LockInv, InCritical, TypeOK
    <2>7. InBounds'
      BY <1>0, <1>2, <2>1 DEF Inv, InBounds, TypeOK
    <2>8. ReadStable'
      BY <1>0, <1>2 DEF Inv, ReadStable, TypeOK
    <2> QED
      BY <2>5, <2>6, <2>7, <2>8 DEF Inv
  <1> QED
    BY <1>1, <1>2 DEF ReadEnter

(* One byte of a read.                                                     *)
LEMMA InvReadByte ==
  ASSUME Inv, NEW t \in Threads, ReadByte(t)
  PROVE  Inv'
  <1> USE MutexDrvAssumption DEF ReadByte
  <1>1. /\ p[t] + count[t] <= MEM_SIZE /\ i[t] < count[t] /\ i[t] < room[t]
        /\ p[t] \in Nat /\ i[t] \in Nat /\ count[t] \in Nat /\ room[t] \in Nat
    BY DEF Inv, TypeOK, InBounds, Min2
  <1>2. i[t] \in Idx /\ i[t] + 1 \in 0 .. MEM_SIZE /\ p[t] + i[t] \in Idx
    BY <1>1 DEF Idx
  <1>3. TypeOK'
    BY <1>2 DEF Inv, TypeOK
  <1>4. LockInv'
    BY DEF Inv, TypeOK, LockInv, InCritical
  <1>5. InBounds'
    BY <1>1 DEF Inv, TypeOK, InBounds
  <1>6. ReadStable'
    <2> SUFFICES ASSUME UseMutex, NEW s \in Threads
                 PROVE  /\ pc[s] = "r_lock" => rdbuf'[s] = Nothing
                        /\ pc[s] = "r_loop" =>
                             /\ i'[s] <= room[s]
                             /\ \A k \in Idx :
                                  rdbuf'[s][k] = IF k < i'[s] THEN mem[p[s] + k] ELSE None
      BY DEF ReadStable
    <2>1. CASE s # t
      BY <2>1 DEF Inv, TypeOK, ReadStable
    <2>2. CASE s = t
      <3>1. i'[t] = i[t] + 1 /\ i'[t] <= room[t] /\ pc[t] = "r_loop"
        BY <1>1 DEF Inv, TypeOK
      <3>2. ASSUME NEW k \in Idx
            PROVE  rdbuf'[t][k] = IF k < i'[t] THEN mem[p[t] + k] ELSE None
        <4>1. k \in Int /\ rdbuf[t][k] = IF k < i[t] THEN mem[p[t] + k] ELSE None
          BY <3>1 DEF Inv, ReadStable, Idx
        <4>2. CASE k = i[t]
          BY <1>1, <1>2, <3>1, <4>2 DEF Inv, TypeOK
        <4>3. CASE k # i[t]
          <5>1. rdbuf'[t][k] = rdbuf[t][k]
            BY <1>2, <4>3 DEF Inv, TypeOK
          <5>2. k < i'[t] <=> k < i[t]
            BY <1>1, <3>1, <4>1, <4>3
          <5> QED
            BY <4>1, <5>1, <5>2
        <4> QED
          BY <4>2, <4>3
      <3> QED
        BY <2>2, <3>1, <3>2
    <2> QED
      BY <2>1, <2>2
  <1> QED
    BY <1>3, <1>4, <1>5, <1>6 DEF Inv

(* The end of a read, also of one that failed, gives the mutex back.       *)
LEMMA InvReadDone ==
  ASSUME Inv, NEW t \in Threads, ReadDone(t)
  PROVE  Inv'
  <1> USE MutexDrvAssumption
  <1>0. EFAULT \in Int /\ count[t] \in Int /\ InCritical(t)
    BY DEF EFAULT, ReadDone, Inv, TypeOK, InCritical
  <1>1. PICK value \in Int : ReturnFrom(t, value)
    BY <1>0 DEF ReadDone
  <1>2. f_pos' \in [Threads -> 0 .. MEM_SIZE]
    BY DEF ReadDone, Inv, TypeOK, InBounds
  <1>3. \A s \in Threads : s # t => f_pos'[s] = f_pos[s]
    BY DEF ReadDone, Inv, TypeOK
  <1>4. owner' \in Threads \cup {NoThread}
    BY DEF ReadDone, MutexUnlock, Inv, TypeOK
  <1>5. UNCHANGED <<mem, writecount, rdbuf>>
    BY DEF ReadDone
  <1>6. TypeOK'
    BY <1>1, <1>2, <1>4, <1>5, ReturnFromType DEF Inv, TypeOK
  <1>7. LockInv'
    BY <1>0, <1>1, ReturnFromType DEF ReadDone, MutexUnlock, Inv, LockInv, InCritical
  <1>8. InBounds'
    BY <1>1, <1>3, ReturnFromType DEF Inv, InBounds
  <1>9. ReadStable'
    BY <1>1, <1>5, ReturnFromStable DEF Inv
  <1> QED
    BY <1>6, <1>7, <1>8, <1>9 DEF Inv

-----------------------------------------------------------------------------
(* The steps of a call under way, and then every step of every caller,     *)
(* preserve the invariant.                                                 *)
LEMMA InvInside ==
  ASSUME Inv, NEW t \in Threads, Inside(t)
  PROVE  Inv'
  BY InvWriteCount, InvLock, InvWriteByte, InvWriteDone, InvReadByte, InvReadDone DEF Inside

LEMMA InvNext == Inv /\ [Next]_vars => Inv'
  <1> USE MutexDrvAssumption
  <1> SUFFICES ASSUME Inv, [Next]_vars PROVE Inv'
    OBVIOUS
  <1>1. CASE UNCHANGED vars
    BY <1>1 DEF vars, Inv, TypeOK, LockInv, InCritical, InBounds, ReadStable
  <1>2. ASSUME NEW t \in Threads, Enter(t)
        PROVE  Inv'
    <2>1. ASSUME NEW offset \in Offsets, NEW whence \in 0 .. 3, Llseek(t, offset, whence)
          PROVE  Inv'
      BY <2>1, InvLlseek
    <2>2. ASSUME NEW cnt \in Counts, NEW b \in WriteBufs, WriteEnter(t, cnt, b)
          PROVE  Inv'
      BY <2>2, InvWriteEnter
    <2>3. ASSUME NEW cnt \in Counts, NEW r \in Rooms, ReadEnter(t, cnt, r)
          PROVE  Inv'
      BY <2>3, InvReadEnter
    <2> QED
      BY <1>2, <2>1, <2>2, <2>3, InvOpenRelease DEF Enter
  <1>3. ASSUME NEW t \in Threads, Inside(t)
        PROVE  Inv'
    BY <1>3, InvInside
  <1> QED
    BY <1>1, <1>2, <1>3 DEF Next

(* The driver keeps its invariant for every number of callers and every    *)
(* size of the memory.                                                     *)
THEOREM Invariance == Spec => []Inv
  BY InvInit, InvNext, PTL DEF Spec

(* Types, and with them the range of every file position.                  *)
THEOREM TypeCorrect == Spec => []TypeOK
  <1>1. Inv => TypeOK
    BY DEF Inv
  <1> QED
    BY <1>1, Invariance, PTL

(* The mutex is held exactly while a call is inside: mutual exclusion, and *)
(* no return path that keeps it.                                           *)
THEOREM MutualExclusion == Spec => []LockInv
  <1>1. Inv => LockInv
    BY DEF Inv
  <1> QED
    BY <1>1, Invariance, PTL

(* No read or write touches a byte outside the shared memory.              *)
THEOREM AccessInBounds == Spec => []InBounds
  <1>1. Inv => InBounds
    BY DEF Inv
  <1> QED
    BY <1>1, Invariance, PTL

(* A read under the mutex is not overtaken by a write.                     *)
THEOREM ReadsStable == Spec => []ReadStable
  <1>1. Inv => ReadStable
    BY DEF Inv
  <1> QED
    BY <1>1, Invariance, PTL

-----------------------------------------------------------------------------
(* The useMutex driver implements ShareMem: its byte-at-a-time reads and   *)
(* writes are atomic operations on the shared memory.                      *)

(* The initial states of the driver are initial states of ShareMem.        *)
LEMMA RefInit == Init => A!AbsInit
  <1> USE MutexDrvAssumption
  <1> SUFFICES ASSUME Init PROVE A!AbsInit
    OBVIOUS
  <1>1. AbsCells = [k \in Idx |-> Zero]
    BY DEF Init, AbsCells
  <1>2. AbsSt = [t \in Threads |-> "idle"]
    BY DEF Init, AbsSt
  <1>3. AbsOp = [t \in Threads |-> A!NoOp]
    BY DEF Init, AbsOp, A!NoOp, A!Idx, Idx
  <1>4. AbsGot = [t \in Threads |-> A!Nothing]
    BY DEF Init, AbsGot, A!Nothing, A!Idx, Nothing, Idx
  <1> QED
    BY <1>1, <1>2, <1>3, <1>4 DEF A!AbsInit, A!Idx, Idx, Init

(* open, close, lseek and the entry of _write are invisible.               *)
LEMMA RefQuiet ==
  ASSUME Inv, UseMutex, NEW t \in Threads,
         pc[t] \in {"closed", "open"},
         pc' = [pc EXCEPT ![t] = pc'[t]],
         pc'[t] \in {"closed", "open", "w_inc"},
         UNCHANGED <<mem, owner, rdbuf, ret>>,
         \A s \in Threads : s # t => /\ p'[s] = p[s] /\ count'[s] = count[s]
                                     /\ i'[s] = i[s] /\ buff'[s] = buff[s]
  PROVE  UNCHANGED <<AbsCells, AbsSt, AbsOp, AbsGot, ret>>
  <1> USE MutexDrvAssumption
  <1>0. owner # t /\ owner \in Threads \cup {NoThread} /\ pc \in [Threads -> PCs]
    BY DEF Inv, LockInv, InCritical, TypeOK
  <1>1. AbsCells' = AbsCells
    BY <1>0 DEF AbsCells
  <1>2. AbsSt' = AbsSt
    BY <1>0 DEF AbsSt
  <1>3. AbsOp' = AbsOp
    BY <1>0 DEF AbsOp
  <1>4. AbsGot' = AbsGot
    BY <1>0 DEF AbsGot
  <1> QED
    BY <1>1, <1>2, <1>3, <1>4

(* The operation of a write, or of a read, as ShareMem sees it.            *)
WriteOp(t) == [kind |-> "write", p |-> p[t], count |-> count[t],
               data |-> [k \in Idx |-> CopyFromUser(buff[t][k])]]
ReadOp(t) == [kind |-> "read", p |-> p[t], count |-> count[t],
              data |-> [k \in Idx |-> Zero]]

(* A caller that is before the mutex does not hold it.                     *)
LEMMA NotOwner ==
  ASSUME Inv, UseMutex, NEW t \in Threads, ~InCritical(t)
  PROVE  owner # t
  BY MutexDrvAssumption DEF Inv, LockInv

(* The end of a call at the end of the memory: it returns 0 at once.       *)
LEMMA RefAtEnd ==
  ASSUME Inv, UseMutex, NEW t \in Threads, pc[t] \in {"open", "w_inc"},
         ReturnFrom(t, 0), UNCHANGED <<mem, owner, rdbuf>>
  PROVE  A!AtEnd(t)
  <1> USE MutexDrvAssumption
  <1>0. /\ owner # t /\ owner \in Threads \cup {NoThread}
        /\ pc \in [Threads -> PCs] /\ TypeOK
    BY NotOwner DEF InCritical, Inv, TypeOK
  <1>1. /\ pc' = [pc EXCEPT ![t] = "open"]
        /\ \A s \in Threads : s # t => /\ p'[s] = p[s] /\ count'[s] = count[s]
                                       /\ i'[s] = i[s] /\ buff'[s] = buff[s]
    BY <1>0, ReturnFromType DEF ReturnFrom
  <1>2. AbsCells' = AbsCells
    BY <1>0, <1>1 DEF AbsCells
  <1>3. AbsSt' = AbsSt /\ AbsSt[t] = "idle"
    BY <1>0, <1>1 DEF AbsSt
  <1>4. AbsOp' = AbsOp
    BY <1>0, <1>1 DEF AbsOp
  <1>5. AbsGot' = AbsGot
    BY <1>0, <1>1 DEF AbsGot
  <1> QED
    BY <1>2, <1>3, <1>4, <1>5 DEF A!AtEnd, ReturnFrom

(* The call of a write past its checks.                                    *)
LEMMA RefWriteCount ==
  ASSUME Inv, UseMutex, NEW t \in Threads, WriteCount(t)
  PROVE  A!AtEnd(t) \/ A!Call(t)
  <1> USE MutexDrvAssumption
  <1>0. /\ owner # t /\ owner \in Threads \cup {NoThread} /\ pc[t] = "w_inc"
        /\ pc \in [Threads -> PCs] /\ UNCHANGED <<mem, owner, rdbuf>>
    BY NotOwner DEF InCritical, Inv, TypeOK, WriteCount
  <1>1. CASE ReturnFrom(t, 0)
    BY <1>0, <1>1, RefAtEnd
  <1>2. CASE /\ p[t] < MEM_SIZE
             /\ count' = [count EXCEPT ![t] = Min2(count[t], MEM_SIZE - p[t])]
             /\ tmp' = [tmp EXCEPT ![t] = 0]
             /\ pc' = [pc EXCEPT ![t] = "w_lock"]
             /\ UNCHANGED <<p, i, branch, buff, room, ret>>
    <2>1. AbsCells' = AbsCells
      BY <1>0, <1>2 DEF AbsCells, Inv, TypeOK
    <2>2. AbsSt[t] = "idle" /\ AbsSt' = [AbsSt EXCEPT ![t] = "called"]
      BY <1>0, <1>2 DEF AbsSt
    <2>3. AbsOp' = [AbsOp EXCEPT ![t] = WriteOp(t)']
      BY <1>0, <1>2 DEF AbsOp, WriteOp, Inv, TypeOK
    <2>4. AbsGot' = AbsGot
      BY <1>0, <1>2 DEF AbsGot, Inv, TypeOK
    <2>5. WriteOp(t)' \in A!Ops /\ p'[t] + count'[t] <= MEM_SIZE
      <3>1. p'[t] \in Idx /\ count'[t] \in 0 .. MEM_SIZE /\ p'[t] + count'[t] <= MEM_SIZE
        BY <1>2 DEF Min2, Idx, Inv, TypeOK
      <3>2. [k \in Idx |-> CopyFromUser(buff'[t][k])] \in [Idx -> Byte]
        BY <1>2 DEF CopyFromUser, Inv, TypeOK
      <3> QED
        BY <3>1, <3>2 DEF WriteOp, A!Ops, A!Idx, Idx
    <2>6. WriteOp(t)'.kind = "write" /\ WriteOp(t)'.p + WriteOp(t)'.count <= MEM_SIZE
      BY <2>5 DEF WriteOp
    <2> QED
      BY <1>2, <2>1, <2>2, <2>3, <2>4, <2>5, <2>6 DEF A!Call
  <1> QED
    BY <1>1, <1>2 DEF WriteCount

(* A write takes effect as a whole when it gets the mutex ...              *)
LEMMA RefWriteLock ==
  ASSUME Inv, UseMutex, NEW t \in Threads, WriteLock(t)
  PROVE  A!Apply(t)
  <1> USE MutexDrvAssumption
  <1>0. /\ owner = NoThread /\ owner' = t /\ pc[t] = "w_lock" /\ i[t] = 0
        /\ pc' = [pc EXCEPT ![t] = "w_loop"] /\ pc \in [Threads -> PCs]
        /\ UNCHANGED <<mem, p, count, i, buff, rdbuf, ret>>
    BY DEF WriteLock, MutexLock, Inv, TypeOK, InBounds
  <1>1. AbsSt[t] = "called" /\ AbsSt' = [AbsSt EXCEPT ![t] = "applied"]
    BY <1>0 DEF AbsSt
  <1>2. AbsOp' = AbsOp /\ AbsOp[t] = WriteOp(t)
    BY <1>0 DEF AbsOp, WriteOp
  <1>3. AbsGot' = AbsGot
    BY <1>0 DEF AbsGot
  <1>4. AbsCells' = A!Stored(AbsCells, AbsOp[t])
    <2>1. AbsCells = [k \in Idx |-> mem[k]]
      BY <1>0 DEF AbsCells
    <2>2. /\ p[t] + count[t] <= MEM_SIZE /\ p[t] \in Nat /\ count[t] \in Nat
      BY <1>0 DEF Inv, TypeOK, InBounds
    <2>3. AbsCells' = [k \in Idx |-> IF p[t] + i[t] <= k /\ k < p[t] + count[t]
                                     THEN CopyFromUser(buff[t][k - p[t]])
                                     ELSE mem[k]]
      BY <1>0 DEF AbsCells, Inv, TypeOK
    <2>4. ASSUME NEW k \in Idx
          PROVE  AbsCells'[k] = A!Stored(AbsCells, AbsOp[t])[k]
      <3>1. A!Stored(AbsCells, AbsOp[t])[k]
              = IF p[t] <= k /\ k < p[t] + count[t]
                THEN AbsOp[t].data[k - p[t]] ELSE mem[k]
        BY <1>2, <2>1 DEF A!Stored, A!Covers, A!Idx, Idx, WriteOp
      <3>2. CASE p[t] <= k /\ k < p[t] + count[t]
        <4>1. k - p[t] \in Idx
          BY <2>2, <3>2 DEF Idx
        <4> QED
          BY <1>0, <1>2, <2>2, <2>3, <3>1, <3>2, <4>1 DEF WriteOp
      <3>3. CASE ~(p[t] <= k /\ k < p[t] + count[t])
        BY <1>0, <2>2, <2>3, <3>1, <3>3
      <3> QED
        BY <3>2, <3>3
    <2> QED
      BY <2>3, <2>4 DEF A!Stored, A!Idx, Idx
  <1>5. AbsOp[t].kind = "write"
    BY <1>2 DEF WriteOp
  <1> QED
    BY <1>0, <1>1, <1>2, <1>3, <1>4, <1>5 DEF A!Apply

(* The byte at x + n is the only one that leaves what is still to come.    *)
LEMMA NextByte ==
  ASSUME NEW x \in Int, NEW n \in Int, NEW k \in Int, k # x + n
  PROVE  x + (n + 1) <= k <=> x + n <= k
  OBVIOUS

(* ... so the copying of its bytes is invisible ...                        *)
LEMMA RefWriteByte ==
  ASSUME Inv, UseMutex, NEW t \in Threads, WriteByte(t)
  PROVE  UNCHANGED <<AbsCells, AbsSt, AbsOp, AbsGot, ret>>
  <1> USE MutexDrvAssumption
  <1>0. /\ pc[t] = "w_loop" /\ owner = t /\ i[t] < count[t]
        /\ i' = [i EXCEPT ![t] = i[t] + 1]
        /\ mem' = [mem EXCEPT ![p[t] + i[t]] = CopyFromUser(buff[t][i[t]])]
        /\ UNCHANGED <<owner, pc, p, count, buff, rdbuf, ret>>
    BY DEF WriteByte, Inv, LockInv, InCritical
  <1>1. /\ p[t] + count[t] <= MEM_SIZE /\ p[t] \in Nat /\ i[t] \in Nat
        /\ count[t] \in Nat /\ i \in [Threads -> 0 .. MEM_SIZE] /\ mem \in [Idx -> Byte]
    BY <1>0 DEF Inv, TypeOK, InBounds
  <1>2. AbsCells' = AbsCells
    <2>1. /\ AbsCells = [k \in Idx |-> IF p[t] + i[t] <= k /\ k < p[t] + count[t]
                                        THEN CopyFromUser(buff[t][k - p[t]])
                                        ELSE mem[k]]
          /\ AbsCells' = [k \in Idx |-> IF p[t] + i'[t] <= k /\ k < p[t] + count[t]
                                        THEN CopyFromUser(buff[t][k - p[t]])
                                        ELSE mem'[k]]
      BY <1>0 DEF AbsCells
    <2>2. i'[t] = i[t] + 1
      BY <1>0, <1>1
    <2>3. ASSUME NEW k \in Idx
          PROVE  AbsCells'[k] = AbsCells[k]
      <3>1. CASE k = p[t] + i[t]
        <4>1. k - p[t] = i[t] /\ mem'[k] = CopyFromUser(buff[t][i[t]])
          BY <1>0, <1>1, <3>1
        <4>2. AbsCells[k] = CopyFromUser(buff[t][i[t]])
          BY <1>0, <1>1, <2>1, <3>1, <4>1
        <4>3. AbsCells'[k] = mem'[k]
          BY <1>1, <2>1, <2>2, <3>1
        <4> QED
          BY <4>1, <4>2, <4>3
      <3>2. CASE k # p[t] + i[t]
        <4>1. mem'[k] = mem[k]
          BY <1>0, <1>1, <3>2
        <4>2. p[t] + i'[t] <= k <=> p[t] + i[t] <= k
          <5>1. p[t] \in Int /\ i[t] \in Int /\ k \in Int
            BY <1>0, <1>1 DEF Idx
          <5> QED
            BY <2>2, <3>2, <5>1, NextByte
        <4> QED
          BY <2>1, <4>1, <4>2
      <3> QED
        BY <3>1, <3>2
    <2> QED
      BY <2>1, <2>3
  <1>3. AbsSt' = AbsSt
    BY <1>0 DEF AbsSt
  <1>4. AbsOp' = AbsOp
    BY <1>0 DEF AbsOp
  <1>5. \A s \in Threads : pc[s] # "r_loop"
    BY <1>0 DEF Inv, LockInv, InCritical
  <1>6. AbsGot' = AbsGot
    BY <1>0, <1>5 DEF AbsGot
  <1> QED
    BY <1>0, <1>2, <1>3, <1>4, <1>6
(* ... and when it gives the mutex back, the memory holds all of them.     *)
LEMMA RefWriteDone ==
  ASSUME Inv, UseMutex, NEW t \in Threads, WriteDone(t)
  PROVE  A!Return(t)
  <1> USE MutexDrvAssumption
  <1>0. /\ pc[t] = "w_loop" /\ owner = t /\ owner' = NoThread /\ i[t] = count[t]
        /\ ReturnFrom(t, count[t]) /\ UNCHANGED <<mem, rdbuf>> /\ TypeOK
    BY DEF WriteDone, MutexUnlock, Inv, LockInv, InCritical
  <1>1. /\ pc' = [pc EXCEPT ![t] = "open"] /\ pc \in [Threads -> PCs]
        /\ ret' = [ret EXCEPT ![t] = count[t]]
        /\ \A s \in Threads : s # t => /\ p'[s] = p[s] /\ count'[s] = count[s]
                                       /\ i'[s] = i[s] /\ buff'[s] = buff[s]
    BY <1>0, ReturnFromType DEF ReturnFrom, TypeOK
  <1>2. AbsCells' = AbsCells
    <2>1. p[t] \in Nat /\ count[t] \in Nat
      BY <1>0 DEF TypeOK
    <2>2. AbsCells = [k \in Idx |-> mem[k]]
      BY <1>0, <2>1 DEF AbsCells, Idx
    <2>3. AbsCells' = [k \in Idx |-> mem[k]]
      BY <1>0 DEF AbsCells
    <2> QED
      BY <2>2, <2>3
  <1>3. AbsSt[t] = "applied" /\ AbsSt' = [AbsSt EXCEPT ![t] = "idle"]
    BY <1>0, <1>1 DEF AbsSt
  <1>4. AbsOp[t] = WriteOp(t) /\ AbsOp' = [AbsOp EXCEPT ![t] = A!NoOp]
    BY <1>0, <1>1 DEF AbsOp, WriteOp, A!NoOp, A!Idx, Idx
  <1>5. AbsGot' = AbsGot
    BY <1>0, <1>1 DEF AbsGot
  <1>6. AbsOp[t].count = count[t]
    BY <1>4 DEF WriteOp
  <1> QED
    BY <1>1, <1>2, <1>3, <1>4, <1>5, <1>6 DEF A!Return

-----------------------------------------------------------------------------
(* The call of a read past its checks.                                     *)
LEMMA RefReadEnter ==
  ASSUME Inv, UseMutex, NEW t \in Threads, NEW cnt \in Counts, NEW r \in Rooms,
         ReadEnter(t, cnt, r)
  PROVE  A!AtEnd(t) \/ A!Call(t)
  <1> USE MutexDrvAssumption
  <1>0. /\ owner # t /\ owner \in Threads \cup {NoThread} /\ pc[t] = "open"
        /\ pc \in [Threads -> PCs] /\ UNCHANGED <<mem, owner>>
    BY NotOwner DEF InCritical, Inv, TypeOK, ReadEnter
  <1>1. CASE ReturnFrom(t, 0) /\ UNCHANGED rdbuf
    BY <1>0, <1>1, RefAtEnd
  <1>2. CASE /\ f_pos[t] < MEM_SIZE
             /\ p' = [p EXCEPT ![t] = f_pos[t]]
             /\ count' = [count EXCEPT ![t] = Min2(cnt, MEM_SIZE - f_pos[t])]
             /\ i' = [i EXCEPT ![t] = 0]
             /\ room' = [room EXCEPT ![t] = r]
             /\ rdbuf' = [rdbuf EXCEPT ![t] = Nothing]
             /\ pc' = [pc EXCEPT ![t] = "r_lock"]
             /\ UNCHANGED <<tmp, branch, buff, ret>>
    <2>0. \A s \in Threads : s # t => /\ p'[s] = p[s] /\ count'[s] = count[s]
                                     /\ i'[s] = i[s] /\ rdbuf'[s] = rdbuf[s]
      BY <1>2 DEF Inv, TypeOK
    <2>1. AbsCells' = AbsCells
      BY <1>0, <1>2, <2>0 DEF AbsCells
    <2>2. AbsSt[t] = "idle" /\ AbsSt' = [AbsSt EXCEPT ![t] = "called"]
      BY <1>0, <1>2 DEF AbsSt
    <2>3. AbsOp' = [AbsOp EXCEPT ![t] = ReadOp(t)']
      BY <1>0, <1>2, <2>0 DEF AbsOp, ReadOp
    <2>4. AbsGot' = [AbsGot EXCEPT ![t] = A!Nothing]
      <3>1. A!Nothing = Nothing
        BY DEF A!Nothing, A!Idx, Nothing, Idx
      <3>2. rdbuf'[t] = Nothing /\ pc'[t] = "r_lock"
        BY <1>0, <1>2 DEF Inv, TypeOK
      <3>3. \A s \in Threads : s # t => pc'[s] = pc[s]
        BY <1>0, <1>2
      <3>4. \A s \in Threads : AbsGot'[s] = IF s = t THEN Nothing ELSE AbsGot[s]
        BY <1>0, <2>0, <3>2, <3>3 DEF AbsGot
      <3> QED
        BY <3>1, <3>4 DEF AbsGot
    <2>5. ReadOp(t)' \in A!Ops /\ p'[t] + count'[t] <= MEM_SIZE
      <3>1. p'[t] \in Idx /\ count'[t] \in 0 .. MEM_SIZE /\ p'[t] + count'[t] <= MEM_SIZE
        BY <1>2 DEF Min2, Idx, Inv, TypeOK
      <3> QED
        BY <3>1 DEF ReadOp, A!Ops, A!Idx, Idx
    <2>6. ReadOp(t)'.kind = "read" /\ ReadOp(t)'.p + ReadOp(t)'.count <= MEM_SIZE
      BY <2>5 DEF ReadOp
    <2> QED
      BY <1>2, <2>1, <2>2, <2>3, <2>4, <2>5, <2>6 DEF A!Call
  <1> QED
    BY <1>1, <1>2 DEF ReadEnter

(* A read takes effect as a whole when it gets the mutex ...               *)
LEMMA RefReadLock ==
  ASSUME Inv, UseMutex, NEW t \in Threads, ReadLock(t)
  PROVE  A!Apply(t)
  <1> USE MutexDrvAssumption
  <1>0. /\ owner = NoThread /\ owner' = t /\ pc[t] = "r_lock"
        /\ pc' = [pc EXCEPT ![t] = "r_loop"] /\ pc \in [Threads -> PCs]
        /\ UNCHANGED <<mem, p, count, i, buff, rdbuf, ret>>
    BY DEF ReadLock, MutexLock, Inv, TypeOK
  <1>1. AbsSt[t] = "called" /\ AbsSt' = [AbsSt EXCEPT ![t] = "applied"]
    BY <1>0 DEF AbsSt
  <1>2. AbsOp' = AbsOp /\ AbsOp[t] = ReadOp(t)
    BY <1>0 DEF AbsOp, ReadOp
  <1>3. AbsCells = [k \in Idx |-> mem[k]] /\ AbsCells' = [k \in Idx |-> mem[k]]
    BY <1>0 DEF AbsCells
  <1>4. AbsGot' = [AbsGot EXCEPT ![t] = A!Snapshot(AbsCells, AbsOp[t])]
    <2>1. p[t] + count[t] <= MEM_SIZE /\ p[t] \in Nat /\ count[t] \in Nat
      BY <1>0 DEF Inv, TypeOK, InBounds
    <2>2. A!Snapshot(AbsCells, AbsOp[t])
            = [k \in Idx |-> IF k < count[t] THEN AbsCells[p[t] + k] ELSE None]
      BY <1>2 DEF A!Snapshot, A!Idx, Idx, ReadOp
    <2>3. \A k \in Idx : k < count[t] => AbsCells[p[t] + k] = mem[p[t] + k]
      BY <1>3, <2>1 DEF Idx
    <2>4. A!Snapshot(AbsCells, AbsOp[t])
            = [k \in Idx |-> IF k < count[t] THEN mem[p[t] + k] ELSE None]
      BY <2>2, <2>3
    <2> QED
      BY <1>0, <2>4 DEF AbsGot
  <1>5. AbsOp[t].kind = "read"
    BY <1>2 DEF ReadOp
  <1> QED
    BY <1>0, <1>1, <1>2, <1>3, <1>4, <1>5 DEF A!Apply

(* ... the copying of its bytes is invisible ...                           *)
LEMMA RefReadByte ==
  ASSUME Inv, UseMutex, NEW t \in Threads, ReadByte(t)
  PROVE  UNCHANGED <<AbsCells, AbsSt, AbsOp, AbsGot, ret>>
  <1> USE MutexDrvAssumption
  <1>0. /\ pc[t] = "r_loop" /\ owner = t
        /\ UNCHANGED <<mem, owner, pc, p, count, buff, ret>>
        /\ \A s \in Threads : s # t => rdbuf'[s] = rdbuf[s]
    BY DEF ReadByte, Inv, LockInv, InCritical, TypeOK
  <1>1. AbsCells' = AbsCells
    BY <1>0 DEF AbsCells
  <1>2. AbsSt' = AbsSt
    BY <1>0 DEF AbsSt
  <1>3. AbsOp' = AbsOp
    BY <1>0 DEF AbsOp
  <1>4. AbsGot' = AbsGot
    BY <1>0 DEF AbsGot
  <1> QED
    BY <1>0, <1>1, <1>2, <1>3, <1>4

(* ... and it returns all of the range, or a prefix of it and -EFAULT.     *)
LEMMA RefReadDone ==
  ASSUME Inv, UseMutex, NEW t \in Threads, ReadDone(t)
  PROVE  A!Return(t)
  <1> USE MutexDrvAssumption
  <1>0. /\ pc[t] = "r_loop" /\ owner = t /\ owner' = NoThread
        /\ i[t] = Min2(count[t], room[t]) /\ UNCHANGED <<mem, rdbuf>> /\ TypeOK
        /\ \/ i[t] < count[t] /\ ReturnFrom(t, EFAULT)
           \/ i[t] = count[t] /\ ReturnFrom(t, count[t])
    BY DEF ReadDone, MutexUnlock, Inv, LockInv, InCritical
  <1>1. /\ pc' = [pc EXCEPT ![t] = "open"] /\ pc \in [Threads -> PCs]
        /\ \A s \in Threads : s # t => /\ p'[s] = p[s] /\ count'[s] = count[s]
                                       /\ i'[s] = i[s] /\ buff'[s] = buff[s]
    <2>1. EFAULT \in Int /\ count[t] \in Int
      BY <1>0 DEF EFAULT, TypeOK
    <2>2. PICK value \in Int : ReturnFrom(t, value)
      BY <1>0, <2>1
    <2> QED
      BY <1>0, <2>2, ReturnFromType DEF ReturnFrom, TypeOK
  <1>2. AbsCells' = AbsCells
    BY <1>0 DEF AbsCells
  <1>3. AbsSt[t] = "applied" /\ AbsSt' = [AbsSt EXCEPT ![t] = "idle"]
    BY <1>0, <1>1 DEF AbsSt
  <1>4. AbsOp[t] = ReadOp(t) /\ AbsOp' = [AbsOp EXCEPT ![t] = A!NoOp]
    BY <1>0, <1>1 DEF AbsOp, ReadOp, A!NoOp, A!Idx, Idx
  <1>5. AbsOp[t].count = count[t] /\ AbsOp[t].kind = "read"
    BY <1>4 DEF ReadOp
  <1>6. /\ AbsGot[t] = [k \in Idx |-> IF k < count[t] THEN mem[p[t] + k] ELSE None]
        /\ AbsGot' = [AbsGot EXCEPT ![t] = rdbuf[t]]
    BY <1>0, <1>1 DEF AbsGot
  <1>7. rdbuf[t] = [k \in Idx |-> IF k < i[t] THEN mem[p[t] + k] ELSE None]
    BY <1>0 DEF Inv, TypeOK, ReadStable
  <1>8. CASE i[t] < count[t] /\ ReturnFrom(t, EFAULT)
    <2>1. i[t] \in Nat /\ count[t] \in Nat
      BY <1>0 DEF TypeOK
    <2>2. rdbuf[t] = A!Prefix(AbsGot[t], i[t])
      BY <1>6, <1>7, <1>8, <2>1 DEF A!Prefix, A!Idx, Idx
    <2>3. i[t] \in 0 .. AbsOp[t].count - 1
      BY <1>5, <1>8, <2>1
    <2>4. ret' = [ret EXCEPT ![t] = A!EFAULT]
      BY <1>8 DEF ReturnFrom, EFAULT, A!EFAULT
    <2> QED
      BY <1>2, <1>3, <1>4, <1>5, <1>6, <2>2, <2>3, <2>4 DEF A!Return
  <1>9. CASE i[t] = count[t] /\ ReturnFrom(t, count[t])
    <2>1. AbsGot' = AbsGot
      <3>1. rdbuf[t] = AbsGot[t]
        BY <1>6, <1>7, <1>9
      <3> QED
        BY <1>6, <3>1 DEF AbsGot
    <2>2. ret' = [ret EXCEPT ![t] = AbsOp[t].count]
      BY <1>5, <1>9 DEF ReturnFrom
    <2> QED
      BY <1>2, <1>3, <1>4, <2>1, <2>2 DEF A!Return
  <1> QED
    BY <1>0, <1>8, <1>9

-----------------------------------------------------------------------------
(* Every step of the driver is a step of ShareMem or leaves it alone.      *)
LEMMA RefNext ==
  ASSUME Inv, UseMutex, [Next]_vars
  PROVE  [A!AbsNext]_(A!absVars)
  <1> USE MutexDrvAssumption
  <1>1. ASSUME UNCHANGED vars
        PROVE  UNCHANGED A!absVars
    BY <1>1 DEF vars, A!absVars, AbsCells, AbsSt, AbsOp, AbsGot
  <1>2. ASSUME NEW t \in Threads, Enter(t)
        PROVE  [A!AbsNext]_(A!absVars)
    <2>1. CASE Open(t) \/ Release(t)
      BY <2>1, RefQuiet DEF Open, Release, A!absVars, Inv, TypeOK
    <2>2. CASE \E offset \in Offsets, whence \in 0 .. 3 : Llseek(t, offset, whence)
      BY <2>2, RefQuiet DEF Llseek, A!absVars, Inv, TypeOK
    <2>3. CASE \E cnt \in Counts, b \in WriteBufs : WriteEnter(t, cnt, b)
      <3>1. /\ pc[t] = "open" /\ pc' = [pc EXCEPT ![t] = pc'[t]] /\ pc'[t] = "w_inc"
            /\ UNCHANGED <<mem, owner, rdbuf, ret>>
        BY <2>3 DEF WriteEnter, Inv, TypeOK
      <3>2. \A s \in Threads : s # t => /\ p'[s] = p[s] /\ count'[s] = count[s]
                                       /\ i'[s] = i[s] /\ buff'[s] = buff[s]
        BY <2>3 DEF WriteEnter, Inv, TypeOK
      <3> QED
        BY <3>1, <3>2, RefQuiet DEF A!absVars
    <2>4. CASE \E cnt \in Counts, r \in Rooms : ReadEnter(t, cnt, r)
      BY <2>4, RefReadEnter DEF A!AbsNext
    <2> QED
      BY <1>2, <2>1, <2>2, <2>3, <2>4 DEF Enter
  <1>3. ASSUME NEW t \in Threads, Inside(t)
        PROVE  [A!AbsNext]_(A!absVars)
    <2>1. CASE WriteByte(t) \/ ReadByte(t)
      BY <2>1, RefWriteByte, RefReadByte DEF A!absVars
    <2>2. CASE WriteCount(t) \/ WriteLock(t) \/ WriteDone(t)
      BY <2>2, RefWriteCount, RefWriteLock, RefWriteDone DEF A!AbsNext
    <2>3. CASE ReadLock(t) \/ ReadDone(t)
      BY <2>3, RefReadLock, RefReadDone DEF A!AbsNext
    <2> QED
      BY <1>3, <2>1, <2>2, <2>3 DEF Inside
  <1> QED
    BY <1>1, <1>2, <1>3 DEF Next

(* With the mutex compiled in, the driver implements ShareMem: reads and   *)
(* writes of ranges are atomic, for any number of callers.                 *)
THEOREM Atomicity ==
  ASSUME UseMutex
  PROVE  Spec => Linearizable
  <1>1. Inv /\ [Next]_vars => [A!AbsNext]_(A!absVars)
    BY RefNext
  <1> QED
    BY <1>1, RefInit, Invariance, PTL DEF Spec, Linearizable, A!AbsSpec
=============================================================================
