------------------------------ MODULE MutexDrv ------------------------------
(***************************************************************************)
(* The character driver of 03-fileOperate/mutex: MEM_SIZE bytes of kernel  *)
(* memory that every opener of /dev/mutexTest shares, read and written a   *)
(* byte at a time.  With UseMutex it is useMutex/mutex_drv.c; without, it  *)
(* is unuseMutex/mutex_drv.c, whose only difference is that the calls of   *)
(* mutex_lock and mutex_unlock are commented out.                          *)
(*                                                                         *)
(* A step is one access to state another caller can reach (mem, the mutex, *)
(* writecount); accesses to a caller's own file and locals are folded into *)
(* the neighbouring step.                                                  *)
(***************************************************************************)
EXTENDS Integers

CONSTANTS
  Threads,     \* callers; each has opened the device for itself
  NoThread,    \* the owner of a free mutex
  Byte,        \* the values of one byte
  Zero,        \* the zero byte
  None,        \* a byte of a user's read buffer that was not delivered
  Fault,       \* a byte of a user's write buffer that cannot be accessed
  MEM_SIZE,    \* size of the shared memory (128 in the code)
  UseMutex,    \* whether the mutex_lock / mutex_unlock calls are compiled in
  WriteBufs,   \* user buffers that calls of write pass
  Counts,      \* byte counts that calls of read and write pass
  Rooms,       \* how much of a user's read buffer can be accessed
  Offsets,     \* offsets that calls of lseek pass
  MaxWrites    \* bound: no write is called once writecount reaches it

Idx == 0 .. MEM_SIZE - 1

ASSUME MutexDrvAssumption ==
  /\ NoThread \notin Threads
  /\ Zero \in Byte
  /\ None \notin Byte
  /\ Fault \notin Byte
  /\ MEM_SIZE \in Nat \ {0}
  /\ UseMutex \in BOOLEAN
  /\ WriteBufs \subseteq [Idx -> Byte \cup {Fault}]
  /\ Counts \subseteq Nat
  /\ Rooms \subseteq Nat
  /\ Offsets \subseteq Int
  /\ MaxWrites \in Nat

VARIABLES
  mem,         \* sh->mem
  owner,       \* share_mutex: the thread that holds it
  writecount,  \* the static counter of _write
  pc,          \* per caller: where in the driver it is
  f_pos,       \* per caller: the position of its open file
  p,           \* per caller: the position read on entry (the local p)
  count,       \* per caller: bytes to move (the local count)
  i,           \* per caller: bytes moved so far
  tmp,         \* per caller: the value of writecount loaded by writecount++
  branch,      \* per caller: writecount % 2 as its write saw it
  buff,        \* per caller: the user's buffer of its last write
  room,        \* per caller: accessible bytes of the buffer of its last read
  rdbuf,       \* per caller: what its last read stored in that buffer
  ret          \* per caller: what its last read or write returned

vars == <<mem, owner, writecount, pc, f_pos, p, count, i, tmp, branch, buff,
          room, rdbuf, ret>>

PCs == {"closed", "open", "w_inc", "w_lock", "w_loop", "r_lock", "r_loop"}

EFAULT == -14

SEEK_SET == 0
SEEK_CUR == 1
SEEK_END == 2

Nothing == [k \in Idx |-> None]

NoBuff == [k \in Idx |-> Fault]

Min2(a, b) == IF a < b THEN a ELSE b

-----------------------------------------------------------------------------
(* mod_init: kzalloc clears the memory, mutex_init leaves the mutex free.  *)
Init ==
  /\ mem = [k \in Idx |-> Zero]
  /\ owner = NoThread
  /\ writecount = 0
  /\ pc = [t \in Threads |-> "closed"]
  /\ f_pos = [t \in Threads |-> 0]
  /\ p = [t \in Threads |-> 0]
  /\ count = [t \in Threads |-> 0]
  /\ i = [t \in Threads |-> 0]
  /\ tmp = [t \in Threads |-> 0]
  /\ branch = [t \in Threads |-> 0]
  /\ buff = [t \in Threads |-> NoBuff]
  /\ room = [t \in Threads |-> 0]
  /\ rdbuf = [t \in Threads |-> Nothing]
  /\ ret = [t \in Threads |-> 0]

(* A new struct file has position 0; _open itself only logs.               *)
Open(t) ==
  /\ pc[t] = "closed"
  /\ pc' = [pc EXCEPT ![t] = "open"]
  /\ f_pos' = [f_pos EXCEPT ![t] = 0]
  /\ UNCHANGED <<mem, owner, writecount, p, count, i, tmp, branch, buff, room, rdbuf, ret>>

Release(t) ==
  /\ pc[t] = "open"
  /\ pc' = [pc EXCEPT ![t] = "closed"]
  /\ f_pos' = [f_pos EXCEPT ![t] = 0]
  /\ UNCHANGED <<mem, owner, writecount, p, count, i, tmp, branch, buff, room, rdbuf, ret>>

(* The position _llseek computes; MEM_SIZE - 1 is its end of the file.     *)
NewPos(t, offset, whence) ==
  CASE whence = SEEK_SET -> offset
    [] whence = SEEK_CUR -> f_pos[t] + offset
    [] whence = SEEK_END -> MEM_SIZE - 1 + offset

(* -EINVAL, and the old position, for an unknown whence and for a position *)
(* outside 0 .. MEM_SIZE.                                                  *)
Llseek(t, offset, whence) ==
  LET new_pos == NewPos(t, offset, whence)
      valid == whence \in {SEEK_SET, SEEK_CUR, SEEK_END}
               /\ new_pos >= 0 /\ new_pos <= MEM_SIZE
  IN /\ pc[t] = "open"
     /\ f_pos' = IF valid THEN [f_pos EXCEPT ![t] = new_pos] ELSE f_pos
     /\ UNCHANGED <<mem, owner, writecount, pc, p, count, i, tmp, branch, buff, room, rdbuf, ret>>

-----------------------------------------------------------------------------
(* Mutant: the mutex is not compiled in.                                   *)
NoMutexLock(t) == UNCHANGED owner

(* external: mutex_lock and mutex_unlock of the kernel, compiled in only   *)
(* in the useMutex driver.                                                 *)
MutexLock(t) ==
  IF UseMutex THEN owner = NoThread /\ owner' = t ELSE UNCHANGED owner

MutexUnlock(t) ==
  IF UseMutex THEN owner' = NoThread ELSE UNCHANGED owner

(* external: copy_from_user of one byte; an inaccessible byte is padded    *)
(* with zero.                                                              *)
CopyFromUser(b) == IF b = Fault THEN Zero ELSE b

(* A call returns: its locals are gone.                                    *)
ReturnFrom(t, value) ==
  /\ pc' = [pc EXCEPT ![t] = "open"]
  /\ ret' = [ret EXCEPT ![t] = value]
  /\ p' = [p EXCEPT ![t] = 0]
  /\ count' = [count EXCEPT ![t] = 0]
  /\ i' = [i EXCEPT ![t] = 0]
  /\ tmp' = [tmp EXCEPT ![t] = 0]
  /\ branch' = [branch EXCEPT ![t] = 0]
  /\ buff' = [buff EXCEPT ![t] = NoBuff]
  /\ room' = [room EXCEPT ![t] = 0]

(* _write, entry: writecount++ outside the lock, its load.                 *)
WriteEnter(t, cnt, b) ==
  /\ pc[t] = "open"
  /\ writecount < MaxWrites
  /\ p' = [p EXCEPT ![t] = f_pos[t]]
  /\ count' = [count EXCEPT ![t] = cnt]
  /\ i' = [i EXCEPT ![t] = 0]
  /\ buff' = [buff EXCEPT ![t] = b]
  /\ tmp' = [tmp EXCEPT ![t] = writecount]
  /\ pc' = [pc EXCEPT ![t] = "w_inc"]
  /\ UNCHANGED <<mem, owner, writecount, f_pos, branch, room, rdbuf, ret>>

(* Mutant: count is not cut to what is left behind p.                      *)
WriteCountUnclamped(t) ==
  /\ pc[t] = "w_inc"
  /\ writecount' = tmp[t] + 1
  /\ \/ p[t] >= MEM_SIZE /\ ReturnFrom(t, 0)
     \/ /\ p[t] < MEM_SIZE
        /\ tmp' = [tmp EXCEPT ![t] = 0]
        /\ pc' = [pc EXCEPT ![t] = "w_lock"]
        /\ UNCHANGED <<p, count, i, branch, buff, room, ret>>
  /\ UNCHANGED <<mem, owner, f_pos, rdbuf>>

(* The store of writecount++, and the checks against MEM_SIZE.             *)
WriteCount(t) ==
  /\ pc[t] = "w_inc"
  /\ writecount' = tmp[t] + 1
  /\ \/ /\ p[t] >= MEM_SIZE
        /\ ReturnFrom(t, 0)
     \/ /\ p[t] < MEM_SIZE
        /\ count' = [count EXCEPT ![t] = Min2(count[t], MEM_SIZE - p[t])]
        /\ tmp' = [tmp EXCEPT ![t] = 0]
        /\ pc' = [pc EXCEPT ![t] = "w_lock"]
        /\ UNCHANGED <<p, i, branch, buff, room, ret>>
  /\ UNCHANGED <<mem, owner, f_pos, rdbuf>>

(* Mutant: _write does not take the mutex.                                 *)
WriteLockFree(t) ==
  /\ pc[t] = "w_lock"
  /\ branch' = [branch EXCEPT ![t] = writecount % 2]
  /\ pc' = [pc EXCEPT ![t] = "w_loop"]
  /\ UNCHANGED <<mem, owner, writecount, f_pos, p, count, i, tmp, buff, room, rdbuf, ret>>

(* mutex_lock, then the parity of writecount as it is by now selects one   *)
(* of two copies of the loop that differ in what they log and how long     *)
(* they delay.                                                             *)
WriteLock(t) ==
  /\ pc[t] = "w_lock"
  /\ MutexLock(t)
  /\ branch' = [branch EXCEPT ![t] = writecount % 2]
  /\ pc' = [pc EXCEPT ![t] = "w_loop"]
  /\ UNCHANGED <<mem, writecount, f_pos, p, count, i, tmp, buff, room, rdbuf, ret>>

(* Mutant: the loop writes a byte too far on.                              *)
WriteByteShifted(t) ==
  /\ pc[t] = "w_loop"
  /\ i[t] < count[t]
  /\ mem' = [mem EXCEPT ![p[t] + i[t] + 1] = CopyFromUser(buff[t][i[t]])]
  /\ i' = [i EXCEPT ![t] = i[t] + 1]
  /\ UNCHANGED <<owner, writecount, pc, f_pos, p, count, tmp, branch, buff, room, rdbuf, ret>>

(* One round of the loop; schedule() lets any other caller run after it.   *)
WriteByte(t) ==
  /\ pc[t] = "w_loop"
  /\ i[t] < count[t]
  /\ mem' = [mem EXCEPT ![p[t] + i[t]] = CopyFromUser(buff[t][i[t]])]
  /\ i' = [i EXCEPT ![t] = i[t] + 1]
  /\ UNCHANGED <<owner, writecount, pc, f_pos, p, count, tmp, branch, buff, room, rdbuf, ret>>

(* Mutant: mutex_unlock is forgotten.                                      *)
WriteDoneLocked(t) ==
  /\ pc[t] = "w_loop"
  /\ i[t] = count[t]
  /\ f_pos' = [f_pos EXCEPT ![t] = @ + count[t]]
  /\ ReturnFrom(t, count[t])
  /\ UNCHANGED <<mem, owner, writecount, rdbuf>>

(* mutex_unlock; the position moves and count is returned, whatever        *)
(* copy_from_user reported: ret = count overwrites the -EFAULT.            *)
WriteDone(t) ==
  /\ pc[t] = "w_loop"
  /\ i[t] = count[t]
  /\ MutexUnlock(t)
  /\ f_pos' = [f_pos EXCEPT ![t] = @ + count[t]]
  /\ ReturnFrom(t, count[t])
  /\ UNCHANGED <<mem, writecount, rdbuf>>

-----------------------------------------------------------------------------
ReadEnter(t, cnt, r) ==
  /\ pc[t] = "open"
  /\ \/ /\ f_pos[t] >= MEM_SIZE
        /\ ReturnFrom(t, 0)
        /\ UNCHANGED rdbuf
     \/ /\ f_pos[t] < MEM_SIZE
        /\ p' = [p EXCEPT ![t] = f_pos[t]]
        /\ count' = [count EXCEPT ![t] = Min2(cnt, MEM_SIZE - f_pos[t])]
        /\ i' = [i EXCEPT ![t] = 0]
        /\ room' = [room EXCEPT ![t] = r]
        /\ rdbuf' = [rdbuf EXCEPT ![t] = Nothing]
        /\ pc' = [pc EXCEPT ![t] = "r_lock"]
        /\ UNCHANGED <<tmp, branch, buff, ret>>
  /\ UNCHANGED <<mem, owner, writecount, f_pos>>

(* Mutant: _read does not take the mutex.                                  *)
ReadLockFree(t) ==
  /\ pc[t] = "r_lock"
  /\ pc' = [pc EXCEPT ![t] = "r_loop"]
  /\ UNCHANGED <<mem, owner, writecount, f_pos, p, count, i, tmp, branch, buff, room, rdbuf, ret>>

ReadLock(t) ==
  /\ pc[t] = "r_lock"
  /\ MutexLock(t)
  /\ pc' = [pc EXCEPT ![t] = "r_loop"]
  /\ UNCHANGED <<mem, writecount, f_pos, p, count, i, tmp, branch, buff, room, rdbuf, ret>>

(* copy_to_user is not atomic: one byte of it.                             *)
ReadByte(t) ==
  /\ pc[t] = "r_loop"
  /\ i[t] < Min2(count[t], room[t])
  /\ rdbuf' = [rdbuf EXCEPT ![t][i[t]] = mem[p[t] + i[t]]]
  /\ i' = [i EXCEPT ![t] = i[t] + 1]
  /\ UNCHANGED <<mem, owner, writecount, pc, f_pos, p, count, tmp, branch, buff, room, ret>>

(* Mutant: the error path returns without mutex_unlock.                    *)
ReadDoneLocked(t) ==
  /\ pc[t] = "r_loop"
  /\ i[t] = Min2(count[t], room[t])
  /\ \/ /\ i[t] < count[t]
        /\ ReturnFrom(t, EFAULT)
        /\ UNCHANGED <<f_pos, owner>>
     \/ /\ i[t] = count[t]
        /\ MutexUnlock(t)
        /\ ReturnFrom(t, count[t])
        /\ f_pos' = [f_pos EXCEPT ![t] = @ + count[t]]
  /\ UNCHANGED <<mem, writecount, rdbuf>>

(* copy_to_user returned: -EFAULT and the old position when it stopped at  *)
(* an inaccessible byte.                                                   *)
ReadDone(t) ==
  /\ pc[t] = "r_loop"
  /\ i[t] = Min2(count[t], room[t])
  /\ MutexUnlock(t)
  /\ \/ /\ i[t] < count[t]
        /\ ReturnFrom(t, EFAULT)
        /\ UNCHANGED f_pos
     \/ /\ i[t] = count[t]
        /\ ReturnFrom(t, count[t])
        /\ f_pos' = [f_pos EXCEPT ![t] = @ + count[t]]
  /\ UNCHANGED <<mem, writecount, rdbuf>>

-----------------------------------------------------------------------------
(* The steps of a call under way, after its entry.                         *)
Inside(t) ==
  \/ WriteCount(t) \/ WriteLock(t) \/ WriteByte(t) \/ WriteDone(t)
  \/ ReadLock(t) \/ ReadByte(t) \/ ReadDone(t)

(* The calls the VFS makes for user space.                                 *)
Enter(t) ==
  \/ Open(t)
  \/ Release(t)
  \/ \E offset \in Offsets, whence \in 0 .. 3 : Llseek(t, offset, whence)
  \/ \E cnt \in Counts, b \in WriteBufs : WriteEnter(t, cnt, b)
  \/ \E cnt \in Counts, r \in Rooms : ReadEnter(t, cnt, r)

Next == \E t \in Threads : Enter(t) \/ Inside(t)

Spec == Init /\ [][Next]_vars

-----------------------------------------------------------------------------
InCritical(t) == pc[t] \in {"w_loop", "r_loop"}

(* Types; in particular no position leaves 0 .. MEM_SIZE.                  *)
TypeOK ==
  /\ mem \in [Idx -> Byte]
  /\ owner \in Threads \cup {NoThread}
  /\ writecount \in Nat
  /\ pc \in [Threads -> PCs]
  /\ f_pos \in [Threads -> 0 .. MEM_SIZE]
  /\ p \in [Threads -> 0 .. MEM_SIZE]
  /\ count \in [Threads -> Nat]
  /\ i \in [Threads -> 0 .. MEM_SIZE]
  /\ tmp \in [Threads -> Nat]
  /\ branch \in [Threads -> {0, 1}]
  /\ buff \in [Threads -> [Idx -> Byte \cup {Fault}]]
  /\ room \in [Threads -> Nat]
  /\ rdbuf \in [Threads -> [Idx -> Byte \cup {None}]]
  /\ ret \in [Threads -> Int]

(* The mutex is held exactly by the thread whose call is between           *)
(* mutex_lock and mutex_unlock: so there is at most one, and every early   *)
(* return (a position past the end, a failed copy) leaves the mutex free.  *)
LockInv ==
  UseMutex =>
    /\ \A t \in Threads : InCritical(t) => owner = t
    /\ owner # NoThread => InCritical(owner)

(* A call that moves bytes stays inside the shared memory: the clamp of    *)
(* count uses the position read on entry, and no seek, however the calls   *)
(* interleave, can move the access past MEM_SIZE.                          *)
InBounds ==
  \A t \in Threads :
    /\ pc[t] \in {"w_lock", "w_loop", "r_lock", "r_loop"} =>
         /\ p[t] < MEM_SIZE
         /\ p[t] + count[t] <= MEM_SIZE
         /\ i[t] <= count[t]
    /\ pc[t] \in {"w_inc", "w_lock", "w_loop", "r_lock", "r_loop"} => p[t] = f_pos[t]
    /\ pc[t] \in {"w_inc", "w_lock", "r_lock"} => i[t] = 0

(* While a read copies under the mutex, the bytes it has delivered are     *)
(* still the bytes of the memory: no write came in between.                *)
ReadStable ==
  UseMutex =>
    \A t \in Threads :
      /\ pc[t] = "r_lock" => rdbuf[t] = Nothing
      /\ pc[t] = "r_loop" =>
           /\ i[t] <= room[t]
           /\ \A k \in Idx :
                rdbuf[t][k] = IF k < i[t] THEN mem[p[t] + k] ELSE None

-----------------------------------------------------------------------------
(* The refinement: a call takes effect when it gets the mutex.  The        *)
(* abstract memory already holds the bytes the writer inside has yet to    *)
(* copy; a reader inside already has the range it has yet to copy.         *)
AbsCells ==
  [k \in Idx |->
     IF /\ owner # NoThread
        /\ pc[owner] = "w_loop"
        /\ p[owner] + i[owner] <= k
        /\ k < p[owner] + count[owner]
     THEN CopyFromUser(buff[owner][k - p[owner]])
     ELSE mem[k]]

AbsSt ==
  [t \in Threads |->
     CASE pc[t] \in {"w_lock", "r_lock"} -> "called"
       [] pc[t] \in {"w_loop", "r_loop"} -> "applied"
       [] OTHER -> "idle"]

AbsOp ==
  [t \in Threads |->
     CASE pc[t] \in {"w_lock", "w_loop"} ->
            [kind |-> "write", p |-> p[t], count |-> count[t],
             data |-> [k \in Idx |-> CopyFromUser(buff[t][k])]]
       [] pc[t] \in {"r_lock", "r_loop"} ->
            [kind |-> "read", p |-> p[t], count |-> count[t],
             data |-> [k \in Idx |-> Zero]]
       [] OTHER ->
            [kind |-> "read", p |-> 0, count |-> 0,
             data |-> [k \in Idx |-> Zero]]]

AbsGot ==
  [t \in Threads |->
     IF pc[t] = "r_loop"
     THEN [k \in Idx |-> IF k < count[t] THEN mem[p[t] + k] ELSE None]
     ELSE rdbuf[t]]

A == INSTANCE ShareMem
       WITH cells <- AbsCells, st <- AbsSt, op <- AbsOp, got <- AbsGot, res <- ret

(* With the mutex, reads and writes of ranges are atomic: no reader gets a *)
(* mixture of two writes and no two writes mix in the memory.              *)
Linearizable == A!AbsSpec
=============================================================================
