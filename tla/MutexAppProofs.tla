--------------------------- MODULE MutexAppProofs ---------------------------
(***************************************************************************)
(* Proofs about the test program on the shared memory drivers, for any     *)
(* size of the memory and of the row the threads write.                    *)
(***************************************************************************)
EXTENDS MCMutexApp, MutexDrvProofs

Row == 0 .. RW_BUFF_SIZE - 1

(* Where in the driver each place of the thread function is, and what the  *)
(* call under way was given.                                               *)
Place(t) ==
  /\ t >= created => apc[t] = "none"
  /\ apc[t] \in {"none", "start", "dead"} => pc[t] = "closed"
  /\ apc[t] \in {"opened", "seeked"} => pc[t] = "open"
  /\ apc[t] = "seeked" => f_pos[t] = 0
  /\ apc[t] = "called" => pc[t] # "closed"
  /\ pc[t] \in {"w_inc", "w_lock", "w_loop", "r_lock", "r_loop"} =>
       apc[t] = "called" /\ p[t] = 0 /\ count[t] = RW_BUFF_SIZE
  /\ pc[t] \in {"w_inc", "w_lock", "w_loop"} => t \in Writers /\ buff[t] = [k \in Idx |-> Letter[t]]
  /\ pc[t] \in {"r_lock", "r_loop"} => t = Reader /\ room[t] = RW_BUFF_SIZE

Places ==
  /\ created \in 0 .. NUM_THREADS
  /\ apc \in [Threads -> {"none", "start", "opened", "seeked", "called", "dead"}]
  /\ \A t \in Threads : Place(t)

(* With the mutex or without, no write takes a letter away.                *)
Filled ==
  /\ \A k \in RW_BUFF_SIZE .. MEM_SIZE - 1 : mem[k] = Zero
  /\ \A t \in Threads : pc[t] = "w_loop" => \A k \in 0 .. i[t] - 1 : mem[k] # Zero
  /\ \A t \in Writers : apc[t] = "called" /\ pc[t] = "open" => \A k \in Row : mem[k] # Zero

(* With the mutex the row in the memory is of one letter, except while the *)
(* one writer that is inside overwrites it.                                *)
OneLetter ==
  UseMutex =>
    /\ (\A t \in Threads : pc[t] # "w_loop") => \A j, k \in Row : mem[j] = mem[k]
    /\ \A t \in Threads : pc[t] = "w_loop" => \A k \in 0 .. i[t] - 1 : mem[k] = Letter[t]
    /\ NoTornRead

AppInv == Inv /\ Places /\ Filled /\ OneLetter

LEMMA AppInitial == AppInit => AppInv
<1> SUFFICES ASSUME AppInit PROVE AppInv
  OBVIOUS
<1>1. Inv
  BY InvInit DEF AppInit
<1>2. \A t \in Threads : apc[t] = "none" /\ pc[t] = "closed"
  BY DEF AppInit, Init
<1>3. Places
  <2>1. apc \in [Threads -> {"none", "start", "opened", "seeked", "called", "dead"}]
    BY DEF AppInit
  <2>2. QED
    BY <1>2, <2>1, MutexAppAssumption DEF AppInit, Places, Place, NUM_THREADS
<1>4. Filled
  BY <1>2, MutexAppAssumption, MutexDrvAssumption DEF AppInit, Init, Filled, Row, Idx, Writers, NUM_THREADS
<1>5. OneLetter
  <2>1. \A j \in Row : mem[j] = Zero
    BY MutexAppAssumption, MutexDrvAssumption DEF AppInit, Init, Row, Idx
  <2>2. NoTornRead
    BY <1>2, MutexAppAssumption DEF NoTornRead, Reader, NUM_THREADS
  <2>3. QED
    BY <1>2, <2>1, <2>2 DEF OneLetter
<1>6. QED
  BY <1>1, <1>3, <1>4, <1>5 DEF AppInv

(* A step of thread t leaves the others where they are.                    *)
Alone(t) ==
  \A s \in Threads \ {t} :
    /\ apc'[s] = apc[s] /\ pc'[s] = pc[s] /\ f_pos'[s] = f_pos[s] /\ p'[s] = p[s]
    /\ count'[s] = count[s] /\ i'[s] = i[s] /\ buff'[s] = buff[s] /\ room'[s] = room[s]
    /\ rdbuf'[s] = rdbuf[s]

LEMMA PlacesKept ==
  ASSUME AppInv, NEW t \in Threads, Alone(t), created' = created, Place(t)',
         apc' \in [Threads -> {"none", "start", "opened", "seeked", "called", "dead"}]
  PROVE  Places'
<1>1. ASSUME NEW s \in Threads \ {t} PROVE Place(s)'
  <2>1. Place(s)
    BY DEF AppInv, Places
  <2>2. QED
    BY <2>1 DEF Alone, Place
<1>2. QED
  BY <1>1 DEF AppInv, Places

(* A step outside the loop of _write that does not end a call.             *)
LEMMA QuietStep ==
  ASSUME AppInv, NEW t \in Threads, Alone(t), UNCHANGED mem,
         pc[t] # "w_loop", pc'[t] # "w_loop",
         ~(apc'[t] = "called" /\ pc'[t] = "open")
  PROVE  Filled' /\ OneLetter'
<1>1. \A s \in Threads : pc'[s] = "w_loop" => pc[s] = "w_loop" /\ i'[s] = i[s]
  BY DEF Alone
<1>2. \A s \in Threads : apc'[s] = "called" /\ pc'[s] = "open" =>
         apc[s] = "called" /\ pc[s] = "open" /\ rdbuf'[s] = rdbuf[s]
  BY DEF Alone
<1>3. Writers \subseteq Threads /\ Reader \in Threads
  BY MutexAppAssumption DEF Writers, Reader, NUM_THREADS
<1>4. Filled'
  BY <1>1, <1>2, <1>3 DEF AppInv, Filled
<1>5. NoTornRead => NoTornRead'
  BY <1>2, <1>3 DEF NoTornRead
<1>6. \A s \in Threads : pc[s] = "w_loop" => pc'[s] = "w_loop"
  BY DEF Alone
<1>7. OneLetter'
  BY <1>1, <1>5, <1>6 DEF AppInv, OneLetter
<1>8. QED
  BY <1>4, <1>7

(* main.                                                                   *)
LEMMA AppPthreadCreate ==
  ASSUME AppInv, PthreadCreate
  PROVE  AppInv'
<1>1. UNCHANGED vars
  BY DEF PthreadCreate
<1>2. UNCHANGED <<mem, owner, writecount, pc, f_pos, p, count, i, tmp, branch, buff, room, rdbuf, ret>>
  BY <1>1 DEF vars
<1>3. Inv'
  BY <1>1, InvNext DEF AppInv
<1>4. CASE apc' = apc /\ created' = created
  BY <1>2, <1>3, <1>4 DEF AppInv, Places, Place, Filled, OneLetter, NoTornRead
<1>5. CASE apc' = [apc EXCEPT ![created] = "start"] /\ created' = created + 1
  <2>1. created \in Threads /\ created + 1 \in 0 .. NUM_THREADS /\ created \in Nat
    BY MutexAppAssumption DEF PthreadCreate, AppInv, Places, NUM_THREADS
  <2>2. /\ apc' \in [Threads -> {"none", "start", "opened", "seeked", "called", "dead"}]
        /\ \A s \in Threads : apc'[s] = IF s = created THEN "start" ELSE apc[s]
    BY <1>5 DEF AppInv, Places
  <2>3. apc[created] = "none" /\ pc[created] = "closed"
    BY <2>1 DEF AppInv, Places, Place
  <2>4. ASSUME NEW s \in Threads PROVE Place(s)'
    <3>1. Place(s) /\ s \in Nat
      BY MutexAppAssumption DEF AppInv, Places, NUM_THREADS
    <3>2. CASE s = created
      BY <1>2, <1>5, <2>1, <2>2, <2>3, <3>2 DEF Place
    <3>3. CASE s # created
      <4>1. s >= created + 1 => s >= created
        BY <2>1, <3>1
      <4>2. QED
        BY <1>2, <1>5, <2>2, <3>1, <3>3, <4>1 DEF Place
    <3>4. QED
      BY <3>2, <3>3
  <2>5. Places'
    BY <1>5, <2>1, <2>2, <2>4 DEF Places
  <2>6. \A s \in Threads : apc'[s] = "called" => apc[s] = "called"
    BY <2>2
  <2>7. Writers \subseteq Threads /\ Reader \in Threads
    BY MutexAppAssumption DEF Writers, Reader, NUM_THREADS
  <2>8. Filled' /\ OneLetter'
    BY <1>2, <2>6, <2>7 DEF AppInv, Filled, OneLetter, NoTornRead
  <2>9. QED
    BY <1>3, <2>5, <2>8 DEF AppInv
<1>6. QED
  BY <1>4, <1>5 DEF PthreadCreate

(* The thread function outside read and write.                             *)
LEMMA AppOutside ==
  ASSUME AppInv, NEW t \in Threads, created' = created,
         AppOpen(t) \/ AppSeek(t) \/ AppClose(t) \/ Killed(t)
  PROVE  AppInv'
<1> USE DEF AppInv
<1>1. Inv'
  <2>1. CASE UNCHANGED vars
    BY <2>1, InvNext
  <2>2. CASE Llseek(t, 0, SEEK_SET)
    BY <2>2, InvLlseek DEF SEEK_SET
  <2>3. QED
    BY <2>1, <2>2, InvOpenRelease DEF AppOpen, AppSeek, AppClose, Killed
<1>2. Place(t) /\ apc \in [Threads -> {"none", "start", "opened", "seeked", "called", "dead"}]
      /\ pc \in [Threads -> PCs] /\ f_pos \in [Threads -> 0 .. MEM_SIZE]
  BY DEF Places, Inv, TypeOK
<1>3. UNCHANGED <<mem, p, count, i, buff, room, rdbuf>>
  BY DEF AppOpen, AppSeek, AppClose, Killed, Open, Llseek, Release, vars
<1>4. /\ apc' \in [Threads -> {"none", "start", "opened", "seeked", "called", "dead"}]
      /\ Alone(t)
  <2>1. \A s \in Threads \ {t} : apc'[s] = apc[s]
    BY <1>2 DEF AppOpen, AppSeek, AppClose, Killed
  <2>2. \A s \in Threads \ {t} : pc'[s] = pc[s] /\ f_pos'[s] = f_pos[s]
    BY <1>2 DEF AppOpen, AppSeek, AppClose, Killed, Open, Llseek, Release, vars
  <2>3. QED
    BY <1>2, <1>3, <2>1, <2>2 DEF Alone, AppOpen, AppSeek, AppClose, Killed
<1>5. /\ \/ apc[t] = "start" /\ apc'[t] = "opened" /\ pc'[t] = "open"
         \/ apc[t] = "opened" /\ apc'[t] = "seeked" /\ pc'[t] = "open" /\ f_pos'[t] = 0
         \/ apc[t] # "none" /\ apc'[t] = "dead" /\ pc'[t] = "closed"
      /\ pc[t] \in {"closed", "open"}
  <2>1. CASE AppOpen(t)
    BY <1>2, <2>1 DEF AppOpen, Open, vars, Place
  <2>2. CASE AppSeek(t)
    <3>1. f_pos' = [f_pos EXCEPT ![t] = 0]
      <4>1. NewPos(t, 0, SEEK_SET) = 0
        BY DEF NewPos, SEEK_SET, SEEK_CUR, SEEK_END
      <4>2. 0 >= 0 /\ 0 <= MEM_SIZE
        BY MutexDrvAssumption
      <4>3. QED
        <5>1. f_pos' = IF SEEK_SET \in {SEEK_SET, SEEK_CUR, SEEK_END}
                             /\ NewPos(t, 0, SEEK_SET) >= 0 /\ NewPos(t, 0, SEEK_SET) <= MEM_SIZE
                       THEN [f_pos EXCEPT ![t] = NewPos(t, 0, SEEK_SET)] ELSE f_pos
          BY <2>2, Zenon DEF AppSeek, Llseek
        <5>2. QED
          BY <4>1, <4>2, <5>1, Zenon
    <3>2. pc' = pc /\ pc[t] = "open"
      BY <2>2 DEF AppSeek, Llseek
    <3>3. QED
      BY <1>2, <2>2, <3>1, <3>2 DEF AppSeek
  <2>3. CASE AppClose(t)
    BY <1>2, <2>3 DEF AppClose, Release
  <2>4. CASE Killed(t)
    BY <1>2, <2>4 DEF Killed, Release, vars
  <2>5. QED
    BY <2>1, <2>2, <2>3, <2>4
<1>6. Place(t)'
  BY <1>2, <1>5 DEF Place
<1>7. Places'
  BY <1>4, <1>6, PlacesKept
<1>8. Filled' /\ OneLetter'
  BY <1>3, <1>4, <1>5, QuietStep
<1>9. QED
  BY <1>1, <1>7, <1>8

(* The call of write or read.                                              *)
LEMMA AppCalled ==
  ASSUME AppInv, NEW t \in Threads, created' = created, AppCall(t)
  PROVE  AppInv'
<1> USE DEF AppInv
<1>1. Place(t) /\ apc[t] = "seeked" /\ pc[t] = "open" /\ f_pos[t] = 0
  BY DEF Places, Place, AppCall
<1>2. RW_BUFF_SIZE \in Nat /\ RW_BUFF_SIZE <= MEM_SIZE /\ MEM_SIZE \in Nat /\ MEM_SIZE > 0
  BY MutexAppAssumption, MutexDrvAssumption
<1>3. apc' = [apc EXCEPT ![t] = "called"] /\ UNCHANGED <<mem, f_pos>>
  BY DEF AppCall, WriteEnter, ReadEnter
<1>4. /\ apc' \in [Threads -> {"none", "start", "opened", "seeked", "called", "dead"}]
      /\ apc'[t] = "called" /\ \A s \in Threads \ {t} : apc'[s] = apc[s] /\ f_pos'[s] = f_pos[s]
  BY <1>3 DEF Places
<1>5. CASE t \in Writers /\ WriteEnter(t, RW_BUFF_SIZE, [k \in Idx |-> Letter[t]])
  <2>1. [k \in Idx |-> Letter[t]] \in [Idx -> Byte \cup {Fault}]
    BY <1>5, MutexAppAssumption
  <2>2. Inv'
    BY <1>2, <1>5, <2>1, InvWriteEnter
  <2>3. /\ pc'[t] = "w_inc" /\ p'[t] = 0 /\ count'[t] = RW_BUFF_SIZE
        /\ buff'[t] = [k \in Idx |-> Letter[t]]
    BY <1>1, <1>5 DEF WriteEnter, Inv, TypeOK
  <2>4. \A s \in Threads \ {t} :
          /\ pc'[s] = pc[s] /\ p'[s] = p[s] /\ count'[s] = count[s] /\ i'[s] = i[s]
          /\ buff'[s] = buff[s] /\ room'[s] = room[s] /\ rdbuf'[s] = rdbuf[s]
    BY <1>5 DEF WriteEnter, Inv, TypeOK
  <2>5. Alone(t)
    BY <1>4, <2>4 DEF Alone
  <2>6. Place(t)'
    BY <1>1, <1>4, <1>5, <2>3 DEF Place
  <2>7. QED
    BY <1>1, <1>3, <1>4, <2>2, <2>3, <2>5, <2>6, PlacesKept, QuietStep
<1>6. CASE t = Reader /\ ReadEnter(t, RW_BUFF_SIZE, RW_BUFF_SIZE)
  <2>1. Inv'
    BY <1>2, <1>6, InvReadEnter
  <2>2. Min2(RW_BUFF_SIZE, MEM_SIZE - 0) = RW_BUFF_SIZE /\ ~(0 >= MEM_SIZE)
    BY <1>2 DEF Min2
  <2>3. /\ p' = [p EXCEPT ![t] = f_pos[t]]
        /\ count' = [count EXCEPT ![t] = Min2(RW_BUFF_SIZE, MEM_SIZE - f_pos[t])]
        /\ room' = [room EXCEPT ![t] = RW_BUFF_SIZE]
        /\ pc' = [pc EXCEPT ![t] = "r_lock"]
        /\ i' = [i EXCEPT ![t] = 0] /\ rdbuf' = [rdbuf EXCEPT ![t] = Nothing] /\ UNCHANGED buff
    BY <1>1, <1>6, <2>2 DEF ReadEnter
  <2>4. pc'[t] = "r_lock" /\ p'[t] = 0 /\ count'[t] = RW_BUFF_SIZE /\ room'[t] = RW_BUFF_SIZE
    BY <1>1, <2>2, <2>3 DEF Inv, TypeOK
  <2>5. Alone(t)
    BY <1>4, <2>3 DEF Alone, Inv, TypeOK
  <2>6. Place(t)'
    BY <1>1, <1>4, <1>6, <2>4 DEF Place
  <2>7. QED
    BY <1>1, <1>3, <1>4, <2>1, <2>4, <2>5, <2>6, PlacesKept, QuietStep
<1>7. QED
  BY <1>5, <1>6 DEF AppCall

(* Steps of the driver before and between the bytes.                       *)
LEMMA AppQuietInside ==
  ASSUME AppInv, NEW t \in Threads, UNCHANGED <<created, apc>>,
         WriteCount(t) \/ ReadLock(t) \/ ReadByte(t)
  PROVE  AppInv'
<1> USE DEF AppInv
<1>1. Inv'
  BY InvInside DEF Inside
<1>2. Place(t) /\ pc[t] \in {"w_inc", "r_lock", "r_loop"} /\ apc[t] = "called"
  BY DEF Places, Place, WriteCount, ReadLock, ReadByte
<1>3. UNCHANGED <<mem, p, buff, room, f_pos>> /\ pc' = [pc EXCEPT ![t] = pc'[t]]
      /\ \/ pc[t] = "w_inc" /\ pc'[t] = "w_lock"
         \/ pc[t] \in {"r_lock", "r_loop"} /\ pc'[t] = "r_loop"
  <2>1. CASE WriteCount(t)
    <3>1. ~(p[t] >= MEM_SIZE)
      BY <1>2, <2>1, MutexDrvAssumption DEF Place, WriteCount
    <3>2. QED
      BY <2>1, <3>1 DEF WriteCount, Inv, TypeOK
  <2>2. CASE ReadLock(t) \/ ReadByte(t)
    BY <2>2 DEF ReadLock, ReadByte, Inv, TypeOK
  <2>3. QED
    BY <2>1, <2>2
<1>4. count'[t] = count[t]
  <2>1. CASE WriteCount(t)
    <3>1. p[t] = 0 /\ count[t] = RW_BUFF_SIZE
      BY <1>2, <2>1 DEF Place, WriteCount
    <3>2. Min2(RW_BUFF_SIZE, MEM_SIZE - 0) = RW_BUFF_SIZE /\ ~(0 >= MEM_SIZE)
      BY MutexAppAssumption, MutexDrvAssumption DEF Min2
    <3>3. count' = [count EXCEPT ![t] = Min2(count[t], MEM_SIZE - p[t])]
      BY <2>1, <3>1, <3>2 DEF WriteCount
    <3>4. QED
      BY <3>1, <3>2, <3>3 DEF Inv, TypeOK
  <2>2. CASE ReadLock(t) \/ ReadByte(t)
    BY <2>2 DEF ReadLock, ReadByte
  <2>3. QED
    BY <2>1, <2>2
<1>5. Alone(t)
  <2>1. \A s \in Threads \ {t} : count'[s] = count[s] /\ i'[s] = i[s] /\ rdbuf'[s] = rdbuf[s]
    <3>1. CASE WriteCount(t)
      <4>1. ~(p[t] >= MEM_SIZE)
        BY <1>2, <3>1, MutexDrvAssumption DEF Place, WriteCount
      <4>2. QED
        BY <3>1, <4>1 DEF WriteCount, Inv, TypeOK
    <3>2. CASE ReadLock(t) \/ ReadByte(t)
      BY <3>2 DEF ReadLock, ReadByte, Inv, TypeOK
    <3>3. QED
      BY <3>1, <3>2
  <2>2. \A s \in Threads \ {t} : pc'[s] = pc[s]
    BY <1>3 DEF Inv, TypeOK
  <2>3. QED
    BY <1>3, <2>1, <2>2 DEF Alone
<1>6. Place(t)'
  BY <1>2, <1>3, <1>4 DEF Place
<1>7. Places'
  BY <1>5, <1>6, PlacesKept DEF Places
<1>8. Filled' /\ OneLetter'
  BY <1>3, <1>5, QuietStep
<1>9. QED
  BY <1>1, <1>7, <1>8

(* The writer enters its loop: with the mutex, nobody else is in his.      *)
LEMMA AppWriteLock ==
  ASSUME AppInv, NEW t \in Threads, UNCHANGED <<created, apc>>, WriteLock(t)
  PROVE  AppInv'
<1> USE DEF AppInv
<1>1. Inv'
  BY InvInside DEF Inside
<1>2. /\ Place(t) /\ pc[t] = "w_lock" /\ i[t] = 0
      /\ UNCHANGED <<mem, p, count, i, buff, room, f_pos, rdbuf>>
      /\ \A s \in Threads : pc'[s] = IF s = t THEN "w_loop" ELSE pc[s]
  BY DEF Places, WriteLock, Inv, InBounds, TypeOK
<1>3. Alone(t)
  BY <1>2 DEF Alone
<1>4. Place(t)'
  BY <1>2 DEF Place
<1>5. Places'
  BY <1>3, <1>4, PlacesKept DEF Places
<1>6. Filled'
  BY <1>2, MutexAppAssumption DEF Filled, Writers, NUM_THREADS
<1>7. OneLetter'
  <2>1. NoTornRead => NoTornRead'
    BY <1>2, MutexAppAssumption DEF NoTornRead, Reader, NUM_THREADS
  <2>2. \A s \in Threads : pc'[s] = "w_loop" => \A k \in 0 .. i'[s] - 1 : s # t /\ pc[s] = "w_loop" /\ i'[s] = i[s]
    BY <1>2
  <2>3. QED
    BY <1>2, <2>1, <2>2 DEF OneLetter
<1>8. QED
  BY <1>1, <1>5, <1>6, <1>7

LEMMA AppWriteByte ==
  ASSUME AppInv, NEW t \in Threads, UNCHANGED <<created, apc>>, WriteByte(t)
  PROVE  AppInv'
<1> USE DEF AppInv
<1>1. Inv'
  BY InvInside DEF Inside
<1>2. /\ Place(t) /\ pc[t] = "w_loop" /\ t \in Writers /\ p[t] = 0 /\ count[t] = RW_BUFF_SIZE
      /\ UNCHANGED <<pc, p, count, buff, room, f_pos, rdbuf>>
      /\ \A s \in Threads : i'[s] = IF s = t THEN i[s] + 1 ELSE i[s]
  BY DEF Places, Place, WriteByte, Inv, TypeOK
<1>3. i[t] \in Row /\ i[t] \in Nat /\ i[t] \in Idx
  <2>1. i[t] \in 0 .. MEM_SIZE /\ i[t] < RW_BUFF_SIZE
    BY <1>2 DEF WriteByte, Inv, TypeOK
  <2>2. RW_BUFF_SIZE \in Nat /\ RW_BUFF_SIZE <= MEM_SIZE /\ MEM_SIZE \in Nat
    BY MutexAppAssumption, MutexDrvAssumption
  <2>3. QED
    BY <2>1, <2>2 DEF Row, Idx
<1>4. \A k \in Idx : mem'[k] = IF k = i[t] THEN Letter[t] ELSE mem[k]
  <2>1. buff[t][i[t]] = Letter[t] /\ Letter[t] # Fault
    BY <1>2, <1>3, MutexAppAssumption, MutexDrvAssumption DEF Place
  <2>2. CopyFromUser(buff[t][i[t]]) = Letter[t]
    BY <2>1 DEF CopyFromUser
  <2>3. p[t] + i[t] = i[t]
    BY <1>2, <1>3
  <2>4. mem' = [mem EXCEPT ![i[t]] = Letter[t]]
    BY <2>2, <2>3 DEF WriteByte
  <2>5. QED
    BY <2>4 DEF Inv, TypeOK
<1>5. Letter[t] # Zero
  BY <1>2, MutexAppAssumption
<1>6. Row \subseteq Idx /\ \A s \in Threads : \A k \in 0 .. i[s] - 1 : k \in Idx
  <2>1. Row \subseteq Idx
    BY MutexAppAssumption, MutexDrvAssumption DEF Row, Idx
  <2>2. \A s \in Threads : i[s] \in 0 .. MEM_SIZE
    BY DEF Inv, TypeOK
  <2>3. QED
    BY <2>1, <2>2, MutexDrvAssumption DEF Idx
<1>7. Alone(t)
  BY <1>2 DEF Alone
<1>8. Place(t)'
  BY <1>2 DEF Place
<1>9. Places'
  BY <1>7, <1>8, PlacesKept DEF Places
<1>10. \A k \in Idx : mem[k] # Zero => mem'[k] # Zero
  BY <1>4, <1>5
<1>11. Filled'
  <2>1. \A k \in RW_BUFF_SIZE .. MEM_SIZE - 1 : mem'[k] = Zero
    <3>1. ASSUME NEW k \in RW_BUFF_SIZE .. MEM_SIZE - 1 PROVE k \in Idx /\ k # i[t]
      BY <1>3, MutexAppAssumption, MutexDrvAssumption DEF Row, Idx
    <3>2. QED
      BY <1>4, <3>1 DEF Filled
  <2>2. ASSUME NEW s \in Threads, pc'[s] = "w_loop", NEW k \in 0 .. i'[s] - 1
        PROVE  mem'[k] # Zero
    <3>1. CASE s = t /\ k = i[t]
      BY <1>3, <1>4, <1>5, <3>1
    <3>2. CASE ~(s = t /\ k = i[t])
      <4>1. k \in 0 .. i[s] - 1
        BY <1>2, <1>3, <2>2, <3>2
      <4>2. QED
        BY <1>2, <1>6, <1>10, <2>2, <4>1 DEF Filled
    <3>3. QED
      BY <3>1, <3>2
  <2>3. \A s \in Writers : apc'[s] = "called" /\ pc'[s] = "open" => \A k \in Row : mem'[k] # Zero
    BY <1>2, <1>6, <1>10 DEF Filled
  <2>4. QED
    BY <2>1, <2>2, <2>3 DEF Filled
<1>12. OneLetter'
  <2>1. SUFFICES ASSUME UseMutex PROVE OneLetter'
    BY DEF OneLetter
  <2>2. \A s \in Threads : pc[s] = "w_loop" => s = t
    BY <1>2, <2>1 DEF Inv, LockInv, InCritical
  <2>3. \A k \in 0 .. i'[t] - 1 : mem'[k] = Letter[t]
    <3>1. TAKE k \in 0 .. i'[t] - 1
    <3>2. CASE k = i[t]
      BY <1>3, <1>4, <3>2
    <3>3. CASE k # i[t]
      <4>1. k \in 0 .. i[t] - 1
        BY <1>2, <1>3, <3>3
      <4>2. QED
        BY <1>2, <1>4, <1>6, <2>1, <3>3, <4>1 DEF OneLetter
    <3>4. QED
      BY <3>2, <3>3
  <2>4. NoTornRead'
    BY <1>2, <2>1 DEF OneLetter, NoTornRead
  <2>5. QED
    BY <1>2, <2>2, <2>3, <2>4 DEF OneLetter
<1>13. QED
  BY <1>1, <1>9, <1>11, <1>12

LEMMA AppWriteDone ==
  ASSUME AppInv, NEW t \in Threads, UNCHANGED <<created, apc>>, WriteDone(t)
  PROVE  AppInv'
<1> USE DEF AppInv
<1>1. Inv'
  BY InvInside DEF Inside
<1>2. /\ Place(t) /\ pc[t] = "w_loop" /\ t \in Writers /\ count[t] = RW_BUFF_SIZE
      /\ i[t] = count[t] /\ apc[t] = "called" /\ UNCHANGED <<mem, rdbuf>>
  BY DEF Places, Place, WriteDone
<1>3. pc'[t] = "open" /\ Alone(t)
  BY DEF WriteDone, ReturnFrom, Alone, Inv, TypeOK
<1>4. Place(t)'
  BY <1>2, <1>3 DEF Place
<1>5. Places'
  BY <1>3, <1>4, PlacesKept DEF Places
<1>6. \A s \in Threads : pc'[s] = "w_loop" => pc[s] = "w_loop" /\ i'[s] = i[s] /\ s # t
  BY <1>3 DEF Alone
<1>7. Writers \subseteq Threads /\ Reader \in Threads /\ Reader \notin Writers
  BY MutexAppAssumption DEF Writers, Reader, NUM_THREADS
<1>8. Filled'
  <2>1. \A k \in Row : mem[k] # Zero
    BY <1>2 DEF Filled, Row
  <2>2. \A s \in Threads \ {t} : pc'[s] = pc[s] /\ apc'[s] = apc[s]
    BY <1>3 DEF Alone
  <2>3. QED
    BY <1>2, <1>6, <1>7, <2>1, <2>2 DEF Filled
<1>9. OneLetter'
  <2>1. SUFFICES ASSUME UseMutex PROVE OneLetter'
    BY DEF OneLetter
  <2>2. \A k \in Row : mem'[k] = Letter[t]
    BY <1>2, <2>1 DEF OneLetter, Row
  <2>3. NoTornRead'
    BY <1>2, <1>3, <1>7, <2>1 DEF OneLetter, NoTornRead, Alone
  <2>4. QED
    BY <1>2, <1>6, <2>1, <2>2, <2>3 DEF OneLetter
<1>10. QED
  BY <1>1, <1>5, <1>8, <1>9

(* The reader has copied the whole row while no writer was in its loop.    *)
LEMMA AppReadDone ==
  ASSUME AppInv, NEW t \in Threads, UNCHANGED <<created, apc>>, ReadDone(t)
  PROVE  AppInv'
<1> USE DEF AppInv
<1>1. Inv'
  BY InvInside DEF Inside
<1>2. /\ Place(t) /\ pc[t] = "r_loop" /\ t = Reader /\ apc[t] = "called" /\ p[t] = 0
      /\ count[t] = RW_BUFF_SIZE /\ room[t] = RW_BUFF_SIZE /\ UNCHANGED <<mem, rdbuf>>
  BY DEF Places, Place, ReadDone
<1>3. i[t] = RW_BUFF_SIZE
  <2>1. Min2(RW_BUFF_SIZE, RW_BUFF_SIZE) = RW_BUFF_SIZE
    BY DEF Min2
  <2>2. QED
    BY <1>2, <2>1 DEF ReadDone
<1>4. pc'[t] = "open" /\ Alone(t)
  BY DEF ReadDone, ReturnFrom, Alone, Inv, TypeOK
<1>5. Place(t)'
  BY <1>2, <1>4 DEF Place
<1>6. Places'
  BY <1>4, <1>5, PlacesKept DEF Places
<1>7. \A s \in Threads : pc'[s] = "w_loop" <=> pc[s] = "w_loop"
  BY <1>2, <1>4 DEF Alone
<1>8. \A s \in Threads \ {t} : i'[s] = i[s] /\ pc'[s] = pc[s]
  BY <1>4 DEF Alone
<1>9. Writers \subseteq Threads /\ t \notin Writers
  BY <1>2, MutexAppAssumption DEF Writers, Reader, NUM_THREADS
<1>10. Filled'
  BY <1>2, <1>7, <1>8, <1>9 DEF Filled
<1>11. OneLetter'
  <2>1. SUFFICES ASSUME UseMutex PROVE OneLetter'
    BY DEF OneLetter
  <2>2. \A s \in Threads : pc[s] # "w_loop"
    BY <1>2, <2>1 DEF Inv, LockInv, InCritical
  <2>3. \A j, k \in Row : mem[j] = mem[k]
    BY <2>1, <2>2 DEF OneLetter
  <2>4. \A k \in Row : k \in Idx /\ 0 + k = k /\ k < i[t]
    BY <1>3, MutexAppAssumption, MutexDrvAssumption DEF Row, Idx
  <2>5. \A k \in Row : rdbuf[t][k] = mem[k]
    BY <1>2, <2>1, <2>4 DEF Inv, ReadStable
  <2>6. \A k \in Row : mem[k] # None
    BY <2>4, MutexDrvAssumption DEF Inv, TypeOK
  <2>7. NoTornRead'
    BY <1>2, <2>3, <2>5, <2>6 DEF NoTornRead, Row
  <2>8. QED
    BY <1>2, <1>7, <2>2, <2>3, <2>7 DEF OneLetter
<1>12. QED
  BY <1>1, <1>6, <1>10, <1>11

LEMMA AppStepKeeps == AppInv /\ [AppNext]_allVars => AppInv'
<1> SUFFICES ASSUME AppInv, [AppNext]_allVars PROVE AppInv'
  OBVIOUS
<1>1. CASE UNCHANGED allVars
  <2>1. UNCHANGED vars /\ UNCHANGED <<created, apc>>
    BY <1>1 DEF allVars, appVars
  <2>2. Inv'
    BY <2>1, InvNext DEF AppInv
  <2>3. QED
    BY <2>1, <2>2 DEF AppInv, vars, Places, Place, Filled, OneLetter, NoTornRead
<1>2. ASSUME NEW t \in Threads, AppThread(t) PROVE AppInv'
  <2>1. created' = created
    BY <1>2 DEF AppThread
  <2>2. CASE Inside(t) /\ UNCHANGED apc
    BY <2>1, <2>2, AppQuietInside, AppWriteLock, AppWriteByte, AppWriteDone, AppReadDone DEF Inside
  <2>3. QED
    BY <1>2, <2>1, <2>2, AppOutside, AppCalled DEF AppThread
<1>3. QED
  BY <1>1, <1>2, AppPthreadCreate DEF AppNext, Done

(* What app.c of 03-fileOperate/mutex leaves in the memory, on either      *)
(* driver: once a write has returned every byte of the row has a letter,   *)
(* and nobody has written behind the row.                                  *)
THEOREM RowIsWritten == AppSpec => []EveryCellWritten
<1>1. AppInv => EveryCellWritten
  <2>1. Writers \subseteq Threads
    BY MutexAppAssumption DEF Writers, NUM_THREADS
  <2>2. QED
    BY <2>1 DEF AppInv, Filled, EveryCellWritten, Row
<1>2. QED
  BY <1>1, AppInitial, AppStepKeeps, PTL DEF AppSpec

(* With mutex_lock in _read and _write, the reader of app.c prints a row   *)
(* of one letter, or of what was there before the first write, and never   *)
(* the mixture the readme of unuseMutex shows.                             *)
THEOREM RowIsNotTorn ==
  ASSUME UseMutex
  PROVE  MCSpec => []NoTornReadWithMutex
<1> DEFINE Q == driver = "useMutex" => AppInv
<1>1. MCInit => Q
  BY AppInitial DEF MCInit
<1>2. Q /\ [MCNext]_<<allVars, driver>> => Q'
  <2>1. SUFFICES ASSUME Q, [MCNext]_<<allVars, driver>>, driver' = "useMutex"
                 PROVE  AppInv'
    OBVIOUS
  <2>2. driver = "useMutex" /\ [AppNext]_allVars
    BY <2>1 DEF MCNext
  <2>3. QED
    BY <2>1, <2>2, AppStepKeeps
<1>3. Q => NoTornReadWithMutex
  BY DEF AppInv, OneLetter, NoTornReadWithMutex
<1>4. QED
  BY <1>1, <1>2, <1>3, PTL DEF MCSpec
===========================
