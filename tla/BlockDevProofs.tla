--------------------------- MODULE BlockDevProofs ---------------------------
(***************************************************************************)
(* Proofs about BlockDev, for any capacity, any requests however they are  *)
(* cut into segments, and any number of submitters.                        *)
(***************************************************************************)
EXTENDS BlockDev, SequenceTheorems, TLAPS

-----------------------------------------------------------------------------
(* What simp_blkdev_init has allocated and simp_blkdev_exit not released.  *)
Allocated ==
  /\ mod = "out" => held = {}
  /\ mod \in {"queue", "put"} => held = {"queue"}
  /\ mod \in {"disk", "live", "deleted"} => held = {"queue", "disk"}

(* One request at a time is carried out, on a device that is there.        *)
OneCurrent ==
  /\ \A s \in Procs : rst[s] # "idle" => mod = "live"
  /\ cur # NoProc => rst[cur] = "current"
  /\ \A s \in Procs : Current(s) => cur = s

(* Nothing of a queued request has moved.  Of the request that is carried  *)
(* out the segments that have ended have moved, and a read has found the   *)
(* sectors as they still are.                                              *)
Waiting(s) ==
  rst[s] = "queued" => seg[s] = 0 /\ done[s] = 0 /\ buf[s] = Unread

Moving(s) ==
  Current(s) =>
    /\ ~BadRequest(s)
    /\ seg[s] < Len(rq[s].ends)
    /\ done[s] = IF seg[s] = 0 THEN 0 ELSE rq[s].ends[seg[s]]
    /\ rq[s].dir = "WRITE" => buf[s] = Unread
    /\ rq[s].dir = "READ" =>
         \A k \in 0 .. MaxLen - 1 :
           buf[s][k] = IF k < done[s] THEN data[rq[s].pos + k] ELSE None

BlockDevInv ==
  /\ TypeOK /\ Allocated /\ OneCurrent
  /\ \A s \in Procs : Waiting(s) /\ Moving(s)

-----------------------------------------------------------------------------
(* A request is cut into segments that end one behind the other, the last  *)
(* where the request ends.                                                 *)
LEMMA RequestFacts ==
  ASSUME NEW r \in Requests
  PROVE  /\ r.dir \in {"READ", "WRITE"} /\ r.pos \in Nat /\ r.len \in 1 .. MaxLen
         /\ r.data \in [0 .. MaxLen - 1 -> Sector]
         /\ Len(r.ends) \in Nat \ {0} /\ r.ends[Len(r.ends)] = r.len
         /\ MaxLen \in Nat /\ N \in Nat
         /\ \A j \in 1 .. Len(r.ends) :
              r.ends[j] \in 1 .. MaxLen /\ r.ends[j] <= r.len
         /\ \A i, j \in 1 .. Len(r.ends) : i < j => r.ends[i] < r.ends[j]
<1>1. r.ends \in Seq(1 .. MaxLen) /\ r.ends # <<>>
  BY BlockDevAssumption
<1>2. Len(r.ends) \in Nat \ {0} /\ \A j \in 1 .. Len(r.ends) : r.ends[j] \in 1 .. MaxLen
  <2>1. Len(r.ends) \in Nat /\ \A j \in 1 .. Len(r.ends) : r.ends[j] \in 1 .. MaxLen
    BY <1>1, LenProperties, ElementOfSeq
  <2>2. Len(r.ends) # 0
    BY <1>1, EmptySeq
  <2>3. QED
    BY <2>1, <2>2
<1>3. r.len \in 1 .. MaxLen /\ r.ends[Len(r.ends)] = r.len /\ MaxLen \in Nat
  BY BlockDevAssumption
<1>4. \A i, j \in 1 .. Len(r.ends) : i < j => r.ends[i] < r.ends[j]
  BY BlockDevAssumption
<1>5. ASSUME NEW j \in 1 .. Len(r.ends) PROVE r.ends[j] <= r.len
  <2>1. CASE j = Len(r.ends)
    BY <1>3, <2>1
  <2>2. CASE j < Len(r.ends)
    <3>1. Len(r.ends) \in 1 .. Len(r.ends)
      BY <1>2
    <3>2. r.ends[j] < r.ends[Len(r.ends)]
      BY <1>4, <2>2, <3>1
    <3>3. QED
      BY <1>2, <1>3, <3>2
  <2>3. QED
    BY <1>2, <2>1, <2>2
<1>6. QED
  BY <1>2, <1>3, <1>4, <1>5, BlockDevAssumption

(* The current segment of the request that is carried out.                 *)
LEMMA SegmentFacts ==
  ASSUME BlockDevInv, NEW s \in Procs, Current(s)
  PROVE  /\ rq[s] \in Requests
         /\ rq[s].pos + rq[s].len <= N
         /\ seg[s] \in Nat /\ seg[s] + 1 \in 1 .. Len(rq[s].ends)
         /\ done[s] \in 0 .. MaxLen
         /\ SegEnd(s) \in 1 .. MaxLen /\ SegEnd(s) <= rq[s].len
         /\ done[s] < SegEnd(s)
         /\ ~SegmentsLeft(s) => SegEnd(s) = rq[s].len
<1>1. rq[s] \in Requests /\ seg[s] \in Nat /\ done[s] \in 0 .. MaxLen
  BY DEF BlockDevInv, TypeOK
<1>2. /\ ~BadRequest(s) /\ seg[s] < Len(rq[s].ends)
      /\ done[s] = IF seg[s] = 0 THEN 0 ELSE rq[s].ends[seg[s]]
  BY DEF BlockDevInv, Moving
<1>3. seg[s] + 1 \in 1 .. Len(rq[s].ends)
  BY <1>1, <1>2, RequestFacts
<1>4. SegEnd(s) \in 1 .. MaxLen /\ SegEnd(s) <= rq[s].len
  BY <1>1, <1>3, RequestFacts DEF SegEnd
<1>5. done[s] < SegEnd(s)
  <2>1. CASE seg[s] = 0
    BY <1>2, <1>4, <2>1
  <2>2. CASE seg[s] # 0
    <3>1. seg[s] \in 1 .. Len(rq[s].ends) /\ seg[s] < seg[s] + 1
      BY <1>1, <1>3, <2>2, RequestFacts
    <3>2. rq[s].ends[seg[s]] < rq[s].ends[seg[s] + 1]
      BY <1>1, <1>3, <3>1, RequestFacts
    <3>3. QED
      BY <1>2, <2>2, <3>2 DEF SegEnd
  <2>3. QED
    BY <2>1, <2>2
<1>6. ~SegmentsLeft(s) => SegEnd(s) = rq[s].len
  BY <1>1, <1>3, RequestFacts DEF SegmentsLeft, SegEnd
<1>7. rq[s].pos + rq[s].len <= N
  BY <1>1, <1>2, RequestFacts DEF BadRequest
<1>8. QED
  BY <1>1, <1>3, <1>4, <1>5, <1>6, <1>7

-----------------------------------------------------------------------------
LEMMA BlockDevInitial == Init => BlockDevInv
<1> SUFFICES ASSUME Init PROVE BlockDevInv
  OBVIOUS
<1>1. (CHOOSE r \in Requests : TRUE) \in Requests
  BY BlockDevAssumption
<1>2. Zeroed \in [0 .. N - 1 -> Sector]
  BY BlockDevAssumption DEF Zeroed
<1>3. Unread \in [0 .. MaxLen - 1 -> Sector \cup {None}]
  BY DEF Unread
<1>4. TypeOK
  BY <1>1, <1>2, <1>3, BlockDevAssumption DEF Init, TypeOK
<1>5. Allocated /\ OneCurrent
  BY DEF Init, Allocated, OneCurrent, Current
<1>6. \A s \in Procs : Waiting(s) /\ Moving(s)
  BY DEF Init, Waiting, Moving, Current
<1>7. QED
  BY <1>4, <1>5, <1>6 DEF BlockDevInv

(* simp_blkdev_init and simp_blkdev_exit: no request is there.             *)
LEMMA InvLoad ==
  ASSUME BlockDevInv, Load \/ Unload
  PROVE  BlockDevInv'
<1> USE DEF BlockDevInv
<1>1. /\ UNCHANGED <<cur, rst, rq, seg, done, buf>>
      /\ data' = data \/ (mod = "out" /\ data' = Zeroed)
  BY DEF Load, Unload, InitQueue, AllocDisk, AddDisk, DelDisk, PutDisk, CleanupQueue, ioVars
<1>2. Zeroed \in [0 .. N - 1 -> Sector]
  BY BlockDevAssumption DEF Zeroed
<1>3. \A s \in Procs : rst[s] = "idle"
  <2>1. mod # "live" \/ DelDisk
    BY DEF Load, Unload, InitQueue, AllocDisk, AddDisk, PutDisk, CleanupQueue
  <2>2. QED
    BY <2>1 DEF DelDisk, OneCurrent
<1>4. /\ mod' \in {"out", "queue", "disk", "live", "deleted", "put"}
      /\ held' \subseteq {"queue", "disk"}
      /\ Allocated'
  BY DEF TypeOK, Allocated, Load, Unload, InitQueue, AllocDisk, AddDisk, DelDisk, PutDisk,
         CleanupQueue
<1>5. TypeOK'
  BY <1>1, <1>2, <1>4 DEF TypeOK
<1>6. OneCurrent'
  BY <1>1, <1>3 DEF OneCurrent, Current
<1>7. \A s \in Procs : Waiting(s)' /\ Moving(s)'
  BY <1>1, <1>3 DEF Waiting, Moving, Current
<1>8. QED
  BY <1>4, <1>5, <1>6, <1>7

LEMMA InvSubmit ==
  ASSUME BlockDevInv, NEW s \in Procs, NEW r \in Requests, Submit(s, r)
  PROVE  BlockDevInv'
<1> USE DEF BlockDevInv
<1>1. Unread \in [0 .. MaxLen - 1 -> Sector \cup {None}]
  BY DEF Unread
<1>2. TypeOK'
  BY <1>1, BlockDevAssumption DEF TypeOK, Submit
<1>3. Allocated' /\ OneCurrent'
  BY DEF TypeOK, Submit, Allocated, OneCurrent, Current
<1>4. ASSUME NEW p \in Procs PROVE Waiting(p)' /\ Moving(p)'
  <2>1. ~Current(p) /\ rst'[p] # "current"
    BY BlockDevAssumption DEF Submit, OneCurrent, Current, TypeOK
  <2>2. Waiting(p)'
    BY DEF Submit, Waiting, TypeOK
  <2>3. QED
    BY <2>1, <2>2 DEF Moving, Current
<1>5. QED
  BY <1>2, <1>3, <1>4

LEMMA InvFetch ==
  ASSUME BlockDevInv, NEW s \in Procs, Fetch(s)
  PROVE  BlockDevInv'
<1> USE DEF BlockDevInv
<1>1. TypeOK'
  BY DEF TypeOK, Fetch
<1>2. Allocated' /\ OneCurrent'
  BY BlockDevAssumption DEF TypeOK, Fetch, Allocated, OneCurrent, Current
<1>3. ASSUME NEW p \in Procs PROVE Waiting(p)' /\ Moving(p)'
  <2>1. Waiting(p)'
    BY DEF Fetch, Waiting, TypeOK
  <2>2. CASE p # s
    BY <2>1, <2>2, BlockDevAssumption DEF Fetch, OneCurrent, Current, Moving, TypeOK
  <2>3. CASE p = s
    <3>1. rq[s] \in Requests /\ seg[s] = 0 /\ done[s] = 0 /\ buf[s] = Unread
      BY DEF Fetch, Waiting, TypeOK
    <3>2. UNCHANGED <<data, rq, seg, done, buf>> /\ ~BadRequest(s)
      BY DEF Fetch
    <3>3. seg[s] < Len(rq[s].ends)
      BY <3>1, RequestFacts
    <3>4. \A k \in 0 .. MaxLen - 1 :
            buf[s][k] = IF k < done[s] THEN data[rq[s].pos + k] ELSE None
      BY <3>1 DEF Unread
    <3>5. QED
      BY <2>1, <2>3, <3>1, <3>2, <3>3, <3>4 DEF Moving, BadRequest
  <2>4. QED
    BY <2>2, <2>3
<1>4. QED
  BY <1>1, <1>2, <1>3

LEMMA InvFetchBad ==
  ASSUME BlockDevInv, NEW s \in Procs, FetchBad(s)
  PROVE  BlockDevInv'
<1> USE DEF BlockDevInv
<1>1. rq[s] \in Requests /\ seg[s] = 0
  BY DEF FetchBad, Waiting, TypeOK
<1>2. rq[s].ends[seg[s] + 1] \in 0 .. MaxLen
  BY <1>1, RequestFacts
<1>3. TypeOK'
  BY <1>2 DEF TypeOK, FetchBad, EndRequestCur
<1>4. Allocated' /\ OneCurrent'
  BY DEF TypeOK, FetchBad, EndRequestCur, Allocated, OneCurrent, Current
<1>5. ASSUME NEW p \in Procs PROVE Waiting(p)' /\ Moving(p)'
  <2>1. rst'[p] # "current"
    BY BlockDevAssumption DEF FetchBad, OneCurrent, Current, TypeOK
  <2>2. Waiting(p)'
    BY DEF FetchBad, EndRequestCur, Waiting, TypeOK
  <2>3. QED
    BY <2>1, <2>2 DEF Moving, Current
<1>6. QED
  BY <1>3, <1>4, <1>5

LEMMA InvComplete ==
  ASSUME BlockDevInv, NEW s \in Procs, Complete(s)
  PROVE  BlockDevInv'
<1> USE DEF BlockDevInv
<1>1. TypeOK'
  BY DEF TypeOK, Complete
<1>2. Allocated' /\ OneCurrent'
  BY DEF TypeOK, Complete, Allocated, OneCurrent, Current
<1>3. \A p \in Procs : Waiting(p)' /\ Moving(p)'
  BY DEF TypeOK, Complete, Waiting, Moving, Current, BadRequest
<1>4. QED
  BY <1>1, <1>2, <1>3

(* A sector of the disk and its place in the data of the request.          *)
LEMMA InRequest ==
  ASSUME NEW p \in Nat, NEW k \in Int, NEW d \in Nat, NEW e \in Nat, NEW m \in Nat,
         p + d <= k, k < p + e, e <= m
  PROVE  k - p \in 0 .. m - 1
OBVIOUS

LEMMA InDisk ==
  ASSUME NEW p \in Nat, NEW k \in Nat, NEW e \in Nat, NEW l \in Nat, NEW n \in Nat,
         k < e, e <= l, p + l <= n
  PROVE  p + k \in 0 .. n - 1
OBVIOUS

(* One segment moves: it extends the part of a read that is there, and     *)
(* writes inside the disk.                                                 *)
LEMMA InvTransfer ==
  ASSUME BlockDevInv, NEW s \in Procs, Transfer(s)
  PROVE  BlockDevInv'
<1> USE DEF BlockDevInv
<1>1. Current(s) /\ cur = s
  BY BlockDevAssumption DEF Transfer, OneCurrent, Current
<1> DEFINE r == rq[s]
<1>2. /\ r \in Requests /\ r.pos + r.len <= N
      /\ seg[s] \in Nat /\ seg[s] + 1 \in 1 .. Len(r.ends)
      /\ done[s] \in 0 .. MaxLen /\ SegEnd(s) \in 1 .. MaxLen /\ SegEnd(s) <= r.len
      /\ done[s] < SegEnd(s)
  BY <1>1, SegmentFacts
<1>3. /\ seg' = [seg EXCEPT ![s] = seg[s] + 1]
      /\ done' = [done EXCEPT ![s] = SegEnd(s)]
      /\ UNCHANGED <<mod, held, rq>>
      /\ \/ SegmentsLeft(s) /\ UNCHANGED <<cur, rst>>
         \/ ~SegmentsLeft(s) /\ cur' = NoProc /\ rst' = [rst EXCEPT ![s] = "ended"]
  BY DEF Transfer, EndRequestCur, SegEnd
<1>4. \/ r.dir = "READ" /\ MemcpyRead(s) /\ UNCHANGED data
      \/ r.dir = "WRITE" /\ MemcpyWrite(s) /\ UNCHANGED buf
  BY DEF Transfer
<1>5. /\ r.pos \in Nat /\ r.len \in 1 .. MaxLen /\ r.data \in [0 .. MaxLen - 1 -> Sector]
      /\ N \in Nat /\ MaxLen \in Nat /\ Len(r.ends) \in Nat
  BY <1>2, RequestFacts
<1>6. data' \in [0 .. N - 1 -> Sector]
  <2>1. CASE UNCHANGED data
    BY <2>1 DEF TypeOK
  <2>2. CASE MemcpyWrite(s)
    <3>1. ASSUME NEW k \in 0 .. N - 1, r.pos + done[s] <= k, k < r.pos + SegEnd(s)
          PROVE  r.data[k - r.pos] \in Sector
      <4>1. /\ k \in Int /\ done[s] \in Nat
            /\ SegEnd(s) \in Nat /\ SegEnd(s) <= MaxLen
        BY <1>2, <1>5
      <4>2. k - r.pos \in 0 .. MaxLen - 1
        BY <1>5, <3>1, <4>1, InRequest
      <4>3. QED
        BY <1>5, <4>2
    <3>2. data \in [0 .. N - 1 -> Sector]
      BY DEF TypeOK
    <3>3. QED
      BY <2>2, <3>1, <3>2 DEF MemcpyWrite
  <2>3. QED
    BY <1>4, <2>1, <2>2
<1>7. /\ buf' \in [Procs -> [0 .. MaxLen - 1 -> Sector \cup {None}]]
      /\ \A p \in Procs \ {s} : buf'[p] = buf[p]
      /\ r.dir = "WRITE" => buf' = buf
      /\ r.dir = "READ" =>
           \A k \in 0 .. MaxLen - 1 :
             buf'[s][k] = IF k < SegEnd(s) THEN data[r.pos + k] ELSE None
  <2>1. buf \in [Procs -> [0 .. MaxLen - 1 -> Sector \cup {None}]]
    BY DEF TypeOK
  <2>2. CASE r.dir = "WRITE"
    BY <1>4, <2>1, <2>2
  <2>3. CASE r.dir = "READ" /\ MemcpyRead(s)
    <3>1. ASSUME NEW k \in 0 .. MaxLen - 1, k < SegEnd(s)
          PROVE  data[r.pos + k] \in Sector
      <4>1. k \in Nat /\ SegEnd(s) \in Nat /\ r.len \in Nat
        BY <1>2, <1>5
      <4>2. r.pos + k \in 0 .. N - 1
        BY <1>2, <1>5, <3>1, <4>1, InDisk
      <4>3. QED
        BY <4>2 DEF TypeOK
    <3> DEFINE row == [k \in 0 .. MaxLen - 1 |->
                 IF done[s] <= k /\ k < SegEnd(s) THEN data[rq[s].pos + k] ELSE buf[s][k]]
    <3>2. buf' = [buf EXCEPT ![s] = row]
      BY <2>3 DEF MemcpyRead
    <3>3. row \in [0 .. MaxLen - 1 -> Sector \cup {None}]
      BY <2>1, <3>1
    <3>4. \A k \in 0 .. MaxLen - 1 :
            buf[s][k] = IF k < done[s] THEN data[r.pos + k] ELSE None
      BY <1>1, <2>3 DEF Moving
    <3>5. \A k \in 0 .. MaxLen - 1 :
            row[k] = IF k < SegEnd(s) THEN data[r.pos + k] ELSE None
      BY <1>2, <3>4
    <3> HIDE DEF row
    <3>6. QED
      BY <2>1, <2>3, <3>2, <3>3, <3>5
  <2>4. QED
    BY <1>4, <2>2, <2>3
<1>8. TypeOK'
  <2>1. seg' \in [Procs -> Nat]
    BY <1>2, <1>3 DEF TypeOK
  <2>2. SegEnd(s) \in 0 .. MaxLen
    BY <1>2, <1>5
  <2>3. done' \in [Procs -> 0 .. MaxLen]
    BY <1>3, <2>2 DEF TypeOK
  <2>4. cur' \in Procs \cup {NoProc}
    BY <1>3 DEF TypeOK
  <2>5. rst' \in [Procs -> {"idle", "queued", "current", "ended", "lost"}]
    BY <1>3 DEF TypeOK
  <2>6. QED
    BY <1>3, <1>6, <1>7, <2>1, <2>3, <2>4, <2>5 DEF TypeOK
<1>9. Allocated' /\ OneCurrent'
  BY <1>1, <1>3, BlockDevAssumption DEF TypeOK, Allocated, OneCurrent, Current
<1>10. ASSUME NEW p \in Procs PROVE Waiting(p)' /\ Moving(p)'
  <2>1. CASE p # s
    <3>1. ~Current(p) /\ rst'[p] = rst[p]
      BY <1>1, <1>3, <2>1 DEF OneCurrent, TypeOK
    <3>2. Moving(p)'
      BY <3>1 DEF Moving, Current
    <3>3. Waiting(p)'
      BY <1>3, <1>7, <2>1, <3>1 DEF Waiting, TypeOK
    <3>4. QED
      BY <3>2, <3>3
  <2>2. CASE p = s /\ ~SegmentsLeft(s)
    BY <1>3, <2>2 DEF Waiting, Moving, Current, TypeOK
  <2>3. CASE p = s /\ SegmentsLeft(s)
    <3>1. Waiting(p)'
      BY <1>1, <1>3, <2>3 DEF Waiting, Current
    <3>2. seg'[s] = seg[s] + 1 /\ done'[s] = SegEnd(s)
      BY <1>3 DEF TypeOK
    <3>3. ~BadRequest(s) /\ seg[s] + 1 < Len(r.ends)
      BY <1>1, <2>3 DEF Moving, SegmentsLeft
    <3>4. r.dir = "WRITE" => buf'[s] = Unread
      BY <1>1, <1>7 DEF Moving
    <3>5. r.dir = "READ" => data' = data
      BY <1>4
    <3>6. ~BadRequest(s)'
      BY <1>3, <3>3 DEF BadRequest
    <3>7. Moving(s)'
      BY <1>2, <1>3, <1>7, <3>2, <3>3, <3>4, <3>5, <3>6 DEF Moving, SegEnd
    <3>8. QED
      BY <2>3, <3>1, <3>7
  <2>4. QED
    BY <2>1, <2>2, <2>3
<1>11. QED
  BY <1>8, <1>9, <1>10

LEMMA BlockDevNext == BlockDevInv /\ [Next]_vars => BlockDevInv'
<1>1. BlockDevInv /\ UNCHANGED vars => BlockDevInv'
  BY DEF BlockDevInv, TypeOK, Allocated, OneCurrent, Waiting, Moving, Current, BadRequest,
         vars
<1>2. QED
  BY <1>1, InvLoad, InvSubmit, InvFetch, InvFetchBad, InvTransfer, InvComplete
     DEF Next, DoRequest

LEMMA BlockDevInvariant == Spec => []BlockDevInv
BY BlockDevInitial, BlockDevNext, PTL DEF Spec

-----------------------------------------------------------------------------
(* Whatever fails in simp_blkdev_init, a block_device.ko that is not       *)
(* loaded holds neither queue nor disk, a disk has its queue, and no       *)
(* request is ever under way without both.                                 *)
THEOREM ResourcesHold == Spec => []Resources
<1>1. ASSUME BlockDevInv PROVE Resources
  BY <1>1 DEF BlockDevInv, TypeOK, Allocated, OneCurrent, Resources
<1>2. QED
  BY <1>1, BlockDevInvariant, PTL

(* simp_blkdev_do_request stays inside simp_blkdev_data with every segment *)
(* of every request, although it checks the request as a whole.            *)
THEOREM SegmentsInCapacity == Spec => []InCapacity
<1>1. ASSUME BlockDevInv, cur # NoProc PROVE InCapacity
  <2>1. cur \in Procs /\ Current(cur)
    BY <1>1 DEF BlockDevInv, TypeOK, OneCurrent, Current
  <2>2. seg[cur] < Len(rq[cur].ends)
    BY <1>1, <2>1 DEF BlockDevInv, Moving
  <2>3. /\ rq[cur] \in Requests /\ rq[cur].pos + rq[cur].len <= N
        /\ SegEnd(cur) \in 1 .. MaxLen /\ SegEnd(cur) <= rq[cur].len
        /\ done[cur] < SegEnd(cur)
    BY <1>1, <2>1, SegmentFacts
  <2>4. rq[cur].pos + SegEnd(cur) <= N
    BY <2>3, RequestFacts
  <2>5. QED
    BY <2>1, <2>2, <2>3, <2>4 DEF InCapacity, Current
<1>2. BlockDevInv => InCapacity
  BY <1>1 DEF InCapacity
<1>3. QED
  BY <1>2, BlockDevInvariant, PTL

-----------------------------------------------------------------------------
(* The refinement: which step of RamDisk, if any, each step is.            *)

(* Between requests the abstract disk is the concrete one.                 *)
LEMMA NothingCurrent ==
  ASSUME BlockDevInv, cur = NoProc
  PROVE  AbsDisk = data /\ AbsBuf = buf /\ \A s \in Procs : ~Current(s)
<1>1. \A s \in Procs : ~Current(s)
  BY BlockDevAssumption DEF BlockDevInv, OneCurrent
<1>2. AbsDisk = data
  BY DEF BlockDevInv, TypeOK, AbsDisk
<1>3. AbsBuf = buf
  BY <1>1 DEF BlockDevInv, TypeOK, AbsBuf
<1>4. QED
  BY <1>1, <1>2, <1>3

LEMMA NothingCurrentNext ==
  BlockDevInv' /\ cur' = NoProc => AbsDisk' = data' /\ AbsBuf' = buf'
<1>1. BlockDevInv /\ cur = NoProc => AbsDisk = data /\ AbsBuf = buf
  BY NothingCurrent
<1>2. (BlockDevInv /\ cur = NoProc => AbsDisk = data /\ AbsBuf = buf)'
  BY <1>1, PTL
<1>3. QED
  BY <1>2

LEMMA RefInitial == Init => D!DiskInit
<1> SUFFICES ASSUME Init PROVE D!DiskInit
  OBVIOUS
<1>1. BlockDevInv /\ cur = NoProc
  BY BlockDevInitial DEF Init
<1>2. AbsDisk = data /\ AbsBuf = buf
  BY <1>1, NothingCurrent
<1>3. AbsSt = [s \in Procs |-> "idle"]
  BY DEF Init, AbsSt
<1>4. rq \in [Procs -> Requests]
  BY <1>1 DEF BlockDevInv, TypeOK
<1>5. QED
  BY <1>2, <1>3, <1>4 DEF Init, D!DiskInit, D!Unread, Unread, Zeroed

(* A load of the module replaces the disk, the rest of loading and         *)
(* unloading does not touch it.                                            *)
LEMMA RefLoad ==
  ASSUME BlockDevInv, BlockDevInv', Load \/ Unload
  PROVE  D!Replace \/ UNCHANGED D!diskVars
<1>1. /\ UNCHANGED <<cur, rst, rq, seg, done, buf>>
      /\ data' = data \/ (mod = "out" /\ data' = Zeroed)
  BY DEF Load, Unload, InitQueue, AllocDisk, AddDisk, DelDisk, PutDisk, CleanupQueue, ioVars
<1>2. UNCHANGED AbsSt
  BY <1>1 DEF AbsSt
<1>3. CASE data' = data
  BY <1>1, <1>2, <1>3 DEF AbsDisk, AbsBuf, Current, D!diskVars
<1>4. CASE mod = "out" /\ data' = Zeroed
  <2>1. \A s \in Procs : rst[s] = "idle"
    BY <1>4 DEF BlockDevInv, OneCurrent
  <2>2. cur = NoProc
    BY <2>1 DEF BlockDevInv, TypeOK, OneCurrent
  <2>3. AbsDisk' = Zeroed /\ AbsBuf' = AbsBuf
    BY <1>1, <1>4, <2>2, NothingCurrent, NothingCurrentNext
  <2>4. \A s \in Procs : AbsSt[s] = "idle"
    BY <2>1 DEF AbsSt
  <2>5. QED
    BY <1>1, <1>2, <2>3, <2>4 DEF D!Replace, Zeroed
<1>5. QED
  BY <1>1, <1>3, <1>4

LEMMA RefSubmit ==
  ASSUME BlockDevInv, BlockDevInv', NEW s \in Procs, NEW r \in Requests, Submit(s, r)
  PROVE  D!Submitted(s, r)
<1>1. AbsDisk' = data /\ AbsDisk = data /\ AbsBuf' = buf' /\ AbsBuf = buf
  BY NothingCurrent, NothingCurrentNext DEF Submit
<1>2. rst[s] = "idle" /\ rst' = [rst EXCEPT ![s] = "queued"]
  BY DEF Submit
<1>3. AbsSt[s] = "idle" /\ AbsSt' = [AbsSt EXCEPT ![s] = "pending"]
  BY <1>2 DEF AbsSt, BlockDevInv, TypeOK
<1>4. QED
  BY <1>1, <1>3 DEF Submit, D!Submitted, D!Unread, Unread

(* Fetching a request inside the capacity is the moment it takes effect.   *)
LEMMA RefFetch ==
  ASSUME BlockDevInv, BlockDevInv', NEW s \in Procs, Fetch(s)
  PROVE  D!Serve(s)
<1> DEFINE r == rq[s]
<1>1. AbsDisk = data /\ AbsBuf = buf /\ \A p \in Procs : ~Current(p)
  BY NothingCurrent DEF Fetch
<1>2. /\ rst[s] = "queued" /\ rst' = [rst EXCEPT ![s] = "current"]
      /\ cur' = s /\ UNCHANGED <<data, rq, done, buf>>
      /\ ~BadRequest(s)
  BY DEF Fetch
<1>3. AbsSt[s] = "pending" /\ AbsSt' = [AbsSt EXCEPT ![s] = "served"]
  BY <1>2 DEF AbsSt, BlockDevInv, TypeOK
<1>4. done[s] = 0 /\ buf[s] = Unread /\ r \in Requests
  BY <1>2 DEF BlockDevInv, Waiting, TypeOK
<1>5. r.pos \in Nat /\ r.len \in Nat /\ N \in Nat /\ r.pos + r.len <= N
  BY <1>2, <1>4, RequestFacts DEF BadRequest
<1>6. s # NoProc
  BY BlockDevAssumption
<1>7. AbsDisk' = [k \in 0 .. N - 1 |->
                    IF r.dir = "WRITE" /\ k \in r.pos .. r.pos + r.len - 1
                    THEN r.data[k - r.pos] ELSE data[k]]
  BY <1>2, <1>4, <1>5, <1>6 DEF AbsDisk
<1>8. \A p \in Procs : Current(p)' <=> p = s
  BY <1>1, <1>2 DEF Current, BlockDevInv, TypeOK
<1> DEFINE row == [k \in 0 .. MaxLen - 1 |->
                     IF r.dir = "READ" /\ k < r.len THEN data[r.pos + k] ELSE None]
<1>9. AbsBuf'[s] = row
  <2>1. CASE r.dir = "READ"
    BY <1>2, <1>8, <2>1 DEF AbsBuf
  <2>2. CASE r.dir # "READ"
    <3>1. AbsBuf'[s] = buf[s]
      BY <1>2, <2>2 DEF AbsBuf
    <3>2. QED
      BY <1>4, <2>2, <3>1 DEF Unread
  <2>3. QED
    BY <2>1, <2>2
<1>10. \A p \in Procs \ {s} : AbsBuf'[p] = buf[p]
  BY <1>2, <1>8 DEF AbsBuf
<1>11. AbsBuf' = [buf EXCEPT ![s] = row]
  <2>1. AbsBuf' = [p \in Procs |-> AbsBuf'[p]]
    BY DEF AbsBuf
  <2>2. buf = [p \in Procs |-> buf[p]]
    BY DEF BlockDevInv, TypeOK
  <2> HIDE DEF row
  <2>3. QED
    BY <1>9, <1>10, <2>1, <2>2
<1>12. QED
  BY <1>1, <1>2, <1>3, <1>5, <1>7, <1>11 DEF D!Serve

(* A request that reaches past the capacity moves nothing.                 *)
LEMMA RefFetchBad ==
  ASSUME BlockDevInv, BlockDevInv', NEW s \in Procs, FetchBad(s)
  PROVE  D!Serve(s)
<1> DEFINE r == rq[s]
<1>1. AbsDisk' = data /\ AbsDisk = data /\ AbsBuf' = buf /\ AbsBuf = buf
  BY NothingCurrent, NothingCurrentNext DEF FetchBad
<1>2. /\ rst[s] = "queued" /\ UNCHANGED rq /\ BadRequest(s)
      /\ \/ rst' = [rst EXCEPT ![s] = "lost"]
         \/ rst' = [rst EXCEPT ![s] = "ended"]
  BY DEF FetchBad
<1>3. AbsSt[s] = "pending" /\ AbsSt' = [AbsSt EXCEPT ![s] = "served"]
  BY <1>2 DEF AbsSt, BlockDevInv, TypeOK
<1>4. buf[s] = Unread /\ r \in Requests
  BY <1>2 DEF BlockDevInv, Waiting, TypeOK
<1>5. ~(r.pos + r.len <= N)
  BY <1>2, <1>4, RequestFacts DEF BadRequest
<1>6. data = [k \in 0 .. N - 1 |-> data[k]] /\ buf = [buf EXCEPT ![s] = Unread]
  BY <1>4 DEF BlockDevInv, TypeOK
<1>7. QED
  BY <1>1, <1>2, <1>3, <1>5, <1>6 DEF D!Serve, Unread

LEMMA RefComplete ==
  ASSUME BlockDevInv, NEW s \in Procs, Complete(s)
  PROVE  D!Finish(s)
<1>1. /\ rst[s] = "ended" /\ rst' = [rst EXCEPT ![s] = "idle"]
      /\ UNCHANGED <<data, cur, rq, done, buf>>
  BY DEF Complete
<1>2. AbsSt[s] = "served" /\ AbsSt' = [AbsSt EXCEPT ![s] = "idle"]
  BY <1>1 DEF AbsSt, BlockDevInv, TypeOK
<1>3. \A p \in Procs : Current(p)' <=> Current(p)
  BY <1>1 DEF Current, BlockDevInv, TypeOK
<1>4. UNCHANGED AbsBuf
  BY <1>1, <1>3 DEF AbsBuf
<1>5. UNCHANGED AbsDisk
  BY <1>1 DEF AbsDisk
<1>6. QED
  BY <1>1, <1>2, <1>4, <1>5 DEF D!Finish

(* The segments of a read gather what the abstract disk gave at once.      *)
LEMMA RefTransferRead ==
  ASSUME BlockDevInv, BlockDevInv', NEW s \in Procs, Transfer(s), rq[s].dir = "READ"
  PROVE  UNCHANGED D!diskVars
<1> DEFINE r == rq[s]
<1>1. Current(s) /\ cur = s /\ s # NoProc
  BY BlockDevAssumption DEF Transfer, BlockDevInv, OneCurrent, Current
<1>2. /\ MemcpyRead(s) /\ UNCHANGED <<data, rq>>
      /\ done' = [done EXCEPT ![s] = SegEnd(s)]
      /\ \/ SegmentsLeft(s) /\ UNCHANGED <<cur, rst>>
         \/ ~SegmentsLeft(s) /\ cur' = NoProc /\ rst' = [rst EXCEPT ![s] = "ended"]
  BY DEF Transfer, EndRequestCur, SegEnd
<1>3. UNCHANGED AbsSt
  BY <1>1, <1>2 DEF AbsSt, Current, BlockDevInv, TypeOK
<1>4. UNCHANGED AbsDisk
  BY <1>1, <1>2 DEF AbsDisk
<1>5. \A p \in Procs \ {s} : buf'[p] = buf[p] /\ ~Current(p) /\ ~Current(p)'
  <2>1. \A p \in Procs \ {s} : buf'[p] = buf[p]
    BY <1>2 DEF MemcpyRead, BlockDevInv, TypeOK
  <2>2. \A p \in Procs \ {s} : ~Current(p)
    BY <1>1 DEF BlockDevInv, OneCurrent
  <2>3. \A p \in Procs \ {s} : rst'[p] = rst[p]
    BY <1>2 DEF BlockDevInv, TypeOK
  <2>4. QED
    BY <2>1, <2>2, <2>3 DEF Current
<1>6. AbsBuf'[s] = AbsBuf[s]
  <2>1. CASE SegmentsLeft(s)
    BY <1>1, <1>2, <2>1 DEF AbsBuf, Current
  <2>2. CASE ~SegmentsLeft(s)
    <3>1. AbsBuf'[s] = buf'[s]
      BY <1>2, <2>2 DEF AbsBuf, Current, BlockDevInv, TypeOK
    <3>2. /\ SegEnd(s) = r.len /\ done[s] < SegEnd(s)
          /\ SegEnd(s) \in Nat /\ done[s] \in Nat
      BY <1>1, <2>2, SegmentFacts
    <3>3. \A k \in 0 .. MaxLen - 1 :
            buf[s][k] = IF k < done[s] THEN data[r.pos + k] ELSE None
      BY <1>1 DEF BlockDevInv, Moving
    <3>4. buf'[s] = [k \in 0 .. MaxLen - 1 |->
             IF done[s] <= k /\ k < SegEnd(s) THEN data[r.pos + k] ELSE buf[s][k]]
      BY <1>2 DEF MemcpyRead, BlockDevInv, TypeOK
    <3>5. ASSUME NEW k \in 0 .. MaxLen - 1
          PROVE  (IF done[s] <= k /\ k < SegEnd(s) THEN data[r.pos + k] ELSE buf[s][k])
                   = IF k < r.len THEN data[r.pos + k] ELSE None
      BY <3>2, <3>3
    <3>6. buf'[s] = [k \in 0 .. MaxLen - 1 |->
             IF k < r.len THEN data[r.pos + k] ELSE None]
      BY <3>4, <3>5
    <3>7. QED
      BY <1>1, <3>1, <3>6 DEF AbsBuf
  <2>3. QED
    BY <2>1, <2>2
<1>7. \A p \in Procs \ {s} : AbsBuf'[p] = AbsBuf[p]
  BY <1>5 DEF AbsBuf
<1>8. UNCHANGED AbsBuf
  <2>1. AbsBuf = [p \in Procs |-> AbsBuf[p]] /\ AbsBuf' = [p \in Procs |-> AbsBuf'[p]]
    BY DEF AbsBuf
  <2>2. QED
    BY <1>6, <1>7, <2>1
<1>9. QED
  BY <1>2, <1>3, <1>4, <1>8 DEF D!diskVars

(* The segments of a write spread what the abstract disk took at once.     *)
LEMMA RefTransferWrite ==
  ASSUME BlockDevInv, BlockDevInv', NEW s \in Procs, Transfer(s), rq[s].dir = "WRITE"
  PROVE  UNCHANGED D!diskVars
<1> DEFINE r == rq[s]
<1>1. Current(s) /\ cur = s /\ s # NoProc
  BY BlockDevAssumption DEF Transfer, BlockDevInv, OneCurrent, Current
<1>2. /\ MemcpyWrite(s) /\ UNCHANGED <<buf, rq>>
      /\ done' = [done EXCEPT ![s] = SegEnd(s)]
      /\ \/ SegmentsLeft(s) /\ UNCHANGED <<cur, rst>>
         \/ ~SegmentsLeft(s) /\ cur' = NoProc /\ rst' = [rst EXCEPT ![s] = "ended"]
  BY DEF Transfer, EndRequestCur, SegEnd
<1>3. UNCHANGED AbsSt
  BY <1>1, <1>2 DEF AbsSt, Current, BlockDevInv, TypeOK
<1>4. UNCHANGED AbsBuf
  <2>1. \A p \in Procs : ~(Current(p) /\ rq[p].dir = "READ")
    BY <1>1 DEF BlockDevInv, OneCurrent
  <2>2. \A p \in Procs : ~(Current(p)' /\ rq'[p].dir = "READ")
    BY <1>2, <2>1 DEF Current, BlockDevInv, TypeOK
  <2>3. QED
    BY <1>2, <2>1, <2>2 DEF AbsBuf
<1>5. /\ r.pos + r.len <= N /\ r.pos \in Nat /\ r.len \in Nat
      /\ done[s] \in Nat /\ SegEnd(s) \in Nat /\ SegEnd(s) <= r.len /\ done[s] < SegEnd(s)
      /\ ~SegmentsLeft(s) => SegEnd(s) = r.len
      /\ N \in Nat
  BY <1>1, SegmentFacts, RequestFacts
<1>6. data' = [k \in 0 .. N - 1 |->
                 IF r.pos + done[s] <= k /\ k < r.pos + SegEnd(s)
                 THEN r.data[k - r.pos] ELSE data[k]]
  BY <1>2 DEF MemcpyWrite
<1>7. AbsDisk = [k \in 0 .. N - 1 |->
                 IF r.pos + done[s] <= k /\ k < r.pos + r.len
                 THEN r.data[k - r.pos] ELSE data[k]]
  BY <1>1, <1>5 DEF AbsDisk
<1>8. CASE SegmentsLeft(s)
  <2>1. AbsDisk' = [k \in 0 .. N - 1 |->
                 IF r.pos + SegEnd(s) <= k /\ k < r.pos + r.len
                 THEN r.data[k - r.pos] ELSE data'[k]]
    <3>1. /\ cur' = s /\ s # NoProc /\ rst' = rst /\ rq' = rq
          /\ done'[s] = SegEnd(s)
      BY <1>1, <1>2, <1>8 DEF BlockDevInv, TypeOK
    <3>2. Current(s)' /\ rq'[s].dir = "WRITE"
      BY <1>1, <3>1 DEF Current
    <3>3. AbsDisk' = [k \in 0 .. N - 1 |->
                 IF k \in r.pos + SegEnd(s) .. r.pos + r.len - 1
                 THEN r.data[k - r.pos] ELSE data'[k]]
      BY <3>1, <3>2 DEF AbsDisk
    <3>4. \A k \in 0 .. N - 1 : k \in r.pos + SegEnd(s) .. r.pos + r.len - 1 <=>
                                 r.pos + SegEnd(s) <= k /\ k < r.pos + r.len
      BY <1>5
    <3>5. QED
      BY <3>3, <3>4, Zenon
  <2>2. ASSUME NEW k \in 0 .. N - 1 PROVE AbsDisk'[k] = AbsDisk[k]
    <3>1. k \in Int /\ r.pos + done[s] < r.pos + SegEnd(s)
          /\ r.pos + SegEnd(s) <= r.pos + r.len
      BY <1>5
    <3>2. CASE r.pos + done[s] <= k /\ k < r.pos + SegEnd(s)
      <4>1. ~(r.pos + SegEnd(s) <= k)
        BY <1>5, <3>1, <3>2
      <4>2. k < r.pos + r.len
        BY <1>5, <3>1, <3>2
      <4>3. QED
        BY <1>6, <1>7, <2>1, <3>2, <4>1, <4>2
    <3>3. CASE ~(r.pos + done[s] <= k /\ k < r.pos + SegEnd(s))
      <4>1. (r.pos + SegEnd(s) <= k /\ k < r.pos + r.len)
               <=> (r.pos + done[s] <= k /\ k < r.pos + r.len)
        BY <1>5, <3>1, <3>3
      <4>2. QED
        BY <1>6, <1>7, <2>1, <3>3, <4>1
    <3>4. QED
      BY <3>2, <3>3
  <2>3. UNCHANGED AbsDisk
    BY <1>7, <2>1, <2>2
  <2>4. QED
    BY <1>2, <1>3, <1>4, <2>3 DEF D!diskVars
<1>9. CASE ~SegmentsLeft(s)
  <2>1. AbsDisk' = data'
    BY <1>2, <1>9, NothingCurrentNext
  <2>2. UNCHANGED AbsDisk
    BY <1>5, <1>6, <1>7, <1>9, <2>1
  <2>3. QED
    BY <1>2, <1>3, <1>4, <2>2 DEF D!diskVars
<1>10. QED
  BY <1>8, <1>9

LEMMA RefNext ==
  ASSUME BlockDevInv, BlockDevInv', [Next]_vars
  PROVE  [D!DiskNext]_(D!diskVars)
<1>1. CASE Load \/ Unload
  BY <1>1, RefLoad DEF D!DiskNext
<1>2. ASSUME NEW s \in Procs, DoRequest(s) \/ Complete(s) \/ \E r \in Requests : Submit(s, r)
      PROVE  [D!DiskNext]_(D!diskVars)
  <2>1. CASE Transfer(s)
    <3>1. rq[s].dir = "READ" \/ rq[s].dir = "WRITE"
      BY <2>1 DEF Transfer
    <3>2. QED
      BY <2>1, <3>1, RefTransferRead, RefTransferWrite
  <2>2. CASE Fetch(s) \/ FetchBad(s) \/ Complete(s) \/ \E r \in Requests : Submit(s, r)
    BY <2>2, RefFetch, RefFetchBad, RefComplete, RefSubmit DEF D!DiskNext
  <2>3. QED
    BY <1>2, <2>1, <2>2 DEF DoRequest
<1>3. CASE UNCHANGED vars
  BY <1>3 DEF vars, D!diskVars, AbsDisk, AbsSt, AbsBuf, Current
<1>4. QED
  BY <1>1, <1>2, <1>3 DEF Next

(* Requests are atomic for any disk and any cut into segments: what        *)
(* do_request does, a segment at a time, is what a disk does that serves   *)
(* every request inside its capacity at one moment and no other at all.    *)
THEOREM RequestsAtomic == Spec => AtomicRequests
<1>1. BlockDevInv /\ BlockDevInv' /\ [Next]_vars => [D!DiskNext]_(D!diskVars)
  BY RefNext
<1>2. QED
  BY <1>1, RefInitial, BlockDevInvariant, PTL DEF Spec, AtomicRequests, D!DiskSpec
=============================================================================
