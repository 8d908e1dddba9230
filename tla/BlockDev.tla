------------------------------ MODULE BlockDev ------------------------------
(***************************************************************************)
(* The RAM disk of 12-block_device (block_device.c): simp_blkdev_init and  *)
(* simp_blkdev_exit, and simp_blkdev_do_request, which fetches requests    *)
(* from the queue and moves their data a segment at a time between         *)
(* simp_blkdev_data and the buffers of the bios.                           *)
(*                                                                         *)
(* The block layer calls do_request with the lock of the queue held, so    *)
(* nothing is submitted while a request is being carried out; the queue    *)
(* hands the requests out in an order of its own.                          *)
(***************************************************************************)
EXTENDS Integers, Sequences

CONSTANTS
  Procs,     \* submitters of requests
  NoProc,    \* no request is being carried out
  Blank,     \* a zeroed sector
  None,      \* a sector of a read buffer that was not filled
  Sector,    \* the contents of sectors
  N,         \* SIMP_BLKDEV_BYTES >> 9
  MaxLen,    \* the longest request, in sectors
  Requests   \* the requests submitters make: dir, pos (first sector), len,
             \* data, and ends, the offsets at which the segments end

ASSUME BlockDevAssumption ==
  /\ NoProc \notin Procs
  /\ Blank \in Sector
  /\ None \notin Sector
  /\ N \in Nat
  /\ MaxLen \in Nat
  /\ Requests # {}
  /\ \A r \in Requests :
       /\ r.dir \in {"READ", "WRITE"}
       /\ r.pos \in Nat
       /\ r.len \in 1 .. MaxLen
       /\ r.data \in [0 .. MaxLen - 1 -> Sector]
       /\ r.ends \in Seq(1 .. MaxLen)
       /\ r.ends # <<>>
       /\ r.ends[Len(r.ends)] = r.len
       /\ \A i, j \in 1 .. Len(r.ends) : i < j => r.ends[i] < r.ends[j]

VARIABLES
  data,      \* simp_blkdev_data, by sector
  mod,       \* how far simp_blkdev_init or simp_blkdev_exit has got
  held,      \* which of "queue" and "disk" are allocated
  cur,       \* the submitter whose request do_request is carrying out
  rst,       \* per submitter: state of its request
  rq,        \* per submitter: its last request
  seg,       \* per submitter: segments of it that have ended
  done,      \* per submitter: sectors of it that have ended
  buf        \* per submitter: the buffer of its last read

vars == <<data, mod, held, cur, rst, rq, seg, done, buf>>

ioVars == <<cur, rst, rq, seg, done, buf>>

Zeroed == [k \in 0 .. N - 1 |-> Blank]
Unread == [k \in 0 .. MaxLen - 1 |-> None]

Init ==
  /\ data = Zeroed
  /\ mod = "out"
  /\ held = {}
  /\ cur = NoProc
  /\ rst = [s \in Procs |-> "idle"]
  /\ rq = [s \in Procs |-> CHOOSE r \in Requests : TRUE]   \* none yet
  /\ seg = [s \in Procs |-> 0]
  /\ done = [s \in Procs |-> 0]
  /\ buf = [s \in Procs |-> Unread]

-----------------------------------------------------------------------------
(* insmod: the data of the module is loaded, and blk_init_queue, which may *)
(* fail, is called.                                                        *)
InitQueue ==
  /\ mod = "out"
  /\ data' = Zeroed
  /\ \/ mod' = "queue" /\ held' = held \cup {"queue"}
     \/ UNCHANGED <<mod, held>>
  /\ UNCHANGED ioVars

(* alloc_disk; when it fails err_alloc_disk cleans the queue up.           *)
AllocDisk ==
  /\ mod = "queue"
  /\ \/ mod' = "disk" /\ held' = held \cup {"disk"}
     \/ mod' = "out" /\ held' = held \ {"queue"}
  /\ UNCHANGED <<data, ioVars>>

(* set_capacity and add_disk: from here on requests come.                  *)
AddDisk ==
  /\ mod = "disk"
  /\ mod' = "live"
  /\ UNCHANGED <<data, held, ioVars>>

(* simp_blkdev_exit: the owner of the fops keeps it away as long as the    *)
(* device is in use.  del_gendisk, put_disk, then blk_cleanup_queue.       *)
DelDisk ==
  /\ mod = "live"
  /\ \A s \in Procs : rst[s] = "idle"
  /\ mod' = "deleted"
  /\ UNCHANGED <<data, held, ioVars>>

(* Mutant: blk_cleanup_queue before put_disk.                              *)
PutDiskLast ==
  /\ mod = "deleted"
  /\ mod' = "put"
  /\ held' = held \ {"queue"}
  /\ UNCHANGED <<data, ioVars>>

PutDisk ==
  /\ mod = "deleted"
  /\ mod' = "put"
  /\ held' = held \ {"disk"}
  /\ UNCHANGED <<data, ioVars>>

CleanupQueue ==
  /\ mod = "put"
  /\ mod' = "out"
  /\ held' = held \ {"queue"}
  /\ UNCHANGED <<data, ioVars>>

-----------------------------------------------------------------------------
(* external: a submitter hands a request to the queue.                     *)
Submit(s, r) ==
  /\ mod = "live"
  /\ cur = NoProc
  /\ rst[s] = "idle"
  /\ rst' = [rst EXCEPT ![s] = "queued"]
  /\ rq' = [rq EXCEPT ![s] = r]
  /\ seg' = [seg EXCEPT ![s] = 0]
  /\ done' = [done EXCEPT ![s] = 0]
  /\ buf' = [buf EXCEPT ![s] = Unread]
  /\ UNCHANGED <<data, mod, held, cur>>

(* external: __blk_end_request_cur ends the current segment, moves the     *)
(* position of the request on, and says whether segments are left.         *)
SegmentsLeft(s) == seg[s] + 1 < Len(rq[s].ends)

EndRequestCur(s) ==
  /\ seg' = [seg EXCEPT ![s] = @ + 1]
  /\ done' = [done EXCEPT ![s] = rq[s].ends[seg[s] + 1]]

(* Mutant: only the first sector is checked.                               *)
BadRequestStart(s) == rq[s].pos >= N

(* blk_fetch_request takes the request off the queue; the check of its end *)
(* against SIMP_BLKDEV_BYTES.                                              *)
BadRequest(s) == rq[s].pos + rq[s].len > N

Fetch(s) ==
  /\ cur = NoProc
  /\ rst[s] = "queued"
  /\ ~BadRequest(s)
  /\ cur' = s
  /\ rst' = [rst EXCEPT ![s] = "current"]
  /\ UNCHANGED <<data, mod, held, rq, seg, done, buf>>

(* A bad request: only its current segment is ended, then the loop fetches *)
(* another one.  Nobody ends the segments after the first.                 *)
FetchBad(s) ==
  /\ cur = NoProc
  /\ rst[s] = "queued"
  /\ BadRequest(s)
  /\ EndRequestCur(s)
  /\ rst' = [rst EXCEPT ![s] = IF SegmentsLeft(s) THEN "lost" ELSE "ended"]
  /\ UNCHANGED <<data, mod, held, cur, rq, buf>>

(* One round of the do loops: the sectors of the current segment, at       *)
(* blk_rq_pos, which moves on with every segment.                          *)
SegEnd(s) == rq[s].ends[seg[s] + 1]

MemcpyRead(s) ==
  buf' = [buf EXCEPT ![s] = [k \in 0 .. MaxLen - 1 |->
            IF done[s] <= k /\ k < SegEnd(s) THEN data[rq[s].pos + k] ELSE @[k]]]

(* Mutant: every segment goes to the first sector of the request.          *)
MemcpyWriteFirst(s) ==
  data' = [k \in 0 .. N - 1 |->
            IF rq[s].pos <= k /\ k < rq[s].pos + SegEnd(s) - done[s]
            THEN rq[s].data[k - rq[s].pos + done[s]] ELSE data[k]]

MemcpyWrite(s) ==
  data' = [k \in 0 .. N - 1 |->
            IF rq[s].pos + done[s] <= k /\ k < rq[s].pos + SegEnd(s)
            THEN rq[s].data[k - rq[s].pos] ELSE data[k]]

(* Mutant: one segment only, as if there were no loop.                     *)
TransferOnce(s) ==
  /\ cur = s
  /\ \/ rq[s].dir = "READ" /\ MemcpyRead(s) /\ UNCHANGED data
     \/ rq[s].dir = "WRITE" /\ MemcpyWrite(s) /\ UNCHANGED buf
  /\ EndRequestCur(s)
  /\ cur' = NoProc
  /\ rst' = [rst EXCEPT ![s] = IF SegmentsLeft(s) THEN "lost" ELSE "ended"]
  /\ UNCHANGED <<mod, held, rq>>

Transfer(s) ==
  /\ cur = s
  /\ \/ rq[s].dir = "READ" /\ MemcpyRead(s) /\ UNCHANGED data
     \/ rq[s].dir = "WRITE" /\ MemcpyWrite(s) /\ UNCHANGED buf
  /\ EndRequestCur(s)
  /\ \/ SegmentsLeft(s) /\ UNCHANGED <<cur, rst>>
     \/ ~SegmentsLeft(s) /\ cur' = NoProc /\ rst' = [rst EXCEPT ![s] = "ended"]
  /\ UNCHANGED <<mod, held, rq>>

(* external: the submitter learns that its request has ended.              *)
Complete(s) ==
  /\ rst[s] = "ended"
  /\ rst' = [rst EXCEPT ![s] = "idle"]
  /\ UNCHANGED <<data, mod, held, cur, rq, seg, done, buf>>

-----------------------------------------------------------------------------
Load == InitQueue \/ AllocDisk \/ AddDisk

Unload == DelDisk \/ PutDisk \/ CleanupQueue

DoRequest(s) == Fetch(s) \/ FetchBad(s) \/ Transfer(s)

Next ==
  \/ Load \/ Unload
  \/ \E s \in Procs : DoRequest(s) \/ Complete(s) \/ \E r \in Requests : Submit(s, r)

Spec == Init /\ [][Next]_vars

(* The block layer calls do_request for what is queued, no elevator holds  *)
(* a request back forever, and do_request runs on once it is called.       *)
FairSpec ==
  /\ Spec
  /\ \A s \in Procs : SF_vars(Fetch(s)) /\ SF_vars(FetchBad(s)) /\ WF_vars(Transfer(s))

-----------------------------------------------------------------------------
TypeOK ==
  /\ data \in [0 .. N - 1 -> Sector]
  /\ mod \in {"out", "queue", "disk", "live", "deleted", "put"}
  /\ held \subseteq {"queue", "disk"}
  /\ cur \in Procs \cup {NoProc}
  /\ rst \in [Procs -> {"idle", "queued", "current", "ended", "lost"}]
  /\ rq \in [Procs -> Requests]
  /\ seg \in [Procs -> Nat]
  /\ done \in [Procs -> 0 .. MaxLen]
  /\ buf \in [Procs -> [0 .. MaxLen - 1 -> Sector \cup {None}]]

(* A module that is not loaded holds nothing, also when its init failed    *)
(* half way; a disk is never there without the queue it points to, and     *)
(* requests are only under way while both are.                             *)
Resources ==
  /\ mod = "out" => held = {}
  /\ "disk" \in held => "queue" \in held
  /\ (\E s \in Procs : rst[s] # "idle") => held = {"queue", "disk"}

(* Segment by segment, do_request stays inside simp_blkdev_data.           *)
InCapacity ==
  cur # NoProc =>
    /\ rst[cur] = "current"
    /\ seg[cur] < Len(rq[cur].ends)
    /\ rq[cur].pos + SegEnd(cur) <= N
    /\ done[cur] < SegEnd(cur)

(* The refinement: a request takes effect as a whole when it is fetched.   *)
Current(s) == rst[s] = "current"

AbsDisk ==
  [k \in 0 .. N - 1 |->
     IF /\ cur # NoProc
        /\ rq[cur].dir = "WRITE"
        /\ k \in rq[cur].pos + done[cur] .. rq[cur].pos + rq[cur].len - 1
     THEN rq[cur].data[k - rq[cur].pos]
     ELSE data[k]]

AbsSt ==
  [s \in Procs |->
     CASE rst[s] = "idle" -> "idle"
       [] rst[s] = "queued" -> "pending"
       [] OTHER -> "served"]

AbsBuf ==
  [s \in Procs |->
     IF Current(s) /\ rq[s].dir = "READ"
     THEN [k \in 0 .. MaxLen - 1 |->
             IF k < rq[s].len THEN data[rq[s].pos + k] ELSE None]
     ELSE buf[s]]

D == INSTANCE RamDisk WITH disk <- AbsDisk, st <- AbsSt, buf <- AbsBuf

(* Requests are atomic: however a request is cut into segments, its data   *)
(* ends up in one piece at its sectors, and a bad request moves nothing.   *)
AtomicRequests == D!DiskSpec

(* A request inside the capacity ends.                                     *)
RequestsEnd ==
  \A s \in Procs :
    rst[s] \in {"queued", "current"} /\ ~BadRequest(s) ~> rst[s] = "ended"
=============================================================================
