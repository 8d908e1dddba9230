------------------------------ MODULE RamDisk ------------------------------
(***************************************************************************)
(* What the block device of 12-block_device promises: a disk on which      *)
(* every request inside the capacity is carried out as a whole, at one     *)
(* moment between its submission and its end; a request that reaches past  *)
(* the capacity moves no data.                                             *)
(***************************************************************************)
EXTENDS Integers

CONSTANTS
  Procs,     \* submitters of requests
  Blank,     \* the contents of a sector that was never written
  None,      \* a sector of a read buffer that was not filled
  N,         \* capacity in sectors
  MaxLen,    \* the longest request, in sectors
  Requests   \* requests: their dir, pos, len and data

VARIABLES
  disk,      \* contents of the sectors
  st,        \* per submitter: "idle", "pending", "served"
  rq,        \* per submitter: its last request
  buf        \* per submitter: what its last read returned

diskVars == <<disk, st, rq, buf>>

Unread == [k \in 0 .. MaxLen - 1 |-> None]

Submitted(s, r) ==
  /\ st[s] = "idle"
  /\ st' = [st EXCEPT ![s] = "pending"]
  /\ rq' = [rq EXCEPT ![s] = r]
  /\ buf' = [buf EXCEPT ![s] = Unread]
  /\ UNCHANGED disk

Serve(s) ==
  LET r == rq[s]
      inside == r.pos + r.len <= N
  IN /\ st[s] = "pending"
     /\ st' = [st EXCEPT ![s] = "served"]
     /\ disk' = [k \in 0 .. N - 1 |->
                   IF inside /\ r.dir = "WRITE" /\ k \in r.pos .. r.pos + r.len - 1
                   THEN r.data[k - r.pos] ELSE disk[k]]
     /\ buf' = [buf EXCEPT ![s] = [k \in 0 .. MaxLen - 1 |->
                   IF inside /\ r.dir = "READ" /\ k < r.len
                   THEN disk[r.pos + k] ELSE None]]
     /\ UNCHANGED rq

Finish(s) ==
  /\ st[s] = "served"
  /\ st' = [st EXCEPT ![s] = "idle"]
  /\ UNCHANGED <<disk, rq, buf>>

(* The disk is created anew, with nothing on it, while nobody uses it.     *)
Replace ==
  /\ \A s \in Procs : st[s] = "idle"
  /\ disk' = [k \in 0 .. N - 1 |-> Blank]
  /\ UNCHANGED <<st, rq, buf>>

DiskNext ==
  \/ Replace
  \/ \E s \in Procs : Serve(s) \/ Finish(s) \/ \E r \in Requests : Submitted(s, r)

DiskInit ==
  /\ disk = [k \in 0 .. N - 1 |-> Blank]
  /\ st = [s \in Procs |-> "idle"]
  /\ rq \in [Procs -> Requests]
  /\ buf = [s \in Procs |-> Unread]

DiskSpec == DiskInit /\ [][DiskNext]_diskVars
=============================================================================
