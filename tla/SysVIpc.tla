------------------------------ MODULE SysVIpc ------------------------------
(***************************************************************************)
(* The System V programs of 01-ProcessCtrl.  Mesge_queues_RW.c opens the   *)
(* message queue of key 777, forks, lets the child send one message and    *)
(* the parent, once the child has ended, receive one and remove the queue. *)
(* shareMemery_shm.c opens the segment of key 15, attaches, writes, reads, *)
(* detaches and removes it.  The key names one object for all who run the  *)
(* program, so two runs at a time meet in it.  A run may be killed.        *)
(*                                                                         *)
(* A queue or segment is an id that is used once; a message is known by    *)
(* the run whose child sent it.  What is written to the segment is the     *)
(* same text in every run, and left out.  The two programs share nothing,  *)
(* so a behaviour has runs of one of them.                                 *)
(***************************************************************************)
EXTENDS Integers, Sequences, FiniteSets

CONSTANTS
  QueueRuns,   \* runs of Mesge_queues_RW
  ShmRuns,     \* runs of shareMemery_shm
  MSGS         \* how many messages the queue holds

IpcRuns == QueueRuns \cup ShmRuns

ASSUME IpcAssumption ==
  /\ IsFiniteSet(IpcRuns) /\ QueueRuns \cap ShmRuns = {}
  /\ MSGS \in Nat \ {0}

Ids == 1 .. Cardinality(IpcRuns)
NoId == 0

VARIABLES
  named,       \* the id each key names, or none
  ids,         \* the ids that exist
  issued,      \* how many ids were given out
  messages,    \* per id: the messages in the queue
  attached,    \* per id: the runs that have attached it
  run,         \* per run: where main is, the parent after the fork
  child,       \* per run: where the child is
  id,          \* per run: msg_id or shm_id
  unclean      \* a run was killed, or its fork failed

ipcVars == <<named, ids, issued, messages, attached, run, child, id, unclean>>
objVars == <<named, ids, issued>>

IpcInit ==
  /\ named = [k \in {"queue", "shm"} |-> NoId]
  /\ ids = {} /\ issued = 0
  /\ messages = [i \in Ids |-> <<>>]
  /\ attached = [i \in Ids |-> {}]
  /\ \E started \in {QueueRuns, ShmRuns} :
       run = [r \in IpcRuns |-> IF r \in started THEN "get" ELSE "ended"]
  /\ child = [r \in IpcRuns |-> "none"]
  /\ id = [r \in IpcRuns |-> NoId]
  /\ unclean = FALSE

Key(r) == IF r \in QueueRuns THEN "queue" ELSE "shm"
RunAt(r, from, to) == run[r] = from /\ run' = [run EXCEPT ![r] = to]

(* external: the name of i is free again, and i is gone unless somebody    *)
(* has it attached.                                                        *)
RemoveId(i, users) ==
  /\ named' = [k \in DOMAIN named |-> IF named[k] = i THEN NoId ELSE named[k]]
  /\ ids' = IF users = {} THEN ids \ {i} ELSE ids
  /\ UNCHANGED issued

-----------------------------------------------------------------------------
(* msgget and shmget with IPC_CREAT: the object of the key, or a new one;  *)
(* or an error.  Without a segment shmdt and shmctl fail and main ends.    *)
IpcGet(r) ==
  /\ \/ /\ named[Key(r)] # NoId
        /\ RunAt(r, "get", "got")
        /\ id' = [id EXCEPT ![r] = named[Key(r)]]
        /\ UNCHANGED objVars
     \/ /\ named[Key(r)] = NoId
        /\ RunAt(r, "get", "got")
        /\ issued' = issued + 1
        /\ id' = [id EXCEPT ![r] = issued']
        /\ named' = [named EXCEPT ![Key(r)] = issued']
        /\ ids' = ids \cup {issued'}
     \/ RunAt(r, "get", "ended") /\ UNCHANGED <<objVars, id>>
  /\ UNCHANGED <<messages, attached, child, unclean>>

(* When fork fails main returns, and the queue is left.                    *)
MsgFork(r) ==
  /\ r \in QueueRuns
  /\ \/ /\ RunAt(r, "got", "wait")
        /\ child' = [child EXCEPT ![r] = "send"]
        /\ UNCHANGED unclean
     \/ /\ RunAt(r, "got", "ended")
        /\ unclean' = TRUE
        /\ UNCHANGED child
  /\ UNCHANGED <<objVars, messages, attached, id>>

(* The child: msgsnd waits for room, and fails when the queue is removed.  *)
MsgSnd(r) ==
  /\ child[r] = "send"
  /\ \/ /\ id[r] \in ids /\ Len(messages[id[r]]) < MSGS
        /\ messages' = [messages EXCEPT ![id[r]] = Append(@, r)]
     \/ id[r] \notin ids /\ UNCHANGED messages
  /\ child' = [child EXCEPT ![r] = "ended"]
  /\ UNCHANGED <<objVars, attached, run, id, unclean>>

(* Mutant: the parent does not wait for its child.                         *)
WaitPidNot(r) ==
  /\ RunAt(r, "wait", "receive")
  /\ UNCHANGED <<objVars, messages, attached, child, id, unclean>>

WaitPid(r) ==
  /\ RunAt(r, "wait", "receive")
  /\ child[r] = "ended"
  /\ UNCHANGED <<objVars, messages, attached, child, id, unclean>>

(* msgrcv with IPC_NOWAIT takes the first message, whoever sent it, or     *)
(* fails: then the queue is left to somebody else.                         *)
MsgRcv(r) ==
  LET found == id[r] \in ids /\ messages[id[r]] # <<>> IN
  /\ RunAt(r, "receive", IF found THEN "remove" ELSE "ended")
  /\ messages' = IF found THEN [messages EXCEPT ![id[r]] = Tail(@)] ELSE messages
  /\ UNCHANGED <<objVars, attached, child, id, unclean>>

(* msgctl(IPC_RMID): what is in the queue goes with it, and whoever sleeps *)
(* in msgsnd wakes up.                                                     *)
MsgRemove(r) ==
  /\ r \in QueueRuns
  /\ RunAt(r, "remove", "ended")
  /\ RemoveId(id[r], {})
  /\ messages' = [messages EXCEPT ![id[r]] = <<>>]
  /\ UNCHANGED <<attached, child, id, unclean>>

-----------------------------------------------------------------------------
(* shmat: fails if another run has removed the segment since shmget.       *)
ShmAt(r) ==
  /\ r \in ShmRuns
  /\ RunAt(r, "got", "attached")
  /\ attached' = IF id[r] \in ids THEN [attached EXCEPT ![id[r]] = @ \cup {r}] ELSE attached
  /\ UNCHANGED <<objVars, messages, child, id, unclean>>

(* external: a segment that was removed is gone with its last user.        *)
Detach(r) ==
  /\ attached' = [i \in Ids |-> attached[i] \ {r}]
  /\ ids' = {i \in ids : attached[i] = {r} => \E k \in DOMAIN named : named[k] = i}
  /\ UNCHANGED <<named, issued>>

ShmDt(r) ==
  /\ RunAt(r, "attached", "remove")
  /\ Detach(r)
  /\ UNCHANGED <<messages, child, id, unclean>>

ShmRemove(r) ==
  /\ r \in ShmRuns
  /\ RunAt(r, "remove", "ended")
  /\ RemoveId(id[r], attached[id[r]])
  /\ UNCHANGED <<messages, attached, child, id, unclean>>

-----------------------------------------------------------------------------
(* The process main runs in is killed; its child, if any, goes on.         *)
IpcKill(r) ==
  /\ run[r] # "ended"
  /\ run' = [run EXCEPT ![r] = "ended"]
  /\ unclean' = TRUE
  /\ Detach(r)
  /\ UNCHANGED <<messages, child, id>>

IpcStep(r) ==
  \/ IpcGet(r) \/ MsgFork(r) \/ MsgSnd(r) \/ WaitPid(r) \/ MsgRcv(r) \/ MsgRemove(r)
  \/ ShmAt(r) \/ ShmDt(r) \/ ShmRemove(r)

IpcNext == \E r \in IpcRuns : IpcStep(r) \/ IpcKill(r)

IpcSpec == IpcInit /\ [][IpcNext]_ipcVars

-----------------------------------------------------------------------------
IpcTypeOK ==
  /\ named \in [{"queue", "shm"} -> {NoId} \cup Ids]
  /\ ids \subseteq Ids /\ issued \in {NoId} \cup Ids
  /\ messages \in [Ids -> Seq(QueueRuns)] /\ attached \in [Ids -> SUBSET ShmRuns]
  /\ run \in [IpcRuns -> {"get", "got", "wait", "receive", "attached", "remove", "ended"}]
  /\ child \in [IpcRuns -> {"none", "send", "ended"}]
  /\ id \in [IpcRuns -> {NoId} \cup Ids]
  /\ unclean \in BOOLEAN

(* However the runs of the two programs overlap, nothing of them is left   *)
(* in the kernel when they have all ended: the parent that finds no        *)
(* message does not remove the queue, but then another parent has its      *)
(* message and will.  Only a run that was killed, or could not fork,       *)
(* leaves something behind.                                                *)
NothingLeft ==
  (\A r \in IpcRuns : run[r] = "ended" /\ child[r] # "send") /\ ~unclean => ids = {}
=============================================================================
