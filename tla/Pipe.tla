-------------------------------- MODULE Pipe --------------------------------
(***************************************************************************)
(* 01-ProcessCtrl/pipe_rw.c: a parent writes "Hello" and " Pipe" to a      *)
(* pipe, and the child it has forked reads once.  sleep(2) lets the parent *)
(* write first as a rule, but nothing makes it: the child may read before, *)
(* between and after the two writes, and close its end.  Either process    *)
(* may be killed.                                                          *)
(***************************************************************************)
EXTENDS Integers

VARIABLES
  parent,      \* where the parent is
  kid,         \* where the child is
  ends,        \* per process: the ends of the pipe it has open
  inside,      \* bytes in the pipe
  r_num,       \* what the child's read returned, -1 before it
  pipeKilled   \* the processes that were killed, by whom or what

pipeVars == <<parent, kid, ends, inside, r_num, pipeKilled>>

WORD == 5      \* bytes of each write

PipeInit ==
  /\ parent = "pipe" /\ kid = "none"
  /\ ends = [parent |-> {}, child |-> {}]
  /\ inside = 0 /\ r_num = -1
  /\ pipeKilled = {}

IsOpen(e) == \E q \in DOMAIN ends : e \in ends[q]

(* A process ends, whether it has closed its ends or not.                  *)
CloseAll(q) == ends' = [ends EXCEPT ![q] = {}]

-----------------------------------------------------------------------------
(* pipe and fork; either may fail.                                         *)
PipeFork ==
  /\ parent = "pipe"
  /\ \/ /\ parent' = "close0" /\ kid' = "close1"
        /\ ends' = [q \in DOMAIN ends |-> {"read", "write"}]
     \/ parent' = "ended" /\ UNCHANGED <<kid, ends>>
  /\ UNCHANGED <<inside, r_num, pipeKilled>>

ParentClose ==
  /\ \/ /\ parent = "close0" /\ parent' = "write1"
        /\ ends' = [ends EXCEPT !.parent = @ \ {"read"}]
     \/ /\ parent = "close1" /\ parent' = "wait"
        /\ ends' = [ends EXCEPT !.parent = @ \ {"write"}]
  /\ UNCHANGED <<kid, inside, r_num, pipeKilled>>

(* Without a reader SIGPIPE ends the parent in its write.                  *)
ParentWrite ==
  /\ parent \in {"write1", "write2"}
  /\ \/ /\ IsOpen("read")
        /\ inside' = inside + WORD
        /\ parent' = IF parent = "write1" THEN "write2" ELSE "close1"
        /\ UNCHANGED <<ends, pipeKilled>>
     \/ /\ ~IsOpen("read")
        /\ parent' = "ended" /\ CloseAll("parent")
        /\ pipeKilled' = pipeKilled \cup {"sigpipe"}
        /\ UNCHANGED inside
  /\ UNCHANGED <<kid, r_num>>

ParentWait ==
  /\ parent = "wait" /\ kid = "ended"
  /\ parent' = "ended" /\ CloseAll("parent")
  /\ UNCHANGED <<kid, inside, r_num, pipeKilled>>

-----------------------------------------------------------------------------
(* Mutant: the child keeps its write end.                                  *)
ChildCloseNot ==
  /\ kid = "close1" /\ kid' = "read"
  /\ UNCHANGED <<parent, ends, inside, r_num, pipeKilled>>

ChildClose ==
  /\ kid = "close1" /\ kid' = "read"
  /\ ends' = [ends EXCEPT !.child = @ \ {"write"}]
  /\ UNCHANGED <<parent, inside, r_num, pipeKilled>>

(* read returns what there is, up to 100 bytes, and 0 when nobody can      *)
(* write any more.  The child closes its end and exits.                    *)
ChildRead ==
  /\ kid = "read"
  /\ inside > 0 \/ ~IsOpen("write")
  /\ r_num' = inside /\ inside' = 0
  /\ kid' = "close0"
  /\ UNCHANGED <<parent, ends, pipeKilled>>

ChildExit ==
  /\ kid = "close0" /\ kid' = "ended"
  /\ CloseAll("child")
  /\ UNCHANGED <<parent, inside, r_num, pipeKilled>>

PipeKill ==
  /\ \/ /\ parent \notin {"pipe", "ended"} /\ parent' = "ended"
        /\ CloseAll("parent")
        /\ pipeKilled' = pipeKilled \cup {"parent"}
        /\ UNCHANGED kid
     \/ /\ kid \notin {"none", "ended"} /\ kid' = "ended"
        /\ CloseAll("child")
        /\ pipeKilled' = pipeKilled \cup {"child"}
        /\ UNCHANGED parent
  /\ UNCHANGED <<inside, r_num>>

-----------------------------------------------------------------------------
ParentStep == PipeFork \/ ParentClose \/ ParentWrite \/ ParentWait
ChildStep == ChildClose \/ ChildRead \/ ChildExit

PipeNext == ParentStep \/ ChildStep \/ PipeKill

(* Both processes run on; sleep returns.                                   *)
PipeSpec ==
  /\ PipeInit /\ [][PipeNext]_pipeVars
  /\ WF_pipeVars(ParentStep) /\ WF_pipeVars(ChildStep)

-----------------------------------------------------------------------------
(* Once forked, both processes end, in whichever order they run and       *)
(* whichever is killed: the child is the only one with the read end and    *)
(* none with the write end, so it sees the end of a parent that is gone.   *)
(* And the child gets "Hello" at least, unless somebody was killed.        *)
BothEnd ==
  /\ parent # "pipe" ~> parent = "ended" /\ kid \in {"none", "ended"}
  /\ [](kid = "ended" /\ pipeKilled \subseteq {"sigpipe"} => r_num \in {WORD, 2 * WORD})
=============================================================================
