------------------------------ MODULE Signals ------------------------------
(***************************************************************************)
(* Signals that race with the programs that wait for them.                 *)
(*                                                                         *)
(* 10-sigaction (and its copy in 03-fileOperate/fileOperate): an app       *)
(* installs a handler for SIG_TEST and writes its pid to signalconfpid;    *)
(* write_pid parses it, looks the task up under RCU, and sends the signal  *)
(* after rcu_read_unlock.  Root may write anything from a shell, and a     *)
(* process may exit, or the module be unloaded, meanwhile.                 *)
(*                                                                         *)
(* 01-ProcessCtrl/mysignal.c: a program that installs a handler for SIGINT *)
(* and sleeps in pause; its user types ctrl-c at any time.  It shares      *)
(* nothing with the others, so a behaviour has either the one or the other *)
(* processes.                                                              *)
(***************************************************************************)
EXTENDS Integers, FiniteSets

CONSTANTS
  Apps,        \* processes that run app.c (or signal_app.c)
  Shells,      \* shells in which root writes pids to signalconfpid
  Pausers,     \* processes that run mysignal.c
  NoPid,       \* a number that is no process, also the result of no look-up
  MaxQueued    \* bound: how many signals may be queued for a process

Tasks == Apps \cup Shells \cup Pausers

ASSUME SignalsAssumption ==
  /\ IsFiniteSet(Tasks) /\ NoPid \notin Tasks
  /\ Apps \cap Shells = {} /\ Pausers \cap (Apps \cup Shells) = {}
  /\ MaxQueued \in Nat \ {0}

VARIABLES
  task,        \* per process: "alive", "zombie", "reaped" or "freed"
  proc,        \* per process: where it is, whether it has a handler, which
               \* signals are queued or were handled, t and ret of write_pid
  conf,        \* ksig is loaded: there is a file signalconfpid
  misused      \* the processes whose write_pid used a task that was freed

sigVars == <<task, proc, conf, misused>>

NewProc(p) ==
  [at |-> IF p \in Shells THEN "open" ELSE "start", handler |-> FALSE,
   queued |-> 0, handled |-> FALSE, found |-> NoPid, result |-> "none"]

SignalsInit ==
  /\ \E started \in {Apps \cup Shells, Pausers} :
       task = [p \in Tasks |-> IF p \in started THEN "alive" ELSE "freed"]
  /\ proc = [p \in Tasks |-> NewProc(p)]
  /\ conf = FALSE
  /\ misused = {}

At(p, l) == task[p] = "alive" /\ proc[p].at = l

-----------------------------------------------------------------------------
(* ksig_init and ksig_exit.  my_fops has no owner and debugfs_remove does  *)
(* not wait: whoever is in write_pid is then in code that is gone.         *)
InKernel == {"find", "rcu", "send"}

KsigInit == ~conf /\ conf' = TRUE /\ UNCHANGED <<task, proc, misused>>

KsigExit ==
  /\ conf /\ conf' = FALSE
  /\ proc' = [p \in Tasks |-> IF proc[p].at \in InKernel
                                THEN [proc[p] EXCEPT !.at = "oops"] ELSE proc[p]]
  /\ UNCHANGED <<task, misused>>

(* sigaction of app.c, signal of mysignal.c.                               *)
SigAction(p) ==
  /\ At(p, "start")
  /\ proc' = [proc EXCEPT ![p].handler = TRUE,
                          ![p].at = IF p \in Apps THEN "open" ELSE "before_pause"]
  /\ UNCHANGED <<task, conf, misused>>

(* open of signalconfpid: an app without it ends, a shell tries again.     *)
OpenConf(p) ==
  /\ At(p, "open")
  /\ conf \/ p \in Apps
  /\ proc' = [proc EXCEPT ![p].at = IF conf THEN "write" ELSE "exit"]
  /\ UNCHANGED <<task, conf, misused>>

(* Mutant: the app writes strlen(buf) bytes, without the final 0.          *)
WrittenPidOpen(p) == Tasks \cup {NoPid}

(* What sscanf(mybuf, "%d", &pid) may find.  An app writes its pid with    *)
(* the 0 that ends it.  A shell writes any number, and without a           *)
(* terminator, as echo -n does, bytes of the stack may continue it.        *)
WrittenPid(p) == IF p \in Apps THEN {p} ELSE Tasks \cup {NoPid}

(* write_pid up to the look-up.  More than ten bytes are refused.          *)
WritePid(p) ==
  /\ At(p, "write")
  /\ \/ ~conf /\ proc' = [proc EXCEPT ![p].at = "oops"]
     \/ /\ conf
        /\ \E pid \in WrittenPid(p) :
             proc' = [proc EXCEPT ![p].at = "find", ![p].found = pid]
     \/ /\ conf /\ p \in Shells
        /\ proc' = [proc EXCEPT ![p].at = "return", ![p].result = "error"]
  /\ UNCHANGED <<task, conf, misused>>

(* pid_task(find_pid_ns(pid)) between rcu_read_lock and rcu_read_unlock.   *)
FindTask(p) ==
  LET t == proc[p].found
      there == t # NoPid /\ task[t] \in {"alive", "zombie"}
  IN
  /\ At(p, "find")
  /\ \/ there /\ proc' = [proc EXCEPT ![p].at = "rcu"]
     \/ ~there /\ proc' = [proc EXCEPT ![p].at = "return", ![p].result = "error"]
  /\ UNCHANGED <<task, conf, misused>>

RcuReadUnlock(p) ==
  /\ At(p, "rcu")
  /\ proc' = [proc EXCEPT ![p].at = "send"]
  /\ UNCHANGED <<task, conf, misused>>

(* send_sig_info: SIG_TEST is queued for a process that lives, and refused *)
(* when its queue is full; of another it may report either.                *)
SendSigInfo(p) ==
  LET t == proc[p].found
      alive == task[t] = "alive"
      full == proc[t].queued >= MaxQueued
      sent(r) == [proc EXCEPT ![p].at = "return", ![p].result = r]
  IN
  /\ At(p, "send")
  /\ misused' = IF task[t] = "freed" THEN misused \cup {p} ELSE misused
  /\ \/ alive /\ ~full /\ proc' = [sent("ok") EXCEPT ![t].queued = @ + 1]
     \/ alive /\ full /\ proc' = sent("error")
     \/ ~alive /\ proc' \in {sent("ok"), sent("error")}
  /\ UNCHANGED <<task, conf>>

(* Mutant: the write returns to the program at once.                       *)
PidWrittenAtOnce(p) ==
  /\ At(p, "return")
  /\ proc' = [proc EXCEPT ![p] = IF p \in Apps THEN [@ EXCEPT !.at = "exit"]
                                               ELSE NewProc(p)]
  /\ UNCHANGED <<task, conf, misused>>

(* The write returns to user mode when no signal is left to handle: an app *)
(* ends, a shell may write again.                                          *)
PidWritten(p) ==
  /\ At(p, "return")
  /\ proc[p].queued = 0
  /\ proc' = [proc EXCEPT ![p] = IF p \in Apps THEN [@ EXCEPT !.at = "exit"]
                                               ELSE NewProc(p)]
  /\ UNCHANGED <<task, conf, misused>>

-----------------------------------------------------------------------------
(* mysignal.c: pause, which only a handler that has run ends.              *)
Pause(p) ==
  /\ At(p, "before_pause")
  /\ proc' = [proc EXCEPT ![p].at = "pause"]
  /\ UNCHANGED <<task, conf, misused>>

(* SIGINT is no real-time signal: a second one is not queued.              *)
CtrlC(p) ==
  /\ task[p] = "alive"
  /\ proc' = [proc EXCEPT ![p].queued = IF @ = 0 THEN 1 ELSE @]
  /\ UNCHANGED <<task, conf, misused>>

(* Mutant: pause is called again after the handler.                        *)
HandlerReturnsToPause(l) == l

(* receiveData and my_func only print; pause returns after them.           *)
HandlerReturns(l) == IF l = "pause" THEN "exit" ELSE l

(* external: a process in user mode, in pause, or on its way back from a   *)
(* call runs its handler for a signal that is queued; a process without    *)
(* one is killed.                                                          *)
Deliver(p) ==
  /\ task[p] = "alive" /\ proc[p].queued > 0 /\ proc[p].at \notin InKernel \cup {"oops"}
  /\ \/ /\ proc[p].handler
        /\ proc' = [proc EXCEPT ![p].queued = @ - 1,
                                ![p].handled = TRUE,
                                ![p].at = HandlerReturns(@)]
        /\ UNCHANGED task
     \/ /\ ~proc[p].handler
        /\ task' = [task EXCEPT ![p] = "zombie"]
        /\ UNCHANGED proc
  /\ UNCHANGED <<conf, misused>>

(* main ends.                                                              *)
MainEnds(p) ==
  /\ At(p, "exit")
  /\ task' = [task EXCEPT ![p] = "zombie"]
  /\ UNCHANGED <<proc, conf, misused>>

(* external: the parent waits for the process, which then cannot be looked *)
(* up any more; its task is freed when nobody who looked it up is still    *)
(* inside rcu_read_lock.                                                   *)
Reap(p) ==
  /\ \/ /\ task[p] = "zombie"
        /\ task' = [task EXCEPT ![p] = "reaped"]
     \/ /\ task[p] = "reaped"
        /\ \A q \in Tasks : ~(At(q, "rcu") /\ proc[q].found = p)
        /\ task' = [task EXCEPT ![p] = "freed"]
  /\ UNCHANGED <<proc, conf, misused>>

-----------------------------------------------------------------------------
MainStep(p) ==
  \/ SigAction(p) \/ OpenConf(p) \/ WritePid(p) \/ FindTask(p) \/ RcuReadUnlock(p)
  \/ SendSigInfo(p) \/ PidWritten(p) \/ Pause(p) \/ MainEnds(p)

(* The copies of both programs in 03-fileOperate do the same.              *)
SignalsNext ==
  \/ KsigInit \/ KsigExit
  \/ \E p \in Tasks : MainStep(p) \/ Deliver(p) \/ Reap(p)
  \/ \E p \in Pausers : CtrlC(p)

SignalsSpec == SignalsInit /\ [][SignalsNext]_sigVars

(* The pausing program runs on, signals are delivered, and its user types  *)
(* ctrl-c as long as it sleeps.                                            *)
SignalsFairSpec ==
  /\ SignalsSpec
  /\ \A p \in Pausers : /\ WF_sigVars(MainStep(p)) /\ WF_sigVars(Deliver(p))
                        /\ WF_sigVars(At(p, "pause") /\ CtrlC(p))

-----------------------------------------------------------------------------
SignalsTypeOK ==
  /\ task \in [Tasks -> {"alive", "zombie", "reaped", "freed"}]
  /\ proc \in [Tasks ->
       [at : {"start", "open", "write", "find", "rcu", "send", "return", "exit",
              "oops", "before_pause", "pause"},
        handler : BOOLEAN, queued : 0 .. MaxQueued, handled : BOOLEAN,
        found : Tasks \cup {NoPid}, result : {"none", "ok", "error"}]]
  /\ conf \in BOOLEAN
  /\ misused \subseteq Tasks

(* The task an app's write_pid uses after rcu_read_unlock is the app       *)
(* itself, which is alive: only a pid that somebody else writes leads to a *)
(* task that is freed between the look-up and the signal.                  *)
AppSignalsItself ==
  /\ \A p \in Apps : At(p, "rcu") \/ At(p, "send") => proc[p].found = p
  /\ misused \subseteq Shells

(* An app whose write has succeeded has run its handler by the time main   *)
(* goes on, so that it may exit at once.                                   *)
SignalReceived ==
  \A p \in Apps : At(p, "exit") /\ proc[p].result = "ok" => proc[p].handled

(* A user who goes on typing ctrl-c ends the program of mysignal.c,        *)
(* although the first ctrl-c after signal() may be handled before pause.   *)
PauseEnds == \A p \in Pausers : proc[p].handler ~> task[p] # "alive"
=============================================================================
