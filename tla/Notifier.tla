------------------------------ MODULE Notifier ------------------------------
(***************************************************************************)
(* The module of 05-Notifier (notifier.c): a timer whose function calls a  *)
(* raw notifier chain of NB callbacks once a second, and an exit function  *)
(* that deletes the timer and takes the chain apart.  The timer function   *)
(* runs in the softirq of one CPU while insmod and rmmod run on another,   *)
(* and neither a raw chain nor del_timer makes one wait for the other.     *)
(***************************************************************************)
EXTENDS Integers, Sequences

CONSTANTS
  NB,       \* number of callbacks on the chain (3 in the code)
  WORD      \* count is an unsigned long: it wraps at WORD

Head0 == 0           \* the head of the chain, and NULL at its end
Blocks == 1 .. NB    \* notifier1, notifier2, ...

ASSUME NotifierAssumption == NB \in Nat \ {0} /\ WORD \in Nat \ {0}

VARIABLES
  nxt,      \* the next pointers of the chain, nxt[Head0] is its first block
  linked,   \* the blocks that are on the chain
  timer,    \* whether the timer is pending
  count,    \* the event that is passed to the chain
  mod,      \* how far myNotifier_init or myNotifier_exit has got
  step,     \* how many blocks it has registered or unregistered
  hpc,      \* where the timer function is
  nb,       \* the block the call chain is at
  called,   \* the blocks called in this round
  event,    \* the event this round passes
  whole,    \* the exit function had not begun during this round
  raced     \* the timer function was running when del_timer was called

vars == <<nxt, linked, timer, count, mod, step, hpc, nb, called, event, whole, raced>>

modVars == <<mod, step, raced>>
handlerVars == <<hpc, nb, called, event>>

Init ==
  /\ nxt = [b \in {Head0} \cup Blocks |-> Head0]
  /\ linked = {}
  /\ timer = FALSE
  /\ count = 0
  /\ mod = "init"
  /\ step = 0
  /\ hpc = "idle"
  /\ nb = Head0
  /\ called = <<>>
  /\ event = 0
  /\ whole = TRUE
  /\ raced = FALSE

-----------------------------------------------------------------------------
(* Mutant: a new block goes to the head of the chain.                      *)
ChainRegisterFirst(b) ==
  /\ nxt' = [nxt EXCEPT ![Head0] = b, ![b] = nxt[Head0]]
  /\ linked' = linked \cup {b}

(* external: raw_notifier_chain_register puts a block of equal priority at *)
(* the end, raw_notifier_chain_unregister unlinks it; the block keeps its  *)
(* next pointer.                                                           *)
ChainRegister(b) ==
  LET last == CHOOSE a \in linked \cup {Head0} : nxt[a] = Head0
  IN /\ nxt' = [nxt EXCEPT ![last] = b, ![b] = Head0]
     /\ linked' = linked \cup {b}

ChainUnregister(b) ==
  LET prev == CHOOSE a \in linked \cup {Head0} : nxt[a] = b
  IN /\ nxt' = [nxt EXCEPT ![prev] = nxt[b]]
     /\ linked' = linked \ {b}

(* myNotifier_init: the blocks in turn, then add_timer.                    *)
Register ==
  /\ mod = "init"
  /\ step < NB
  /\ ChainRegister(step + 1)
  /\ step' = step + 1
  /\ UNCHANGED <<timer, count, mod, raced, handlerVars, whole>>

AddTimer ==
  /\ mod = "init"
  /\ step = NB
  /\ timer' = TRUE
  /\ mod' = "live"
  /\ step' = 0
  /\ UNCHANGED <<nxt, linked, count, raced, handlerVars, whole>>

(* Mutant: del_timer is forgotten.                                         *)
DelTimerNot ==
  /\ mod = "live"
  /\ raced' = (hpc # "idle")
  /\ whole' = FALSE
  /\ mod' = "exit"
  /\ UNCHANGED <<nxt, linked, timer, count, step, handlerVars>>

(* myNotifier_exit: del_timer takes a pending timer away but does not wait *)
(* for a timer function that is running.                                   *)
DelTimer ==
  /\ mod = "live"
  /\ timer' = FALSE
  /\ raced' = (hpc # "idle")
  /\ whole' = FALSE
  /\ mod' = "exit"
  /\ UNCHANGED <<nxt, linked, count, step, handlerVars>>

Unregister ==
  /\ mod = "exit"
  /\ step < NB
  /\ ChainUnregister(step + 1)
  /\ step' = step + 1
  /\ UNCHANGED <<timer, count, mod, raced, handlerVars, whole>>

(* The memory of the module is released.                                   *)
Unloaded ==
  /\ mod = "exit"
  /\ step = NB
  /\ mod' = "gone"
  /\ UNCHANGED <<nxt, linked, timer, count, step, raced, handlerVars, whole>>

-----------------------------------------------------------------------------
(* The timer expires and notifier_function begins; the kernel never runs   *)
(* it twice at a time.                                                     *)
Expire ==
  /\ timer
  /\ hpc = "idle"
  /\ mod # "gone"
  /\ timer' = FALSE
  /\ hpc' = "call"
  /\ nb' = nxt[Head0]
  /\ called' = <<>>
  /\ event' = count
  /\ whole' = (mod = "live")
  /\ UNCHANGED <<nxt, linked, count, modVars>>

(* raw_notifier_call_chain: the next pointer is read before the callback   *)
(* runs.  The callbacks have no return statement: what they return is the  *)
(* length of the line they logged, in which the stop bit is clear.         *)
CallBlock ==
  /\ hpc = "call"
  /\ mod # "gone"
  /\ nb # Head0
  /\ called' = Append(called, nb)
  /\ nb' = nxt[nb]
  /\ UNCHANGED <<nxt, linked, timer, count, modVars, hpc, event, whole>>

EndOfChain ==
  /\ hpc = "call"
  /\ mod # "gone"
  /\ nb = Head0
  /\ hpc' = "rearm"
  /\ UNCHANGED <<nxt, linked, timer, count, modVars, nb, called, event, whole>>

(* Mutant: the timer is not set again.                                     *)
ModTimerNot ==
  /\ hpc = "rearm"
  /\ mod # "gone"
  /\ hpc' = "count"
  /\ UNCHANGED <<nxt, linked, timer, count, modVars, nb, called, event, whole>>

(* mod_timer(&timer, jiffies + HZ)                                         *)
ModTimer ==
  /\ hpc = "rearm"
  /\ mod # "gone"
  /\ timer' = TRUE
  /\ hpc' = "count"
  /\ UNCHANGED <<nxt, linked, count, modVars, nb, called, event, whole>>

(* count++                                                                 *)
Count ==
  /\ hpc = "count"
  /\ mod # "gone"
  /\ count' = (count + 1) % WORD
  /\ hpc' = "idle"
  /\ UNCHANGED <<nxt, linked, timer, modVars, nb, called, event, whole>>

-----------------------------------------------------------------------------
ModuleStep == Register \/ AddTimer \/ Unregister \/ Unloaded

HandlerStep == CallBlock \/ EndOfChain \/ ModTimer \/ Count

Next == ModuleStep \/ DelTimer \/ Expire \/ HandlerStep

(* Init and exit run to their end and the timer interrupt comes; nobody    *)
(* has to call rmmod.                                                      *)
Spec ==
  /\ Init /\ [][Next]_vars
  /\ WF_vars(ModuleStep) /\ WF_vars(Expire) /\ WF_vars(HandlerStep)

-----------------------------------------------------------------------------
TypeOK ==
  /\ nxt \in [{Head0} \cup Blocks -> {Head0} \cup Blocks]
  /\ linked \subseteq Blocks
  /\ timer \in BOOLEAN
  /\ count \in 0 .. WORD - 1
  /\ mod \in {"init", "live", "exit", "gone"}
  /\ step \in 0 .. NB
  /\ hpc \in {"idle", "call", "rearm", "count"}
  /\ nb \in {Head0} \cup Blocks
  /\ called \in Seq(Blocks)
  /\ event \in 0 .. WORD - 1
  /\ whole \in BOOLEAN
  /\ raced \in BOOLEAN

(* The readme: a round passes count to the three functions and triggers    *)
(* them in order.  Also while the exit function takes the chain apart      *)
(* under a round, no callback runs twice or out of order.                  *)
InOrder ==
  /\ \A j, k \in 1 .. Len(called) : j < k => called[j] < called[k]
  /\ hpc \in {"rearm", "count"} =>
       /\ event = count
       /\ whole => called = [k \in Blocks |-> k]

(* rmmod leaves a timer behind, or a timer function running in memory that *)
(* is gone, only when the function was running at the moment of del_timer. *)
QuietUnload == mod = "gone" /\ ~raced => ~timer /\ hpc = "idle"

(* The chain is called again and again until rmmod.                        *)
KeepsTicking == []<>(hpc = "call" \/ mod \in {"exit", "gone"})
=============================================================================
