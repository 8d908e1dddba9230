--------------------------- MODULE NotifierProofs ---------------------------
(***************************************************************************)
(* Proofs about Notifier, for any number of callbacks and any width of     *)
(* the counter.                                                            *)
(***************************************************************************)
EXTENDS Notifier, SequenceTheorems, TLAPS

-----------------------------------------------------------------------------
(* Where the pointer of block b leads once all blocks are registered: an   *)
(* unlinked block keeps its pointer, so the exit function changes none but *)
(* that of the head.                                                       *)
After(b) == IF b = NB THEN Head0 ELSE b + 1

(* init links the blocks from the front, exit unlinks them from the front. *)
ChainOK ==
  /\ mod = "init" =>
       /\ linked = 1 .. step
       /\ nxt[step] = Head0
       /\ \A b \in 0 .. step - 1 : nxt[b] = b + 1
  /\ mod # "init" =>
       /\ linked = (step + 1) .. NB
       /\ nxt[Head0] = After(step)
       /\ \A b \in Blocks : nxt[b] = After(b)
  /\ mod = "live" => step = 0

(* A round has called blocks in the order of the chain and comes next to   *)
(* one that is behind them; a round nobody disturbs began with the first.  *)
RoundOK ==
  /\ hpc # "idle" => event = count
  /\ whole /\ hpc # "idle" => mod = "live"
  /\ \A j, k \in 1 .. Len(called) : j < k => called[j] < called[k]
  /\ hpc = "call" /\ nb # Head0 => \A j \in 1 .. Len(called) : called[j] < nb
  /\ hpc # "idle" /\ whole => \A j \in 1 .. Len(called) : called[j] = j
  /\ hpc = "call" /\ whole => nb = After(Len(called))
  /\ hpc \in {"rearm", "count"} /\ whole => Len(called) = NB

(* Nothing ticks before init has ended, and after del_timer only what was  *)
(* running then.                                                           *)
TimerOK ==
  \/ mod = "live"
  \/ mod \in {"exit", "gone"} /\ raced
  \/ ~timer /\ hpc = "idle"

NotifierInv == TypeOK /\ ChainOK /\ RoundOK /\ TimerOK

-----------------------------------------------------------------------------
LEMMA NotifierInitial == Init => NotifierInv
<1> SUFFICES ASSUME Init PROVE NotifierInv
  OBVIOUS
<1>1. timer \in BOOLEAN /\ whole \in BOOLEAN /\ raced \in BOOLEAN
  BY Zenon DEF Init
<1>2. TypeOK
  BY <1>1, NotifierAssumption DEF Init, TypeOK, Head0, Blocks
<1>3. ChainOK /\ RoundOK /\ TimerOK
  BY NotifierAssumption DEF Init, ChainOK, RoundOK, TimerOK, Head0, Blocks, After
<1>4. QED
  BY <1>2, <1>3 DEF NotifierInv

(* The block an init function appends after, and the one an exit function  *)
(* unlinks from, are the only ones the CHOOSE of the chain can find.       *)
LEMMA LastBlock ==
  ASSUME NotifierInv, mod = "init"
  PROVE  (CHOOSE a \in linked \cup {Head0} : nxt[a] = Head0) = step
<1> USE NotifierAssumption DEF NotifierInv, TypeOK, ChainOK, Head0, Blocks
<1>1. step \in linked \cup {Head0} /\ nxt[step] = Head0
  OBVIOUS
<1>2. ASSUME NEW a \in linked \cup {Head0}, nxt[a] = Head0 PROVE a = step
  BY <1>2
<1>3. QED
  BY <1>1, <1>2

LEMMA FirstBlock ==
  ASSUME NotifierInv, mod = "exit", step < NB
  PROVE  (CHOOSE a \in linked \cup {Head0} : nxt[a] = step + 1) = Head0
<1> USE NotifierAssumption DEF NotifierInv, TypeOK, ChainOK, Head0, Blocks, After
<1>1. Head0 \in linked \cup {Head0} /\ nxt[Head0] = step + 1
  OBVIOUS
<1>2. ASSUME NEW a \in linked \cup {Head0}, nxt[a] = step + 1 PROVE a = Head0
  BY <1>2
<1>3. QED
  BY <1>1, <1>2

-----------------------------------------------------------------------------
(* myNotifier_init and myNotifier_exit.                                    *)
LEMMA InvRegister == ASSUME NotifierInv, Register PROVE NotifierInv'
<1> USE NotifierAssumption DEF NotifierInv, Head0, Blocks
<1>1. /\ nxt' = [nxt EXCEPT ![step] = step + 1, ![step + 1] = Head0]
      /\ linked' = linked \cup {step + 1} /\ step' = step + 1 /\ step < NB
      /\ mod = "init"
      /\ UNCHANGED <<timer, count, mod, raced, hpc, nb, called, event, whole>>
  BY LastBlock DEF Register, ChainRegister, handlerVars
<1>2. TypeOK'
  BY <1>1 DEF TypeOK
<1>3. ChainOK'
  <2>1. linked' = 1 .. step'
    BY <1>1 DEF TypeOK, ChainOK
  <2>2. nxt'[step'] = Head0
    BY <1>1 DEF TypeOK
  <2>3. ASSUME NEW b \in 0 .. step PROVE nxt'[b] = b + 1
    <3>1. step \in 0 .. NB - 1 /\ nxt \in [0 .. NB -> 0 .. NB]
      BY <1>1 DEF TypeOK
    <3>2. CASE b = step
      BY <1>1, <3>1, <3>2
    <3>3. CASE b \in 0 .. step - 1
      BY <1>1, <3>1, <3>3 DEF ChainOK
    <3>4. QED
      BY <3>1, <3>2, <3>3
  <2>4. step' - 1 = step
    BY <1>1 DEF TypeOK
  <2>5. QED
    BY <1>1, <2>1, <2>2, <2>3, <2>4 DEF ChainOK
<1>4. RoundOK'
  BY <1>1 DEF RoundOK, After
<1>5. TimerOK'
  BY <1>1 DEF TimerOK
<1>6. QED
  BY <1>2, <1>3, <1>4, <1>5

LEMMA InvAddTimer == ASSUME NotifierInv, AddTimer PROVE NotifierInv'
<1> USE NotifierAssumption DEF NotifierInv, Head0, Blocks
<1>1. /\ mod = "init" /\ mod' = "live" /\ step = NB /\ step' = 0
      /\ timer' = TRUE
      /\ UNCHANGED <<nxt, linked, count, raced, hpc, nb, called, event, whole>>
  BY DEF AddTimer, handlerVars
<1>2. TypeOK'
  BY <1>1 DEF TypeOK
<1>3. ChainOK'
  BY <1>1 DEF TypeOK, ChainOK, After
<1>4. RoundOK'
  BY <1>1 DEF RoundOK, After
<1>5. TimerOK'
  BY <1>1 DEF TimerOK
<1>6. QED
  BY <1>2, <1>3, <1>4, <1>5

LEMMA InvDelTimer == ASSUME NotifierInv, DelTimer PROVE NotifierInv'
<1> USE NotifierAssumption DEF NotifierInv, Head0, Blocks
<1>1. /\ mod = "live" /\ mod' = "exit"
      /\ timer' = FALSE /\ whole' = FALSE
      /\ UNCHANGED <<nxt, linked, count, step, hpc, nb, called, event>>
  BY DEF DelTimer, handlerVars
<1>2. raced' \in BOOLEAN /\ (raced' \/ hpc = "idle")
  BY Zenon DEF DelTimer
<1>3. TypeOK'
  BY <1>1, <1>2 DEF TypeOK
<1>4. ChainOK'
  BY <1>1 DEF TypeOK, ChainOK, After
<1>5. RoundOK'
  BY <1>1 DEF RoundOK, After
<1>6. TimerOK'
  BY <1>1, <1>2 DEF TimerOK
<1>7. QED
  BY <1>3, <1>4, <1>5, <1>6

LEMMA InvUnregister == ASSUME NotifierInv, Unregister PROVE NotifierInv'
<1> USE NotifierAssumption DEF NotifierInv, Head0, Blocks
<1>1. /\ nxt' = [nxt EXCEPT ![Head0] = nxt[step + 1]]
      /\ linked' = linked \ {step + 1} /\ step' = step + 1 /\ step < NB
      /\ mod = "exit"
      /\ UNCHANGED <<timer, count, mod, raced, hpc, nb, called, event, whole>>
  BY FirstBlock DEF Unregister, ChainUnregister, handlerVars
<1>2. TypeOK'
  BY <1>1 DEF TypeOK
<1>3. ChainOK'
  BY <1>1 DEF TypeOK, ChainOK, After
<1>4. RoundOK'
  BY <1>1 DEF RoundOK, After
<1>5. TimerOK'
  BY <1>1 DEF TimerOK
<1>6. QED
  BY <1>2, <1>3, <1>4, <1>5

LEMMA InvUnloaded == ASSUME NotifierInv, Unloaded PROVE NotifierInv'
BY DEF NotifierInv, TypeOK, ChainOK, RoundOK, TimerOK, Unloaded, handlerVars, After

-----------------------------------------------------------------------------
(* notifier_function.                                                      *)
LEMMA InvExpire == ASSUME NotifierInv, Expire PROVE NotifierInv'
<1> USE NotifierAssumption DEF NotifierInv, Head0, Blocks
<1>1. /\ hpc' = "call" /\ nb' = nxt[Head0] /\ called' = <<>> /\ event' = count
      /\ timer' = FALSE
      /\ UNCHANGED <<nxt, linked, count, mod, step, raced>>
  BY DEF Expire, modVars
<1>2. whole' \in BOOLEAN /\ (whole' => mod = "live")
  BY Zenon DEF Expire
<1>3. mod = "live" \/ (mod \in {"exit", "gone"} /\ raced)
  BY DEF Expire, TimerOK
<1>4. TypeOK'
  <2>1. called' \in Seq(Blocks)
    BY <1>1, Zenon, EmptySeq
  <2>2. timer' \in BOOLEAN
    BY <1>1, Zenon
  <2>3. QED
    BY <1>1, <1>2, <2>1, <2>2 DEF TypeOK
<1>5. ChainOK'
  BY <1>1 DEF ChainOK, After
<1>6. RoundOK'
  BY <1>1, <1>2 DEF RoundOK, ChainOK, After
<1>7. TimerOK'
  BY <1>1, <1>3 DEF TimerOK
<1>8. QED
  BY <1>4, <1>5, <1>6, <1>7

LEMMA InvCallBlock == ASSUME NotifierInv, CallBlock PROVE NotifierInv'
<1> USE NotifierAssumption DEF NotifierInv, Head0, Blocks
<1>1. /\ called' = Append(called, nb) /\ nb' = nxt[nb] /\ nb # Head0
      /\ hpc = "call"
      /\ UNCHANGED <<nxt, linked, timer, count, mod, step, raced, hpc, event, whole>>
  BY DEF CallBlock, modVars
<1>2. nb \in Blocks /\ called \in Seq(Blocks)
  BY <1>1 DEF TypeOK
<1>3. /\ called' \in Seq(Blocks) /\ Len(called') = Len(called) + 1
      /\ \A j \in 1 .. Len(called) : called'[j] = called[j]
      /\ called'[Len(called) + 1] = nb
      /\ Len(called) \in Nat
  BY <1>1, <1>2, AppendProperties
<1>4. \A j \in 1 .. Len(called) : called[j] \in Blocks
  BY <1>2
<1>5. mod # "init"
  BY <1>1 DEF TimerOK
<1>6. nb' = After(nb)
  BY <1>1, <1>2, <1>5 DEF ChainOK
<1>7. TypeOK'
  BY <1>1, <1>2, <1>3 DEF TypeOK
<1>8. ChainOK'
  BY <1>1 DEF ChainOK
<1>9. RoundOK'
  <2>1. /\ hpc' # "idle" => event' = count'
        /\ whole' /\ hpc' # "idle" => mod' = "live"
    BY <1>1 DEF RoundOK
  <2>2. \A j \in 1 .. Len(called) : called[j] < nb
    BY <1>1 DEF RoundOK
  <2>3. \A j, k \in 1 .. Len(called') : j < k => called'[j] < called'[k]
    <3>1. ASSUME NEW j \in 1 .. Len(called'), NEW k \in 1 .. Len(called'), j < k
          PROVE  called'[j] < called'[k]
      <4>1. j \in 1 .. Len(called) /\ called'[j] = called[j]
        BY <1>3, <3>1
      <4>2. CASE k \in 1 .. Len(called)
        BY <1>3, <3>1, <4>1, <4>2 DEF RoundOK
      <4>3. CASE k = Len(called) + 1
        BY <1>3, <2>2, <4>1, <4>3
      <4>4. QED
        BY <1>3, <4>2, <4>3
    <3>2. QED
      BY <3>1
  <2>4. hpc' = "call" /\ nb' # Head0 => \A j \in 1 .. Len(called') : called'[j] < nb'
    <3>1. ASSUME nb' # Head0, NEW j \in 1 .. Len(called') PROVE called'[j] < nb'
      <4>1. nb' = nb + 1
        BY <1>6, <3>1 DEF After
      <4>2. CASE j \in 1 .. Len(called)
        <5>1. called[j] \in 1 .. NB /\ nb \in 1 .. NB /\ called[j] < nb
          BY <1>2, <1>4, <2>2, <4>2
        <5>2. called'[j] = called[j]
          BY <1>3, <4>2
        <5>3. QED
          BY <4>1, <5>1, <5>2
      <4>3. CASE j = Len(called) + 1
        BY <1>2, <1>3, <4>1, <4>3
      <4>4. QED
        BY <1>3, <4>2, <4>3
    <3>2. QED
      BY <3>1
  <2>5. whole => nb = Len(called) + 1
    BY <1>1, <1>2 DEF RoundOK, After
  <2>6. hpc' # "idle" /\ whole' => \A j \in 1 .. Len(called') : called'[j] = j
    BY <1>1, <1>3, <2>5 DEF RoundOK
  <2>7. hpc' = "call" /\ whole' => nb' = After(Len(called'))
    BY <1>1, <1>3, <1>6, <2>5
  <2>8. QED
    BY <1>1, <2>1, <2>3, <2>4, <2>6, <2>7 DEF RoundOK, After
<1>10. TimerOK'
  BY <1>1 DEF TimerOK
<1>11. QED
  BY <1>7, <1>8, <1>9, <1>10

LEMMA InvEndOfChain == ASSUME NotifierInv, EndOfChain PROVE NotifierInv'
<1> USE NotifierAssumption DEF NotifierInv, Head0, Blocks
<1>1. /\ hpc = "call" /\ hpc' = "rearm" /\ nb = Head0
      /\ UNCHANGED <<nxt, linked, timer, count, mod, step, raced, nb, called, event, whole>>
  BY DEF EndOfChain, modVars
<1>2. TypeOK' /\ ChainOK' /\ TimerOK'
  BY <1>1 DEF TypeOK, ChainOK, TimerOK, After
<1>3. Len(called) \in Nat
  BY DEF TypeOK
<1>4. RoundOK'
  BY <1>1, <1>3 DEF RoundOK, After
<1>5. QED
  BY <1>2, <1>4

LEMMA InvModTimer == ASSUME NotifierInv, ModTimer PROVE NotifierInv'
<1> USE NotifierAssumption DEF NotifierInv, Head0, Blocks
<1>1. /\ hpc = "rearm" /\ hpc' = "count" /\ timer' = TRUE
      /\ UNCHANGED <<nxt, linked, count, mod, step, raced, nb, called, event, whole>>
  BY DEF ModTimer, modVars
<1>2. TypeOK' /\ ChainOK' /\ RoundOK' /\ TimerOK'
  BY <1>1 DEF TypeOK, ChainOK, RoundOK, TimerOK, After
<1>3. QED
  BY <1>2

LEMMA InvCount == ASSUME NotifierInv, Count PROVE NotifierInv'
<1> USE NotifierAssumption DEF NotifierInv, Head0, Blocks
<1>1. /\ hpc = "count" /\ hpc' = "idle" /\ count' = (count + 1) % WORD
      /\ UNCHANGED <<nxt, linked, timer, mod, step, raced, nb, called, event, whole>>
  BY DEF Count, modVars
<1>2. count' \in 0 .. WORD - 1
  BY <1>1 DEF TypeOK
<1>3. TypeOK' /\ ChainOK' /\ RoundOK' /\ TimerOK'
  BY <1>1, <1>2 DEF TypeOK, ChainOK, RoundOK, TimerOK, After
<1>4. QED
  BY <1>3

LEMMA NotifierInvariant == Spec => []NotifierInv
<1>1. NotifierInv /\ UNCHANGED vars => NotifierInv'
  BY DEF NotifierInv, TypeOK, ChainOK, RoundOK, TimerOK, vars, After
<1>2. NotifierInv /\ [Next]_vars => NotifierInv'
  BY <1>1, InvRegister, InvAddTimer, InvDelTimer, InvUnregister, InvUnloaded, InvExpire,
     InvCallBlock, InvEndOfChain, InvModTimer, InvCount
     DEF Next, ModuleStep, HandlerStep
<1>3. QED
  BY NotifierInitial, <1>2, PTL DEF Spec

-----------------------------------------------------------------------------
(* Every round of the timer calls the callbacks in the order of their      *)
(* registration, none twice, and all of them with the count of the round   *)
(* when myNotifier_exit does not begin under it, however long the chain.   *)
THEOREM CalledInOrder == Spec => []InOrder
<1>1. ASSUME NotifierInv PROVE InOrder
  <2> USE NotifierAssumption, <1>1 DEF NotifierInv, RoundOK
  <2>1. ASSUME hpc \in {"rearm", "count"}, whole PROVE called = [k \in Blocks |-> k]
    <3>1. called \in Seq(Blocks) /\ Len(called) = NB
      BY <2>1 DEF TypeOK
    <3>2. called = [k \in 1 .. NB |-> called[k]]
      BY <3>1
    <3>3. \A k \in 1 .. NB : called[k] = k
      BY <2>1, <3>1
    <3>4. QED
      BY <3>2, <3>3 DEF Blocks
  <2>2. QED
    BY <2>1 DEF InOrder
<1>2. QED
  BY <1>1, NotifierInvariant, PTL

(* A timer that survives rmmod, or a timer function that runs in released  *)
(* memory, comes of a del_timer that met a running timer function, and of  *)
(* nothing else.                                                           *)
THEOREM QuietUnloadHolds == Spec => []QuietUnload
<1>1. NotifierInv => QuietUnload
  BY DEF NotifierInv, TimerOK, QuietUnload
<1>2. QED
  BY <1>1, NotifierInvariant, PTL
=============================================================================
