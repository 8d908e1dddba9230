--------------------------- MODULE CharDevProofs ---------------------------
(***************************************************************************)
(* Proofs about loading and unloading the drivers, for any number of       *)
(* processes, loads and writes: CharDev first, then Kobject; and about the *)
(* buffer of the driver of RWTest.                                         *)
(***************************************************************************)
EXTENDS CharDev, Kobject, RWTest, SequenceTheorems, FiniteSetTheorems, TLAPS

-----------------------------------------------------------------------------
(* The calls of the init and exit functions as sequences without           *)
(* repetition; an init function makes ready what the calls use at its end. *)
Steps == {"region", "cdev", "add", "class", "node", "memory", "ready", "misc", "chrdev"}

Distinct(s) == \A i, j \in 1 .. Len(s) : s[i] = s[j] => i = j

ReadyLast(s) == \A i \in 1 .. Len(s) : s[i] = "ready" => i = Len(s)

Steplist(s) == s \in Seq(Steps) /\ Distinct(s)

(* What a running init function has still to do, it has not done; and what *)
(* it can only fail at by giving up it has done or will do.                *)
Loading ==
  mod = "coming" /\ todo # <<"oops">> =>
    /\ Steplist(todo) /\ ReadyLast(todo)
    /\ ToSet(todo) \subseteq ToSet(InitSteps[drv])
    /\ held \cap ToSet(todo) = {}
    /\ ToSet(InitSteps[drv]) \cap {"ready", "memory"} \subseteq held \cup ToSet(todo)
    /\ ret # 0 => "misc" \notin ToSet(todo)

(* A running exit function gives back all but what is kept.                *)
Unloading ==
  mod = "going" /\ todo # <<"oops">> =>
    /\ Steplist(todo)
    /\ ToSet(todo) \subseteq ToSet(ExitSteps(drv))
    /\ held \subseteq ToSet(todo) \cup Kept

(* Loaded means initialised, until the exit function of mmap frees its     *)
(* page, and the page is there before it is made ready.                    *)
Initialised ==
  /\ held \subseteq ToSet(InitSteps[drv])
  /\ mod \in {"live", "going"} /\ "ready" \in ToSet(InitSteps[drv]) =>
       "ready" \in held \/ (drv = "mmap" /\ mod = "going")
  /\ drv = "mmap" /\ mod \in {"coming", "live"} /\ "ready" \in held => "memory" \in held

(* An init function that has left something behind was the last; only that *)
(* of mmap goes on after an error, which is that of misc_register, and     *)
(* returns it in the end.                                                  *)
Gone ==
  /\ ret # 0 => drv = "mmap" /\ "misc" \notin held
  /\ aborted /\ drv # "mutex" => held \subseteq {"memory", "ready"}
  /\ aborted => mod = "out"
  /\ mod = "out" /\ ~aborted => held \subseteq Kept

(* Files, mappings and calls keep a module that owns its operations.       *)
FilesKeep ==
  /\ \A p \in Users : file[p] = "stale" => aborted \/ drv \notin Owned
  /\ drv \in Owned /\ ~aborted =>
       \A p \in Users : InUse(p) => mod \in {"coming", "live"} /\ Published
  /\ mapped # {} => drv = "mmap" /\ (~aborted => "ready" \in held)
  /\ \A p \in Users : call[p] # "no" => file[p] = "open"

DevInv == DevTypeOK /\ Loading /\ Unloading /\ Initialised /\ Gone /\ FilesKeep

(* The semaphore: who sleeps is in the list once, and before sema_init     *)
(* nobody is in a call.                                                    *)
Woken == {p \in Users : call[p] = "woken"}

SemInv ==
  drv = "semaphore" =>
    /\ ~aborted
    /\ sleepers \in Seq(Users) /\ Distinct(sleepers)
    /\ \A p \in Users : call[p] = "sleep" <=> p \in ToSet(sleepers)
    /\ "ready" \notin held => \A p \in Users : call[p] = "no"
    /\ "ready" \in held => /\ sem + downs + Cardinality(Woken) = 1 + ups
                           /\ sleepers # <<>> => sem = 0

LEMMA StepsOf ==
  ASSUME NEW d \in Drivers
  PROVE  /\ Steplist(InitSteps[d]) /\ ReadyLast(InitSteps[d])
         /\ Steplist(ExitSteps(d))
         /\ "ready" \in ToSet(ExitSteps(d)) => d = "mmap"
         /\ ToSet(InitSteps[d]) \subseteq
              ToSet(ExitSteps(d)) \cup {"ready"}
                \cup (IF d \in CdevDrivers THEN {"cdev"} ELSE {})
                \cup (IF d = "mutex" THEN {"memory"} ELSE {})
  <1> USE DEF InitSteps, CharInit, SemaphoreInit, MutexInit, MiscInit, QueueWaitInit,
              MmapInit, RWTestInit, ExitSteps, CdevExit, MmapExit, CdevDrivers,
              Steplist, Distinct, ReadyLast, Steps, ToSet
  <1>1. CASE d = "char"
    BY <1>1
  <1>2. CASE d = "misc"
    BY <1>2
  <1>3. CASE d = "semaphore"
    BY <1>3
  <1>4. CASE d = "mutex"
    BY <1>4
  <1>5. CASE d = "rwtest"
    BY <1>5
  <1>6. CASE d = "queue_wait"
    BY <1>6
  <1>7. CASE d = "mmap"
    BY <1>7
  <1>8. d \in {"char", "misc", "semaphore", "mutex", "rwtest", "queue_wait", "mmap"}
    BY DEF Drivers
  <1> QED
    BY <1>1, <1>2, <1>3, <1>4, <1>5, <1>6, <1>7, <1>8

(* Taking the head off a sequence without repetition.                      *)
LEMMA TailDistinct ==
  ASSUME NEW Elems, NEW s \in Seq(Elems), Distinct(s), s # <<>>
  PROVE  /\ Tail(s) \in Seq(Elems) /\ Distinct(Tail(s))
         /\ Head(s) \in Elems
         /\ ToSet(s) = ToSet(Tail(s)) \cup {Head(s)}
         /\ Head(s) \notin ToSet(Tail(s))
  <1>1. /\ Head(s) \in Elems /\ Tail(s) \in Seq(Elems) /\ Len(Tail(s)) = Len(s) - 1
        /\ \A i \in 1 .. Len(Tail(s)) : Tail(s)[i] = s[i + 1]
    BY HeadTailProperties
  <1>2. Head(s) = s[1] /\ Len(s) \in Nat \ {0}
    BY EmptySeq
  <1>3. DOMAIN s = 1 .. Len(s) /\ DOMAIN Tail(s) = 1 .. Len(Tail(s))
    BY <1>1
  <1>4. Distinct(Tail(s))
    <2> SUFFICES ASSUME NEW i \in 1 .. Len(Tail(s)), NEW j \in 1 .. Len(Tail(s)),
                        Tail(s)[i] = Tail(s)[j]
                 PROVE  i = j
      BY DEF Distinct
    <2>1. s[i + 1] = s[j + 1] /\ i + 1 \in 1 .. Len(s) /\ j + 1 \in 1 .. Len(s)
      BY <1>1, <1>2
    <2>2. i + 1 = j + 1
      BY <2>1 DEF Distinct
    <2> QED
      BY <2>2
  <1>5. ToSet(s) = ToSet(Tail(s)) \cup {Head(s)}
    <2>1. ASSUME NEW i \in 1 .. Len(s) PROVE s[i] \in ToSet(Tail(s)) \cup {Head(s)}
      <3>1. CASE i = 1
        BY <1>2, <3>1
      <3>2. CASE i # 1
        <4>1. i - 1 \in 1 .. Len(Tail(s)) /\ s[i] = Tail(s)[i - 1]
          BY <1>1, <1>2, <3>2
        <4> QED
          BY <4>1, <1>3 DEF ToSet
      <3> QED
        BY <3>1, <3>2
    <2>2. ASSUME NEW i \in 1 .. Len(Tail(s)) PROVE Tail(s)[i] \in ToSet(s)
      BY <1>1, <1>2, <1>3 DEF ToSet
    <2>3. Head(s) \in ToSet(s)
      BY <1>2, <1>3 DEF ToSet
    <2> QED
      BY <2>1, <2>2, <2>3, <1>3 DEF ToSet
  <1>6. Head(s) \notin ToSet(Tail(s))
    BY <1>1, <1>2, <1>3 DEF ToSet, Distinct
  <1> QED
    BY <1>1, <1>4, <1>5, <1>6

(* Nothing follows the step that makes a device ready.                     *)
LEMMA TailReadyLast ==
  ASSUME NEW s, Steplist(s), ReadyLast(s), s # <<>>
  PROVE  /\ ReadyLast(Tail(s))
         /\ Head(s) = "ready" => ToSet(Tail(s)) = {}
  <1>1. /\ Tail(s) \in Seq(Steps) /\ Len(Tail(s)) = Len(s) - 1
        /\ \A i \in 1 .. Len(Tail(s)) : Tail(s)[i] = s[i + 1]
    BY HeadTailProperties DEF Steplist
  <1>2. Head(s) = s[1] /\ Len(s) \in Nat \ {0}
    BY EmptySeq DEF Steplist
  <1>3. DOMAIN Tail(s) = 1 .. Len(Tail(s))
    BY <1>1
  <1>4. ReadyLast(Tail(s))
    <2> SUFFICES ASSUME NEW i \in 1 .. Len(Tail(s)), Tail(s)[i] = "ready"
                 PROVE  i = Len(Tail(s))
      BY DEF ReadyLast
    <2>1. s[i + 1] = "ready" /\ i + 1 \in 1 .. Len(s)
      BY <1>1, <1>2
    <2>2. i + 1 = Len(s)
      BY <2>1 DEF ReadyLast
    <2> QED
      BY <2>2, <1>1, <1>2
  <1>5. ASSUME Head(s) = "ready" PROVE ToSet(Tail(s)) = {}
    <2>1. 1 \in 1 .. Len(s) /\ s[1] = "ready"
      BY <1>2, <1>5
    <2>2. 1 = Len(s)
      BY <2>1 DEF ReadyLast
    <2>3. DOMAIN Tail(s) = {}
      BY <2>2, <1>1, <1>3
    <2> QED
      BY <2>3 DEF ToSet
  <1> QED
    BY <1>4, <1>5

LEMMA Empty == ToSet(<<>>) = {} /\ Steplist(<<>>) /\ ReadyLast(<<>>) /\ <<>> # <<"oops">>
  BY DEF ToSet, Steplist, ReadyLast, Distinct

LEMMA OopsIsNoStep ==
  ASSUME NEW s, Steplist(s)
  PROVE  s # <<"oops">>
  <1>1. "oops" \notin Steps
    BY DEF Steps
  <1>2. s \in Seq(Steps)
    BY DEF Steplist
  <1>3. \A i \in 1 .. Len(s) : s[i] \in Steps
    BY <1>2, ElementOfSeq
  <1>4. s = <<"oops">> => Len(s) = 1 /\ s[1] = "oops"
    OBVIOUS
  <1> QED
    BY <1>1, <1>3, <1>4

-----------------------------------------------------------------------------
(* DevInv is inductive: first the steps of insmod and rmmod.               *)
LEMMA DevInvInit == DevInit => DevInv
  <1> SUFFICES ASSUME DevInit PROVE DevInv
    OBVIOUS
  <1>1. DevTypeOK
    <2>1. /\ drv \in Drivers /\ mod \in {"out", "coming", "live", "going"}
          /\ held \subseteq UNION {ToSet(InitSteps[d]) : d \in Drivers}
          /\ ret \in {0, -1} /\ aborted \in BOOLEAN /\ mapped \subseteq Users
      BY DEF DevInit
    <2>2. /\ file \in [Users -> {"none", "open", "stale", "early"}]
          /\ call \in [Users -> {"no", "in", "sleep", "woken"}]
      BY DEF DevInit
    <2>3. /\ loads \in 0 .. MaxLoads /\ sem \in Nat /\ ups \in 0 .. MaxUps /\ downs \in Nat
      BY DevAssumption DEF DevInit
    <2> QED
      BY <2>1, <2>2, <2>3 DEF DevTypeOK
  <1>2. Loading /\ Unloading /\ Initialised /\ Gone
    BY DEF DevInit, Loading, Unloading, Initialised, Gone
  <1>3. FilesKeep
    BY DEF DevInit, FilesKeep, InUse
  <1> QED
    BY <1>1, <1>2, <1>3 DEF DevInv

LEMMA DevInvInsmod ==
  ASSUME DevInv, Insmod
  PROVE  DevInv'
  <1>1. drv \in Drivers /\ mod = "out" /\ ~aborted /\ held \subseteq Kept
    BY DEF DevInv, DevTypeOK, Insmod, Gone
  <1>2. ~Published
    <2>1. {"region", "add", "node", "misc", "chrdev"} \cap Kept = {}
      BY DEF Kept
    <2> QED
      BY <1>1, <2>1 DEF Published
  <1>3. DevTypeOK'
    BY DevAssumption DEF DevInv, DevTypeOK, Insmod, procVars, semVars
  <1>4. Loading' /\ Unloading'
    BY <1>1, StepsOf DEF Insmod, Loading, Unloading
  <1>5. Initialised' /\ Gone'
    BY <1>1 DEF Insmod, Initialised, Gone
  <1>6. FilesKeep'
    <2>1. drv \in Owned => \A p \in Users : ~InUse(p)
      BY <1>1, <1>2 DEF DevInv, FilesKeep
    <2>2. mapped = {}
      BY <1>1, <2>1 DEF DevInv, DevTypeOK, FilesKeep, InUse, Owned
    <2> QED
      BY <1>1, <2>1, <2>2 DEF DevInv, FilesKeep, Insmod, InUse, procVars
  <1> QED
    BY <1>3, <1>4, <1>5, <1>6 DEF DevInv

LEMMA DevInvInitStep ==
  ASSUME DevInv, InitStep
  PROVE  DevInv'
  <1> DEFINE s == Head(todo)
  <1>1. /\ drv \in Drivers /\ mod = "coming" /\ todo # <<>> /\ s # "oops"
        /\ held' = held \cup {s} /\ todo' = Tail(todo)
        /\ UNCHANGED <<drv, mod, ret, aborted, loads, procVars>>
    BY DEF DevInv, DevTypeOK, InitStep
  <1>2. todo # <<"oops">>
    BY <1>1
  <1>3. /\ Steplist(todo) /\ ReadyLast(todo)
        /\ ToSet(todo) \subseteq ToSet(InitSteps[drv])
        /\ held \cap ToSet(todo) = {}
        /\ ToSet(InitSteps[drv]) \cap {"ready", "memory"} \subseteq held \cup ToSet(todo)
    BY <1>1, <1>2 DEF DevInv, Loading
  <1>4. /\ Steplist(Tail(todo)) /\ ReadyLast(Tail(todo))
        /\ ToSet(todo) = ToSet(Tail(todo)) \cup {s}
        /\ s \notin ToSet(Tail(todo)) /\ s \in Steps
        /\ s = "ready" => ToSet(Tail(todo)) = {}
    BY <1>1, <1>3, TailDistinct, TailReadyLast DEF Steplist
  <1>5. DevTypeOK'
    <2>1. sem' \in Nat /\ ups' \in 0 .. MaxUps /\ downs' \in Nat
      BY DevAssumption DEF DevInv, DevTypeOK, InitStep, semVars
    <2>2. s \in ToSet(InitSteps[drv])
      BY <1>3, <1>4
    <2> QED
      BY <1>1, <2>1, <2>2 DEF DevInv, DevTypeOK, procVars
  <1>6. Loading' /\ Unloading'
    <2>1. ret # 0 => "misc" \notin ToSet(todo)
      BY <1>1, <1>2 DEF DevInv, Loading
    <2> QED
      BY <1>1, <1>3, <1>4, <2>1 DEF Loading, Unloading
  <1>7. Initialised'
    <2>1. "memory" \in ToSet(InitSteps[drv]) /\ s = "ready" => "memory" \in held
      BY <1>3, <1>4
    <2>2. drv = "mmap" => "memory" \in ToSet(InitSteps[drv])
      BY DEF InitSteps, MmapInit, ToSet
    <2>3. drv = "mmap" /\ "ready" \in held' => "memory" \in held'
      BY <1>1, <2>1, <2>2 DEF DevInv, Initialised
    <2> QED
      BY <1>1, <1>3, <1>4, <2>3 DEF DevInv, Initialised
  <1>8. Gone'
    <2>1. ret # 0 => "misc" \notin ToSet(todo) /\ drv = "mmap" /\ "misc" \notin held
      BY <1>1, <1>2 DEF DevInv, Loading, Gone
    <2>2. ~aborted
      BY <1>1 DEF DevInv, Gone
    <2> QED
      BY <1>1, <1>4, <2>1, <2>2 DEF Gone
  <1>9. FilesKeep'
    BY <1>1 DEF DevInv, FilesKeep, InUse, Published, procVars
  <1> QED
    BY <1>5, <1>6, <1>7, <1>8, <1>9 DEF DevInv

(* The init functions that give up at a step, the mutex drivers apart, do  *)
(* it at their only registration.                                          *)
LEMMA GivingUp ==
  ASSUME NEW d \in Drivers, NEW s \in ToSet(InitSteps[d]), s # "ready",
         OnFailure(d, s) = "return", d # "mutex"
  PROVE  ToSet(InitSteps[d]) \subseteq {s, "memory", "ready"}
  <1> USE DEF InitSteps, CharInit, SemaphoreInit, MiscInit, QueueWaitInit, MmapInit,
              RWTestInit, ToSet, OnFailure
  <1>1. CASE d \in {"char", "semaphore"}
    BY <1>1
  <1>2. CASE d \in {"misc", "rwtest", "queue_wait"}
    BY <1>2
  <1>3. CASE d = "mmap"
    BY <1>3
  <1>4. d \in {"char", "misc", "semaphore", "mutex", "rwtest", "queue_wait", "mmap"}
    BY DEF Drivers
  <1> QED
    BY <1>1, <1>2, <1>3, <1>4

LEMMA DevInvInitFails ==
  ASSUME DevInv, InitFails
  PROVE  DevInv'
  <1> DEFINE how == OnFailure(drv, Head(todo))
  <1>1. /\ drv \in Drivers /\ mod = "coming" /\ todo # <<>>
        /\ Head(todo) \notin {"ready", "oops"}
        /\ todo' = CASE how = "oops" -> <<"oops">>
                     [] how = "return" -> <<>>
                     [] OTHER -> Tail(todo)
        /\ ret' = IF how = "keep" THEN -1 ELSE ret
        /\ mod' = IF how = "return" THEN "out" ELSE mod
        /\ aborted' = (how = "return" /\ held # {})
        /\ UNCHANGED <<drv, held, loads, procVars, semVars>>
    BY DEF DevInv, DevTypeOK, InitFails
  <1>2. todo # <<"oops">> /\ ~aborted
    BY <1>1 DEF DevInv, Gone
  <1>3. /\ Steplist(todo) /\ ReadyLast(todo)
        /\ ToSet(todo) \subseteq ToSet(InitSteps[drv])
        /\ held \cap ToSet(todo) = {}
        /\ ToSet(InitSteps[drv]) \cap {"ready", "memory"} \subseteq held \cup ToSet(todo)
    BY <1>1, <1>2 DEF DevInv, Loading
  <1>4. /\ Steplist(Tail(todo)) /\ ReadyLast(Tail(todo))
        /\ ToSet(todo) = ToSet(Tail(todo)) \cup {Head(todo)}
        /\ Head(todo) \notin ToSet(Tail(todo))
    BY <1>1, <1>3, TailDistinct, TailReadyLast DEF Steplist
  <1>4a. ret # 0 => drv = "mmap" /\ "misc" \notin ToSet(todo) \cup held
    BY <1>1, <1>2 DEF DevInv, Loading, Gone
  <1>4b. how = "keep" <=> Head(todo) = "misc" /\ drv = "mmap"
    BY DEF OnFailure
  <1>4c. ret' # 0 => drv = "mmap" /\ "misc" \notin ToSet(Tail(todo)) \cup held
    BY <1>1, <1>3, <1>4, <1>4a, <1>4b
  <1>5. DevTypeOK'
    BY <1>1 DEF DevInv, DevTypeOK, procVars, semVars
  <1>6. Loading' /\ Unloading'
    <2>1. Head(todo) = "memory" => how \in {"oops", "return"}
      BY DEF OnFailure
    <2>2. CASE how \in {"oops", "return"}
      BY <1>1, <2>2 DEF Loading, Unloading
    <2>3. CASE how \notin {"oops", "return"}
      <3>1. todo' = Tail(todo) /\ mod' = "coming"
        BY <1>1, <2>3
      <3> QED
        BY <1>1, <1>3, <1>4, <1>4c, <2>1, <2>3, <3>1 DEF Loading, Unloading
    <2> QED
      BY <2>2, <2>3
  <1>7. Initialised'
    BY <1>1 DEF DevInv, Initialised
  <1>8. Gone'
    <2>1. ret' # 0 => drv' = "mmap" /\ "misc" \notin held'
      BY <1>1, <1>4c
    <2>2. how = "return" /\ drv # "mutex" => held \subseteq {"memory", "ready"}
      BY <1>1, <1>3, <1>4, GivingUp DEF DevInv, Initialised
    <2> QED
      BY <1>1, <1>2, <2>1, <2>2 DEF Gone
  <1>9. FilesKeep'
    BY <1>1, <1>2 DEF DevInv, FilesKeep, InUse, Published, procVars
  <1> QED
    BY <1>5, <1>6, <1>7, <1>8, <1>9 DEF DevInv

LEMMA DevInvInitReturns ==
  ASSUME DevInv, InitReturns
  PROVE  DevInv'
  <1>1. /\ drv \in Drivers /\ mod = "coming" /\ todo = <<>> /\ ~aborted
        /\ mod' = IF ret = 0 THEN "live" ELSE "out"
        /\ aborted' = (ret # 0)
        /\ UNCHANGED <<drv, todo, held, ret, loads, procVars, semVars>>
    BY DEF DevInv, DevTypeOK, Gone, InitReturns
  <1>2. ToSet(InitSteps[drv]) \cap {"ready", "memory"} \subseteq held
    BY <1>1, Empty DEF DevInv, Loading
  <1>3. DevTypeOK'
    BY <1>1 DEF DevInv, DevTypeOK, procVars, semVars
  <1>4. Loading' /\ Unloading'
    BY <1>1 DEF Loading, Unloading
  <1>5. Initialised'
    BY <1>1, <1>2 DEF DevInv, Initialised
  <1>5a. Gone'
    <2>1. ret # 0 => drv = "mmap" /\ "misc" \notin held
      BY DEF DevInv, Gone
    <2>2. held \subseteq ToSet(InitSteps[drv])
      BY DEF DevInv, Initialised
    <2>3. ToSet(InitSteps["mmap"]) = {"misc", "memory", "ready"}
      BY DEF InitSteps, MmapInit, ToSet
    <2> QED
      BY <1>1, <2>1, <2>2, <2>3 DEF Gone
  <1>6. FilesKeep'
    BY <1>1 DEF DevInv, FilesKeep, InUse, Published, procVars
  <1> QED
    BY <1>3, <1>4, <1>5, <1>5a, <1>6 DEF DevInv

LEMMA DevInvRmmod ==
  ASSUME DevInv, Rmmod
  PROVE  DevInv'
  <1>1. /\ drv \in Drivers /\ mod = "live" /\ mod' = "going" /\ ~aborted
        /\ drv \in Owned => \A p \in Users : ~InUse(p)
        /\ todo' = ExitSteps(drv)
        /\ UNCHANGED <<drv, held, ret, aborted, loads, procVars, semVars>>
    BY DEF DevInv, DevTypeOK, Gone, Rmmod
  <1>2. DevTypeOK'
    BY <1>1 DEF DevInv, DevTypeOK, procVars, semVars
  <1>3. held \subseteq ToSet(ExitSteps(drv)) \cup Kept
    BY <1>1, StepsOf DEF DevInv, Initialised, Kept
  <1>4. Loading' /\ Unloading'
    BY <1>1, <1>3, StepsOf DEF Loading, Unloading, Kept
  <1>5. Initialised' /\ Gone'
    BY <1>1 DEF DevInv, Initialised, Gone
  <1>6. FilesKeep'
    BY <1>1 DEF DevInv, FilesKeep, InUse, procVars
  <1> QED
    BY <1>2, <1>4, <1>5, <1>6 DEF DevInv

LEMMA DevInvExitStep ==
  ASSUME DevInv, ExitStep
  PROVE  DevInv'
  <1>1. /\ drv \in Drivers /\ mod = "going" /\ todo # <<>> /\ Head(todo) # "oops" /\ ~aborted
        /\ UNCHANGED <<drv, mod, ret, aborted, loads, procVars, semVars>>
        /\ held' \subseteq held
    BY DEF DevInv, DevTypeOK, Gone, ExitStep
  <1>2. /\ Steplist(todo) /\ held \subseteq ToSet(todo) \cup Kept
        /\ ToSet(todo) \subseteq ToSet(ExitSteps(drv))
    <2>1. todo # <<"oops">>
      BY <1>1
    <2> QED
      BY <1>1, <2>1 DEF DevInv, Unloading
  <1>3. Steplist(Tail(todo)) /\ ToSet(todo) = ToSet(Tail(todo)) \cup {Head(todo)}
    BY <1>1, <1>2, TailDistinct DEF Steplist
  <1>4. DevTypeOK'
    BY <1>1 DEF DevInv, DevTypeOK, procVars, semVars
  <1>5. Loading' /\ Unloading'
    <2>1. CASE todo' = <<"oops">>
      BY <1>1, <2>1 DEF Loading, Unloading
    <2>2. CASE todo' = Tail(todo) /\ held' = held \ {Head(todo)}
      BY <1>1, <1>2, <1>3, <2>2 DEF Loading, Unloading, Kept
    <2> QED
      BY <2>1, <2>2 DEF ExitStep
  <1>6. Initialised'
    <2>1. CASE Head(todo) = "ready"
      <3>1. drv = "mmap"
        <4>1. Head(todo) \in ToSet(todo)
          BY <1>3
        <4> QED
          BY <1>1, <1>2, <2>1, <4>1, StepsOf
      <3> QED
        BY <1>1, <3>1 DEF DevInv, Initialised
    <2>2. CASE Head(todo) # "ready"
      BY <1>1, <2>2 DEF DevInv, Initialised, ExitStep
    <2> QED
      BY <2>1, <2>2
  <1>7. Gone'
    BY <1>1 DEF DevInv, Gone
  <1>8. FilesKeep'
    <2>1. drv \in Owned => \A p \in Users : ~InUse(p)
      BY <1>1 DEF DevInv, FilesKeep
    <2>2. mapped = {}
      BY <1>1, <2>1 DEF DevInv, DevTypeOK, FilesKeep, InUse, Owned
    <2> QED
      BY <1>1, <2>1, <2>2 DEF DevInv, FilesKeep, InUse, procVars
  <1> QED
    BY <1>4, <1>5, <1>6, <1>7, <1>8 DEF DevInv

LEMMA DevInvExitReturns ==
  ASSUME DevInv, ExitReturns
  PROVE  DevInv'
  <1>1. /\ mod = "going" /\ todo = <<>> /\ mod' = "out" /\ ~aborted
        /\ UNCHANGED <<drv, todo, held, ret, aborted, loads, procVars, semVars>>
    BY DEF DevInv, Gone, ExitReturns
  <1>2. held \subseteq Kept
    BY <1>1, Empty DEF DevInv, Unloading
  <1>3. DevTypeOK'
    BY <1>1 DEF DevInv, DevTypeOK, procVars, semVars
  <1>4. Loading' /\ Unloading' /\ Initialised' /\ Gone'
    BY <1>1, <1>2 DEF DevInv, Loading, Unloading, Initialised, Gone, Kept
  <1>5. FilesKeep'
    BY <1>1 DEF DevInv, FilesKeep, InUse, procVars
  <1> QED
    BY <1>3, <1>4, <1>5 DEF DevInv

(* The steps of a process leave the module alone; they keep the invariant  *)
(* as long as its file, its call and its mapping do.                       *)
LEMMA DevInvProcess ==
  ASSUME DevInv, UNCHANGED <<drv, modVars>>, FilesKeep',
         file' \in [Users -> {"none", "open", "stale", "early"}],
         call' \in [Users -> {"no", "in", "sleep", "woken"}],
         mapped' \subseteq Users,
         sem' \in Nat, ups' \in 0 .. MaxUps, downs' \in Nat
  PROVE  DevInv'
  BY DEF DevInv, DevTypeOK, Loading, Unloading, Initialised, Gone, Kept, modVars

LEMMA DevInvFile ==
  ASSUME DevInv, NEW p \in Users, DevOpen(p) \/ DevClose(p) \/ CallGoesWrong(p)
  PROVE  DevInv'
  <1>1. /\ UNCHANGED <<drv, modVars, call, mapped, semVars>>
        /\ file' \in [Users -> {"none", "open", "stale", "early"}]
    BY DEF DevInv, DevTypeOK, DevOpen, DevClose, CallGoesWrong
  <1>2. \A q \in Users \ {p} : file'[q] = file[q]
    BY DEF DevInv, DevTypeOK, DevOpen, DevClose, CallGoesWrong
  <1>3. call[p] = "no"
    BY DEF DevInv, FilesKeep, DevOpen, DevClose, CallGoesWrong
  <1>4. Published /\ mod = "out" => aborted
    <2>1. {"region", "add", "node", "misc", "chrdev"} \cap Kept = {}
      BY DEF Kept
    <2> QED
      BY <2>1 DEF Published, DevInv, Gone
  <1>5. drv \in Drivers /\ mod \in {"out", "coming", "live", "going"}
    BY DEF DevInv, DevTypeOK
  <1>6. file'[p] = "stale" => aborted \/ drv \notin Owned
    <2>1. CASE DevOpen(p)
      BY <2>1, <1>4 DEF DevOpen, DevInv, DevTypeOK
    <2>2. CASE DevClose(p) \/ CallGoesWrong(p)
      <3>1. file'[p] = "stale" => mod = "out" /\ file[p] = "open"
        BY <2>2 DEF DevClose, CallGoesWrong, DevInv, DevTypeOK
      <3> QED
        BY <3>1 DEF DevInv, FilesKeep, InUse
    <2> QED
      BY <2>1, <2>2
  <1>7. drv \in Owned /\ ~aborted /\ file'[p] = "open" =>
          mod \in {"coming", "live"} /\ Published
    <2>1. CASE DevOpen(p)
      BY <2>1, <1>4, <1>5 DEF DevOpen, DevInv, DevTypeOK
    <2>2. CASE DevClose(p) \/ CallGoesWrong(p)
      BY <2>2 DEF DevClose, CallGoesWrong, DevInv, DevTypeOK
    <2> QED
      BY <2>1, <2>2
  <1>8. FilesKeep'
    BY <1>1, <1>2, <1>3, <1>6, <1>7 DEF DevInv, FilesKeep, InUse, Published, modVars
  <1> QED
    BY <1>1, <1>8, DevInvProcess DEF DevInv, DevTypeOK, semVars

LEMMA DevInvCall ==
  ASSUME DevInv, NEW p \in Users, CallEnter(p) \/ CallReturn(p)
  PROVE  DevInv'
  <1>1. /\ UNCHANGED <<drv, modVars, mapped, semVars>>
        /\ file' \in [Users -> {"none", "open", "stale", "early"}]
        /\ call' \in [Users -> {"no", "in", "sleep", "woken"}]
    BY DEF DevInv, DevTypeOK, CallEnter, CallReturn
  <1>2. /\ file[p] = "open"
        /\ file'[p] = "open" \/ (file'[p] = "stale" /\ mod = "out" /\ call'[p] = "no")
        /\ \A q \in Users \ {p} : file'[q] = file[q] /\ call'[q] = call[q]
    BY DEF DevInv, DevTypeOK, FilesKeep, CallEnter, CallReturn, CanCall
  <1>3. FilesKeep'
    BY <1>1, <1>2 DEF DevInv, FilesKeep, InUse, Published, modVars
  <1> QED
    BY <1>1, <1>3, DevInvProcess DEF DevInv, DevTypeOK, semVars

LEMMA DevInvMapping ==
  ASSUME DevInv, NEW p \in Users, Mmap(p) \/ Munmap(p)
  PROVE  DevInv'
  <1>1. UNCHANGED <<drv, modVars, file, call, semVars>> /\ mapped' \subseteq Users
    BY DEF DevInv, DevTypeOK, Mmap, Munmap
  <1>2. "ready" \in ToSet(InitSteps["mmap"])
    BY DEF InitSteps, MmapInit, ToSet
  <1>3. FilesKeep'
    <2>1. CASE Mmap(p)
      BY <1>1, <1>2, <2>1
         DEF Mmap, CanCall, Early, DevInv, FilesKeep, InUse, Published, modVars
    <2>2. CASE Munmap(p)
      BY <1>1, <2>2 DEF Munmap, DevInv, FilesKeep, InUse, Published, modVars
    <2> QED
      BY <2>1, <2>2
  <1> QED
    BY <1>1, <1>3, DevInvProcess DEF DevInv, DevTypeOK, semVars

(* The sleepers of the semaphore are processes with the file open.         *)
LEMMA DevInvSemaphore ==
  ASSUME DevInv, SemInv, NEW p \in Users, SemRead(p) \/ SemWrite(p) \/ SemReadReturn(p)
  PROVE  DevInv'
  <1>1. CASE SemRead(p)
    <2>1. /\ UNCHANGED <<drv, modVars, file, mapped>>
          /\ call' \in [Users -> {"no", "in", "sleep", "woken"}]
          /\ sem' \in Nat /\ ups' \in 0 .. MaxUps /\ downs' \in Nat
      BY <1>1 DEF SemRead, DevInv, DevTypeOK
    <2>2. file[p] = "open" /\ \A q \in Users \ {p} : call'[q] = call[q]
      BY <1>1 DEF SemRead, CanCall, DevInv, DevTypeOK
    <2>3. FilesKeep'
      BY <2>1, <2>2 DEF DevInv, FilesKeep, InUse, Published, modVars
    <2> QED
      BY <2>1, <2>3, DevInvProcess DEF DevInv, DevTypeOK
  <1>2. CASE SemWrite(p)
    <2>1. /\ UNCHANGED <<drv, modVars, file, mapped>> /\ drv = "semaphore"
          /\ sem' \in Nat /\ ups' \in 0 .. MaxUps /\ downs' \in Nat
      BY <1>2, DevAssumption DEF SemWrite, DevInv, DevTypeOK
    <2>2. CASE call' = call
      BY <2>1, <2>2, DevInvProcess DEF DevInv, DevTypeOK, FilesKeep, InUse, Published, modVars
    <2>3. CASE sleepers # <<>> /\ call' = [call EXCEPT ![Head(sleepers)] = "woken"]
      <3>1. Head(sleepers) \in Users /\ Head(sleepers) \in ToSet(sleepers)
        BY <2>1, <2>3, TailDistinct DEF SemInv
      <3>2. call[Head(sleepers)] = "sleep"
        BY <2>1, <3>1 DEF SemInv
      <3>3. FilesKeep' /\ call' \in [Users -> {"no", "in", "sleep", "woken"}]
        BY <2>1, <2>3, <3>1, <3>2
           DEF DevInv, DevTypeOK, FilesKeep, InUse, Published, modVars
      <3> QED
        BY <2>1, <3>3, DevInvProcess DEF DevInv, DevTypeOK
    <2> QED
      BY <1>2, <2>2, <2>3 DEF SemWrite
  <1>3. CASE SemReadReturn(p)
    <2>1. /\ UNCHANGED <<drv, modVars, file, mapped, sem, ups>>
          /\ call' \in [Users -> {"no", "in", "sleep", "woken"}]
          /\ downs' \in Nat
      BY <1>3 DEF SemReadReturn, DevInv, DevTypeOK
    <2>2. FilesKeep'
      BY <1>3, <2>1 DEF SemReadReturn, DevInv, DevTypeOK, FilesKeep, InUse, Published, modVars
    <2> QED
      BY <2>1, <2>2, DevInvProcess DEF DevInv, DevTypeOK
  <1> QED
    BY <1>1, <1>2, <1>3

LEMMA DevInvNext == DevInv /\ SemInv /\ [DevNext]_devVars => DevInv'
  <1> SUFFICES ASSUME DevInv, SemInv, [DevNext]_devVars
               PROVE  DevInv'
    OBVIOUS
  <1>1. CASE ModuleStep
    BY <1>1, DevInvInsmod, DevInvInitStep, DevInvInitFails, DevInvInitReturns,
       DevInvRmmod, DevInvExitStep, DevInvExitReturns DEF ModuleStep
  <1>2. ASSUME NEW p \in Users, UserStep(p)
        PROVE  DevInv'
    BY <1>2, DevInvFile, DevInvCall, DevInvMapping, DevInvSemaphore DEF UserStep
  <1>3. CASE UNCHANGED devVars
    <2>1. UNCHANGED <<drv, modVars, file, call, mapped, sem, ups, downs>>
      BY <1>3 DEF devVars, procVars, semVars
    <2>2. FilesKeep'
      BY <2>1 DEF DevInv, FilesKeep, InUse, Published, modVars
    <2> QED
      BY <2>1, <2>2, DevInvProcess DEF DevInv, DevTypeOK
  <1> QED
    BY <1>1, <1>2, <1>3 DEF DevNext

-----------------------------------------------------------------------------
(* The semaphore.                                                          *)
LEMMA WokenFinite == IsFiniteSet(Woken) /\ Cardinality(Woken) \in Nat
  <1>1. Woken \in SUBSET Users
    BY DEF Woken
  <1> QED
    BY <1>1, DevAssumption, FS_Subset, FS_CardinalityType

(* A queue without repetition gets a new member at its end.                *)
LEMMA AppendDistinct ==
  ASSUME NEW s \in Seq(Users), Distinct(s), NEW p \in Users, p \notin ToSet(s)
  PROVE  /\ Append(s, p) \in Seq(Users) /\ Distinct(Append(s, p))
         /\ ToSet(Append(s, p)) = ToSet(s) \cup {p}
  <1> DEFINE t == Append(s, p)
  <1>1. /\ t \in Seq(Users) /\ Len(t) = Len(s) + 1 /\ t[Len(s) + 1] = p
        /\ \A i \in 1 .. Len(s) : t[i] = s[i]
    BY AppendProperties
  <1>2. Len(s) \in Nat /\ DOMAIN s = 1 .. Len(s) /\ DOMAIN t = 1 .. Len(s) + 1
    BY <1>1
  <1>3. \A i \in 1 .. Len(s) : s[i] \in ToSet(s)
    BY <1>2 DEF ToSet
  <1>4. Distinct(t)
    <2> SUFFICES ASSUME NEW i \in 1 .. Len(t), NEW j \in 1 .. Len(t), t[i] = t[j]
                 PROVE  i = j
      BY DEF Distinct
    <2>1. CASE i = Len(s) + 1 \/ j = Len(s) + 1
      BY <1>1, <1>2, <1>3, <2>1
    <2>2. CASE i # Len(s) + 1 /\ j # Len(s) + 1
      <3>1. i \in 1 .. Len(s) /\ j \in 1 .. Len(s)
        BY <1>1, <1>2, <2>2
      <3> QED
        BY <1>1, <3>1 DEF Distinct
    <2> QED
      BY <2>1, <2>2
  <1>5. ToSet(t) = ToSet(s) \cup {p}
    <2>1. ASSUME NEW i \in 1 .. Len(s) + 1 PROVE t[i] \in ToSet(s) \cup {p}
      <3>1. CASE i = Len(s) + 1
        BY <1>1, <3>1
      <3>2. CASE i # Len(s) + 1
        BY <1>1, <1>2, <1>3, <3>2
      <3> QED
        BY <3>1, <3>2
    <2>2. ASSUME NEW i \in 1 .. Len(s) PROVE s[i] \in ToSet(t)
      BY <1>1, <1>2 DEF ToSet
    <2>3. p \in ToSet(t)
      BY <1>1, <1>2 DEF ToSet
    <2> QED
      BY <2>1, <2>2, <2>3, <1>2 DEF ToSet
  <1> QED
    BY <1>1, <1>4, <1>5

(* Steps that leave the semaphore and the calls alone.                     *)
LEMMA SemInvOthers ==
  ASSUME SemInv, UNCHANGED <<drv, call, semVars>>,
         drv = "semaphore" => ("ready" \in held' <=> "ready" \in held) /\ ~aborted'
  PROVE  SemInv'
  BY DEF SemInv, Woken, semVars

(* The steps of the module: a load finds nobody asleep; sema_init makes    *)
(* the one count; no step of the semaphore's init function gives up.       *)
LEMMA SemInvModule ==
  ASSUME DevInv, SemInv, ModuleStep
  PROVE  SemInv'
  <1> SUFFICES ASSUME drv = "semaphore" PROVE SemInv'
    BY DEF SemInv, ModuleStep, Insmod, InitStep, InitFails, InitReturns, Rmmod,
           ExitStep, ExitReturns
  <1>0. /\ ToSet(InitSteps[drv]) = {"region", "cdev", "add", "class", "node", "ready"}
        /\ "ready" \notin ToSet(ExitSteps(drv)) /\ drv \in Owned
    BY DEF InitSteps, SemaphoreInit, CharInit, ExitSteps, CdevDrivers, CdevExit, ToSet, Owned
  <1>1. CASE Insmod
    <2>1. ~Published
      <3>1. {"region", "add", "node", "misc", "chrdev"} \cap Kept = {}
        BY DEF Kept
      <3> QED
        BY <1>1, <3>1 DEF Insmod, Published, DevInv, Gone
    <2>2. \A p \in Users : call[p] = "no"
      BY <1>0, <1>1, <2>1 DEF Insmod, DevInv, FilesKeep, InUse
    <2> QED
      BY <1>1, <2>2 DEF Insmod, SemInv, procVars, semVars
  <1>2. CASE InitStep
    <2>1. CASE Head(todo) = "ready"
      <3>1. Head(todo) \in ToSet(todo) /\ ToSet(todo) \cap held = {}
        <4>1. mod = "coming" /\ todo # <<>> /\ todo # <<"oops">>
          BY <1>2 DEF InitStep
        <4> QED
          BY <4>1, TailDistinct DEF DevInv, Loading, Steplist
      <3>2. \A p \in Users : call[p] = "no"
        BY <2>1, <3>1 DEF SemInv
      <3>3. /\ sem' = 1 /\ sleepers' = <<>> /\ ups' = 0 /\ downs' = 0
            /\ held' = held \cup {"ready"} /\ UNCHANGED <<drv, call, aborted>>
        BY <1>2, <2>1 DEF InitStep, procVars
      <3>4. Cardinality(Woken') = 0
        <4>1. Woken' = {}
          BY <3>2, <3>3 DEF Woken
        <4> QED
          BY <4>1, FS_EmptySet
      <3>5. sleepers' \in Seq(Users) /\ Distinct(sleepers') /\ ToSet(sleepers') = {}
        BY <3>3, Empty DEF Distinct
      <3> QED
        BY <3>2, <3>3, <3>4, <3>5 DEF SemInv
    <2>2. CASE Head(todo) # "ready"
      BY <1>2, <2>2, SemInvOthers DEF InitStep, SemInv, procVars, semVars
    <2> QED
      BY <2>1, <2>2
  <1>3. CASE InitFails
    <2>1. Head(todo) \in ToSet(InitSteps[drv])
      <3>1. mod = "coming" /\ todo # <<>> /\ todo # <<"oops">>
        BY <1>3 DEF InitFails
      <3> QED
        BY <3>1, TailDistinct DEF DevInv, Loading, Steplist
    <2>2. OnFailure(drv, Head(todo)) # "return"
      BY <1>0, <1>3, <2>1 DEF InitFails, OnFailure
    <2> QED
      BY <1>3, <2>2, SemInvOthers DEF InitFails, procVars
  <1>4. CASE InitReturns
    <2>1. ret = 0
      BY DEF DevInv, Gone
    <2> QED
      BY <1>4, <2>1, SemInvOthers DEF InitReturns, procVars
  <1>5. CASE Rmmod
    BY <1>5, SemInvOthers DEF Rmmod, SemInv, procVars
  <1>6. CASE ExitStep
    <2>1. todo # <<>> /\ todo # <<"oops">> /\ mod = "going"
      BY <1>6 DEF ExitStep
    <2>2. Head(todo) # "ready"
      BY <1>0, <2>1, TailDistinct DEF DevInv, Unloading, Steplist
    <2> QED
      BY <1>6, <2>2, SemInvOthers DEF ExitStep, SemInv, procVars
  <1>7. CASE ExitReturns
    BY <1>7, SemInvOthers DEF ExitReturns, SemInv, procVars
  <1> QED
    BY <1>1, <1>2, <1>3, <1>4, <1>5, <1>6, <1>7 DEF ModuleStep

LEMMA SemInvUser ==
  ASSUME DevInv, SemInv, NEW p \in Users, UserStep(p)
  PROVE  SemInv'
  <1>1. CASE DevOpen(p) \/ DevClose(p) \/ CallGoesWrong(p) \/ Mmap(p) \/ Munmap(p)
    BY <1>1, SemInvOthers
       DEF DevOpen, DevClose, CallGoesWrong, Mmap, Munmap, SemInv, modVars
  <1>2. CASE CallEnter(p)
    BY <1>2 DEF CallEnter, SemInv, modVars
  <1> SUFFICES ASSUME drv = "semaphore" PROVE SemInv'
    BY DEF SemInv, UserStep, DevOpen, DevClose, CallGoesWrong, CallEnter, CallReturn,
           SemRead, SemWrite, SemReadReturn, Mmap, Munmap
  <1>0. /\ call \in [Users -> {"no", "in", "sleep", "woken"}]
        /\ sem \in Nat /\ ups \in Nat /\ downs \in Nat
        /\ "ready" \in ToSet(InitSteps[drv])
    BY DevAssumption DEF DevInv, DevTypeOK, InitSteps, SemaphoreInit, CharInit, ToSet
  <1>3. CASE CallReturn(p)
    <2>1. Woken' = Woken
      BY <1>0, <1>3 DEF CallReturn, Woken
    <2> QED
      BY <1>0, <1>3, <2>1 DEF CallReturn, SemInv, modVars, semVars
  <1>4. CASE SemRead(p)
    <2>1. "ready" \in held /\ call[p] = "no" /\ UNCHANGED <<drv, held, aborted>>
      BY <1>0, <1>4 DEF SemRead, CanCall, Early, modVars
    <2>2. CASE sem > 0 /\ sem' = sem - 1 /\ downs' = downs + 1 /\ UNCHANGED <<sleepers, call, ups>>
      BY <1>0, <2>1, <2>2, WokenFinite DEF SemInv, Woken
    <2>3. CASE /\ sem = 0 /\ sleepers' = Append(sleepers, p)
               /\ call' = [call EXCEPT ![p] = "sleep"] /\ UNCHANGED <<sem, downs, ups>>
      <3>1. Woken' = Woken
        BY <1>0, <2>1, <2>3 DEF Woken
      <3>2. /\ sleepers' \in Seq(Users) /\ Distinct(sleepers')
            /\ ToSet(sleepers') = ToSet(sleepers) \cup {p}
        BY <2>1, <2>3, AppendDistinct DEF SemInv
      <3> QED
        BY <1>0, <2>1, <2>3, <3>1, <3>2 DEF SemInv
    <2> QED
      BY <1>4, <2>2, <2>3 DEF SemRead
  <1>5. CASE SemWrite(p)
    <2>1. "ready" \in held /\ UNCHANGED <<drv, held, aborted, downs>> /\ ups' = ups + 1
      BY <1>0, <1>5 DEF SemWrite, CanCall, Early, modVars
    <2>2. CASE sleepers = <<>> /\ sem' = sem + 1 /\ UNCHANGED <<sleepers, call>>
      BY <1>0, <2>1, <2>2, WokenFinite DEF SemInv, Woken
    <2>3. CASE /\ sleepers # <<>> /\ sleepers' = Tail(sleepers)
               /\ call' = [call EXCEPT ![Head(sleepers)] = "woken"] /\ UNCHANGED sem
      <3> DEFINE h == Head(sleepers)
      <3>1. /\ sleepers' \in Seq(Users) /\ Distinct(sleepers') /\ h \in Users
            /\ ToSet(sleepers) = ToSet(sleepers') \cup {h} /\ h \notin ToSet(sleepers')
        BY <2>3, TailDistinct DEF SemInv
      <3>2. call[h] = "sleep"
        BY <3>1 DEF SemInv
      <3>3. Woken' = Woken \cup {h} /\ h \notin Woken
        BY <1>0, <2>3, <3>1, <3>2 DEF Woken
      <3>4. Cardinality(Woken') = Cardinality(Woken) + 1
        BY <3>3, WokenFinite, FS_AddElement
      <3> QED
        BY <1>0, <2>1, <2>3, <3>1, <3>2, <3>4, WokenFinite DEF SemInv
    <2> QED
      BY <1>5, <2>2, <2>3 DEF SemWrite
  <1>6. CASE SemReadReturn(p)
    <2>1. /\ UNCHANGED <<drv, held, aborted, sem, sleepers, ups>> /\ call[p] = "woken"
          /\ call' = [call EXCEPT ![p] = "no"] /\ downs' = downs + 1
      BY <1>6 DEF SemReadReturn, modVars
    <2>2. Woken' = Woken \ {p} /\ p \in Woken
      BY <1>0, <2>1 DEF Woken
    <2>3. Cardinality(Woken') = Cardinality(Woken) - 1
      BY <2>2, WokenFinite, FS_RemoveElement
    <2> QED
      BY <1>0, <2>1, <2>3, WokenFinite DEF SemInv
  <1> QED
    BY <1>1, <1>2, <1>3, <1>4, <1>5, <1>6 DEF UserStep

-----------------------------------------------------------------------------
LEMMA DevInvariant == DevSpec => [](DevInv /\ SemInv)
  <1>1. DevInit => DevInv /\ SemInv
    <2> SUFFICES ASSUME DevInit PROVE SemInv
      BY DevInvInit
    <2>1. /\ "ready" \notin held /\ ~aborted /\ \A p \in Users : call[p] = "no"
          /\ sleepers = <<>>
      BY DEF DevInit
    <2>2. sleepers \in Seq(Users) /\ Distinct(sleepers) /\ ToSet(sleepers) = {}
      BY <2>1, Empty DEF Distinct
    <2> QED
      BY <2>1, <2>2 DEF SemInv
  <1>2. DevInv /\ SemInv /\ [DevNext]_devVars => (DevInv /\ SemInv)'
    <2> SUFFICES ASSUME DevInv, SemInv, [DevNext]_devVars PROVE SemInv'
      BY DevInvNext
    <2>1. CASE UNCHANGED devVars
      BY <2>1, SemInvOthers DEF devVars, modVars, procVars, SemInv
    <2> QED
      BY <2>1, SemInvModule, SemInvUser DEF DevNext
  <1> QED
    BY <1>1, <1>2, PTL DEF DevSpec

(* Nobody runs or has mapped what rmmod has freed, in any of the drivers   *)
(* that own their file operations, and a call after insmod has returned    *)
(* finds everything initialised.                                           *)
THEOREM LoadedCodeStays == DevSpec => []CodeStays
  <1>1. DevInv => CodeStays
    <2> SUFFICES ASSUME DevInv PROVE CodeStays
      OBVIOUS
    <2>1. ASSUME drv \notin {"rwtest", "queue_wait"}, ~aborted, NEW p \in Users
          PROVE  /\ file[p] # "stale"
                 /\ InUse(p) => mod \in {"coming", "live"}
                 /\ p \in mapped => "memory" \in held
      <3>1. drv \in Owned
        BY <2>1 DEF DevInv, DevTypeOK, Drivers, InitSteps, Owned
      <3> QED
        BY <2>1, <3>1 DEF DevInv, FilesKeep, Initialised, InUse
    <2>2. ASSUME mod \in {"live", "going"}, NEW p \in Users, file[p] = "open"
          PROVE  ~Early
      <3>1. ~aborted
        BY <2>2 DEF DevInv, Gone
      <3>2. ~(drv = "mmap" /\ mod = "going")
        BY <2>2, <3>1 DEF DevInv, FilesKeep, InUse, Owned
      <3> QED
        BY <2>2, <3>2 DEF DevInv, Initialised, Early
    <2> QED
      BY <2>1, <2>2 DEF CodeStays
  <1> QED
    BY <1>1, DevInvariant, PTL

(* Whichever registrations of init have failed, the exit function leaves   *)
(* nothing registered, only the struct cdev and the memory of the drivers  *)
(* that never free them; and an init function that gives up leaves a       *)
(* device behind only in the mutex drivers.                                *)
THEOREM UnloadIsClean == DevSpec => []CleanUnload
  <1>1. DevInv => CleanUnload
    BY DEF DevInv, Gone, Kept, CleanUnload
  <1> QED
    BY <1>1, DevInvariant, PTL

(* No count of the semaphore is lost, invented or left while somebody      *)
(* sleeps for it.                                                          *)
THEOREM TokensBalance == DevSpec => []Tokens
  <1>1. SemInv => Tokens
    BY DEF SemInv, Tokens, Woken
  <1> QED
    BY <1>1, DevInvariant, PTL
-----------------------------------------------------------------------------
(* The kobject modules.  KobjInv: an attribute call began when the         *)
(* directory was there, which only a loaded kobject.ko has, and it is      *)
(* drained before the module is gone.                                      *)
KobjInv ==
  /\ AttrHasCode
  /\ "kobj" \in dirs => kobject_ko \in {"in", "exit"}

(* The references of kset.ko at each of its calls: the parent is held by   *)
(* its registration and twice by a child that joined it.                   *)
RefsAt ==
  CASE kset_ko = "register_c"   -> [p |-> 1, c |-> refs["kset_c"], added |-> 0]
    [] kset_ko \in {"in", "unregister_p"} -> [p |-> 3, c |-> 1, added |-> 1]
    [] kset_ko = "unregister_c" -> [p |-> 2, c |-> 1, added |-> 1]
    [] kset_ko = "register_p"   -> [p |-> refs["kset_p"], c |-> refs["kset_c"], added |-> 0]
    [] kset_ko = "out"          -> [p |-> 0, c |-> 0, added |-> 0]

KsetInv ==
  /\ kset_ko \in {"register_p", "register_c"} => ~unjoined
  /\ ~unjoined =>
       /\ joined <=> kset_ko \in {"in", "unregister_p", "unregister_c"}
       /\ RefsAt = [p |-> refs["kset_p"], c |-> refs["kset_c"], added |-> added]

LEMMA KobjectInitial ==
  ASSUME KobjectInit
  PROVE  KobjectTypeOK /\ KobjInv /\ KsetInv
<1>1. refs \in [Objects -> Int] /\ refs["kset_p"] = 0 /\ refs["kset_c"] = 0
  BY DEF KobjectInit, Objects
<1>2. joined \in BOOLEAN /\ unjoined \in BOOLEAN
  BY Zenon DEF KobjectInit
<1>2a. KobjectTypeOK
  BY <1>1, <1>2 DEF KobjectInit, KobjectTypeOK
<1>3. KobjInv
  BY DEF KobjectInit, KobjInv, AttrHasCode
<1>4. KsetInv
  BY <1>1 DEF KobjectInit, KsetInv, RefsAt
<1>5. QED
  BY <1>2a, <1>3, <1>4

LEMMA KobjectTypeStep ==
  ASSUME KobjectTypeOK, [KobjectNext]_kobjVars
  PROVE  KobjectTypeOK'
<1> USE DEF KobjectTypeOK
<1>0. {"kobj", "kset_p", "kset_c"} = Objects
  BY DEF Objects
<1>1. CASE KobjTestInit
  BY <1>0, <1>1 DEF KobjTestInit
<1>2. CASE KobjRmmod \/ KobjTestExit \/ KobjDrained
  BY <1>2 DEF KobjRmmod, KobjTestExit, KobjDrained
<1>3. ASSUME NEW p \in SysfsUsers, AttrEnter(p) \/ AttrReturn(p)
      PROVE  KobjectTypeOK'
  BY <1>3 DEF AttrEnter, AttrReturn
<1>4. CASE KsetInsmod \/ RegisterP \/ KsetRmmod
  <2>1. joined' \in BOOLEAN /\ unjoined' \in BOOLEAN
    BY <1>4, Zenon DEF KsetInsmod, RegisterP, KsetRmmod
  <2>2. QED
    BY <1>0, <1>4, <2>1 DEF KsetInsmod, RegisterP, KsetRmmod
<1>5. CASE RegisterC
  <2>1. joined' \in BOOLEAN /\ unjoined' \in BOOLEAN
    BY <1>5, Zenon DEF RegisterC
  <2>2. QED
    BY <1>0, <1>5, <2>1 DEF RegisterC, KsetUevent
<1>6. CASE UnregisterP
  BY <1>0, <1>6 DEF UnregisterP
<1>7. CASE UnregisterC
  <2>1. joined' \in BOOLEAN /\ unjoined' \in BOOLEAN
    BY <1>7, Zenon DEF UnregisterC
  <2>2. QED
    BY <1>0, <1>7, <2>1 DEF UnregisterC, KsetUevent
<1>8. CASE UNCHANGED kobjVars
  BY <1>8 DEF kobjVars
<1>9. QED
  BY <1>1, <1>2, <1>3, <1>4, <1>5, <1>6, <1>7, <1>8
     DEF KobjectNext, KobjectStep, KsetStep

(* kset.ko never touches the directory of kobj nor its callers.            *)
LEMMA KobjStep ==
  ASSUME KobjectTypeOK, KobjInv, [KobjectNext]_kobjVars
  PROVE  KobjInv'
<1> USE DEF KobjInv, AttrHasCode
<1>1. CASE KobjTestInit
  BY <1>1 DEF KobjTestInit
<1>2. CASE KobjRmmod
  BY <1>2 DEF KobjRmmod
<1>3. CASE KobjTestExit
  BY <1>3 DEF KobjTestExit
<1>4. CASE KobjDrained
  BY <1>4 DEF KobjDrained
<1>5. ASSUME NEW p \in SysfsUsers, AttrEnter(p) \/ AttrReturn(p)
      PROVE  KobjInv'
  BY <1>5 DEF AttrEnter, AttrReturn
<1>6. CASE KsetStep
  BY <1>6 DEF KsetStep, KsetInsmod, RegisterP, RegisterC, KsetRmmod, UnregisterP,
              UnregisterC
<1>7. CASE UNCHANGED kobjVars
  BY <1>7 DEF kobjVars
<1>8. QED
  BY <1>1, <1>2, <1>3, <1>4, <1>5, <1>6, <1>7 DEF KobjectNext, KobjectStep

LEMMA KsetStepInv ==
  ASSUME KobjectTypeOK, KsetInv, [KobjectNext]_kobjVars
  PROVE  KsetInv'
<1> USE DEF KobjectTypeOK, KsetInv, RefsAt, Objects
<1>1. CASE KobjTestInit
  <2>1. /\ refs' \in [Objects -> Int]
        /\ refs'["kset_p"] = refs["kset_p"] /\ refs'["kset_c"] = refs["kset_c"]
    BY <1>1 DEF KobjTestInit
  <2>2. UNCHANGED <<kset_ko, joined, added, unjoined>>
    BY <1>1 DEF KobjTestInit
  <2>3. QED
    BY <2>1, <2>2
<1>2. CASE KobjRmmod \/ KobjTestExit \/ KobjDrained
  BY <1>2 DEF KobjRmmod, KobjTestExit, KobjDrained
<1>3. ASSUME NEW p \in SysfsUsers, AttrEnter(p) \/ AttrReturn(p)
      PROVE  KsetInv'
  BY <1>3 DEF AttrEnter, AttrReturn
<1>4. CASE KsetInsmod
  BY <1>4 DEF KsetInsmod
<1>5. CASE RegisterP
  BY <1>5 DEF RegisterP
<1>6. CASE RegisterC
  BY <1>6 DEF RegisterC, KsetUevent
<1>7. CASE KsetRmmod
  BY <1>7 DEF KsetRmmod
<1>8. CASE UnregisterP
  BY <1>8 DEF UnregisterP
<1>9. CASE UnregisterC
  BY <1>9 DEF UnregisterC, KsetUevent
<1>10. CASE UNCHANGED kobjVars
  BY <1>10 DEF kobjVars
<1>11. QED
  BY <1>1, <1>2, <1>3, <1>4, <1>5, <1>6, <1>7, <1>8, <1>9, <1>10
     DEF KobjectNext, KobjectStep, KsetStep

LEMMA KobjectInvariant == KobjectSpec => [](KobjectTypeOK /\ KobjInv /\ KsetInv)
<1>1. KobjectInit => KobjectTypeOK /\ KobjInv /\ KsetInv
  BY KobjectInitial
<1>2. KobjectTypeOK /\ KobjInv /\ KsetInv /\ [KobjectNext]_kobjVars
        => (KobjectTypeOK /\ KobjInv /\ KsetInv)'
  BY KobjectTypeStep, KobjStep, KsetStepInv
<1>3. QED
  BY <1>1, <1>2, PTL DEF KobjectSpec

(* kobj_test_show and kobj_test_store never run in a kobject.ko that is    *)
(* gone, although nothing but the wait in kobject_del keeps it there.      *)
THEOREM AttributesHaveCode == KobjectSpec => []AttrHasCode
<1>1. KobjInv => AttrHasCode
  BY DEF KobjInv
<1>2. QED
  BY <1>1, KobjectInvariant, PTL

(* Unless kset_register(&kset_c) failed, kset_test_exit, which unregisters *)
(* the parent first, lets each set go exactly as often as it was held, and *)
(* every "add" event has had its "remove".                                 *)
THEOREM KsetsAreReleased == KobjectSpec => []KsetRefs
<1>1. KobjectTypeOK /\ KsetInv => KsetRefs
  BY DEF KobjectTypeOK, KsetInv, KsetRefs, RefsAt, Objects
<1>2. QED
  BY <1>1, KobjectInvariant, PTL

-----------------------------------------------------------------------------
(* The buffer of RWTest, for a buffer of any length, calls of any sizes    *)
(* and failing copies: a user space that reads up to the final 0 before it *)
(* writes again sees a stream.                                             *)

(* The inductive invariant.  The buff_pos cells that were filled hold the  *)
(* last buff_pos bytes sent; what is left of them is at their end, and the *)
(* next read begins there.  When nothing is left postion may be anywhere   *)
(* (it moves by size), which is why the next read must be the one that     *)
(* rewinds it.                                                             *)
BufInv ==
  /\ LengthIsRemaining
  /\ buff_len <= buff_pos
  /\ \A k \in 0 .. buff_pos - 1 : byte[k] = sent - buff_pos + k + 1
  /\ buff_len > 0 => postion + buff_len = buff_pos
  /\ ~draining => postion = 0 /\ buff_len = buff_pos

Inv == TypeOK /\ BufInv

LEMMA InvInit == Init => Inv
  <1> SUFFICES ASSUME Init PROVE Inv
    OBVIOUS
  <1>1. draining \in BOOLEAN
    BY DEF Init
  <1> QED
    BY <1>1, RWTestAssumption DEF Init, Inv, TypeOK, BufInv, LengthIsRemaining, Nothing, Idx

LEMMA InvReadEmpty ==
  ASSUME Inv, NEW size \in Sizes, ReadEmpty(size)
  PROVE  Inv'
  <1>0. draining' \in BOOLEAN /\ result' \in Nat /\ UNCHANGED <<byte, buff_len, sent, rcvd>>
    BY DEF ReadEmpty
  <1>1. buff_len' = 0 /\ buff_pos' = 0 /\ postion' = 0
    BY RWTestAssumption DEF ReadEmpty, Rlen, Inv, TypeOK
  <1>2. TypeOK'
    <2>1. \A k \in DOMAIN got' : got'[k] \in 0 .. MaxBytes
      BY DEF ReadEmpty, Nothing
    <2> QED
      BY <1>0, <1>1, <2>1, RWTestAssumption DEF Inv, TypeOK
  <1>3. BufInv'
    BY <1>1 DEF ReadEmpty, Inv, TypeOK, BufInv, LengthIsRemaining
  <1> QED
    BY <1>2, <1>3 DEF Inv

(* What a read moves.                                                      *)
LEMMA RlenBounds ==
  ASSUME TypeOK, NEW size \in Sizes
  PROVE  /\ Rlen(size) \in Nat /\ Rlen(size) <= size /\ Rlen(size) <= buff_len
         /\ Rlen(size) = size \/ Rlen(size) = buff_len
  BY RWTestAssumption DEF Rlen, TypeOK

(* A read delivers the bytes that follow those already read.               *)
LEMMA ReadDelivers ==
  ASSUME Inv, NEW size \in Sizes, NEW k \in 1 .. Rlen(size)
  PROVE  Cell(postion + k - 1) = rcvd + k
  <1>1. /\ postion \in Nat /\ buff_len \in Nat /\ buff_pos \in Nat /\ k \in Nat /\ k >= 1
        /\ sent \in Nat /\ rcvd \in Nat /\ k <= buff_len /\ buff_pos <= BUF_SIZE
        /\ BUF_SIZE \in Nat
    BY RlenBounds, RWTestAssumption DEF Inv, TypeOK
  <1>2. postion + buff_len = buff_pos /\ buff_len = sent - rcvd
    BY <1>1 DEF Inv, BufInv, LengthIsRemaining
  <1>3. postion + k - 1 \in 0 .. buff_pos - 1 /\ postion + k - 1 \in Idx
    BY <1>1, <1>2 DEF Idx
  <1>4. byte[postion + k - 1] = sent - buff_pos + (postion + k - 1) + 1
    BY <1>3 DEF Inv, BufInv
  <1> QED
    BY <1>1, <1>2, <1>3, <1>4 DEF Cell

LEMMA InvReadSome ==
  ASSUME Inv, NEW size \in Sizes, ReadSome(size)
  PROVE  Inv'
  <1> DEFINE n == Rlen(size)
  <1>0. /\ size \in Nat /\ n \in Nat /\ n <= size /\ n <= buff_len /\ (n = size \/ n = buff_len)
        /\ postion \in Nat /\ buff_len \in Nat /\ buff_pos \in Nat /\ sent \in Nat /\ rcvd \in Nat
        /\ buff_pos <= BUF_SIZE /\ BUF_SIZE \in Nat /\ MaxBytes \in Nat /\ sent <= MaxBytes
    BY RlenBounds, RWTestAssumption DEF Inv, TypeOK
  <1>1. /\ postion' = postion + size /\ buff_len' = buff_len - n /\ rcvd' = rcvd + n
        /\ byte' = byte /\ buff_pos' = buff_pos /\ sent' = sent
        /\ draining' = (draining \/ size > 0) /\ result' = n
        /\ size > 0 => buff_len > 0
    BY <1>0 DEF ReadSome, Rlen
  <1> HIDE DEF n
  <1>2. \A k \in DOMAIN got' : got'[k] \in 0 .. MaxBytes
    <2>1. got' = [k \in 1 .. n |-> Cell(postion + k - 1)]
      BY DEF ReadSome, n
    <2>2. \A k \in 1 .. n : got'[k] = rcvd + k
      BY <2>1, ReadDelivers DEF n
    <2>3. buff_len = sent - rcvd
      BY DEF Inv, BufInv, LengthIsRemaining
    <2>4. DOMAIN got' = 1 .. n
      BY <2>1
    <2>5. \A k \in 1 .. n : rcvd + k \in 0 .. MaxBytes
      BY <1>0, <2>3
    <2> QED
      BY <2>2, <2>4, <2>5
  <1>3. draining' \in BOOLEAN
    BY <1>1
  <1>4. TypeOK'
    BY <1>0, <1>1, <1>2, <1>3 DEF Inv, TypeOK
  <1>5. BufInv'
    <2>1. LengthIsRemaining' /\ buff_len' <= buff_pos'
      BY <1>0, <1>1 DEF Inv, BufInv, LengthIsRemaining
    <2>2. buff_len' > 0 => postion' + buff_len' = buff_pos'
      BY <1>0, <1>1 DEF Inv, BufInv
    <2>3. ~draining' => postion' = 0 /\ buff_len' = buff_pos'
      <3>0. ~draining' => ~draining /\ ~(size > 0)
        BY <1>1, Zenon
      <3>1. ~draining' => size = 0 /\ ~draining
        BY <1>0, <3>0
      <3>2. size = 0 => postion' = postion /\ buff_len' = buff_len
        BY <1>0, <1>1
      <3> QED
        BY <1>1, <3>1, <3>2 DEF Inv, BufInv
    <2>4. \A k \in 0 .. buff_pos' - 1 : byte'[k] = sent' - buff_pos' + k + 1
      BY <1>1 DEF Inv, BufInv
    <2> QED
      BY <2>1, <2>2, <2>3, <2>4 DEF BufInv
  <1> QED
    BY <1>4, <1>5 DEF Inv

LEMMA InvWrite ==
  ASSUME Inv, DrainFirst, NEW size \in Sizes, NEW n \in 0 .. size, Write(size, n)
  PROVE  Inv'
  <1>0. /\ size \in Nat /\ n \in Nat /\ buff_pos \in Nat /\ sent \in Nat /\ rcvd \in Nat
        /\ buff_pos + n <= BUF_SIZE /\ sent + n <= MaxBytes
        /\ BUF_SIZE \in Nat /\ MaxBytes \in Nat /\ ~draining /\ ~draining'
        /\ buff_pos' = buff_pos + n /\ buff_len' = buff_pos + n /\ sent' = sent + n
        /\ result' = size /\ UNCHANGED <<postion, draining, rcvd, got>>
    BY RWTestAssumption DEF Write, Inv, TypeOK
  <1>1. byte' = [k \in Idx |->
                   CASE buff_pos <= k /\ k < buff_pos + n -> sent + (k - buff_pos) + 1
                     [] k = buff_pos + n /\ n < size     -> 0
                     [] OTHER                            -> byte[k]]
    BY DEF Write
  <1>2. byte' \in [Idx -> 0 .. MaxBytes]
    BY <1>0, <1>1 DEF Inv, TypeOK, Idx
  <1>3. TypeOK'
    BY <1>0, <1>2 DEF Inv, TypeOK
  <1>4. postion = 0 /\ buff_len = buff_pos /\ buff_len = sent - rcvd
    BY <1>0 DEF Inv, BufInv, LengthIsRemaining
  <1>5. \A k \in 0 .. buff_pos' - 1 : byte'[k] = sent' - buff_pos' + k + 1
    <2> SUFFICES ASSUME NEW k \in 0 .. buff_pos' - 1
                 PROVE  byte'[k] = sent' - buff_pos' + k + 1
      OBVIOUS
    <2>0. k \in Idx /\ k \in Nat
      BY <1>0 DEF Idx
    <2>1. CASE buff_pos <= k
      BY <1>0, <1>1, <2>0, <2>1
    <2>2. CASE k < buff_pos
      <3>1. byte[k] = sent - buff_pos + k + 1
        BY <1>0, <2>0, <2>2 DEF Inv, BufInv
      <3> QED
        BY <1>0, <1>1, <2>0, <2>2, <3>1
    <2> QED
      BY <1>0, <2>0, <2>1, <2>2
  <1>6. BufInv'
    BY <1>0, <1>4, <1>5 DEF BufInv, LengthIsRemaining
  <1> QED
    BY <1>3, <1>6 DEF Inv

LEMMA InvNext ==
  ASSUME Inv, DrainFirst, [Next]_vars
  PROVE  Inv'
  <1>1. CASE UNCHANGED vars
    BY <1>1 DEF vars, Inv, TypeOK, BufInv, LengthIsRemaining
  <1>2. ASSUME NEW size \in Sizes, ReadFault(size)
        PROVE  Inv'
    BY <1>2 DEF ReadFault, Inv, TypeOK, BufInv, LengthIsRemaining
  <1> QED
    BY <1>1, <1>2, InvReadEmpty, InvReadSome, InvWrite DEF Next

(* A user space that drains before it writes again keeps the driver's      *)
(* invariant: types, and buff_len is what is left to read.                 *)
THEOREM Invariance ==
  ASSUME DrainFirst
  PROVE  Spec => []Inv
  <1>1. Inv /\ [Next]_vars => Inv'
    BY InvNext
  <1> QED
    BY <1>1, InvInit, PTL DEF Spec

(* buff_len is the number of bytes written and not yet read.               *)
THEOREM Remaining ==
  ASSUME DrainFirst
  PROVE  Spec => []LengthIsRemaining
  <1>1. Inv => LengthIsRemaining
    BY DEF Inv, BufInv
  <1> QED
    BY <1>1, Invariance, PTL

-----------------------------------------------------------------------------
(* Every step of the driver is a step of the stream.                       *)
LEMMA StreamStep ==
  ASSUME Inv, [Next]_vars
  PROVE  [S!StreamNext]_(S!streamVars)
  <1>0. sent \in Nat /\ rcvd \in Nat /\ buff_len \in Nat /\ sent - rcvd = buff_len
    BY DEF Inv, TypeOK, BufInv, LengthIsRemaining
  <1>1. CASE UNCHANGED vars
    BY <1>1 DEF vars, S!streamVars
  <1>2. ASSUME NEW size \in Sizes, ReadEmpty(size)
        PROVE  S!StreamNext
    <2>1. rcvd' = rcvd /\ sent' = sent /\ got' = Nothing
      BY <1>2 DEF ReadEmpty
    <2>2. got' = [k \in 1 .. rcvd' - rcvd |-> rcvd + k]
      BY <1>0, <2>1 DEF Nothing
    <2> QED
      BY <1>0, <2>1, <2>2 DEF S!StreamNext, S!Deliver
  <1>3. ASSUME NEW size \in Sizes, ReadSome(size)
        PROVE  S!StreamNext
    <2> DEFINE n == Rlen(size)
    <2>1. n \in Nat /\ n <= buff_len
      BY RlenBounds DEF Inv
    <2>2. /\ rcvd' = rcvd + n /\ sent' = sent
          /\ got' = [k \in 1 .. n |-> Cell(postion + k - 1)]
      BY <1>3 DEF ReadSome
    <2>3. \A k \in 1 .. n : Cell(postion + k - 1) = rcvd + k
      BY ReadDelivers
    <2> HIDE DEF n
    <2>4. got' = [k \in 1 .. rcvd' - rcvd |-> rcvd + k]
      <3>1. rcvd' - rcvd = n
        BY <1>0, <2>1, <2>2
      <3> QED
        BY <2>2, <2>3, <3>1
    <2>5. rcvd' \in rcvd .. sent
      BY <1>0, <2>1, <2>2
    <2> QED
      BY <2>2, <2>4, <2>5 DEF S!StreamNext, S!Deliver
  <1>4. ASSUME NEW size \in Sizes, ReadFault(size)
        PROVE  UNCHANGED S!streamVars
    BY <1>4 DEF ReadFault, S!streamVars
  <1>5. ASSUME NEW size \in Sizes, NEW n \in 0 .. size, Write(size, n)
        PROVE  S!StreamNext
    <2>1. sent' = sent + n /\ n \in Nat /\ UNCHANGED <<rcvd, got>>
      BY <1>5, RWTestAssumption DEF Write
    <2> QED
      BY <1>0, <2>1 DEF S!StreamNext, S!Append
  <1> QED
    BY <1>1, <1>2, <1>3, <1>4, <1>5 DEF Next

(* The buffer implements the stream: every byte is delivered once and in   *)
(* order, for any buffer length and any sizes of the calls.                *)
THEOREM StreamRefinement ==
  ASSUME DrainFirst
  PROVE  Spec => Stream
  <1>1. Init => S!StreamInit
    BY DEF Init, S!StreamInit, Nothing
  <1>2. Inv /\ [Next]_vars => [S!StreamNext]_(S!streamVars)
    BY StreamStep
  <1> QED
    BY <1>1, <1>2, Invariance, PTL DEF Spec, Stream, S!StreamSpec
=============================================================================
