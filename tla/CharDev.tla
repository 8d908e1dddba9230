------------------------------ MODULE CharDev ------------------------------
(***************************************************************************)
(* The life of a character device: insmod and rmmod of its module against  *)
(* the processes that open, call and map it.  The drivers of the           *)
(* repository differ in the order of their init and exit functions, in     *)
(* what they do when a step fails, and in whether their file_operations    *)
(* name an owner; a behaviour is about one of them.                        *)
(*                                                                         *)
(*   char       02-creatDevice/char_dev/char_drv.c                         *)
(*   misc       02-creatDevice/misc_dev/misc_drv.c                         *)
(*   semaphore  03-fileOperate/semaphore/semaphore_drv.c                   *)
(*   mutex      03-fileOperate/mutex, both drivers                         *)
(*   rwtest     03-fileOperate/fileOperate/RWTest/fileOperate_drv.c        *)
(*   queue_wait 04-queue_wait/queue_wait_dev.c                             *)
(*   mmap       11-mmap/mmap_drv.c                                         *)
(*                                                                         *)
(* What the calls do is left to MutexDrv, QueueWait and RWTest, except the *)
(* semaphore and the mapping, which are here.                              *)
(***************************************************************************)
EXTENDS Integers, Sequences, SequencesExt

CONSTANTS
  Users,       \* the processes that use the device
  MaxLoads,    \* bound: how often the module is loaded
  MaxUps       \* bound: how many writes reach the semaphore

ASSUME DevAssumption ==
  IsFiniteSet(Users) /\ MaxLoads \in Nat /\ MaxUps \in Nat

VARIABLES
  drv,         \* which driver the behaviour is about
  mod,         \* its module: "out", "coming", "live" or "going"
  todo,        \* what its init or exit function has still to do
  held,        \* what this load has registered, allocated or made ready
  ret,         \* what misc_register returned to the init function of mmap
  aborted,     \* an init function gave up and left something behind
  loads,       \* how many loads there were
  file,        \* per process: its file, or how a call of it went wrong
  call,        \* per process: whether it is in a call
  mapped,      \* the processes that have mapped the page
  sem,         \* sem.count of the semaphore driver
  sleepers,    \* the processes that sleep in down, in order
  ups, downs   \* how many calls of up and down were completed

procVars == <<file, call, mapped>>
semVars == <<sem, sleepers, ups, downs>>
modVars == <<mod, todo, held, ret, aborted, loads>>
devVars == <<drv, modVars, procVars, semVars>>

-----------------------------------------------------------------------------
(* The init functions: what they register, in their order.  "ready" is the *)
(* initialisation of what the calls use: sema_init, mutex_init,            *)
(* init_waitqueue_head, the reserved page.                                 *)
CharInit == <<"region", "cdev", "add", "class", "node">>
SemaphoreInit == CharInit \o <<"ready">>
MutexInit == CharInit \o <<"memory", "ready">>
MiscInit == <<"misc">>
QueueWaitInit == <<"misc", "ready">>
MmapInit == <<"misc", "memory", "ready">>
RWTestInit == <<"chrdev">>

InitSteps ==
  [char |-> CharInit, misc |-> MiscInit, semaphore |-> SemaphoreInit,
   mutex |-> MutexInit, rwtest |-> RWTestInit, queue_wait |-> QueueWaitInit,
   mmap |-> MmapInit]

Drivers == DOMAIN InitSteps
CdevDrivers == {"char", "semaphore", "mutex"}

(* Mutant: device_destroy is forgotten.                                    *)
CdevExitKeepsNode == <<"add", "region", "class">>

(* The exit functions: what they give back, in their order.  cdev_del      *)
(* takes the device out of the table and drops the last reference of the   *)
(* struct cdev, but does not free it: cdev_init has replaced the kobject   *)
(* type that cdev_alloc gave it, which would.  Nor is the memory of the    *)
(* mutex drivers ever freed.                                               *)
CdevExit == <<"add", "region", "node", "class">>
MmapExit == <<"misc", "ready", "memory">>

ExitSteps(d) ==
  CASE d \in CdevDrivers -> CdevExit
    [] d = "mmap" -> MmapExit
    [] d \in {"misc", "queue_wait"} -> <<"misc">>
    [] d = "rwtest" -> <<"chrdev">>

(* Mutant: the file_operations of the semaphore driver have no owner.      *)
OwnedButSemaphore == {"char", "mutex", "misc", "mmap"}

(* The drivers whose file_operations name THIS_MODULE as their owner.      *)
Owned == {"char", "mutex", "semaphore", "misc", "mmap"}

(* What an init function does when a step fails: it goes on as if nothing  *)
(* had happened, it returns the error, it uses the NULL pointer it has     *)
(* got, or it keeps the error for the end.                                 *)
OnFailure(d, s) ==
  CASE s \in {"region", "add", "class", "node"} -> "ignore"
    [] s = "cdev" \/ (s = "memory" /\ d = "mmap") -> "oops"
    [] s = "misc" /\ d = "mmap" -> "keep"
    [] OTHER -> "return"

-----------------------------------------------------------------------------
DevInit ==
  /\ drv \in Drivers
  /\ mod = "out" /\ todo = <<>> /\ held = {} /\ ret = 0
  /\ aborted = FALSE /\ loads = 0
  /\ file = [p \in Users |-> "none"]
  /\ call = [p \in Users |-> "no"]
  /\ mapped = {}
  /\ sem = 0 /\ sleepers = <<>> /\ ups = 0 /\ downs = 0

(* A process whose file, or whose mapping of it, keeps the module: a       *)
(* mapping holds the file after it was closed.                             *)
InUse(p) == file[p] = "open" \/ p \in mapped

(* Without the region the device number is 0:0, which gets no node.        *)
Published ==
  \/ {"region", "add", "node"} \subseteq held
  \/ held \cap {"misc", "chrdev"} # {}

Insmod ==
  /\ mod = "out" /\ ~aborted /\ loads < MaxLoads
  /\ loads' = loads + 1
  /\ mod' = "coming"
  /\ todo' = InitSteps[drv]
  /\ held' = {} /\ ret' = 0
  /\ UNCHANGED <<drv, aborted, procVars, semVars>>

(* One call of the init function succeeds.  sema_init(&sem, 1) sets the    *)
(* count and empties the list, whatever was done with them before.         *)
InitStep ==
  /\ mod = "coming" /\ todo # <<>> /\ Head(todo) # "oops"
  /\ Head(todo) = "node" => "class" \in held
  /\ held' = held \cup {Head(todo)}
  /\ todo' = Tail(todo)
  /\ IF drv = "semaphore" /\ Head(todo) = "ready"
       THEN sem' = 1 /\ sleepers' = <<>> /\ ups' = 0 /\ downs' = 0
       ELSE UNCHANGED semVars
  /\ UNCHANGED <<drv, mod, ret, aborted, loads, procVars>>

(* One call of the init function fails.  A module whose init function      *)
(* returns an error is freed with whatever it has left registered.         *)
InitFails ==
  /\ mod = "coming" /\ todo # <<>> /\ Head(todo) \notin {"ready", "oops"}
  /\ LET how == OnFailure(drv, Head(todo)) IN
       /\ todo' = CASE how = "oops" -> <<"oops">>
                    [] how = "return" -> <<>>
                    [] OTHER -> Tail(todo)
       /\ ret' = IF how = "keep" THEN -1 ELSE ret
       /\ mod' = IF how = "return" THEN "out" ELSE mod
       /\ aborted' = (how = "return" /\ held # {})
  /\ UNCHANGED <<drv, held, loads, procVars, semVars>>

(* The init function returns.                                              *)
InitReturns ==
  /\ mod = "coming" /\ todo = <<>>
  /\ mod' = IF ret = 0 THEN "live" ELSE "out"
  /\ aborted' = (ret # 0)
  /\ UNCHANGED <<drv, todo, held, ret, loads, procVars, semVars>>

(* rmmod is refused while a file pins the module.                          *)
Rmmod ==
  /\ mod = "live"
  /\ drv \in Owned => \A p \in Users : ~InUse(p)
  /\ mod' = "going"
  /\ todo' = ExitSteps(drv)
  /\ UNCHANGED <<drv, held, ret, aborted, loads, procVars, semVars>>

(* device_destroy of a class that class_create did not make is an oops;    *)
(* the others pass over what is not there.                                 *)
ExitStep ==
  /\ mod = "going" /\ todo # <<>> /\ Head(todo) # "oops"
  /\ IF Head(todo) = "node" /\ "class" \notin held
       THEN todo' = <<"oops">> /\ UNCHANGED held
       ELSE todo' = Tail(todo) /\ held' = held \ {Head(todo)}
  /\ UNCHANGED <<drv, mod, ret, aborted, loads, procVars, semVars>>

ExitReturns ==
  /\ mod = "going" /\ todo = <<>>
  /\ mod' = "out"
  /\ UNCHANGED <<drv, todo, held, ret, aborted, loads, procVars, semVars>>

-----------------------------------------------------------------------------
(* An open asks the owner, if there is one, to stay, which a module that   *)
(* is going refuses.  The device of a module that was freed without        *)
(* unregistering it leads to memory that is gone.                          *)
DevOpen(p) ==
  /\ file[p] = "none" /\ p \notin mapped
  /\ Published
  /\ drv \in Owned => mod # "going"
  /\ file' = [file EXCEPT ![p] = IF mod = "out" THEN "stale" ELSE "open"]
  /\ UNCHANGED <<drv, modVars, call, mapped, semVars>>

DevClose(p) ==
  /\ file[p] = "open" /\ call[p] = "no"
  /\ file' = [file EXCEPT ![p] = IF mod = "out" THEN "stale" ELSE "none"]
  /\ UNCHANGED <<drv, modVars, call, mapped, semVars>>

(* The call uses what "ready" initialises.                                 *)
Early == "ready" \in ToSet(InitSteps[drv]) /\ "ready" \notin held

(* A call of one of the file operations when the module is gone, or when   *)
(* the init function, which publishes the device first, has not made the   *)
(* semaphore, the mutex and its memory, the queue or the page yet.         *)
CallGoesWrong(p) ==
  /\ file[p] = "open" /\ call[p] = "no"
  /\ mod = "out" \/ Early
  /\ file' = [file EXCEPT ![p] = IF mod = "out" THEN "stale" ELSE "early"]
  /\ UNCHANGED <<drv, modVars, call, mapped, semVars>>

CanCall(p) == file[p] = "open" /\ call[p] = "no" /\ mod # "out" /\ ~Early

(* read, write, llseek, ioctl: the call takes a while, the read of         *)
(* queue_wait perhaps until somebody writes.                               *)
CallEnter(p) ==
  /\ CanCall(p) /\ drv \notin {"semaphore", "mmap"}
  /\ call' = [call EXCEPT ![p] = "in"]
  /\ UNCHANGED <<drv, modVars, file, mapped, semVars>>

CallReturn(p) ==
  /\ call[p] = "in"
  /\ call' = [call EXCEPT ![p] = "no"]
  /\ file' = [file EXCEPT ![p] = IF mod = "out" THEN "stale" ELSE @]
  /\ UNCHANGED <<drv, modVars, mapped, semVars>>

(* _read of the semaphore driver: down, which no signal ends.              *)
SemRead(p) ==
  /\ CanCall(p) /\ drv = "semaphore"
  /\ \/ /\ sem > 0
        /\ sem' = sem - 1 /\ downs' = downs + 1
        /\ UNCHANGED <<sleepers, call>>
     \/ /\ sem = 0
        /\ sleepers' = Append(sleepers, p)
        /\ call' = [call EXCEPT ![p] = "sleep"]
        /\ UNCHANGED <<sem, downs>>
  /\ UNCHANGED <<drv, modVars, file, mapped, ups>>

(* _write: up gives the count to the first sleeper, if there is one.       *)
SemWrite(p) ==
  /\ CanCall(p) /\ drv = "semaphore" /\ ups < MaxUps
  /\ ups' = ups + 1
  /\ \/ /\ sleepers = <<>>
        /\ sem' = sem + 1
        /\ UNCHANGED <<sleepers, call>>
     \/ /\ sleepers # <<>>
        /\ sleepers' = Tail(sleepers)
        /\ call' = [call EXCEPT ![Head(sleepers)] = "woken"]
        /\ UNCHANGED sem
  /\ UNCHANGED <<drv, modVars, file, mapped, downs>>

(* Mutant: down_interruptible with its result ignored, as a signal comes.  *)
SemReadReturnInterrupted(p) ==
  /\ call[p] \in {"woken", "sleep"}
  /\ call' = [call EXCEPT ![p] = "no"]
  /\ downs' = downs + 1
  /\ sleepers' = SelectSeq(sleepers, LAMBDA q : q # p)
  /\ UNCHANGED <<drv, modVars, file, mapped, sem, ups>>

(* The sleeper runs and its read returns 0.                                *)
SemReadReturn(p) ==
  /\ call[p] = "woken"
  /\ call' = [call EXCEPT ![p] = "no"]
  /\ downs' = downs + 1
  /\ UNCHANGED <<drv, modVars, file, mapped, sem, sleepers, ups>>

(* my_map, and the munmap of mmap_app, before or after close.              *)
Mmap(p) ==
  /\ CanCall(p) /\ drv = "mmap"
  /\ mapped' = mapped \cup {p}
  /\ UNCHANGED <<drv, modVars, file, call, semVars>>

Munmap(p) ==
  /\ p \in mapped
  /\ mapped' = mapped \ {p}
  /\ UNCHANGED <<drv, modVars, file, call, semVars>>

-----------------------------------------------------------------------------
ModuleStep ==
  \/ Insmod \/ InitStep \/ InitFails \/ InitReturns
  \/ Rmmod \/ ExitStep \/ ExitReturns

UserStep(p) ==
  \/ DevOpen(p) \/ DevClose(p) \/ CallGoesWrong(p) \/ CallEnter(p) \/ CallReturn(p)
  \/ SemRead(p) \/ SemWrite(p) \/ SemReadReturn(p) \/ Mmap(p) \/ Munmap(p)

DevNext == ModuleStep \/ \E p \in Users : UserStep(p)

DevSpec == DevInit /\ [][DevNext]_devVars

-----------------------------------------------------------------------------
DevTypeOK ==
  /\ drv \in Drivers
  /\ mod \in {"out", "coming", "live", "going"}
  /\ held \subseteq UNION {ToSet(InitSteps[d]) : d \in Drivers}
  /\ ret \in {0, -1} /\ aborted \in BOOLEAN /\ loads \in 0 .. MaxLoads
  /\ file \in [Users -> {"none", "open", "stale", "early"}]
  /\ call \in [Users -> {"no", "in", "sleep", "woken"}]
  /\ mapped \subseteq Users
  /\ sem \in Nat /\ ups \in 0 .. MaxUps /\ downs \in Nat

(* No process runs, or has mapped, what rmmod has freed: a file or a       *)
(* mapping of it keeps the module, and an open cannot slip in while the    *)
(* exit function runs.  RWTest and queue_wait, whose file_operations have  *)
(* no owner, are the exception, and so is a module whose init function     *)
(* failed after the device was there.  And a call that comes once insmod   *)
(* has returned finds everything it uses initialised, in every driver.     *)
CodeStays ==
  /\ drv \notin {"rwtest", "queue_wait"} /\ ~aborted =>
       \A p \in Users :
         /\ file[p] # "stale"
         /\ InUse(p) => mod \in {"coming", "live"}
         /\ p \in mapped => "memory" \in held
  /\ mod \in {"live", "going"} => \A p \in Users : file[p] = "open" => ~Early

(* What no rmmod gives back: the struct cdev of the drivers that allocate  *)
(* it, the memory of the mutex drivers, and what was only initialised.     *)
Kept ==
  {"ready"} \cup (IF drv \in CdevDrivers THEN {"cdev"} ELSE {})
            \cup (IF drv = "mutex" THEN {"memory"} ELSE {})

(* A module that was unloaded has left nothing in the tables of the        *)
(* kernel, whichever of its registrations failed: only memory is lost.     *)
(* And of the init functions that give up, those of the mutex drivers,     *)
(* which return -ENOMEM and unregister nothing, are the only ones that     *)
(* leave a device behind; that of mmap leaves no more than its page.       *)
CleanUnload ==
  mod = "out" =>
    IF aborted THEN drv = "mutex" \/ held \subseteq {"memory", "ready"}
               ELSE held \subseteq Kept

(* The semaphore neither loses nor invents a count: what up has added to   *)
(* the 1 of sema_init was taken by a read that returned, is being handed   *)
(* to a sleeper, or is in sem; and nobody sleeps while it could be taken.  *)
Tokens ==
  drv = "semaphore" /\ "ready" \in held =>
    /\ LET woken == {p \in Users : call[p] = "woken"}
       IN  sem + downs + Cardinality(woken) = 1 + ups
    /\ sleepers # <<>> => sem = 0
    /\ \A p \in Users : call[p] = "sleep" <=> p \in ToSet(sleepers)
=============================================================================
