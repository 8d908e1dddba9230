# LinuxDev_Note in TLA+

A verification development for the drivers and IPC programs of this repository.
The repository is a collection of small kernel modules and of the user programs
that exercise them, one directory per subject; the modules share no code, so the
development is a set of independent models, most important first, each with its
model-checked instances and, for the core ones, machine-checked proofs.

## 1. Inventory

| part | state it keeps | operations | how it interacts | what is hard | module |
|---|---|---|---|---|---|
| `03-fileOperate/mutex/useMutex` driver | 128 shared bytes, a mutex, a static write counter, a position per open file | init, exit, open, release, llseek, read, write | any number of openers share the memory | byte loops that call `schedule()`, early returns between lock and unlock, a counter used outside the lock | MutexDrv, CharDev |
| `03-fileOperate/mutex/unuseMutex` driver | the same without the mutex | the same | the same | every interleaving of the byte loops | MutexDrv, CharDev |
| their `app.c` | three detached threads | open, lseek, one read or write, close | calls the driver | `exit(-1)` overtakes the threads | MutexApp |
| `04-queue_wait` driver, `read.c`, `write.c` | `byte[100]`, `buff_len`, `havedata`, a wait queue | init, exit, open, release, read (sleeps), write (wakes) | readers and writers meet in the driver | no lock at all: lost wake-ups, a shared loop variable, signals, O_NONBLOCK | QueueWait, CharDev |
| `fileOperate/RWTest` driver and programs | `byte[100]` and three positions | init, exit, read, write | `echo` and `cat` | a position that moves by the size asked for, the rewind of the read that returns 0 | RWTest, CharDev |
| `12-block_device` | the sectors, the queue, the disk | init, exit, do_request | the block layer hands in requests | segments, bad requests, failures of init | BlockDev |
| `05-Notifier` | a raw notifier chain, a timer, a counter | init, exit, the timer function, three callbacks | softirq against rmmod | `del_timer` does not wait for the function, which re-arms its own timer | Notifier |
| `06-bus` (bus, device, driver) | registrations on `my_bus_type`, a misc device | three inits, three exits, match, probe, remove | the driver core pairs device and driver | results of registrations that are ignored | Bus |
| `08-platform` | registrations on the platform bus | two inits, two exits, probe, remove | driver core | a registration that fails ends the load | Bus |
| `03-fileOperate/semaphore` | a counting semaphore | init, exit, read = down, write = up | readers sleep until a write | the device exists before `sema_init`; which sleeper gets a count | CharDev |
| `11-mmap` | one kernel page | init, exit, open, mmap, close | a process maps the page | a mapping outlives the file; registration before the page is there | CharDev |
| `02-creatDevice` | the registrations | init, exit, handlers that only log | | what exit undoes when a registration failed | CharDev |
| `07-kobject` | a kobject, two ksets and their reference counts | init, exit, show, store | a parent is kept by its child | the order of the releases; an attribute call against rmmod | Kobject |
| `10-sigaction`, `nonblock_ asynchronous` | the pid written to a debugfs file | write: look the task up, send a signal | the signalled process | the task may exit in between | Signals |
| `01-ProcessCtrl/mysignal.c` | a handler | signal, pause | the user types ctrl-c | a signal before `pause` | Signals |
| `01-ProcessCtrl` message queue, shared memory | the objects of keys 777 and 15 | get, send, receive, attach, detach, remove | all runs share the key | runs that overlap and remove what others use | SysVIpc |
| `01-ProcessCtrl/pipe_rw.c` | a pipe | two writes, one read | parent and child | ordering by `sleep` only; ends that stay open | Pipe |
| `09-TCP` | a listening socket, a backlog, two buffers | accept, one read, print, close; connect, write | server and clients | one client at a time; a 0 written behind what was read | Tcp |
| FIFO readers and writers in `01-ProcessCtrl` and `03-fileOperate/fileOperate/*` | a FIFO | block, poll, select; write | a writer program | end of file, `EAGAIN`, a full FIFO, unlink | Fifo |
| `01-ProcessCtrl/pthread.c` | none | two threads print | `sleep(1)` | | - |

What makes each part correct is stated with its module in section 3.

`06-bus/bus.c` and `11-mmap/mmap_drv.c` do not compile as they are in the
repository: the body of `my_match` (lines 12-14) has no closing brace, and
`dev_init` uses an `i` it does not declare.  The models read them with the brace
and the declaration.

## 2. How the models are made

* A step is one access to state that another actor can reach.  Accesses to a
  caller's own file or locals are folded into the neighbouring step, so that
  every interleaving the C code can show is an interleaving of steps.  Where the
  code is used by one program at a time (RWTest) a handler is one step.
* What the kernel does is modelled only as far as the code relies on it, and
  those operators are marked "external": `mutex_lock`, `wait_event_interruptible`
  (test, queue, test again, sleep), `wake_up`, `copy_to_user` and
  `copy_from_user` (which may stop at any inaccessible byte), the raw notifier
  chain, the request queue, the driver core.
* `ret`, `rdbuf`, `got` and similar variables are what user space sees of a call;
  the properties are about them.
* Definitions named "Mutant" in their comment are altered copies of the action
  they stand before, with a mistake one could make in that code.  `PROJECT.json`
  names the property that finds each of them.  No specification uses them.
* Where the repository has a program or driver several times over (the FIFO
  writers, the two mutex drivers, `kernalSignal.c` and `kernalSignal_drv.c`, the
  init functions of the character devices), one definition stands for all copies.
  The map gives each definition the lines of one of them, and lets the operators
  that only join others (`Next`, `ReaderStep`, `SignalsNext`, ...) name a copy that
  no other definition does.

## 3. Modules

### ShareMem, MutexDrv, MutexApp: the memory shared under a mutex

`MutexDrv` is `mutex_drv.c`; `UseMutex` says which of the two directories it is
(they differ only in the commented calls of `mutex_lock` and `mutex_unlock`).

| state | code |
|---|---|
| `mem` | `sh->mem` |
| `owner` | `share_mutex` |
| `writecount` | the static `writecount` (it is loaded and stored in two steps) |
| `f_pos[t]` | `filp->f_pos` of the caller's file |
| `p`, `count`, `i` | the locals of `_read` and `_write` |
| `branch` | `writecount%2` as evaluated after the lock |
| `buff`, `room`, `rdbuf`, `ret` | the user's buffers and the result |

| action | code |
|---|---|
| `Open`, `Release`, `Llseek` | `_open`, `_release`, `_llseek` with its four outcomes |
| `WriteEnter`, `WriteCount` | `writecount++` (load, store), the check and the cut of `count` |
| `WriteLock`, `WriteByte`, `WriteDone` | `mutex_lock` and the choice of the loop; one round; `mutex_unlock`, position and result |
| `ReadEnter`, `ReadLock`, `ReadByte`, `ReadDone` | the same of `_read`; `copy_to_user` goes byte by byte and may stop |

`ShareMem` is what the driver promises: a read or write of a range takes effect
in one step.  `MutexDrv` implements it (`Linearizable`): a call takes effect when
it gets the mutex, so the abstract memory already holds what the writer inside
has still to copy.

`MutexApp` puts `app.c` on top: `main` creates the threads (and may fail and
`exit(-1)`), each thread opens, seeks to 0, makes its one call and closes.
`MCMutexApp` lets a behaviour have either driver loaded.  With the mutex the
reader prints one writer's row or none (`NoTornReadWithMutex`); with either no
byte a writer has written is lost (`EveryCellWritten`) and every thread ends
(`AppTerminates`).

### QueueWait: the mailbox of 04-queue_wait

Nothing is locked, so each access to `byte`, `buff_len`, `havedata` and the wait
queue is a step of its own, `++buff_len` is two, and `wait_event_interruptible`
is its four parts.  `ReadEnter`, `WriteEnter` are the calls `read.c` and
`write.c` make; `Signal` makes a wait end early; a file may be O_NONBLOCK.

`NoLostWakeup` is the property the order of `havedata = 1` and `wake_up` is
for.  `IndexInBuffer` is about the loop variable of `example_write` being the
shared `buff_len`, which `example_read` resets.  With one writer the loop stays
in its range whatever the readers do.  With two writers it does not, so the
property is stated for one.  `OneWriteDelivered` says what a read reports and
delivers while there has been one write only: later writes may overtake a read.
Liveness: published data does not stay while a reader waits, writes and
non-blocking reads return.  Two readers that both saw `havedata` may both take one
write: the code allows it, the model has it, and no property forbids it.  A byte
the kernel cannot read from the caller leaves a zero in `byte` (`WriteByte`).

### ByteStream, RWTest: the echo and cat buffer

Every byte is known by its number in the order of writing.  The comments of the
driver call `buff_len` what a read has to move; this and the stream property
(`Stream`: bytes are read in order, each once) hold as long as user space reads
up to the 0 before it writes again, which `cat` does; `DrainFirst` says so.
`draining`, `sent`, `rcvd` and `got` observe the calls, `result` is what the last
one returned.  A write whose `copy_from_user` fails half way puts a zero behind
what it has copied and still returns `size`, as the loop of the code does.  `postion` moves by the
size asked for instead of the size moved; the model keeps that.

### RamDisk, BlockDev: the RAM disk of 12-block_device

Init and exit are modelled call by call with their error paths
(`InitQueue` ... `CleanupQueue`), `simp_blkdev_do_request` by segment: `Fetch` is
`blk_fetch_request` with the check of the end, `FetchBad` its bad-request path,
`Transfer` one round of the copy loop, which ends a segment and moves
`blk_rq_pos` on.  `RamDisk` is the abstract disk on which a request takes effect
at once; `AtomicRequests` is the refinement.  `Resources` relates what is
allocated to how far init and exit have got, `InCapacity` keeps every segment
inside the array.  A bad request of several segments is never ended
(state "lost"), so `RequestsEnd` speaks of requests inside the capacity.

### Notifier: the chain on a timer

The chain is its next pointers, because the walk reads a next pointer before it
calls a block while the exit function relinks the list.  `hpc` is the timer
function (`notifier_function`), `mod` and `step` are `myNotifier_init` and
`myNotifier_exit`.  `InOrder`: the three functions run in order with the event of
this round, and none twice, also while the chain is taken apart.  `QuietUnload`:
rmmod leaves no timer and no running function behind, unless the function was
running when `del_timer` was called; then it does re-arm the timer, and the
model shows it (`raced`).  `KeepsTicking`: the chain is called again and again.

### Bus: the three modules of 06-bus, the two of 08-platform

`bus` is how far `my_bus_init` and `my_bus_exit` have got, `mod[m]` and `pc[m]`
where the init or exit function of `device.ko` and `driver.ko` is; both run at
the same time.  `reg` is membership in the lists of the bus, `lock` the lock of
the device, under which `my_probe` and `my_remove` run (`MyProbe`, `MyRemove`).
The results of `device_register`, `driver_register` and `misc_register` are
ignored, as in the code: every registration may fail in the model and the caller
goes on.  Unregistering a device that was never registered ends in an oops; the
module then stays in its exit function.  `PairedWhenInstalled`: installed in
either order, or at the same time, the two are bound.  `NodeHasDriver`: neither
`/dev/misc_321` nor an open file of it outlives the driver.  `ModulesSettle`:
insmod and rmmod return.  The walk of the other list and the taking of the lock
are one step (`Attach`); the attribute files, which print constants, are left out.
A behaviour is about one bus (`type`): on the platform bus there is no `bus.ko`,
the names are compared for equality, a registration that fails is the result of
insmod, and probe and remove only print.

### Fifo: the FIFO programs

Three kinds of readers and the writer work in one directory, each started at any
time, readers killed at any time.  `path` is what `./myfifo` names, `queue[n]`
what is in FIFO `n`; a FIFO that is unlinked stays as long as it is open, and
what is in it when the last end is closed is in `lost`.  Two history variables
observe the programs: `told`, the writers that have printed that their message is
written, and `taken`, the messages that reads have returned.  `SelectMeansData` is the
comment of the select reader (opened O_RDWR, it never sees an end of file).
`WrittenIsKept` is the balance of the messages: what counts as written is in one
FIFO, was returned by one read, or was dropped with its FIFO, which takes a killed
reader; a write to a full FIFO, or to one without a reader, counts as nothing.
`MessageIsRead` says that it is read in the end.  It is stated for readers in their loop: a
blocking reader that opens the FIFO after the last writer has closed it stays in
`open`, with the message of that writer unread, until another writer comes.

### CharDev: insmod and rmmod of the character devices

What the other models leave out: the device while its module is loaded, fails to
load, or is unloaded.  `InitSteps` and `ExitSteps` are the sequences of calls in
the init and exit functions of the drivers (the two mutex drivers are alike), `OnFailure` what
each does when one of them fails (all of `alloc_chrdev_region`, `cdev_add`,
`class_create` and `device_create` are ignored), `Owned` the drivers whose
`file_operations` name `THIS_MODULE`.

| state | code |
|---|---|
| `drv` | the driver this behaviour is about |
| `mod`, `todo` | the state of the module, and what is left of its init or exit function |
| `held` | what is registered, allocated or initialised ("ready": `sema_init`, `mutex_init`, `init_waitqueue_head`, the reserved page) |
| `file[p]`, `call[p]`, `mapped` | a process with the device open, in a call, or with the page mapped; "stale" and "early" are calls that went wrong |
| `sem`, `sleepers`, `ups`, `downs` | the semaphore of `semaphore_drv.c` and what was done with it |

`CodeStays`: nobody runs or has mapped what rmmod has freed, whatever the order
of closing and unmapping.  RWTest and the mailbox have no owner, so an open file
or a sleeping read does not stop their rmmod: the property names them as its
exception, as it does a module whose init failed after the device was there
(`aborted`; the mutex driver leaves its device registered when `kzalloc` fails).
Its second half covers every driver: a call in the window between registration
and the end of init finds an uninitialised queue or semaphore (the model has
these calls, "early"), one that comes after insmod has returned does not.
`CleanUnload`: rmmod leaves nothing registered whichever registrations failed
(without `class_create`, `device_destroy` is an oops and the module stays).  What
it does leave is memory (`Kept`): that of the mutex drivers, and the `struct cdev`
of the three drivers that call `cdev_alloc` and then `cdev_init`, which replaces
the kobject type whose release would free it, so that `cdev_del` only takes the
device out of the table (`CdevExit`).  Of the init functions that give up, those
of the mutex drivers alone leave their device registered.
`Tokens`: each count of the semaphore goes to one read, nobody sleeps while
there is one, and `sema_init` of a later load wipes out no sleeper.

### Kobject: the modules of 07-kobject

`refs`, `dirs` and `added` are the reference counts, the sysfs directories and
the uevents of `kset_uevent`.  An attribute file does not keep its module loaded;
`AttrHasCode` holds because `kobject_del` waits for calls that have begun
(`KobjTestExit`, `KobjDrained`).  `KsetRefs` says that the parent set, although
unregistered first, lives until its child lets go, and that the references
balance.  It excludes the case that `kset_register(&kset_c)` has failed: its
result is ignored, and kset_test_exit then lets kset_p go once too often.
The kernel functions are those of 4.4, which the repository's README names.

### Signals: signalconfpid and pause

`write_pid` is four steps: the parse and its checks (`WritePid`), the look-up
under RCU (`FindTask`), `RcuReadUnlock`, and `SendSigInfo`.  A process lives, is a
zombie, is reaped and is freed; the last not while anybody is between
`FindTask` and `RcuReadUnlock`.  An app writes its own pid, a shell any number.
`AppSignalsItself`: what makes the use of the task after `rcu_read_unlock` safe
for an app is that it is the app's own; only a shell's write may use a task that
is gone (`misused`).  `SignalReceived`: the app may exit right after its write,
because the handler has run by then.  `Pausers` run `mysignal.c`; a ctrl-c
between `signal` and `pause` is handled and `pause` sleeps on, but the next one
ends the program (`PauseEnds`).

### SysVIpc, Pipe, Tcp: the other programs of 01-ProcessCtrl and 09-TCP

`SysVIpc`: several runs of one program meet in the object of its key.  `named`
is what a key names, `ids` what exists; a segment that was removed stays until it
is detached.  A parent may take another's message, remove the queue others use,
or find nothing and leave the queue; `NothingLeft` says that still nothing stays
in the kernel when all runs have ended and none was killed.  Killed runs do
leave a queue or segment behind (`unclean`).

`Pipe`: the `sleep(2)` of the child is left out, so it may read before, between
and after the two writes, and a parent that writes after it is ended by SIGPIPE.
`BothEnd`: both end whoever is killed, because the ends are closed on both
sides, and the child gets the first word at least.

`Tcp`: the server accepts, reads once, prints and closes; a read returns a part
of what was sent.  A byte is known by the client that sent it.
`PrintedIsSent`: the 0 behind what was read is inside the buffer and hides what
an earlier client has left.  It excludes clients that met an end of file
(`garbage`): they send what was in an uninitialised buffer, perhaps all of it,
and the 0 then goes one past the end of the server's.  `EveryoneServed`: the
clients in the backlog are served although the server waits for one at a time.
## 4. Runs, bounds and fairness

Parts that share nothing are checked in one run with a variable that says which
of them the behaviour is about: `driver` in MCMutexApp, `sysfs` and `drv` in
MCCharDev, `program` in MCPrograms, `type` in Bus.  The parts that are not chosen
do not move, so the states of such a run are the sum of those of its parts, and
the fairness of a part is conjoined with its choice.

| run | question | bounds and why they are enough |
|---|---|---|
| `mutex_drv` | is the locked driver atomic, in bounds, and free of lock leaks for callers that do anything? | two callers (every property is about a pair), two bytes (a range can be torn), seeks by -1 and 1 from all three origins and an unknown one (positions 0, 1, 2 = MEM_SIZE, and rejected ones), two writes, user buffers with a fault in the middle, counts above what is left |
| `mutex_app` | does the shipped program print whole rows with the mutex, lose no byte with either driver, and end? | the three threads of `app.c`; rows of 4 in a memory of 5, so that there is something behind the range |
| `queue_wait` | is a wake-up ever lost, does a write leave its buffer, is each reader of a first write given all of it? | two readers (both may see `havedata`), one writer writing twice, two bytes, faults in the middle of the user buffer and past it |
| `queue_wait_live` | do reads, writes and published data get on? | one reader, two writers, one byte, failing reads |
| `rwtest` | is the buffer a stream, and does cat end? | a buffer of 5, sizes 0 to 3, 9 bytes in all: several fills and drains, short reads, failing copies |
| `rwtest_apps` | is `buff_len` what is left, with the shipped programs? (violated) | calls of 5 bytes |
| `block_dev` | are requests atomic, resources balanced? | three sectors, two submitters, requests of one and two segments, inside, across and past the end, failing init |
| `notifier` | order of the callbacks, rmmod against the timer | the three callbacks; the event wraps at 4, which exercises the wrap of the unsigned long |
| `bus` | do device and driver find each other on either bus, and does the node go with the driver? | four loads in all: each module may be unloaded and loaded again while the other stays, is loaded or is unloaded |
| `char_devices` | does the code stay while it is used, is everything given back, is every count handed on? | three processes (one in the semaphore, one woken, one that ups or closes), two loads (a second one meets what the first has left), two writes to the semaphore; two processes in the attribute |
| `programs` | are messages read and not lost, signals received, objects removed, lines printed, clients served, and does nothing hang? | Fifo: one reader of each kind, two writers, room for one message (a full FIFO), two FIFOs (one is unlinked under a reader). Signals: an app and a shell that signals it, itself or nobody, one queued signal (a full queue); one pauser. SysVIpc: three runs (one uses what the second removes while the third has made a new one), room for one message. Tcp: three clients, a backlog of 1 (one is served, and one waits in front of it), buffers of 3 bytes (a full one, and a shorter line over a longer one) |
| `fifo_user` | does "reader first" work for an ordinary user? (violated) | one reader, one writer |

Bounds that are guards: `MaxWrites` (writes counted in MutexDrv and QueueWait),
`MaxBytes` (RWTest), `MaxLoads` (Bus, CharDev), `MaxUps` (CharDev), `MaxFifos`
(Fifo).  They only stop new calls.  In RWTest a write that would
run past `byte[]` is left out as well: nothing in the code prevents it, and what
it overwrites is not part of the model.

Fairness:

* MutexApp: weak fairness of `main` and of each thread: they are ordinary
  processes and `schedule()` picks every runnable one eventually.  Weak fairness
  is enough for the mutex, because each thread makes one call.
* QueueWait: weak fairness of the steps of a process that is inside the driver.
  Nobody has to make a call, send a signal or open a file.
* RWTest: a `cat` that has begun keeps reading, as its loop does.
* BlockDev: strong fairness of the fetch (elevators bound the delay of a
  request, though others may be served first), weak fairness of the transfer.
* Notifier: init and exit functions run to their end, a pending timer expires,
  the timer function runs on.  Nobody has to call rmmod.
* Bus: strong fairness of an init or exit function that runs: the lock of the
  device is a mutex that is handed on in the order of the callers.
* Fifo: weak fairness of each program.  Nobody has to kill a reader.
* Signals: weak fairness of the pausing program and of the delivery of its
  signals, and of its user, who types ctrl-c as long as the program sleeps; that
  is what the program is for, and without it nothing ends it.
* Pipe: weak fairness of both processes; `sleep` returns.  Nobody is killed.
* Tcp: weak fairness of the server's steps, not of its errors, and of
  a client whose user was asked for a line: the server waits for that user
  without a timeout, and a user who never types stops it for everybody.

Deadlock is checked in the runs of MutexDrv and MutexApp.  The others may stop
for good: all writes of the bound made, the module gone, nothing to read, all
programs ended.

Two runs record disagreements of the code with its own texts (`findings` in
PROJECT.json): `rwtest_apps`, what `buff_len` is with the shipped write and read
programs, and `fifo_user`, the mode with which the readers make the FIFO.

Behaviours the models have and no text of the repository speaks of, so that no
property is about them:

* the log of the mutex driver names a writer by the parity of `writecount`, which
  another write may have moved on (`branch` in MutexDrv);
* `my_probe` binds the device also when `misc_register` fails (`bound /\ ~node`
  in Bus), and `bus.ko` stays registered when its device fails (`stale`);
* a write of the mailbox returns a `buff_len` that a read may have set to 0;
* rmmod frees RWTest and the mailbox under an open file, and the mutex driver
  leaves its device registered when `kzalloc` fails (`aborted` in CharDev);
* `debugfs_remove` does not wait for a `write_pid` that has begun (`oops` in
  Signals);
* `obj_test_release` never runs, because the reference of
  `kobject_init_and_add` is not put (`refs["kobj"]` stays 1 in Kobject).

## 5. Proofs

All proofs hold for every value of the constants that satisfies the module's
ASSUME, and every invariant the passing runs check is a theorem, with the three
refinements (`Linearizable`, `Stream`, `AtomicRequests`).  Each rests on an
inductive invariant: the property alone says nothing of the states it is about
to be violated in.  The inductive invariants were model-checked on the small
instances of section 4 before they were proved.

Assumptions on the constants are those of the modules (`MutexDrvAssumption`,
`BlockDevAssumption`, ...), and TLC evaluates them in the runs.  Two theorems on
the echo and cat buffer assume `DrainFirst`, `Atomicity` and `RowIsNotTorn` assume
`UseMutex`, and `SameNamesArePaired` that device and driver have one name.

| module | inductive invariant | theorems |
|---|---|---|
| `MutexDrvProofs` | `Inv` | `TypeCorrect`, `MutualExclusion`, `AccessInBounds`, `ReadsStable`, `Atomicity` |
| `MutexAppProofs` | `AppInv` | `RowIsNotTorn`, `RowIsWritten` |
| `QueueWaitProofs` | `TypeOK /\ NoLostWakeup`, `IndexInv`, `OneWriteInv` | `TypeCorrect`, `WakeupNotLost`, `WriterInBuffer`, `OneWriteIsDelivered` |
| `BlockDevProofs` | `BlockDevInv` | `ResourcesHold`, `SegmentsInCapacity`, `RequestsAtomic` |
| `NotifierProofs` | `NotifierInv` | `CalledInOrder`, `QuietUnloadHolds` |
| `BusProofs` | `BusInv` | `InstalledArePaired`, `SameNamesArePaired`, `NodeIsDriven` |
| `CharDevProofs` | `DevInv`, `SemInv`, `KobjInv`, `KsetInv`, `BufInv` | `LoadedCodeStays`, `UnloadIsClean`, `TokensBalance`, `AttributesHaveCode`, `KsetsAreReleased`, `Remaining`, `StreamRefinement` |
| `ProgramsProofs` | `TcpInv`, `SigInv`, `PipeInv`, `IpcInv`, `FifoInv`, `MessageInv` | `ServerPrintsWhatWasSent`, `AppsSignalThemselves`, `SignalsAreReceived`, `HelloArrives`, `NothingIsLeft`, `SelectFindsData`, `WrittenStays` |

Along which argument:

* MutexDrv.  `Inv == TypeOK /\ LockInv /\ InBounds /\ ReadStable`.  The parts need
  each other: the position bound in `TypeOK` needs the cut of `count` in
  `InBounds`; `ReadStable` needs `LockInv`, which keeps every writer out while a
  read copies.  `InBounds` also says that `p` is still the caller's file position,
  because the position is only moved when the call returns.  `Atomicity` maps
  each action to one abstract step: taking the mutex to `Apply`, a byte copied
  to a stutter, the end of the call to `Return`, the entry to `Call` or `AtEnd`.
* MutexApp.  `AppInv` adds to `Inv` where in the driver each place of the thread
  function is (`Places`), that no write takes a letter away (`Filled`, with and
  without the mutex), and that with the mutex the row is of one letter unless a
  writer is inside, whose bytes so far are then of its own letter (`OneLetter`).
* QueueWait.  `NoLostWakeup` is inductive together with the types, because a
  reader that goes to sleep has tested `havedata` since it entered the queue.
  `IndexInv` ties what a single writer has loaded to the bound it has tested,
  which resets by readers only lower.  `OneWriteInv`: until the one write is
  published, no read is past its loop, so nobody resets the writer's loop
  variable and the first `buff_len` bytes are letters; after that `byte` does not
  change, so what a read has copied is what is there when it takes `buff_len`.
* BlockDev.  `BlockDevInv` has what is allocated (`Allocated`), that one request at
  a time is carried out (`OneCurrent`), and how much of it has moved (`Moving`):
  all segments that have ended, and for a read the sectors as they still are.
  The abstract disk (`AbsDisk`) already holds the rest of the write under way.
  `BlockDevAssumption` says that the ends of the segments of a request increase,
  two by two, and that the last is the end of the request.
* Notifier.  `ChainOK` gives the next pointers: an unlinked block keeps its own, so
  a walk that meets `myNotifier_exit` goes on along the old chain.  `RoundOK` says
  what a round has called and that it comes next to a block behind those,
  `TimerOK` that after `del_timer` only what was running then goes on.
* Bus.  `Where` relates the call of a module to its place on the list, `Pairing`
  says that of two that match and are not bound one has still to look for the
  other, `Owned` that what is bound has a driver that has yet to detach it.
* CharDev.  `DevInv` says what the rest of a running init or exit function
  (`todo`) has to do with what is registered (`held`): an init function has not
  done what it has still to do, an exit function gives back all that is held but
`Kept`, and one that gave up has nothing left unless it is that of a mutex driver;
  `FilesKeep` says that files and calls keep a module that owns its operations.
  `SemInv` has the balance of the counts and that who sleeps is in the list
  once.  `KsetInv` gives the references of both sets at each call of `kset.ko`.
* RWTest.  `BufInv`: the cells up to `buff_pos` hold the last bytes sent, and while
  draining the read position is where the stream stands.
* The programs.  `TcpInv`: no line fills the buffer, so the 0 has its place.
  `SigInv`: an app that is between the look-up of its pid and `send_sig` is alive,
  because it waits in that write.  `PipeInv`: what is in the pipe at each place of
  the parent as long as the child has not read.  `IpcInv`: a queue that is still there
  has a run that will remove it, a segment has a name or a user, and the ids given
  out are no more than the runs that got one.  `FifoInv`: a FIFO with data in it
  is held by a reader unless one was killed, and a select reader that may read
  finds data or has somebody to share the FIFO with.  `MessageInv`: a message has
exactly one place (a FIFO, `taken` or `lost`), which each of write, read and close
changes for one message or for all of a FIFO, and none before its writer was told.

Only model-checked: the liveness properties (`AppTerminates`, `PublishedIsTaken`,
`WriteReturns`, `CatEnds`, `RequestsEnd`, `KeepsTicking`, `ModulesSettle`,
`MessageIsRead`, `PauseEnds`, `BothEnd`, `EveryoneServed`), because liveness under
fairness and ENABLED are outside what the prover handles; that the system does not
deadlock; and the two violations.  Of `BothEnd` the safety part is proved
(`HelloArrives`).  No module has a RECURSIVE operator, and nothing is proved by
induction over data: where a sum or a count is needed, the proof uses that one
step changes it by one element (`Cardinality` in `SemInv` and `IpcInv`).

## 6. Not modelled, and the plan

Not modelled:

* `01-ProcessCtrl/pthread.c`: two threads that print, and a main that sleeps for a
  second.  Nothing is shared and nothing synchronised.
* The build files, the notes, and the formatting of log lines.
* The attribute files of `06-bus`, which print constants.
* The contents of the shared memory segment and of the mapped page: each program
  writes the same text every time.
* In `Mesge_queues_RW.c`, that `msgsnd` and `msgrcv` move 255 bytes behind an
  8-byte type through a 255-byte buffer: the memory behind a local is no state
  of the model.  The same goes for the number `_ioctl` of `char_drv.c` returns,
  which falls off its end.
* The read and write programs of RWTest are callers of the driver only (calls of
  five bytes in `rwtest_apps`), without their printing.

Left, most important first:

1. The safety halves of the liveness properties, as invariants that need no
   ENABLED: in MutexDrv, that whenever a caller waits for the mutex the one that
   holds it is between two steps that need nothing; in Bus, the same of the lock
   of the device; in QueueWait, what `PublishedIsTaken` needs of `queue_rw`.
2. Two writes to the mailbox, one after the other: `OneWriteDelivered` is about the
   first write only.
