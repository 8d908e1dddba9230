------------------------------ MODULE MutexApp ------------------------------
(***************************************************************************)
(* The test program of 03-fileOperate/mutex (app.c) on top of the driver:  *)
(* main starts NUM_THREADS threads, 0 and 1 write RW_BUFF_SIZE copies of   *)
(* their letter at offset 0, thread 2 reads as many bytes and prints them. *)
(* The threads are not joined; main leaves with pthread_exit, or kills the *)
(* process when pthread_create fails.                                      *)
(***************************************************************************)
EXTENDS MutexDrv

CONSTANTS
  RW_BUFF_SIZE,   \* bytes each thread writes or reads (5 in the code)
  Letter          \* Letter[t] is the byte tid + 'A' of a writing thread

NUM_THREADS == 3
Writers == {0, 1}
Reader == 2

ASSUME MutexAppAssumption ==
  /\ Threads = 0 .. NUM_THREADS - 1
  /\ RW_BUFF_SIZE \in 1 .. MEM_SIZE
  /\ Letter \in [Writers -> Byte \ {Zero}]

VARIABLES
  created,     \* how many threads main has created
  exiting,     \* main called exit(-1)
  apc          \* per thread: where in wirite_share_mem it is

appVars == <<created, exiting, apc>>
allVars == <<vars, appVars>>

AppInit ==
  /\ Init
  /\ created = 0
  /\ exiting = FALSE
  /\ apc = [t \in Threads |-> "none"]

(* main: one round of the loop; pthread_create may fail, exit(-1) follows. *)
PthreadCreate ==
  /\ created < NUM_THREADS
  /\ ~exiting
  /\ \/ /\ apc' = [apc EXCEPT ![created] = "start"]
        /\ created' = created + 1
        /\ UNCHANGED exiting
     \/ /\ exiting' = TRUE
        /\ UNCHANGED <<created, apc>>
  /\ UNCHANGED vars

(* The thread function.  open may fail: the thread says so and exits.      *)
AppOpen(t) ==
  /\ apc[t] = "start"
  /\ \/ Open(t) /\ apc' = [apc EXCEPT ![t] = "opened"]
     \/ UNCHANGED vars /\ apc' = [apc EXCEPT ![t] = "dead"]

AppSeek(t) ==
  /\ apc[t] = "opened"
  /\ Llseek(t, 0, SEEK_SET)
  /\ apc' = [apc EXCEPT ![t] = "seeked"]

AppCall(t) ==
  /\ apc[t] = "seeked"
  /\ \/ /\ t \in Writers
        /\ WriteEnter(t, RW_BUFF_SIZE, [k \in Idx |-> Letter[t]])
     \/ /\ t = Reader
        /\ ReadEnter(t, RW_BUFF_SIZE, RW_BUFF_SIZE)
  /\ apc' = [apc EXCEPT ![t] = "called"]

(* The call is back; the reader prints, every thread closes and exits.     *)
AppClose(t) ==
  /\ apc[t] = "called"
  /\ Release(t)
  /\ apc' = [apc EXCEPT ![t] = "dead"]

(* exit(-1) of main ends a thread when it is next in user mode: a call in  *)
(* the driver, even one that sleeps in mutex_lock, finishes first.         *)
Killed(t) ==
  /\ exiting
  /\ apc[t] \notin {"none", "dead"}
  /\ \/ Release(t)
     \/ pc[t] = "closed" /\ UNCHANGED vars
  /\ apc' = [apc EXCEPT ![t] = "dead"]

AppThread(t) ==
  /\ \/ AppOpen(t) \/ AppSeek(t) \/ AppCall(t) \/ AppClose(t) \/ Killed(t)
     \/ Inside(t) /\ UNCHANGED apc
  /\ UNCHANGED <<created, exiting>>

(* Everything has ended.                                                   *)
Ended == (created = NUM_THREADS \/ exiting)
         /\ \A t \in Threads : apc[t] \in {"none", "dead"}

Done == Ended /\ UNCHANGED allVars

AppNext == PthreadCreate \/ Done \/ \E t \in Threads : AppThread(t)

(* Every thread is scheduled: a step it can take for good is taken.        *)
AppSpec ==
  /\ AppInit /\ [][AppNext]_allVars
  /\ WF_allVars(PthreadCreate)
  /\ \A t \in Threads : WF_allVars(AppThread(t))

-----------------------------------------------------------------------------
AppTypeOK ==
  /\ TypeOK
  /\ created \in 0 .. NUM_THREADS
  /\ exiting \in BOOLEAN
  /\ apc \in [Threads -> {"none", "start", "opened", "seeked", "called", "dead"}]

(* What the reader prints is one writer's row of letters, or the memory    *)
(* nobody has written: never a row like the "A  A  B  B  B" the readme of  *)
(* unuseMutex records.  Holds with the mutex only.                         *)
NoTornRead ==
  apc[Reader] = "called" /\ pc[Reader] = "open" =>
    \A j, k \in 0 .. RW_BUFF_SIZE - 1 :
      /\ rdbuf[Reader][j] = rdbuf[Reader][k]
      /\ rdbuf[Reader][j] # None

(* Even without the mutex a write that has returned has left no byte of    *)
(* its range unwritten, whatever the other threads did, and nobody writes  *)
(* past the range.                                                         *)
EveryCellWritten ==
  /\ (\E t \in Writers : apc[t] = "called" /\ pc[t] = "open") =>
       \A k \in 0 .. RW_BUFF_SIZE - 1 : mem[k] # Zero
  /\ \A k \in RW_BUFF_SIZE .. MEM_SIZE - 1 : mem[k] = Zero

(* Every thread that was created ends, also when main gives up half way:   *)
(* no thread keeps the mutex the others wait for.                          *)
AppTerminates == <>Ended
=============================================================================
