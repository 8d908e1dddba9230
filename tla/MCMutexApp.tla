----------------------------- MODULE MCMutexApp -----------------------------
(***************************************************************************)
(* The test program on the driver of useMutex and on that of unuseMutex:   *)
(* a behaviour has one of them loaded.                                     *)
(***************************************************************************)
EXTENDS MutexApp

MCThreads == 0 .. 2
MCByte == {"0", "A", "B"}
MCLetter == [t \in {0, 1} |-> IF t = 0 THEN "A" ELSE "B"]

VARIABLE driver

Unuse == INSTANCE MutexApp WITH UseMutex <- FALSE

MCInit == AppInit /\ driver \in {"useMutex", "unuseMutex"}

MCNext ==
  /\ UNCHANGED driver
  /\ \/ driver = "useMutex" /\ AppNext
     \/ driver = "unuseMutex" /\ Unuse!AppNext

(* The fairness of AppSpec, for the driver that is loaded.                 *)
MCSpec ==
  /\ MCInit /\ [][MCNext]_<<allVars, driver>>
  /\ WF_allVars(PthreadCreate)
  /\ \A t \in Threads :
       /\ WF_allVars(driver = "useMutex" /\ AppThread(t))
       /\ WF_allVars(driver = "unuseMutex" /\ Unuse!AppThread(t))

(* NoTornRead is about the driver with the mutex: what the reader prints   *)
(* is one writer's row of letters.                                         *)
NoTornReadWithMutex == driver = "useMutex" => NoTornRead
=============================================================================
