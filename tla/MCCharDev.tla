----------------------------- MODULE MCCharDev -----------------------------
(***************************************************************************)
(* Loading and unloading, model-checked in one run: a behaviour is about   *)
(* one character device, or about the modules of 07-kobject.               *)
(***************************************************************************)
EXTENDS CharDev, Kobject

VARIABLE sysfs

MCInit == sysfs \in BOOLEAN /\ DevInit /\ KobjectInit /\ (sysfs => drv = "char")

MCNext ==
  \/ ~sysfs /\ DevNext /\ UNCHANGED <<sysfs, kobjVars>>
  \/ sysfs /\ KobjectNext /\ UNCHANGED <<sysfs, devVars>>

MCSpec == MCInit /\ [][MCNext]_<<sysfs, devVars, kobjVars>>
=============================================================================
