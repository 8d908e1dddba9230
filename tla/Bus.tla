-------------------------------- MODULE Bus --------------------------------
(***************************************************************************)
(* The three modules of 06-bus: bus.ko registers my_bus_type, device.ko a  *)
(* device and driver.ko a driver on it.  The driver core pairs the two in  *)
(* whichever order they come, and calls my_probe and my_remove with the    *)
(* lock of the device held; insmod and rmmod of device.ko and driver.ko    *)
(* run at the same time.  device.ko and driver.ko use symbols of bus.ko,   *)
(* which keeps bus.ko loaded.                                              *)
(*                                                                         *)
(* The two modules of 08-platform do the same on the platform bus, which   *)
(* is always there: device.ko and driver.ko return the error of their      *)
(* registration, and my_probe and my_remove only print.  A behaviour is    *)
(* about one of the two buses.                                             *)
(*                                                                         *)
(* The init functions of 06-bus ignore what the registration returned, and *)
(* so does its my_probe.  The attribute files are left out.                *)
(***************************************************************************)
EXTENDS Integers, Sequences, SequencesExt

CONSTANTS
  DevName,     \* what dev_set_name gives the device, as a sequence
  DrvName,     \* the name in my_driver
  Nobody,      \* the holder of a free lock
  MaxLoads     \* bound: how often device.ko and driver.ko are loaded in all

Mods == {"device", "driver"}

ASSUME BusAssumption == Nobody \notin Mods /\ MaxLoads \in Nat

VARIABLES
  type,        \* "my_bus" or "platform"
  bus,         \* how far my_bus_init or my_bus_exit has got
  mod,         \* per module: "out", "init", "in" or "exit"
  pc,          \* per module: where in the driver core its call is
  reg,         \* per module: whether it is on the list of the bus
  lock,        \* which module's call holds the lock of the device
  bound,       \* dev->driver is set
  node,        \* misc_321 is registered
  opened,      \* somebody has /dev/misc_321 open
  loads        \* how many loads there were

vars == <<type, bus, mod, pc, reg, lock, bound, node, opened, loads>>

Init ==
  /\ type \in {"my_bus", "platform"}
  /\ bus = IF type = "my_bus" THEN "out" ELSE "in"
  /\ mod = [m \in Mods |-> "out"]
  /\ pc = [m \in Mods |-> "idle"]
  /\ reg = [m \in Mods |-> FALSE]
  /\ lock = Nobody
  /\ bound = FALSE
  /\ node = FALSE
  /\ opened = FALSE
  /\ loads = 0

Goto(m, l) == pc' = [pc EXCEPT ![m] = l]

(* The init or exit function of m returns.                                 *)
Settle(m, state) == Goto(m, "idle") /\ mod' = [mod EXCEPT ![m] = state]

-----------------------------------------------------------------------------
(* my_bus_init: without bus_register the module is not loaded; without the *)
(* device my_bus0 it is not loaded either, but my_bus_type stays where it  *)
(* is, and every later bus_register of the name fails.                     *)
BusRegister ==
  /\ bus = "out"
  /\ bus' \in {"out", "registered"}
  /\ UNCHANGED <<type, mod, pc, reg, lock, bound, node, opened, loads>>

BusDevice ==
  /\ bus = "registered"
  /\ bus' \in {"in", "stale"}
  /\ UNCHANGED <<type, mod, pc, reg, lock, bound, node, opened, loads>>

BusExit ==
  /\ type = "my_bus" /\ bus = "in"
  /\ \A m \in Mods : mod[m] = "out"
  /\ bus' = "out"
  /\ UNCHANGED <<type, mod, pc, reg, lock, bound, node, opened, loads>>

-----------------------------------------------------------------------------
Insmod(m) ==
  /\ bus = "in"
  /\ mod[m] = "out"
  /\ loads < MaxLoads
  /\ loads' = loads + 1
  /\ mod' = [mod EXCEPT ![m] = "init"]
  /\ Goto(m, "register")
  /\ UNCHANGED <<type, bus, reg, lock, bound, node, opened>>

(* device_register and driver_register, platform_device_add and            *)
(* platform_driver_register put their argument on the list of the bus and  *)
(* look for a partner there.  When they fail the init functions of 06-bus  *)
(* go on all the same and return 0; those of 08-platform return the error. *)
Register(m) ==
  /\ pc[m] = "register"
  /\ \/ /\ reg' = [reg EXCEPT ![m] = TRUE]
        /\ Goto(m, "attach")
        /\ UNCHANGED mod
     \/ /\ Settle(m, IF type = "my_bus" THEN "in" ELSE "out")
        /\ UNCHANGED reg
  /\ UNCHANGED <<type, bus, lock, bound, node, opened, loads>>

(* Mutant: the result of strncmp is not negated.                           *)
MyMatchInverted == ~IsPrefix(DrvName, DevName)

(* my_match: the device's name begins with the driver's.                   *)
MyMatch == IsPrefix(DrvName, DevName)

(* external: the platform bus wants the two names to be the same.          *)
Match == IF type = "my_bus" THEN MyMatch ELSE DrvName = DevName

Other(m) == IF m = "device" THEN "driver" ELSE "device"

(* external: device_attach and driver_attach walk the list of the other    *)
(* side; a device that has a driver already is passed over.                *)
Attach(m) ==
  /\ pc[m] = "attach"
  /\ lock = Nobody
  /\ \/ /\ reg[Other(m)] /\ Match /\ ~bound
        /\ lock' = m
        /\ Goto(m, "probe")
        /\ UNCHANGED mod
     \/ /\ ~(reg[Other(m)] /\ Match /\ ~bound)
        /\ Settle(m, "in")
        /\ UNCHANGED lock
  /\ UNCHANGED <<type, bus, reg, bound, node, opened, loads>>

(* Mutant: my_probe asks for the lock of the device, which its caller has.*)
MyProbeRelocks(m) ==
  /\ pc[m] = "probe"
  /\ lock = Nobody
  /\ UNCHANGED vars

(* my_probe: misc_register, in 06-bus only, may fail, 0 is returned, and   *)
(* the driver core binds the two.                                          *)
MyProbe(m) ==
  /\ pc[m] = "probe"
  /\ node' \in {FALSE, type = "my_bus"}
  /\ bound' = TRUE
  /\ lock' = Nobody
  /\ Settle(m, "in")
  /\ UNCHANGED <<type, bus, reg, opened, loads>>

-----------------------------------------------------------------------------
(* Mutant: misc_fops has no owner.                                         *)
NoOwner(m) == FALSE

(* misc_fops names its owner: an open file keeps driver.ko loaded, and a   *)
(* driver.ko that is being unloaded cannot be opened.                      *)
OwnerInUse(m) == m = "driver" /\ opened

OpenNode ==
  /\ node /\ ~opened
  /\ mod["driver"] # "exit"
  /\ opened' = TRUE
  /\ UNCHANGED <<type, bus, mod, pc, reg, lock, bound, node, loads>>

CloseNode ==
  /\ opened
  /\ opened' = FALSE
  /\ UNCHANGED <<type, bus, mod, pc, reg, lock, bound, node, loads>>

Rmmod(m) ==
  /\ mod[m] = "in"
  /\ ~OwnerInUse(m)
  /\ mod' = [mod EXCEPT ![m] = "exit"]
  /\ Goto(m, "unregister")
  /\ UNCHANGED <<type, bus, reg, lock, bound, node, opened, loads>>

(* external: driver_unregister waits until no walk of the list is at the   *)
(* driver; of a driver that was never registered it only warns.            *)
(* device_unregister of a device that was never registered ends in an      *)
(* oops: the module can neither be used nor unloaded any more.             *)
Unregister(m) ==
  /\ pc[m] = "unregister"
  /\ \/ /\ reg[m]
        /\ m = "driver" => pc["device"] # "probe"
        /\ reg' = [reg EXCEPT ![m] = FALSE]
        /\ Goto(m, "detach")
        /\ UNCHANGED mod
     \/ /\ ~reg[m]
        /\ IF m = "driver" THEN Settle(m, "out") ELSE Goto(m, "oops") /\ UNCHANGED mod
        /\ UNCHANGED reg
  /\ UNCHANGED <<type, bus, lock, bound, node, opened, loads>>

Detach(m) ==
  /\ pc[m] = "detach"
  /\ lock = Nobody
  /\ \/ bound /\ lock' = m /\ Goto(m, "remove") /\ UNCHANGED mod
     \/ ~bound /\ Settle(m, "out") /\ UNCHANGED lock
  /\ UNCHANGED <<type, bus, reg, bound, node, opened, loads>>

(* my_remove: misc_deregister, which refuses what is not registered.       *)
MyRemove(m) ==
  /\ pc[m] = "remove"
  /\ node' = FALSE
  /\ bound' = FALSE
  /\ lock' = Nobody
  /\ Settle(m, "out")
  /\ UNCHANGED <<type, bus, reg, opened, loads>>

-----------------------------------------------------------------------------
BusStep == BusRegister \/ BusDevice \/ BusExit

CoreStep(m) ==
  \/ Register(m) \/ Attach(m) \/ MyProbe(m)
  \/ Unregister(m) \/ Detach(m) \/ MyRemove(m)

Next ==
  \/ BusStep \/ OpenNode \/ CloseNode
  \/ \E m \in Mods : Insmod(m) \/ Rmmod(m) \/ CoreStep(m)

(* An init or exit function that runs is scheduled, and gets the lock of   *)
(* the device, a mutex that is handed on in order.                         *)
Spec == Init /\ [][Next]_vars

FairSpec == Spec /\ \A m \in Mods : SF_vars(CoreStep(m))

-----------------------------------------------------------------------------
(* Types; and the lock of the device is held exactly around my_probe and   *)
(* my_remove.                                                              *)
TypeOK ==
  /\ type \in {"my_bus", "platform"}
  /\ bus \in {"out", "registered", "in", "stale"}
  /\ mod \in [Mods -> {"out", "init", "in", "exit"}]
  /\ pc \in [Mods -> {"idle", "register", "attach", "probe", "unregister",
                      "detach", "remove", "oops"}]
  /\ reg \in [Mods -> BOOLEAN]
  /\ lock \in Mods \cup {Nobody}
  /\ \A m \in Mods : lock = m <=> pc[m] \in {"probe", "remove"}
  /\ bound \in BOOLEAN
  /\ node \in BOOLEAN
  /\ opened \in BOOLEAN
  /\ loads \in 0 .. MaxLoads

(* The readme: once they are installed, device and driver are paired by    *)
(* the bus, in whichever order and however the two insmods interleave.     *)
PairedWhenInstalled ==
  (\A m \in Mods : mod[m] = "in" /\ reg[m]) => bound

(* /dev/misc_321, whose operations are functions of driver.ko, exists only *)
(* while driver.ko is loaded and bound; the last rmmod of either module    *)
(* takes it away.  An open file keeps the functions there.                 *)
NodeHasDriver ==
  /\ node => bound
  /\ bound => mod["driver"] # "out"
  /\ opened => mod["driver"] \in {"init", "in"}

(* insmod and rmmod return, although each may wait for the lock the other  *)
(* holds and rmmod of the driver for the walk of the device's insmod.      *)
ModulesSettle ==
  \A m \in Mods :
    /\ mod[m] = "init" ~> mod[m] # "init"
    /\ mod[m] = "exit" /\ (reg[m] \/ pc[m] = "detach") ~> mod[m] = "out"
=============================================================================
