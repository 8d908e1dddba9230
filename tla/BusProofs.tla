----------------------------- MODULE BusProofs -----------------------------
(***************************************************************************)
(* Proofs about Bus, for both buses, any names and any number of loads.    *)
(***************************************************************************)
EXTENDS Bus, TLAPS

-----------------------------------------------------------------------------
(* Where the call of each module can be, and on the list is only a module  *)
(* whose registration has succeeded and is not undone.                     *)
Where(m) ==
  /\ mod[m] = "out" => pc[m] = "idle"
  /\ mod[m] = "init" => pc[m] \in {"register", "attach", "probe"}
  /\ mod[m] = "in" => pc[m] = "idle"
  /\ mod[m] = "exit" => pc[m] \in {"unregister", "detach", "remove", "oops"}
  /\ reg[m] => mod[m] = "in" \/ pc[m] \in {"attach", "probe", "unregister"}
  /\ pc[m] \in {"attach", "probe"} => reg[m]

(* A device that is bound, or about to be, has a driver that is on the     *)
(* list or that has yet to detach it.                                      *)
Owned ==
  /\ node => bound
  /\ bound => reg["driver"] \/ pc["driver"] \in {"detach", "remove"}
  /\ pc["device"] = "probe" => reg["driver"]
  /\ opened => mod["driver"] = "in" \/ pc["driver"] \in {"attach", "probe"}

(* Two that match and are on the list are bound, or one of them has still  *)
(* to look for the other.                                                  *)
Pairing ==
  (\A m \in Mods : reg[m]) /\ Match /\ ~bound =>
    \E m \in Mods : pc[m] \in {"attach", "probe"}

BusInv == TypeOK /\ (\A m \in Mods : Where(m)) /\ Owned /\ Pairing

-----------------------------------------------------------------------------
LEMMA BusInitial == Init => BusInv
<1> SUFFICES ASSUME Init PROVE BusInv
  OBVIOUS
<1> USE BusAssumption DEF Mods
<1>1. /\ \A m \in Mods : mod[m] = "out" /\ pc[m] = "idle" /\ ~reg[m]
      /\ ~bound /\ ~node /\ ~opened
  BY DEF Init
<1>2. /\ reg \in [Mods -> BOOLEAN]
      /\ bound \in BOOLEAN /\ node \in BOOLEAN /\ opened \in BOOLEAN
  BY Zenon DEF Init
<1>3. TypeOK
  BY <1>1, <1>2 DEF Init, TypeOK
<1>4. \A m \in Mods : Where(m)
  BY <1>1 DEF Where
<1>5. Owned /\ Pairing
  BY <1>1 DEF Owned, Pairing
<1>6. QED
  BY <1>3, <1>4, <1>5 DEF BusInv

(* The names and the bus stay the same, so what matches stays the same.    *)
LEMMA MatchStays == ASSUME type' = type PROVE Match' <=> Match
BY DEF Match, MyMatch

LEMMA InvBusRegister == ASSUME BusInv, BusRegister PROVE BusInv'
<1> USE BusAssumption DEF BusInv, Mods
<1>1. type' = type
  BY DEF BusRegister
<1>2. TypeOK'
  BY DEF TypeOK, Where, BusRegister
<1>3. \A n \in Mods : Where(n)'
  BY DEF TypeOK, Where, BusRegister
<1>4. Owned'
  BY DEF TypeOK, Where, Owned, BusRegister
<1>5. Pairing'
  BY <1>1, MatchStays DEF TypeOK, Where, Pairing, BusRegister
<1>6. QED
  BY <1>2, <1>3, <1>4, <1>5

LEMMA InvBusDevice == ASSUME BusInv, BusDevice PROVE BusInv'
<1> USE BusAssumption DEF BusInv, Mods
<1>1. type' = type
  BY DEF BusDevice
<1>2. TypeOK'
  BY DEF TypeOK, Where, BusDevice
<1>3. \A n \in Mods : Where(n)'
  BY DEF TypeOK, Where, BusDevice
<1>4. Owned'
  BY DEF TypeOK, Where, Owned, BusDevice
<1>5. Pairing'
  BY <1>1, MatchStays DEF TypeOK, Where, Pairing, BusDevice
<1>6. QED
  BY <1>2, <1>3, <1>4, <1>5

LEMMA InvBusExit == ASSUME BusInv, BusExit PROVE BusInv'
<1> USE BusAssumption DEF BusInv, Mods
<1>1. type' = type
  BY DEF BusExit
<1>2. TypeOK'
  BY DEF TypeOK, Where, BusExit
<1>3. \A n \in Mods : Where(n)'
  BY DEF TypeOK, Where, BusExit
<1>4. Owned'
  BY DEF TypeOK, Where, Owned, BusExit
<1>5. Pairing'
  BY <1>1, MatchStays DEF TypeOK, Where, Pairing, BusExit
<1>6. QED
  BY <1>2, <1>3, <1>4, <1>5

LEMMA InvOpenNode == ASSUME BusInv, OpenNode PROVE BusInv'
<1> USE BusAssumption DEF BusInv, Mods
<1>1. type' = type
  BY DEF OpenNode
<1>2. TypeOK'
  BY DEF TypeOK, Where, OpenNode
<1>3. \A n \in Mods : Where(n)'
  BY DEF TypeOK, Where, OpenNode
<1>4. Owned'
  BY DEF TypeOK, Where, Owned, OpenNode
<1>5. Pairing'
  BY <1>1, MatchStays DEF TypeOK, Where, Pairing, OpenNode
<1>6. QED
  BY <1>2, <1>3, <1>4, <1>5

LEMMA InvCloseNode == ASSUME BusInv, CloseNode PROVE BusInv'
<1> USE BusAssumption DEF BusInv, Mods
<1>1. type' = type
  BY DEF CloseNode
<1>2. TypeOK'
  BY DEF TypeOK, Where, CloseNode
<1>3. \A n \in Mods : Where(n)'
  BY DEF TypeOK, Where, CloseNode
<1>4. Owned'
  BY DEF TypeOK, Where, Owned, CloseNode
<1>5. Pairing'
  BY <1>1, MatchStays DEF TypeOK, Where, Pairing, CloseNode
<1>6. QED
  BY <1>2, <1>3, <1>4, <1>5

LEMMA InvInsmod == ASSUME BusInv, NEW m \in Mods, Insmod(m) PROVE BusInv'
<1> USE BusAssumption DEF BusInv, Mods
<1>1. type' = type
  BY DEF Insmod, Goto
<1>2. TypeOK'
  BY DEF TypeOK, Where, Insmod, Goto
<1>3. \A n \in Mods : Where(n)'
  BY DEF TypeOK, Where, Insmod, Goto
<1>4. Owned'
  BY DEF TypeOK, Where, Owned, Insmod, Goto
<1>5. Pairing'
  BY <1>1, MatchStays DEF TypeOK, Where, Pairing, Insmod, Goto
<1>6. QED
  BY <1>2, <1>3, <1>4, <1>5

LEMMA InvRmmod == ASSUME BusInv, NEW m \in Mods, Rmmod(m) PROVE BusInv'
<1> USE BusAssumption DEF BusInv, Mods
<1>1. type' = type
  BY DEF Rmmod, Goto, OwnerInUse
<1>2. TypeOK'
  BY DEF TypeOK, Where, Rmmod, Goto, OwnerInUse
<1>3. \A n \in Mods : Where(n)'
  BY DEF TypeOK, Where, Rmmod, Goto, OwnerInUse
<1>4. Owned'
  BY DEF TypeOK, Where, Owned, Rmmod, Goto, OwnerInUse
<1>5. Pairing'
  BY <1>1, MatchStays DEF TypeOK, Where, Pairing, Rmmod, Goto, OwnerInUse
<1>6. QED
  BY <1>2, <1>3, <1>4, <1>5

LEMMA InvRegister == ASSUME BusInv, NEW m \in Mods, Register(m) PROVE BusInv'
<1> USE BusAssumption DEF BusInv, Mods
<1>1. type' = type
  BY DEF Register, Settle, Goto
<1>2. TypeOK'
  <2>1. reg' = [reg EXCEPT ![m] = TRUE] \/ reg' = reg
    BY Zenon DEF Register
  <2>2. TRUE \in BOOLEAN /\ reg \in [Mods -> BOOLEAN]
    BY Zenon DEF TypeOK
  <2>3. reg' \in [Mods -> BOOLEAN]
    BY <2>1, <2>2, Zenon
  <2>4. QED
    BY <2>3 DEF TypeOK, Where, Register, Settle, Goto
<1>3. \A n \in Mods : Where(n)'
  BY DEF TypeOK, Where, Register, Settle, Goto
<1>4. Owned'
  BY DEF TypeOK, Where, Owned, Register, Settle, Goto
<1>5. Pairing'
  BY <1>1, MatchStays DEF TypeOK, Where, Pairing, Register, Settle, Goto
<1>6. QED
  BY <1>2, <1>3, <1>4, <1>5

LEMMA InvAttach == ASSUME BusInv, NEW m \in Mods, Attach(m) PROVE BusInv'
<1> USE BusAssumption DEF BusInv, Mods
<1>1. type' = type
  BY DEF Attach, Settle, Goto, Other
<1>2. TypeOK'
  BY DEF TypeOK, Where, Attach, Settle, Goto, Other
<1>3. \A n \in Mods : Where(n)'
  BY DEF TypeOK, Where, Attach, Settle, Goto, Other
<1>4. Owned'
  BY DEF TypeOK, Where, Owned, Attach, Settle, Goto, Other
<1>5. Pairing'
  BY <1>1, MatchStays DEF TypeOK, Where, Pairing, Attach, Settle, Goto, Other
<1>6. QED
  BY <1>2, <1>3, <1>4, <1>5

LEMMA InvMyProbe == ASSUME BusInv, NEW m \in Mods, MyProbe(m) PROVE BusInv'
<1> USE BusAssumption DEF BusInv, Mods
<1>1. type' = type
  BY DEF MyProbe, Settle, Goto
<1>2. TypeOK'
  <2>1. bound' \in BOOLEAN /\ node' \in BOOLEAN
    BY Zenon DEF MyProbe
  <2>2. QED
    BY <2>1 DEF TypeOK, Where, MyProbe, Settle, Goto
<1>3. \A n \in Mods : Where(n)'
  BY DEF TypeOK, Where, MyProbe, Settle, Goto
<1>4. Owned'
  BY DEF TypeOK, Where, Owned, MyProbe, Settle, Goto
<1>5. Pairing'
  BY <1>1, MatchStays DEF TypeOK, Where, Pairing, MyProbe, Settle, Goto
<1>6. QED
  BY <1>2, <1>3, <1>4, <1>5

LEMMA InvUnregister == ASSUME BusInv, NEW m \in Mods, Unregister(m) PROVE BusInv'
<1> USE BusAssumption DEF BusInv, Mods
<1>1. type' = type
  BY DEF Unregister, Settle, Goto
<1>2. TypeOK'
  <2>1. reg' = [reg EXCEPT ![m] = FALSE] \/ reg' = reg
    BY Zenon DEF Unregister
  <2>2. FALSE \in BOOLEAN /\ reg \in [Mods -> BOOLEAN]
    BY Zenon DEF TypeOK
  <2>3. reg' \in [Mods -> BOOLEAN]
    BY <2>1, <2>2, Zenon
  <2>4. QED
    BY <2>3 DEF TypeOK, Where, Unregister, Settle, Goto
<1>3. \A n \in Mods : Where(n)'
  BY DEF TypeOK, Where, Unregister, Settle, Goto
<1>4. Owned'
  BY DEF TypeOK, Where, Owned, Unregister, Settle, Goto
<1>5. Pairing'
  BY <1>1, MatchStays DEF TypeOK, Where, Pairing, Unregister, Settle, Goto
<1>6. QED
  BY <1>2, <1>3, <1>4, <1>5

LEMMA InvDetach == ASSUME BusInv, NEW m \in Mods, Detach(m) PROVE BusInv'
<1> USE BusAssumption DEF BusInv, Mods
<1>1. type' = type
  BY DEF Detach, Settle, Goto
<1>2. TypeOK'
  BY DEF TypeOK, Where, Detach, Settle, Goto
<1>3. \A n \in Mods : Where(n)'
  BY DEF TypeOK, Where, Detach, Settle, Goto
<1>4. Owned'
  BY DEF TypeOK, Where, Owned, Detach, Settle, Goto
<1>5. Pairing'
  BY <1>1, MatchStays DEF TypeOK, Where, Pairing, Detach, Settle, Goto
<1>6. QED
  BY <1>2, <1>3, <1>4, <1>5

LEMMA InvMyRemove == ASSUME BusInv, NEW m \in Mods, MyRemove(m) PROVE BusInv'
<1> USE BusAssumption DEF BusInv, Mods
<1>1. type' = type
  BY DEF MyRemove, Settle, Goto
<1>2. TypeOK'
  <2>1. bound' \in BOOLEAN /\ node' \in BOOLEAN
    BY Zenon DEF MyRemove
  <2>2. QED
    BY <2>1 DEF TypeOK, Where, MyRemove, Settle, Goto
<1>3. \A n \in Mods : Where(n)'
  BY DEF TypeOK, Where, MyRemove, Settle, Goto
<1>4. Owned'
  BY DEF TypeOK, Where, Owned, MyRemove, Settle, Goto
<1>5. Pairing'
  BY <1>1, MatchStays DEF TypeOK, Where, Pairing, MyRemove, Settle, Goto
<1>6. QED
  BY <1>2, <1>3, <1>4, <1>5

LEMMA BusInvariant == Spec => []BusInv
<1>1. ASSUME BusInv, UNCHANGED vars PROVE BusInv'
  <2>1. UNCHANGED <<type, bus, mod, pc, reg, lock, bound, node, opened, loads>>
    BY <1>1 DEF vars
  <2>2. QED
    BY <1>1, <2>1, MatchStays DEF BusInv, TypeOK, Where, Owned, Pairing
<1>2. BusInv /\ [Next]_vars => BusInv'
  BY <1>1, InvBusRegister, InvBusDevice, InvBusExit, InvOpenNode, InvCloseNode, InvInsmod,
     InvRmmod, InvRegister, InvAttach, InvMyProbe, InvUnregister, InvDetach, InvMyRemove
     DEF Next, BusStep, CoreStep
<1>3. QED
  BY BusInitial, <1>2, PTL DEF Spec

-----------------------------------------------------------------------------
(* Device and driver are paired by the bus once both are installed, in     *)
(* whichever order they come and whatever was unloaded before, if the bus  *)
(* matches their names.                                                    *)
THEOREM InstalledArePaired == Spec => [](Match => PairedWhenInstalled)
<1>1. ASSUME BusInv, Match, \A m \in Mods : mod[m] = "in" /\ reg[m] PROVE bound
  BY <1>1 DEF BusInv, Where, Pairing
<1>2. BusInv => (Match => PairedWhenInstalled)
  BY <1>1 DEF PairedWhenInstalled
<1>3. QED
  BY <1>2, BusInvariant, PTL

(* With one name for both, a sequence of characters of any kind, as in     *)
(* device.c and driver.c of 06-bus and of 08-platform, no pairing is ever  *)
(* missed.                                                                 *)
THEOREM SameNamesArePaired ==
  ASSUME NEW Char, DevName \in Seq(Char), DrvName = DevName
  PROVE  Spec => []PairedWhenInstalled
<1>1. Match
  BY DEF Match, MyMatch, IsPrefix
<1>2. (Match => PairedWhenInstalled) => PairedWhenInstalled
  BY <1>1
<1>3. QED
  BY <1>2, InstalledArePaired, PTL

(* /dev/misc_321 is never without the driver whose functions it calls: it  *)
(* exists only while a bound driver.ko is loaded, and an open file keeps   *)
(* driver.ko from being unloaded.                                          *)
THEOREM NodeIsDriven == Spec => []NodeHasDriver
<1>1. ASSUME BusInv PROVE NodeHasDriver
  BY <1>1 DEF BusInv, TypeOK, Where, Owned, NodeHasDriver, Mods
<1>2. QED
  BY <1>1, BusInvariant, PTL
=============================================================================
