------------------------------ MODULE Kobject ------------------------------
(***************************************************************************)
(* The modules of 07-kobject.  kobject.c puts one kobject with one         *)
(* attribute file into sysfs; processes read and write the file, which     *)
(* does not keep the module loaded, while it is unloaded.  kset.c          *)
(* registers a set kset_p and, in it, a set kset_c, and unregisters the    *)
(* parent before the child.                                                *)
(*                                                                         *)
(* The kobject functions are those of the kernel headers the README of the *)
(* repository names (4.4): a child holds two references to its set, as its *)
(* parent and as its set, and removal of a directory waits for the calls   *)
(* of its attributes.                                                      *)
(***************************************************************************)
EXTENDS Integers, FiniteSets

CONSTANT SysfsUsers    \* processes that use /sys/kobject_test/kobj_config

ASSUME KobjectAssumption == IsFiniteSet(SysfsUsers)

Objects == {"kobj", "kset_p", "kset_c"}

VARIABLES
  kobject_ko,  \* kobject.ko: "out", "in", "exit" or "drain"
  kset_ko,     \* kset.ko: "out", "in", or the next call of its init or exit
  refs,        \* the reference count of each object
  dirs,        \* the objects whose directory is in sysfs
  active,      \* the processes in kobj_test_show or kobj_test_store
  joined,      \* kset_c is in kset_p and has it as its parent
  added,       \* the kset_uevent calls for "add" less those for "remove"
  unjoined     \* kset_register(&kset_c) has failed

kobjVars == <<kobject_ko, kset_ko, refs, dirs, active, joined, added, unjoined>>

KobjectInit ==
  /\ kobject_ko = "out" /\ kset_ko = "out"
  /\ refs = [o \in Objects |-> 0]
  /\ dirs = {} /\ active = {}
  /\ joined = FALSE /\ added = 0 /\ unjoined = FALSE

-----------------------------------------------------------------------------
(* kobj_test_init ignores what kobject_init_and_add returns.               *)
KobjTestInit ==
  /\ kobject_ko = "out"
  /\ kobject_ko' = "in"
  /\ refs' = [refs EXCEPT !["kobj"] = 1]
  /\ \E ok \in BOOLEAN : dirs' = IF ok THEN dirs \cup {"kobj"} ELSE dirs
  /\ UNCHANGED <<kset_ko, active, joined, added, unjoined>>

(* A read or write of kobj_config is in kobj_test_show or kobj_test_store. *)
AttrEnter(p) ==
  /\ "kobj" \in dirs /\ p \notin active
  /\ active' = active \cup {p}
  /\ UNCHANGED <<kobject_ko, kset_ko, refs, dirs, joined, added, unjoined>>

AttrReturn(p) ==
  /\ p \in active
  /\ active' = active \ {p}
  /\ UNCHANGED <<kobject_ko, kset_ko, refs, dirs, joined, added, unjoined>>

KobjRmmod ==
  /\ kobject_ko = "in"
  /\ kobject_ko' = "exit"
  /\ UNCHANGED <<kset_ko, refs, dirs, active, joined, added, unjoined>>

(* Mutant: kobj_test_exit does not call kobject_del.                       *)
KobjTestExitNoDel ==
  /\ kobject_ko = "exit"
  /\ kobject_ko' = "out"
  /\ UNCHANGED <<kset_ko, refs, dirs, active, joined, added, unjoined>>

(* kobj_test_exit: kobject_del takes the directory away, so that no call   *)
(* begins, and waits for those that have begun.  The reference of          *)
(* kobject_init_and_add is kept: obj_test_release never runs.              *)
KobjTestExit ==
  /\ kobject_ko = "exit"
  /\ kobject_ko' = "drain"
  /\ dirs' = dirs \ {"kobj"}
  /\ UNCHANGED <<kset_ko, refs, active, joined, added, unjoined>>

KobjDrained ==
  /\ kobject_ko = "drain" /\ active = {}
  /\ kobject_ko' = "out"
  /\ UNCHANGED <<kset_ko, refs, dirs, active, joined, added, unjoined>>

-----------------------------------------------------------------------------
(* kset_filter lets every event pass, so kset_uevent is called for it; an  *)
(* object that is in no set has no callbacks.                              *)
KsetUevent(n) == added' = added + n

KsetInsmod ==
  /\ kset_ko = "out"
  /\ kset_ko' = "register_p"
  /\ joined' = FALSE /\ added' = 0 /\ unjoined' = FALSE
  /\ UNCHANGED <<kobject_ko, refs, dirs, active>>

(* kset_test_init; a registration that fails has still set the count to 1, *)
(* and its result is ignored.                                              *)
RegisterP ==
  /\ kset_ko = "register_p"
  /\ kset_ko' = "register_c"
  /\ refs' = [refs EXCEPT !["kset_p"] = 1]
  /\ \E ok \in BOOLEAN : dirs' = IF ok THEN dirs \cup {"kset_p"} ELSE dirs
  /\ UNCHANGED <<kobject_ko, active, joined, added, unjoined>>

(* Without the directory of kset_p there is none of kset_c.                *)
RegisterC ==
  /\ kset_ko = "register_c"
  /\ kset_ko' = "in"
  /\ \/ /\ "kset_p" \in dirs
        /\ refs' = [refs EXCEPT !["kset_c"] = 1, !["kset_p"] = @ + 2]
        /\ dirs' = dirs \cup {"kset_c"}
        /\ joined' = TRUE
        /\ KsetUevent(1)
        /\ UNCHANGED unjoined
     \/ /\ refs' = [refs EXCEPT !["kset_c"] = 1]
        /\ unjoined' = TRUE
        /\ UNCHANGED <<dirs, joined, added>>
  /\ UNCHANGED <<kobject_ko, active>>

KsetRmmod ==
  /\ kset_ko = "in"
  /\ kset_ko' = "unregister_p"
  /\ UNCHANGED <<kobject_ko, refs, dirs, active, joined, added, unjoined>>

(* kset_unregister(&kset_p): its directory goes with all that is in it.    *)
UnregisterP ==
  /\ kset_ko = "unregister_p"
  /\ kset_ko' = "unregister_c"
  /\ dirs' = dirs \ {"kset_p", "kset_c"}
  /\ refs' = [refs EXCEPT !["kset_p"] = @ - 1]
  /\ UNCHANGED <<kobject_ko, active, joined, added, unjoined>>

(* Mutant: the child is not unregistered.                                  *)
UnregisterCForgotten ==
  /\ kset_ko = "unregister_c"
  /\ kset_ko' = "out"
  /\ UNCHANGED <<kobject_ko, refs, dirs, active, joined, added, unjoined>>

(* kset_unregister(&kset_c): it leaves its set, also when it never got     *)
(* into it, and its parent; its last reference sends the event "remove".   *)
UnregisterC ==
  /\ kset_ko = "unregister_c"
  /\ kset_ko' = "out"
  /\ dirs' = dirs \ {"kset_c"}
  /\ refs' = [refs EXCEPT !["kset_p"] = @ - (IF joined THEN 2 ELSE 1),
                          !["kset_c"] = @ - 1]
  /\ joined' = FALSE
  /\ IF joined THEN KsetUevent(-1) ELSE UNCHANGED added
  /\ UNCHANGED <<kobject_ko, active, unjoined>>

-----------------------------------------------------------------------------
KobjectStep ==
  \/ KobjTestInit \/ KobjRmmod \/ KobjTestExit \/ KobjDrained
  \/ \E p \in SysfsUsers : AttrEnter(p) \/ AttrReturn(p)

KsetStep ==
  \/ KsetInsmod \/ RegisterP \/ RegisterC
  \/ KsetRmmod \/ UnregisterP \/ UnregisterC

KobjectNext == KobjectStep \/ KsetStep

KobjectSpec == KobjectInit /\ [][KobjectNext]_kobjVars

-----------------------------------------------------------------------------
KobjectTypeOK ==
  /\ kobject_ko \in {"out", "in", "exit", "drain"}
  /\ kset_ko \in {"out", "register_p", "register_c", "in", "unregister_p",
                  "unregister_c"}
  /\ refs \in [Objects -> Int]
  /\ dirs \subseteq Objects /\ active \subseteq SysfsUsers
  /\ joined \in BOOLEAN /\ added \in Int /\ unjoined \in BOOLEAN

(* kobj_test_show and kobj_test_store run only while kobject.ko is there,  *)
(* although a file of sysfs does not keep the module: rmmod meets calls    *)
(* that have begun, and calls meet a module that goes.                     *)
AttrHasCode == active # {} => kobject_ko # "out"

(* kset_p outlives the child that is unregistered after it, and when both  *)
(* are unregistered nobody holds a reference and every "add" has had its   *)
(* "remove".  Not so when kset_register(&kset_c) failed, which             *)
(* kset_test_exit does not know: then kset_p is let go once too often.     *)
KsetRefs ==
  ~unjoined =>
    /\ joined => refs["kset_p"] > 0
    /\ kset_ko = "out" => refs["kset_p"] = 0 /\ refs["kset_c"] = 0 /\ added = 0
=============================================================================
