------------------------------ MODULE ShareMem ------------------------------
(***************************************************************************)
(* What the driver of 03-fileOperate/mutex/useMutex promises to the        *)
(* processes that share its memory: a read or a write of a range of bytes  *)
(* takes effect in ONE step between the call and the return, so a reader   *)
(* sees a range as some sequence of whole writes left it.                  *)
(* MutexDrv, where both are loops over single bytes, implements it.        *)
(***************************************************************************)
EXTENDS Integers

CONSTANTS
  Threads,    \* the callers, each with its own open file
  Byte,       \* what one cell of the memory holds
  Zero,       \* the byte kzalloc fills the memory with
  None,       \* "no byte": what a call has not delivered
  MEM_SIZE    \* number of bytes in the shared memory

VARIABLES
  cells,      \* the shared memory
  st,         \* per caller: "idle", "called" or "applied"
  op,         \* per caller: the operation it called
  got,        \* per caller: what its last read delivered
  res         \* per caller: what its last operation returned

absVars == <<cells, st, op, got, res>>

Idx == 0 .. MEM_SIZE - 1

(* An operation is a read or a write of count bytes from offset p;         *)
(* a write has the bytes it stores.                                        *)
Ops == [kind : {"read", "write"}, p : Idx, count : 0 .. MEM_SIZE,
        data : [Idx -> Byte]]

Nothing == [k \in Idx |-> None]

EFAULT == -14

NoOp == [kind |-> "read", p |-> 0, count |-> 0, data |-> [k \in Idx |-> Zero]]

Covers(o, k) == o.p <= k /\ k < o.p + o.count

(* The first n bytes of a delivery.                                        *)
Prefix(f, n) == [k \in Idx |-> IF k < n THEN f[k] ELSE None]

(* The range of o as it is in the memory m.                                *)
Snapshot(m, o) == [k \in Idx |-> IF k < o.count THEN m[o.p + k] ELSE None]

(* The memory m after the whole write o.                                   *)
Stored(m, o) == [k \in Idx |-> IF Covers(o, k) THEN o.data[k - o.p] ELSE m[k]]

AbsInit ==
  /\ cells = [k \in Idx |-> Zero]
  /\ st = [t \in Threads |-> "idle"]
  /\ op = [t \in Threads |-> NoOp]
  /\ got = [t \in Threads |-> Nothing]
  /\ res = [t \in Threads |-> 0]

Call(t) ==
  /\ st[t] = "idle"
  /\ st' = [st EXCEPT ![t] = "called"]
  /\ \E o \in Ops :
       /\ o.p + o.count <= MEM_SIZE
       /\ op' = [op EXCEPT ![t] = o]
       /\ got' = IF o.kind = "read" THEN [got EXCEPT ![t] = Nothing] ELSE got
  /\ UNCHANGED <<cells, res>>

(* A call at the end of the memory has nothing to do and returns 0.        *)
AtEnd(t) ==
  /\ st[t] = "idle"
  /\ res' = [res EXCEPT ![t] = 0]
  /\ UNCHANGED <<cells, st, op, got>>

Apply(t) ==
  /\ st[t] = "called"
  /\ st' = [st EXCEPT ![t] = "applied"]
  /\ \/ /\ op[t].kind = "write"
        /\ cells' = Stored(cells, op[t])
        /\ UNCHANGED got
     \/ /\ op[t].kind = "read"
        /\ got' = [got EXCEPT ![t] = Snapshot(cells, op[t])]
        /\ UNCHANGED cells
  /\ UNCHANGED <<op, res>>

(* A read whose destination is only partly accessible fails and delivers a *)
(* prefix of the snapshot.                                                 *)
Return(t) ==
  /\ st[t] = "applied"
  /\ st' = [st EXCEPT ![t] = "idle"]
  /\ op' = [op EXCEPT ![t] = NoOp]
  /\ \/ /\ res' = [res EXCEPT ![t] = op[t].count]
        /\ UNCHANGED got
     \/ /\ op[t].kind = "read"
        /\ res' = [res EXCEPT ![t] = EFAULT]
        /\ \E n \in 0 .. op[t].count - 1 :
             got' = [got EXCEPT ![t] = Prefix(got[t], n)]
  /\ UNCHANGED cells

AbsNext == \E t \in Threads : Call(t) \/ AtEnd(t) \/ Apply(t) \/ Return(t)

AbsSpec == AbsInit /\ [][AbsNext]_absVars
=============================================================================
