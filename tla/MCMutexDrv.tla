----------------------------- MODULE MCMutexDrv -----------------------------
(* Two callers, each of which may open, seek, read, write and close again  *)
(* and again.                                                              *)
EXTENDS MutexDrv, TLC

MCByte == {"0", "a"}

(* A whole buffer of 'a', and one whose second byte cannot be accessed.    *)
MCWriteBufs ==
  {[k \in Idx |-> "a"], [k \in Idx |-> IF k = 1 THEN Fault ELSE "a"]}

MCOffsets == {-1, 1}

Perms == Permutations(Threads)
=============================================================================
