---------------------------- MODULE MCQueueWait ----------------------------
(* The instances of QueueWait that are model-checked.                      *)
EXTENDS QueueWait, TLC

MCLetter == [w \in Writers |-> w]

(* One value for all bytes: the control does not look at the data.         *)
MCOneLetter == [w \in Writers |-> Zero]

(* The readers are interchangeable.                                        *)
Perms == Permutations(Readers)
=============================================================================
