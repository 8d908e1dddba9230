----------------------------- MODULE ByteStream -----------------------------
(***************************************************************************)
(* What the buffer of 03-fileOperate/fileOperate/RWTest promises to echo   *)
(* and cat: a stream of bytes.  The bytes are numbered in the order in     *)
(* which they were written; a read delivers the next ones, none twice and  *)
(* none left out.                                                          *)
(***************************************************************************)
EXTENDS Integers

VARIABLES
  sent,   \* how many bytes were written
  rcvd,   \* how many of them were read
  got     \* the numbers of the bytes the last read delivered

streamVars == <<sent, rcvd, got>>

StreamInit == sent = 0 /\ rcvd = 0 /\ got = [k \in 1 .. 0 |-> 0]

(* More bytes are written.                                                 *)
Append ==
  /\ sent' \in Nat /\ sent' >= sent
  /\ UNCHANGED <<rcvd, got>>

(* The next bytes are read.                                                *)
Deliver ==
  /\ rcvd' \in rcvd .. sent
  /\ got' = [k \in 1 .. rcvd' - rcvd |-> rcvd + k]
  /\ UNCHANGED sent

StreamNext == Append \/ Deliver

StreamSpec == StreamInit /\ [][StreamNext]_streamVars
=============================================================================
