------------------------------- MODULE RWTest -------------------------------
(***************************************************************************)
(* The driver of 03-fileOperate/fileOperate/RWTest (fileOperate_drv.c): a  *)
(* buffer that echo writes and cat reads.  Writes append at buff_pos;      *)
(* reads take buff_len bytes from postion on; the read that finds nothing  *)
(* left rewinds both.  Every handler is one step: the driver is used by    *)
(* one program at a time.                                                  *)
(*                                                                         *)
(* A byte is identified by its number in the order of writing, so that the *)
(* model can say which byte a read delivers.                               *)
(***************************************************************************)
EXTENDS Integers

CONSTANTS
  BUF_SIZE,    \* length of byte[] (100 in the code)
  Sizes,       \* sizes that calls of read and write pass
  MaxBytes,    \* bound: how many bytes are written in all
  DrainFirst,  \* whether user space reads up to the 0 before it writes again
  Faults       \* whether user space passes buffers that cannot be accessed

Idx == 0 .. BUF_SIZE - 1

ASSUME RWTestAssumption ==
  /\ BUF_SIZE \in Nat
  /\ Sizes \subseteq Nat
  /\ MaxBytes \in Nat
  /\ DrainFirst \in BOOLEAN
  /\ Faults \in BOOLEAN

VARIABLES
  byte,        \* the number of the byte in each cell; 0 for none of them
  postion,     \* where the next read begins
  buff_len,    \* how many bytes reads still have to move
  buff_pos,    \* where the next write begins
  draining,    \* a read has taken bytes and none has returned 0 since
  sent,        \* how many bytes writes have stored
  rcvd,        \* how many bytes reads have returned
  got,         \* the bytes the last successful read delivered
  result       \* what the last call returned

vars == <<byte, postion, buff_len, buff_pos, draining, sent, rcvd, got, result>>

EFAULT == -14

Nothing == [k \in 1 .. 0 |-> 0]

Init ==
  /\ byte = [k \in Idx |-> 0]
  /\ postion = 0
  /\ buff_len = 0
  /\ buff_pos = 0
  /\ draining = FALSE
  /\ sent = 0
  /\ rcvd = 0
  /\ got = Nothing
  /\ result = 0

(* rlen: what one read moves, at most size.                                *)
Rlen(size) == IF buff_len < size THEN buff_len ELSE size

(* What the kernel memory holds at byte[k]; past the end it is not a byte  *)
(* anybody has written.                                                    *)
Cell(k) == IF k \in Idx THEN byte[k] ELSE 0

(* Mutants of the rewind: buff_pos or postion is not reset, or an error    *)
(* is returned in place of 0.                                              *)
ReadEmptyKeepsBuffPos(size) ==
  /\ buff_len < size
  /\ Rlen(size) = 0
  /\ postion' = 0
  /\ draining' = FALSE
  /\ got' = Nothing /\ result' = 0
  /\ UNCHANGED <<byte, buff_len, buff_pos, sent, rcvd>>

ReadEmptyKeepsPostion(size) ==
  /\ buff_len < size
  /\ Rlen(size) = 0
  /\ buff_pos' = 0
  /\ draining' = FALSE
  /\ got' = Nothing /\ result' = 0
  /\ UNCHANGED <<byte, postion, buff_len, sent, rcvd>>

ReadEmptyAgain(size) ==
  /\ buff_len < size
  /\ Rlen(size) = 0
  /\ result' = EFAULT
  /\ UNCHANGED <<byte, postion, buff_len, buff_pos, draining, sent, rcvd, got>>

(* example_read with nothing left: the return of 0 that ends cat.          *)
ReadEmpty(size) ==
  /\ buff_len < size
  /\ Rlen(size) = 0
  /\ buff_pos' = 0
  /\ postion' = 0
  /\ draining' = FALSE
  /\ got' = Nothing
  /\ result' = 0
  /\ UNCHANGED <<byte, buff_len, sent, rcvd>>

(* example_read of rlen bytes; postion moves by size, not by rlen.         *)
ReadSome(size) ==
  /\ ~(buff_len < size /\ Rlen(size) = 0)
  /\ got' = [k \in 1 .. Rlen(size) |-> Cell(postion + k - 1)]
  /\ postion' = postion + size
  /\ buff_len' = buff_len - Rlen(size)
  /\ draining' = (draining \/ size > 0)
  /\ rcvd' = rcvd + Rlen(size)
  /\ result' = Rlen(size)
  /\ UNCHANGED <<byte, buff_pos, sent>>

(* example_read when copy_to_user fails: -EFAULT, nothing moves.           *)
ReadFault(size) ==
  /\ Faults
  /\ Rlen(size) > 0
  /\ result' = EFAULT
  /\ UNCHANGED <<byte, postion, buff_len, buff_pos, draining, sent, rcvd, got>>

(* example_write: copy_from_user succeeds for the first n of size bytes.   *)
(* One that fails ends the loop with a zero in the cell behind them, and   *)
(* the call still returns size.  The code does not compare buff_pos + size *)
(* with the end of byte[]; calls that would run past it are left out here. *)
Write(size, n) ==
  /\ n < size => Faults /\ buff_pos + n < BUF_SIZE
  /\ buff_pos + n <= BUF_SIZE
  /\ sent + n <= MaxBytes
  /\ DrainFirst => ~draining
  /\ byte' = [k \in Idx |->
                CASE buff_pos <= k /\ k < buff_pos + n -> sent + (k - buff_pos) + 1
                  [] k = buff_pos + n /\ n < size     -> 0
                  [] OTHER                            -> byte[k]]
  /\ buff_len' = buff_pos + n
  /\ buff_pos' = buff_pos + n
  /\ sent' = sent + n
  /\ result' = size
  /\ UNCHANGED <<postion, draining, rcvd, got>>

Read(size) == ReadEmpty(size) \/ ReadSome(size)

Next ==
  \E size \in Sizes :
    \/ ReadEmpty(size)
    \/ ReadSome(size)
    \/ ReadFault(size)
    \/ \E n \in 0 .. size : Write(size, n)

Spec == Init /\ [][Next]_vars

(* cat keeps reading, with a buffer that is not empty, until it gets 0.    *)
CatSpec == Spec /\ WF_vars(draining /\ \E size \in Sizes \ {0} : Read(size))

-----------------------------------------------------------------------------
TypeOK ==
  /\ byte \in [Idx -> 0 .. MaxBytes]
  /\ postion \in Nat
  /\ buff_len \in 0 .. BUF_SIZE
  /\ buff_pos \in 0 .. BUF_SIZE
  /\ draining \in BOOLEAN
  /\ sent \in 0 .. MaxBytes
  /\ rcvd \in Nat
  /\ \A k \in DOMAIN got : got[k] \in 0 .. MaxBytes
  /\ result \in Nat \cup {EFAULT}

(* The comments of the driver: buff_len is how much reads have to move,    *)
(* what is left when the bytes read out are taken away.  True as long as   *)
(* user space drains the buffer before it writes again.                    *)
LengthIsRemaining == buff_len = sent - rcvd

S == INSTANCE ByteStream

(* The buffer is a stream: reads deliver the bytes in the order of the     *)
(* writes, each exactly once, across any number of fills and drains.       *)
Stream == S!StreamSpec

(* A cat that has begun gets its final 0.                                  *)
CatEnds == draining ~> ~draining
=============================================================================
