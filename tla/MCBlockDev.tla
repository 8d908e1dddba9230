----------------------------- MODULE MCBlockDev -----------------------------
(* The instance of BlockDev that is model-checked.                         *)
EXTENDS BlockDev

(* Reads and writes of a disk of three sectors, in one segment and in two, *)
(* some of them past the end.  The sectors of a write differ.              *)
MCRequest(dir, pos, ends, v) ==
  [dir |-> dir, pos |-> pos, len |-> ends[Len(ends)], ends |-> ends,
   data |-> [k \in 0 .. MaxLen - 1 |-> v + k]]

MCRequests ==
  { MCRequest("WRITE", 0, <<1, 3>>, 1),
    MCRequest("WRITE", 1, <<2>>, 4),
    MCRequest("READ", 0, <<2, 3>>, 0),
    MCRequest("READ", 1, <<1>>, 0),
    MCRequest("WRITE", 2, <<1, 2>>, 1),
    MCRequest("READ", 3, <<1>>, 0) }
=============================================================================
