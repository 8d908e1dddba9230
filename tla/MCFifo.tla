------------------------------- MODULE MCFifo -------------------------------
(* Fifo with one reader; MCPrograms checks all of them.                    *)
EXTENDS Fifo

MCOneReader == {"block"}
MCKind == [r \in Readers |-> r]
=============================================================================
