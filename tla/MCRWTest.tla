------------------------------ MODULE MCRWTest ------------------------------
(* The instances of RWTest that are model-checked.                         *)
EXTENDS RWTest
=============================================================================
