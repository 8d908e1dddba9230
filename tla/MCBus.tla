------------------------------- MODULE MCBus -------------------------------
(* The instances of Bus that are model-checked.                            *)
EXTENDS Bus

MCName == <<"my_dev">>
=============================================================================
