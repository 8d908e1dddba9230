----------------------------- MODULE MCNotifier -----------------------------
(* The instance of Notifier that is model-checked.                         *)
EXTENDS Notifier
=============================================================================
