----------------------------- MODULE MCOwnership ----------------------------
(* Ownership with a few changes of the setting, starts and commands.       *)
EXTENDS Ownership
=============================================================================
