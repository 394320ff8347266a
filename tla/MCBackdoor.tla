---------------------------- MODULE MCBackdoor ----------------------------
(* Backdoor: a machine whose agent is started, lost and started again. *)
EXTENDS Backdoor
===========================================================================
