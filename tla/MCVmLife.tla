------------------------------ MODULE MCVmLife ------------------------------
(* VmLife with one or two names; the delays keep the order of the code's. *)
EXTENDS VmLife, TLC

NameSymmetry == Permutations(Name)
=============================================================================
