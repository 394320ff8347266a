------------------------------ MODULE MCJobForSelect ------------------------------
(***************************************************************************)
(* JobForSelect with four indices and enough requests for the ring to     *)
(* wrap twice.                                                             *)
(***************************************************************************)
EXTENDS JobForSelect
===================================================================================
