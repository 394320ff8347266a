-------------------------------- MODULE JobPromise --------------------------------
(***************************************************************************)
(* What job_for_select.c promises to a signal handler: the jobs it asks    *)
(* for are run by the main loop, each once and in the order they were      *)
(* asked for.  A job is known by its rank among the requests.              *)
(***************************************************************************)
EXTENDS Naturals

VARIABLES requested, served

Init == requested = 0 /\ served = 0

Ask == requested' = requested + 1 /\ UNCHANGED served

Serve == served < requested /\ served' = served + 1 /\ UNCHANGED requested

Spec == Init /\ [][Ask \/ Serve]_<<requested, served>>
===================================================================================
