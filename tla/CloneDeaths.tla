------------------------------- MODULE CloneDeaths -------------------------------
(***************************************************************************)
(* What pid_clone.c promises to the parts of the server that launch        *)
(* clones: the death callback of a clone is called once, after the clone   *)
(* has ended or was stopped, since a stop is reported as a death.  A clone *)
(* is known by the rank of its launch.                                     *)
(***************************************************************************)
EXTENDS Naturals

VARIABLES launched, ended, reported

Init == launched = 0 /\ ended = {} /\ reported = {}

Launch == launched' = launched + 1 /\ UNCHANGED <<ended, reported>>

End(n) == n \in (1..launched) \ ended /\ ended' = ended \cup {n} /\ UNCHANGED <<launched, reported>>

\* The callback may launch a clone.
Report(n) ==
  /\ n \in ended \ reported
  /\ reported' = reported \cup {n}
  /\ launched' \in {launched, launched + 1}
  /\ UNCHANGED ended

Next == Launch \/ \E n \in 1..launched : End(n) \/ Report(n)

Spec == Init /\ [][Next]_<<launched, ended, reported>>
==================================================================================
