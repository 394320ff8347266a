------------------------------- MODULE MCLanNames -------------------------------
(* Three indices for four names, two of which collide at the last index.    *)
EXTENDS LanNames

CONSTANTS n1, n2, n3, n4

MCName == {n1, n2, n3, n4}
MCHash == [n \in MCName |-> CASE n = n1 -> 3 [] n = n2 -> 3 [] n = n3 -> 1 [] n = n4 -> 2]
================================================================================
