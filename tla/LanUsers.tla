-------------------------------- MODULE LanUsers --------------------------------
(***************************************************************************)
(* What lan_to_name.c promises to the rest of the server: a LAN exists     *)
(* exactly while some slot of an endpoint uses it, whatever the order in   *)
(* which LANs come and go.                                                 *)
(***************************************************************************)
EXTENDS Naturals

CONSTANTS Name, User

VARIABLE users      \* LAN -> the slots that use it

Init == users = [n \in Name |-> {}]

Use(u, n) ==
  /\ \A k \in Name : u \notin users[k]
  /\ users' = [users EXCEPT ![n] = @ \cup {u}]

Leave(u, n) ==
  /\ u \in users[n]
  /\ users' = [users EXCEPT ![n] = @ \ {u}]

Next == \E u \in User, n \in Name : Use(u, n) \/ Leave(u, n)

Spec == Init /\ [][Next]_users
================================================================================
