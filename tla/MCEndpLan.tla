------------------------------- MODULE MCEndpLan -------------------------------
(* Instances of EndpLan.  Endpoints are interchangeable: no definition of       *)
(* EndpLan orders them.                                                         *)
EXTENDS EndpLan, TLC

EndpSymmetry == Permutations(Endp)
================================================================================
