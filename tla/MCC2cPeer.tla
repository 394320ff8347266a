----------------------------- MODULE MCC2cPeer -----------------------------
(* C2cPeer: a link that is made, lost and made again. *)
EXTENDS C2cPeer
=============================================================================
