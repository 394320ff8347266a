-------------------------------- MODULE MCPidClone --------------------------------
(* PidClone with two pids and two idents for two launches: the pid of a clone that *)
(* is gone is used again.                                                          *)
EXTENDS PidClone
===================================================================================
