------------------------------ MODULE MCA2bSched ------------------------------
EXTENDS A2bSched

MCConf0 == [loss |-> 0, delay |-> 1, qsize |-> 7, bsize |-> 3, brate |-> 1]
\* A rate of 7 makes the product wrap after a late tick.
MCCommands == {<<"delay", 2>>, <<"brate", 7>>, <<"qsize", 3>>, <<"loss", 1>>}

=============================================================================
