----------------------------- MODULE MCClownixTimer -----------------------------
EXTENDS ClownixTimer

\* clownix_timer_beat is called from the select loop at every heartbeat, and a
\* walk is plain sequential code.
FairSpec == Spec /\ WF_vars(TimerBeat) /\ WF_vars(Walk)

\* Every timeout that is plugged leaves the wheel (it runs or is skipped).
EveryTimeoutLeaves ==
  \A r \in 1..MaxRef : (\E e \in grape : e.ref = r) ~> (kout \/ \A e \in grape : e.ref # r)
=================================================================================
