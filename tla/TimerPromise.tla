------------------------------ MODULE TimerPromise ------------------------------
(***************************************************************************)
(* What the timer service promises its callers: a timeout armed for a beat *)
(* runs at exactly that beat, once, in arming order among those due at the *)
(* same beat, unless it was cancelled before it ran.  ClownixTimer shows   *)
(* that the wheel of common/lib_io_clownix/src/clownix_timer.c (and its    *)
(* twin in server/muswitch/lib_ioc) implements this.                       *)
(***************************************************************************)
EXTENDS Integers

CONSTANT MaxBeat                  \* bound on the clock, for model checking

VARIABLES now,                    \* the current beat
          armed,                  \* timeouts neither run nor cancelled
          lastRef,                \* the last reference handed out
          running                 \* the reference whose callback runs, or 0

promiseVars == <<now, armed, lastRef, running>>

Timeout == [ref : Nat, due : Nat]

PInit == /\ now = 0
         /\ armed = {}
         /\ lastRef = 0
         /\ running = 0

\* Arming hands out a fresh reference and a beat that lies in the future.
Arm == \E due \in (now + 1)..MaxBeat :
          /\ armed' = armed \cup {[ref |-> lastRef + 1, due |-> due]}
          /\ lastRef' = lastRef + 1
          /\ UNCHANGED <<now, running>>

\* Any set of armed timeouts may be cancelled at once (clownix_timeout_del
\* cancels one, clownix_timeout_del_all all of them).
Cancel == \E gone \in SUBSET armed :
             /\ armed' = armed \ gone
             /\ UNCHANGED <<now, lastRef, running>>

\* The oldest of the timeouts due now runs.
Fire == \E t \in armed :
           /\ running = 0
           /\ t.due = now
           /\ \A u \in armed : u.due = now => t.ref <= u.ref
           /\ armed' = armed \ {t}
           /\ running' = t.ref
           /\ UNCHANGED <<now, lastRef>>

\* Its callback returns.
Return == /\ running # 0
          /\ running' = 0
          /\ UNCHANGED <<now, armed, lastRef>>

\* Time advances only when nothing that was due is left.
Tick == /\ running = 0
        /\ \A t \in armed : t.due > now
        /\ now' = now + 1
        /\ UNCHANGED <<armed, lastRef, running>>

PNext == Arm \/ Cancel \/ Fire \/ Return \/ Tick

PSpec == PInit /\ [][PNext]_promiseVars
================================================================================
