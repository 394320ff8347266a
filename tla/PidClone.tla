--------------------------------- MODULE PidClone ---------------------------------
(***************************************************************************)
(* The clones of the cloonix server and the report of their deaths:        *)
(* server/uml_cloonix_switch/src/pid_clone.c.  A clone is a child process  *)
(* that runs one function; the part of the server that launches it gives a *)
(* callback for its death and one for its messages.                        *)
(*                                                                         *)
(* The kernel keeps one pending SIGCHLD, however many children changed     *)
(* state; the handler asks for one job (JobForSelect), and a job reaps one *)
(* child.  timer_clones_check reaps one more at every beat.                *)
(*                                                                         *)
(* Abstractions.  The server is one thread: an action is a whole callback. *)
(* The jobs are a counter, since they are all alike.  A death callback     *)
(* launches at most one clone.  A pid is used again only when the server   *)
(* has read what its last holder sent.  The children that the server waits *)
(* for itself (clownix_system) only ask for jobs, and are left out.        *)
(***************************************************************************)
EXTENDS Integers, Sequences, FiniteSets

CONSTANTS Pid, NoPid,
          MaxIdent,     \* MAX_FORK_IDENT: the idents are 1 .. MAX_FORK_IDENT - 1
          MaxJobs,      \* MAX_JOBS
          MaxLaunch,    \* bound: launches
          MaxMsg,       \* bound: messages of one clone
          MaxStop       \* bound: stops of clones, by SIGSTOP or a terminal

ASSUME PidCloneAssumption ==
  /\ NoPid \notin Pid
  /\ MaxIdent \in Nat /\ MaxIdent > 1
  /\ MaxJobs \in Nat /\ MaxJobs > 1
  /\ MaxLaunch \in Nat /\ MaxMsg \in Nat /\ MaxStop \in Nat

VARIABLES
  clone_ctx,         \* ident -> the clone it is used for, by rank, or 0
  current_max_pid, nb_running_pids,
  child,             \* rank of a launch -> the process
  launched,          \* launches so far
  reported,          \* rank -> whether and with what status its death was reported
  delivered,         \* rank -> the messages its fct_msg was given
  sigchld,           \* a SIGCHLD is pending
  jobs,              \* jobs asked for and not yet run
  stops,
  kout               \* whether the server has left through KOUT

table == <<clone_ctx, current_max_pid, nb_running_pids, launched, reported>>
vars == <<table, child, delivered, sigchld, jobs, stops, kout>>

Ident == 1..(MaxIdent - 1)
Rank == 1..MaxLaunch
Stage == {"none",      \* not launched
          "running",   \* its function runs
          "ended",     \* END_FORK_PID is sent, the answer is awaited
          "leaving",   \* END_FORK_PID has come back
          "zombie", "gone"}
Child == [st : Stage, pid : Pid \cup {NoPid},
          stopped : BOOLEAN,
          event : BOOLEAN,                     \* a stop or a restart waitid would return
          outbox : Seq({"msg", "end"}), sent : 0..MaxMsg,
          result : {"none", "ok", "ko"},       \* what the function returned
          status : {"ok", "ko"}]               \* what the process exits with

\* The table, the processes and the reports have their types.
TypeOK ==
  /\ clone_ctx \in [Ident -> 0..MaxLaunch]
  /\ current_max_pid \in 0..(MaxIdent - 1)
  /\ nb_running_pids \in 0..(MaxIdent - 1)
  /\ child \in [Rank -> Child]
  /\ launched \in 0..MaxLaunch
  /\ reported \in [Rank -> {"no", "ok", "ko"}]
  /\ delivered \in [Rank -> 0..MaxMsg]
  /\ sigchld \in BOOLEAN
  /\ jobs \in 0..(MaxJobs - 1)
  /\ stops \in 0..MaxStop
  /\ kout \in BOOLEAN

NotLaunched == [st |-> "none", pid |-> NoPid, stopped |-> FALSE, event |-> FALSE,
                outbox |-> <<>>, sent |-> 0, result |-> "none", status |-> "ko"]

Init ==
  /\ clone_ctx = [i \in Ident |-> 0]
  /\ current_max_pid = 0
  /\ nb_running_pids = 0
  /\ child = [n \in Rank |-> NotLaunched]
  /\ launched = 0
  /\ reported = [n \in Rank |-> "no"]
  /\ delivered = [n \in Rank |-> 0]
  /\ sigchld = FALSE
  /\ jobs = 0
  /\ stops = 0
  /\ kout = FALSE

Lowest(S) == CHOOSE i \in S : \A j \in S : i <= j
Highest(S) == CHOOSE i \in S : \A j \in S : i >= j
Used(ctx) == {i \in Ident : ctx[i] # 0}
Exists(n) == child[n].st \notin {"none", "gone"}

\* Mutant: the pid of the record is not compared.
FindIdent_FirstUsed(p) ==
  LET I == {i \in 1..current_max_pid : clone_ctx[i] # 0}
  IN  IF I = {} THEN 0 ELSE Lowest(I)

\* pid_find_ident
FindIdent(p) ==
  LET I == {i \in 1..current_max_pid : clone_ctx[i] # 0 /\ child[clone_ctx[i]].pid = p}
  IN  IF I = {} THEN 0 ELSE Lowest(I)
-----------------------------------------------------------------------------
(* Launching.                                                                *)

\* The pids the kernel may give when the children of procs exist.
FreePids(procs) ==
  {p \in Pid : \A n \in Rank :
     procs[n].pid = p => procs[n].st = "gone" /\ procs[n].outbox = <<>>}

\* pid_clone_alloc_ident raises current_max_pid.
MaxGrown(max, i) == IF i > max THEN i ELSE max

\* pid_clone_launch for the ident i, procs being the processes at that moment.
Launched(procs, p) ==
  [procs EXCEPT ![launched + 1] = [NotLaunched EXCEPT !.st = "running", !.pid = p]]

CanLaunch == launched < MaxLaunch
FreeIdents == {i \in Ident : clone_ctx[i] = 0}

PidCloneLaunch ==
  /\ ~kout
  /\ CanLaunch
  /\ IF FreeIdents = {}
     THEN kout' = TRUE /\ UNCHANGED <<table, child>>
     ELSE LET i == Lowest(FreeIdents)
          IN  /\ clone_ctx' = [clone_ctx EXCEPT ![i] = launched + 1]
              /\ current_max_pid' = MaxGrown(current_max_pid, i)
              /\ nb_running_pids' = nb_running_pids + 1
              /\ launched' = launched + 1
              /\ \E p \in FreePids(child) : child' = Launched(child, p)
              /\ UNCHANGED <<reported, kout>>
  /\ UNCHANGED <<delivered, sigchld, jobs, stops>>
-----------------------------------------------------------------------------
(* Reaping.                                                                  *)

\* Mutant: any ident that goes lowers current_max_pid.
MaxLeft_Lowered(max, ctx, i) == IF Used(ctx) # {} THEN max - 1 ELSE max

\* pid_clone_free_ident: when the highest ident goes, the highest that remains.
MaxLeft(max, ctx, i) == IF i = max /\ Used(ctx) # {} THEN Highest(Used(ctx)) ELSE max

\* pid_dead_clone for the ident i, procs being the processes after the wait: the
\* callback may launch a clone, for which i is not free yet.
DeadClone(i, procs, status) ==
  /\ reported' = [reported EXCEPT ![clone_ctx[i]] = status]
  /\ \/ /\ clone_ctx' = [clone_ctx EXCEPT ![i] = 0]
        /\ current_max_pid' = MaxLeft(current_max_pid, clone_ctx', i)
        /\ nb_running_pids' = nb_running_pids - 1
        /\ child' = procs
        /\ UNCHANGED <<launched, kout>>
     \/ /\ CanLaunch /\ FreeIdents # {}
        /\ LET j == Lowest(FreeIdents)
               max == MaxGrown(current_max_pid, j)
           IN  /\ clone_ctx' = [clone_ctx EXCEPT ![j] = launched + 1, ![i] = 0]
               /\ current_max_pid' = MaxLeft(max, clone_ctx', i)
        /\ \E p \in FreePids(procs) : child' = Launched(procs, p)
        /\ launched' = launched + 1
        /\ UNCHANGED <<nb_running_pids, kout>>
     \/ /\ CanLaunch /\ FreeIdents = {}
        /\ kout' = TRUE
        /\ child' = procs
        /\ UNCHANGED <<clone_ctx, current_max_pid, nb_running_pids, launched>>

\* What waitid(P_ALL, WEXITED | WSTOPPED | WCONTINUED) may return.
Waitable(n) == child[n].st = "zombie" \/ (Exists(n) /\ child[n].event)
Waited(n) == [child EXCEPT ![n] =
  IF @.st = "zombie" THEN [@ EXCEPT !.st = "gone"] ELSE [@ EXCEPT !.event = FALSE]]
WaitStatus(n) == IF child[n].st = "zombie" THEN child[n].status ELSE "ko"

\* pid_clone_harvest_death: a stop or a restart is taken for a death, and the
\* death of a pid that is not known any more is only logged.
HarvestDeath ==
  IF \A n \in Rank : ~Waitable(n)
  THEN UNCHANGED <<table, child, kout>>
  ELSE \E n \in Rank :
         /\ Waitable(n)
         /\ LET i == FindIdent(child[n].pid)
            IN  IF i = 0 THEN child' = Waited(n) /\ UNCHANGED <<table, kout>>
                ELSE DeadClone(i, Waited(n), WaitStatus(n))

\* child_death_catcher_signal: one job for all the deaths since the last one.
ChildDeathCatcherSignal ==
  /\ ~kout
  /\ sigchld
  /\ sigchld' = FALSE
  /\ IF jobs = MaxJobs - 1 THEN kout' = TRUE /\ UNCHANGED jobs
     ELSE jobs' = jobs + 1 /\ UNCHANGED kout
  /\ UNCHANGED <<table, child, delivered, stops>>

\* fct_job_for_select
FctJobForSelect ==
  /\ ~kout
  /\ jobs > 0
  /\ jobs' = jobs - 1
  /\ HarvestDeath
  /\ UNCHANGED <<delivered, sigchld, stops>>

\* Mutant: the timer leaves the reaping to the signal.
TimerClonesCheck_NoHarvest == ~kout /\ UNCHANGED vars

\* timer_clones_check.  Its loop over the clones whose process does not exist
\* finds none (EachKnownOnce): only HarvestDeath makes a process disappear.
TimerClonesCheck ==
  /\ ~kout
  /\ HarvestDeath
  /\ UNCHANGED <<delivered, sigchld, jobs, stops>>
-----------------------------------------------------------------------------
(* Messages of the clones.                                                   *)

\* rx_from_child: a message is given to the clone that has the pid, if any; an
\* END_FORK_PID is sent back.
RxFromChild(n) ==
  LET i == FindIdent(child[n].pid)
      isEnd == Head(child[n].outbox) = "end"
  IN  /\ ~kout
      /\ child[n].outbox # <<>>
      /\ child' = [child EXCEPT ![n].outbox = Tail(@),
                                ![n].st = IF isEnd /\ @ = "ended" THEN "leaving" ELSE @]
      /\ delivered' = IF isEnd \/ i = 0 THEN delivered
                      ELSE [delivered EXCEPT ![clone_ctx[i]] = @ + 1]
      /\ UNCHANGED <<table, sigchld, jobs, stops, kout>>
-----------------------------------------------------------------------------
(* The clones: forked_fct.                                                   *)

Runs(n, st) == ~kout /\ child[n].st = st /\ ~child[n].stopped
ServerIdle == UNCHANGED <<table, delivered, jobs, kout>>

\* send_to_daddy
ChildMsg(n) ==
  /\ Runs(n, "running")
  /\ child[n].sent < MaxMsg
  /\ child' = [child EXCEPT ![n].outbox = Append(@, "msg"), ![n].sent = @ + 1]
  /\ UNCHANGED <<sigchld, stops>> /\ ServerIdle

\* Mutant: the clone exits without the answer.
AwaitsAnswer_Not == "leaving"

AwaitsAnswer == "ended"

\* The function returns: END_FORK_PID is sent, after its messages.
ChildEnd(n) ==
  /\ Runs(n, "running")
  /\ \E r \in {"ok", "ko"} :
       child' = [child EXCEPT ![n].outbox = Append(@, "end"), ![n].st = AwaitsAnswer,
                              ![n].result = r]
  /\ UNCHANGED <<sigchld, stops>> /\ ServerIdle

Exit(n, result, status) ==
  /\ child' = [child EXCEPT ![n].st = "zombie", ![n].event = FALSE, ![n].stopped = FALSE,
                            ![n].result = result, ![n].status = status]
  /\ sigchld' = TRUE
  /\ UNCHANGED stops /\ ServerIdle

\* rx_from_main
ChildLeaves(n) == Runs(n, "leaving") /\ Exit(n, child[n].result, child[n].result)

\* The function executes another program, which ends.
ChildExec(n) ==
  /\ Runs(n, "running")
  /\ child[n].sent = 0
  /\ \E r \in {"ok", "ko"} : Exit(n, r, r)

\* string_client_unix fails: the function is not run, and forked_fct returns 0.
ChildNoServer(n) ==
  /\ Runs(n, "running")
  /\ child[n].sent = 0
  /\ Exit(n, "none", "ok")

\* A crash, or the SIGTERM of pid_clone_kill_single and pid_clone_kill_all.
ChildKilled(n) ==
  /\ ~kout
  /\ child[n].st \in {"running", "ended", "leaving"}
  /\ Exit(n, child[n].result, "ko")

\* SIGSTOP and SIGCONT, for which SIGCHLD is sent too.
ChildStop(n) ==
  /\ ~kout
  /\ child[n].st \in {"running", "ended", "leaving"}
  /\ ~child[n].stopped
  /\ stops < MaxStop
  /\ stops' = stops + 1
  /\ child' = [child EXCEPT ![n].stopped = TRUE, ![n].event = TRUE]
  /\ sigchld' = TRUE
  /\ ServerIdle

ChildContinue(n) ==
  /\ ~kout
  /\ child[n].stopped
  /\ child' = [child EXCEPT ![n].stopped = FALSE, ![n].event = TRUE]
  /\ sigchld' = TRUE
  /\ UNCHANGED stops /\ ServerIdle
-----------------------------------------------------------------------------
ChildStep(n) ==
  \/ ChildMsg(n) \/ ChildEnd(n) \/ ChildLeaves(n) \/ ChildExec(n) \/ ChildNoServer(n)
  \/ ChildKilled(n) \/ ChildStop(n) \/ ChildContinue(n)
Next ==
  \/ PidCloneLaunch \/ ChildDeathCatcherSignal \/ FctJobForSelect \/ TimerClonesCheck
  \/ \E n \in Rank : RxFromChild(n) \/ ChildStep(n)

Spec == Init /\ [][Next]_vars

\* A pending signal is delivered, a job asked for is run (JobForSelect) and
\* timer_clones_check arms itself again (ClownixTimer).
FairSpec ==
  /\ Spec
  /\ WF_vars(ChildDeathCatcherSignal)
  /\ WF_vars(FctJobForSelect)
  /\ WF_vars(TimerClonesCheck)
-----------------------------------------------------------------------------
(* Properties.                                                               *)

\* No ident in use is above current_max_pid, and nb_running_pids counts them.
TableCounted ==
  /\ Used(clone_ctx) \subseteq 1..current_max_pid
  /\ nb_running_pids = Cardinality(Used(clone_ctx))

Holders(n) == {i \in Ident : clone_ctx[i] = n}

\* A clone has one ident from its launch to its report, whatever its death
\* callback launches in between, and no two idents have the same pid.  None is
\* above current_max_pid, where pid_find_ident does not look, and nb_running_pids,
\* at 0 of which the server exits, counts them.
EachKnownOnce ==
  /\ TypeOK
  /\ TableCounted
  /\ ~kout =>
    /\ \A n \in 1..launched :
         Cardinality(Holders(n)) = IF reported[n] = "no" THEN 1 ELSE 0
    /\ \A i, j \in Used(clone_ctx) :
         child[clone_ctx[i]].pid = child[clone_ctx[j]].pid => i = j
    /\ \A i \in Used(clone_ctx) : Exists(clone_ctx[i])

\* A clone that ended by END_FORK_PID is reported only when all its messages
\* were delivered, to itself: the report does not overtake them although they
\* come by another channel.
MessagesBeforeReport ==
  \A n \in Rank :
    /\ delivered[n] <= child[n].sent
    /\ reported[n] = "ok" => delivered[n] = child[n].sent

\* The inductive invariant, from the server's table, the processes, the launches and
\* the reports as they are at one moment of a callback.  A clone is known by one
\* ident until it is reported.
OneIdent(ctx, n, rep) ==
  /\ \A i \in Ident : ctx[i] <= n
  /\ \A i, j \in Used(ctx) : ctx[i] = ctx[j] => i = j
  /\ \A m \in 1..n : rep[m] = "no" <=> \E i \in Ident : ctx[i] = m

\* A known clone exists, and no other process that counts has its pid.
HoldsPid(procs, m) == ~(procs[m].st = "gone" /\ procs[m].outbox = <<>>)
OnePid(ctx, procs, n) ==
  /\ \A i \in Used(ctx) : procs[ctx[i]].st \notin {"none", "gone"}
  /\ \A m \in Rank : m <= n => procs[m].st # "none" /\ procs[m].pid \in Pid
  /\ \A l, m \in 1..n :
       HoldsPid(procs, l) /\ HoldsPid(procs, m) /\ procs[l].pid = procs[m].pid => l = m

\* Nothing is said of a clone before it is launched.
NotYet(procs, n, rep, del) ==
  \A m \in Rank : m > n => procs[m] = NotLaunched /\ rep[m] = "no" /\ del[m] = 0

\* END_FORK_PID comes last, after the function returned, and a clone leaves when it
\* has come back.  What a known
\* clone sent was delivered to it or is on its way.
Last(box) == box[Len(box)]
Pending(box) == IF box # <<>> /\ Last(box) = "end" THEN Len(box) - 1 ELSE Len(box)
EndLast(proc) ==
  /\ \A k \in 1..(Len(proc.outbox) - 1) : proc.outbox[k] = "msg"
  /\ proc.st = "running" => proc.outbox = <<>> \/ Last(proc.outbox) = "msg"
  /\ proc.st = "ended" => proc.outbox # <<>> /\ Last(proc.outbox) = "end"
  /\ proc.st = "leaving" => proc.outbox = <<>>
  /\ proc.st \in {"ended", "leaving"} => proc.result # "none"
Backlog(ctx, procs, del) ==
  /\ \A m \in Rank : EndLast(procs[m])
  /\ \A i \in Used(ctx) : LET proc == procs[ctx[i]] IN
       /\ del[ctx[i]] + Pending(proc.outbox) = proc.sent
       /\ proc.st = "zombie" /\ proc.status = "ok" => proc.outbox = <<>>

\* What was reported to have ended well has left.
OkIsGone(procs, rep) == \A m \in Rank : rep[m] = "ok" => procs[m].st = "gone"

Sound(ctx, procs, n, rep, del) ==
  /\ OneIdent(ctx, n, rep) /\ OnePid(ctx, procs, n) /\ NotYet(procs, n, rep, del)
  /\ Backlog(ctx, procs, del) /\ OkIsGone(procs, rep)

IInv ==
  /\ TypeOK /\ TableCounted /\ MessagesBeforeReport
  /\ ~kout => Sound(clone_ctx, child, launched, reported, delivered)

\* Deaths are not lost although SIGCHLD is not counted: a clone that has ended
\* is reaped.
EveryDeathReaped == \A n \in Rank : (child[n].st = "zombie") ~> (child[n].st = "gone" \/ kout)

\* pid_clone.c implements CloneDeaths: a clone is reported once, and only when it
\* has ended or was stopped, whatever clone has had its pid before and since.
IsEnded(n) == \/ child[n].st \in {"zombie", "gone"} \/ child[n].event \/ child[n].stopped
              \/ reported[n] # "no"
Ended == {n \in Rank : IsEnded(n)}
Reported == {n \in Rank : reported[n] # "no"}
Promise == INSTANCE CloneDeaths WITH ended <- Ended, reported <- Reported
ImplementsDeaths == Promise!Spec
===================================================================================
