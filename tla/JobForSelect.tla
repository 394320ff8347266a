------------------------------- MODULE JobForSelect -------------------------------
(***************************************************************************)
(* Jobs handed by a signal handler to the main loop:                       *)
(* common/lib_io_clownix/src/job_for_select.c.                             *)
(*                                                                         *)
(* job_for_select_request is called from the SIGCHLD handler only, at any  *)
(* moment of the main loop, rx_ack and job_idx_pool_release included.  No  *)
(* lock protects the ring of free indices: the handler alone moves         *)
(* read_idx, the main loop alone moves write_idx.  The handler is one      *)
(* action, since it is not interrupted by its own signal; each store of    *)
(* the main loop is one, in the order of the source, which is compiled     *)
(* without optimisation.                                                   *)
(*                                                                         *)
(* Left out: nb_used_jobs, which is only printed (a release interrupted by *)
(* a request can miscount it).                                             *)
(***************************************************************************)
EXTENDS Integers, Sequences

CONSTANTS MaxJobs,     \* MAX_JOBS
          MaxReq       \* bound: requests

ASSUME JobForSelectAssumption ==
  /\ MaxJobs \in Nat /\ MaxJobs > 1
  /\ MaxReq \in Nat

VARIABLES
  fifo_free_index, read_idx, write_idx, check_tab,   \* t_job_idx_pool
  glob_jobs,       \* index -> the rank of the request it holds, or 0
  sock,            \* the indices written to fd_request and not yet read
  buffer,          \* those rx_ack has read, the head being the one in hand
  pc,              \* what the main loop does next with the head of buffer
  requested,       \* requests so far
  served,          \* the rank of the last request whose callback was called
  kout             \* why the program has left through KOUT, or none

pool == <<fifo_free_index, read_idx, write_idx, check_tab>>
vars == <<pool, glob_jobs, sock, buffer, pc, requested, served, kout>>

Cell == 0..(MaxJobs - 1)
Job == 1..(MaxJobs - 1)
Steps == {"idle", "call", "wipe", "store", "advance", "clear"}

\* The ring holds indices, its last cell MAX_JOBS until it is first written.
TypeOK ==
  /\ fifo_free_index \in [Cell -> 1..MaxJobs]
  /\ read_idx \in Cell /\ write_idx \in Cell
  /\ check_tab \in [Job -> BOOLEAN]
  /\ glob_jobs \in [Job -> 0..MaxReq]
  /\ sock \in Seq(Job) /\ buffer \in Seq(Job)
  /\ pc \in Steps
  /\ requested \in 0..MaxReq /\ served \in 0..MaxReq
  /\ kout \in {"none", "full", "check", "busy", "no job", "not used"}

Init ==
  /\ fifo_free_index = [c \in Cell |-> c + 1]
  /\ read_idx = 0
  /\ write_idx = MaxJobs - 1
  /\ check_tab = [j \in Job |-> FALSE]
  /\ glob_jobs = [j \in Job |-> 0]
  /\ sock = <<>> /\ buffer = <<>>
  /\ pc = "idle"
  /\ requested = 0 /\ served = 0
  /\ kout = "none"

\* Mutant: the ring forgets its last cell.
NextCell_Short(c) == (c + 1) % (MaxJobs - 1)

NextCell(c) == (c + 1) % MaxJobs
-----------------------------------------------------------------------------
(* The signal handler.                                                       *)

\* Why job_idx_pool_alloc and job_for_select_request leave, job being the index
\* at the head of the ring.
Refusal(job) ==
  IF read_idx = write_idx THEN "full"
  ELSE IF check_tab[job] THEN "check"
  ELSE IF glob_jobs[job] # 0 THEN "busy"
  ELSE "none"

\* job_for_select_request with job_idx_pool_alloc
Request ==
  LET job == fifo_free_index[read_idx]
  IN  /\ kout = "none"
      /\ requested < MaxReq
      /\ kout' = Refusal(job)
      /\ IF kout' # "none" THEN UNCHANGED <<pool, glob_jobs, sock, requested>>
         ELSE /\ read_idx' = NextCell(read_idx)
              /\ check_tab' = [check_tab EXCEPT ![job] = TRUE]
              /\ requested' = requested + 1
              /\ glob_jobs' = [glob_jobs EXCEPT ![job] = requested']
              /\ sock' = Append(sock, job)
              /\ UNCHANGED <<fifo_free_index, write_idx>>
      /\ UNCHANGED <<buffer, pc, served>>
-----------------------------------------------------------------------------
(* The main loop.                                                            *)

\* Mutants: the read keeps the first index only, or the loop starts at 1.
Received_One == <<Head(sock)>>
Received_FromOne == IF Len(sock) > 1 THEN Tail(sock) ELSE sock

\* read(fd, jfs->buffer, sizeof(jfs->buffer)): everything there is, since the
\* indices in use are fewer than the buffer holds.
Received == sock

ReadAck ==
  /\ kout = "none"
  /\ pc = "idle" /\ sock # <<>>
  /\ buffer' = Received
  /\ sock' = <<>>
  /\ pc' = "call"
  /\ UNCHANGED <<pool, glob_jobs, requested, served, kout>>

\* The order of the stores of rx_ack and job_idx_pool_release.
After == [call |-> "wipe", wipe |-> "store", store |-> "advance", advance |-> "clear",
          clear |-> "next"]

\* The main loop does p with the index in hand, then what comes after.
Step(p) ==
  /\ kout = "none"
  /\ pc = p
  /\ IF After[p] = "next"
     THEN /\ buffer' = Tail(buffer)
          /\ pc' = IF buffer' = <<>> THEN "idle" ELSE "call"
     ELSE /\ pc' = After[p]
          /\ UNCHANGED buffer
  /\ UNCHANGED <<sock, requested, read_idx>>

Call ==
  /\ Step("call")
  /\ IF glob_jobs[Head(buffer)] = 0 THEN kout' = "no job" /\ UNCHANGED served
     ELSE served' = glob_jobs[Head(buffer)] /\ UNCHANGED kout
  /\ UNCHANGED <<fifo_free_index, write_idx, check_tab, glob_jobs>>

Wipe ==
  /\ Step("wipe")
  /\ glob_jobs' = [glob_jobs EXCEPT ![Head(buffer)] = 0]
  /\ UNCHANGED <<fifo_free_index, write_idx, check_tab, served, kout>>

Store ==
  /\ Step("store")
  /\ fifo_free_index' = [fifo_free_index EXCEPT ![write_idx] = Head(buffer)]
  /\ UNCHANGED <<write_idx, check_tab, glob_jobs, served, kout>>

Advance ==
  /\ Step("advance")
  /\ write_idx' = NextCell(write_idx)
  /\ kout' = IF check_tab[Head(buffer)] THEN "none" ELSE "not used"
  /\ UNCHANGED <<fifo_free_index, check_tab, glob_jobs, served>>

Clear ==
  /\ Step("clear")
  /\ check_tab' = [check_tab EXCEPT ![Head(buffer)] = FALSE]
  /\ UNCHANGED <<fifo_free_index, write_idx, glob_jobs, served, kout>>

MainLoop == ReadAck \/ Call \/ Wipe \/ Store \/ Advance \/ Clear
Next == Request \/ MainLoop

Spec == Init /\ [][Next]_vars

\* select reports a socket that can be read until it has been read.
FairSpec == Spec /\ WF_vars(MainLoop)
-----------------------------------------------------------------------------
(* Properties.                                                               *)

\* The indices of the ring, from read_idx to write_idx.
NbFree == (write_idx - read_idx) % MaxJobs
Free == [k \in 1..NbFree |-> fifo_free_index[(read_idx + k - 1) % MaxJobs]]

\* The indices in use: the one in hand is free again once it is in the ring.
InHand == IF pc = "clear" THEN Tail(buffer) ELSE buffer
InUse == buffer \o sock

\* The program leaves for want of an index, or of all but the one in hand.
LeavesWhenFull == kout # "none" => kout \in {"full", "check"} /\ Len(InUse) >= MaxJobs - 1

\* An index is in one place, the ring, the socket or the buffer, whatever the
\* moment at which the handler interrupts: no index is lost, none given twice.
\* The program leaves only for want of an index, or of all but the one that is
\* being released: no other KOUT of job_for_select.c is reached.
IndexInOnePlace ==
  LET places == Free \o InHand \o sock
  IN  /\ TypeOK
      /\ Len(places) = MaxJobs - 1
      /\ {places[k] : k \in 1..Len(places)} = Job
      /\ LeavesWhenFull

\* The inductive invariant.  What it says of the ring is said of its cells, and of
\* the indices in use by their rank in InUse.
FreeCells == {c \in Cell : IF read_idx <= write_idx THEN read_idx <= c /\ c < write_idx
                           ELSE read_idx <= c \/ c < write_idx}
Released == IF pc = "clear" THEN 1 ELSE 0
Kept == (Released + 1)..Len(InUse)
Apart ==
  /\ \A c \in FreeCells : fifo_free_index[c] \in Job
  /\ \A c, d \in FreeCells : fifo_free_index[c] = fifo_free_index[d] => c = d
  /\ \A k, l \in Kept : InUse[k] = InUse[l] => k = l
  /\ \A c \in FreeCells, k \in Kept : fifo_free_index[c] # InUse[k]
NoneLost == NbFree + Len(InUse) - Released = MaxJobs - 1

\* The index in hand is in the ring once it is stored and write_idx has moved.
HandStored ==
  /\ (buffer = <<>>) <=> (pc = "idle")
  /\ pc = "advance" => fifo_free_index[write_idx] = InUse[1]
  /\ pc = "clear" =>
       \E c \in FreeCells : NextCell(c) = write_idx /\ fifo_free_index[c] = InUse[1]

CheckExact == \A j \in Job : check_tab[j] <=> \E k \in 1..Len(InUse) : InUse[k] = j

\* The requests that are not served yet follow the last one that is, in the order
\* of InUse, and a free index holds none.
Served == IF pc \in {"idle", "call"} THEN 0 ELSE 1
RanksInOrder ==
  /\ requested = served + Len(InUse) - Served
  /\ \A k \in (Served + 1)..Len(InUse) : glob_jobs[InUse[k]] = served + k - Served
  /\ pc \in {"store", "advance"} => glob_jobs[InUse[1]] = 0
  /\ \A c \in FreeCells : glob_jobs[fifo_free_index[c]] = 0

IInv == /\ TypeOK /\ Apart /\ NoneLost /\ HandStored /\ CheckExact
        /\ RanksInOrder /\ LeavesWhenFull

\* Each request is served once, in order: job_for_select.c implements JobPromise.
Promise == INSTANCE JobPromise
ImplementsPromise == Promise!Spec

\* What the handler asked for is done.
EveryRequestServed ==
  \A r \in 1..MaxReq : (requested >= r) ~> (served >= r \/ kout # "none")
===================================================================================
