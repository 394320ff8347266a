--------------------------------- MODULE EndpLan ---------------------------------
(***************************************************************************)
(* How the cloonix server attaches endpoints to LANs:                      *)
(* server/uml_cloonix_switch/src/endp_evt.c, endp_mngt.c, mulan_mngt.c and *)
(* the add/del lan requests of recv_from_client.c, composed with the       *)
(* endpoint processes (server/muswitch/lib_muend) and the LAN processes    *)
(* (server/muswitch/lib_mulan) they talk to.                               *)
(*                                                                         *)
(* An endpoint (a name and a number) has MAX_TRAF_ENDPOINT slots, each     *)
(* attached to a LAN or waiting for one.  The server is one thread: an     *)
(* action is one whole callback.                                           *)
(*                                                                         *)
(* Abstractions.  The delay of a timer is left out: a timer that is armed  *)
(* may expire at any later moment.  A request to a process is handled when *)
(* it is sent and its answer travels in outbox; only the connection to a   *)
(* LAN takes time.  The index lan_to_name.c gives a LAN is the LAN itself  *)
(* (module LanNames).  The clients' channels stay open.                    *)
(***************************************************************************)
EXTENDS Integers, Sequences, FiniteSets

CONSTANTS Endp, Lan,
          Client,                 \* the names of the clients' add lan requests
          Tidx,                   \* the slot numbers, 0 .. MAX_TRAF_ENDPOINT - 1
          NoLan, NoClient,        \* the empty name, no request
          ZombieRetimes,          \* 3 in timer_zombie_kill
          MaxStart,               \* bound: how often one endpoint is created
          MaxTypeReq,             \* bound: answers that wait when a type request leaves
          MaxQuit,                \* bound: quit timers armed together by the beat
          MaxCrash,               \* bound: an endpoint process crashes while fewer of its
                                  \* former processes' ends are still to be reported
          MaxDelayed,             \* bound: requests in the coherency chain
          MaxSeq                  \* bound: LANs started through one slot

ASSUME EndpLanAssumption ==
  /\ IsFiniteSet(Endp) /\ IsFiniteSet(Tidx)
  /\ NoLan \notin Lan
  /\ NoClient \notin Client
  /\ Tidx \subseteq Nat
  /\ ZombieRetimes \in Nat
  /\ MaxStart \in Nat /\ MaxTypeReq \in Nat /\ MaxQuit \in Nat
  /\ MaxCrash \in Nat /\ MaxDelayed \in Nat /\ MaxSeq \in Nat

VARIABLES
  mu,             \* endpoint -> its t_priv_endp, and whether its t_evendp exists
  sl,             \* slot -> its part of t_priv_endp and of t_evendp
  nb_users,       \* LAN -> nb_users in lan_to_name.c
  lan,            \* LAN -> its t_mulan, its t_zombie_kill and its process
  asking,         \* the add lan requests that have had no answer
  chain,          \* the add lan requests put aside while a machine is being created
  strays,         \* the requests that an answer meant for none of them may have reached
  et,             \* endpoint -> armed timers that name the endpoint
  lan_connect,    \* slot and LAN -> armed timer_lan_connect
  ko_timer,       \* armed timer_evt
  pr,             \* endpoint -> its process
  ps,             \* slot -> the connection the endpoint process has there
  fault           \* why the server has left through KOUT, or none

vars == <<mu, sl, nb_users, lan, asking, chain, strays, et, lan_connect, ko_timer, pr,
          ps, fault>>

Slot == Endp \X Tidx
LanOrNo == Lan \cup {NoLan}
Request == [client : Client, lan : Lan]
Delayed == [client : Client, endp : Endp, lan : Lan]
NoRequest == [client |-> NoClient, lan |-> NoLan]
Answer == [kind : {"type_ok", "type_ko", "disconnect_ok"}, lan : {NoLan}, tidx : Tidx]
          \cup [kind : {"connect_ok", "connect_ko"}, lan : Lan, tidx : Tidx]

EndpRec == [stage : {"none", "launched", "connected", "named", "open"},
            resp : {"", "unix_sock", "disconnect", "quit"},
            stop_done : BOOLEAN, born : BOOLEAN, starts : Nat]
SlotRec == [lan_num : LanOrNo, attached : LanOrNo, waiting : LanOrNo,
            asker : Client \cup {NoClient}, seq : Nat]
LanRec == [st : {"none", "start", "pid", "wait", "done"}, llid : BOOLEAN,
           zombie : -1..(ZombieRetimes + 1), proc : {"none", "up", "quitting", "dead"}]
TimerRec == [death : Nat, free : Nat, watchdog : Nat, early : Request \cup {NoRequest}]
ProcRec == [alive : BOOLEAN, obituary : Nat, outbox : Seq(Answer)]
LinkRec == [link : LanOrNo, up : BOOLEAN, con : SUBSET Lan]

\* Every variable has its type: no LAN has a negative number of users, no timer
\* expires more often than it was armed, a connect answer names a LAN.
TypeOK ==
  /\ mu \in [Endp -> EndpRec]
  /\ sl \in [Slot -> SlotRec]
  /\ nb_users \in [Lan -> Nat]
  /\ lan \in [Lan -> LanRec]
  /\ asking \subseteq Client /\ strays \subseteq Client
  /\ chain \subseteq Delayed
  /\ et \in [Endp -> TimerRec]
  /\ lan_connect \in [Slot \X Lan -> Nat]
  /\ ko_timer \subseteq Slot \X Lan \X Nat
  /\ pr \in [Endp -> ProcRec]
  /\ ps \in [Slot -> LinkRec]
  /\ fault \in {"none", "free_attached", "bad_llid"}

NoEndp == [stage |-> "none", resp |-> "", stop_done |-> FALSE, born |-> FALSE, starts |-> 0]
EmptySlot == [lan_num |-> NoLan, attached |-> NoLan, waiting |-> NoLan,
              asker |-> NoClient, seq |-> 0]
NoMulan == [st |-> "none", llid |-> FALSE, zombie |-> -1, proc |-> "none"]
NoLink == [link |-> NoLan, up |-> FALSE, con |-> {}]

Init ==
  /\ mu = [e \in Endp |-> NoEndp]
  /\ sl = [s \in Slot |-> EmptySlot]
  /\ nb_users = [l \in Lan |-> 0]
  /\ lan = [l \in Lan |-> NoMulan]
  /\ asking = {} /\ chain = {} /\ strays = {}
  /\ et = [e \in Endp |-> [death |-> 0, free |-> 0, watchdog |-> 0, early |-> NoRequest]]
  /\ lan_connect = [x \in Slot \X Lan |-> 0]
  /\ ko_timer = {}
  /\ pr = [e \in Endp |-> [alive |-> FALSE, obituary |-> 0, outbox |-> <<>>]]
  /\ ps = [s \in Slot |-> NoLink]
  /\ fault = "none"

Running == fault = "none"
HasLlid(e) == mu[e].stage \in {"connected", "named", "open"}
IsZombie(l) == lan[l].zombie >= 0
SlotsOf(e) == {s \in Slot : s[1] = e}
-----------------------------------------------------------------------------
(* Slots that lose their LAN, and what is told to the processes.             *)

\* Mutant: the loop ends after the first endpoint.
FirstOf_Single(S) == IF S = {} THEN {} ELSE {CHOOSE s \in S : TRUE}

\* Of each endpoint the first slot of S: what the endp_find_next_with... loops
\* of endp_evt.c meet, since they go on with the next endpoint.
FirstOf(S) == {s \in S : \A u \in S : u[1] = s[1] => s[2] <= u[2]}

\* endp_mngt_lan_disconnect for the slots of S: a request leaves only when no
\* answer is waited for, so at most one for each endpoint.
Told(S) == {s \in FirstOf(S) : HasLlid(s[1]) /\ mu[s[1]].resp = ""}
MuTold(S) == [e \in Endp |-> IF \E s \in Told(S) : s[1] = e
                             THEN [mu[e] EXCEPT !.resp = "disconnect"] ELSE mu[e]]

\* The endpoint process closes the connection (sock_fd_finish) and answers.
Reply(e, kind, l, t) == Append(pr[e].outbox, [kind |-> kind, lan |-> l, tidx |-> t])
PrTold(S) == [e \in Endp |->
  IF pr[e].alive /\ \E s \in Told(S) : s[1] = e
  THEN [pr[e] EXCEPT !.outbox =
          Reply(e, "disconnect_ok", NoLan, (CHOOSE s \in Told(S) : s[1] = e)[2])]
  ELSE pr[e]]
PsTold(S) == [s \in Slot |-> IF s \in Told(S) /\ pr[s[1]].alive
                             THEN [ps[s] EXCEPT !.link = NoLan, !.up = FALSE] ELSE ps[s]]

\* endp_evt_del_lan with endp_mngt_del_attached_lan: unless lan_to_name.c does
\* not know the LAN, the slot is emptied.  Its call of mulan_test_stop comes
\* while the slot still names the LAN, which is therefore in use: nothing stops.
DelLanSlot(r) ==
  IF nb_users[r.attached] = 0 THEN r
  ELSE [r EXCEPT !.lan_num = IF r.lan_num = r.attached THEN NoLan ELSE r.lan_num,
                 !.attached = NoLan, !.waiting = NoLan, !.asker = NoClient]

\* lan_del_name for the slots of S, when endp_mngt.c also has a LAN there.
NbDel(S) == [l \in Lan |->
  IF nb_users[l] = 0 THEN 0
  ELSE nb_users[l] - Cardinality({s \in S : sl[s].attached = l /\ sl[s].lan_num # NoLan})]

\* Mutant: init_waiting_lan leaves llid and tid.
NotWaiting_KeepsAsker(r) == [r EXCEPT !.waiting = NoLan]

\* init_waiting_lan(name, num, tidx, NULL, 0, 0)
NotWaiting(r) == [r EXCEPT !.waiting = NoLan, !.asker = NoClient]
-----------------------------------------------------------------------------
(* The end of an endpoint.                                                   *)

\* A process p ends or is abandoned; its end will be reported.
ProcessGone(p) == [alive |-> FALSE, outbox |-> p.outbox,
                   obituary |-> IF p.alive THEN p.obituary + 1 ELSE p.obituary]
NoLinks(e) == [s \in Slot |-> IF s[1] = e THEN NoLink ELSE ps[s]]

\* Mutant: endp_evt_quick_death frees the record without endp_evt_del_lan.
QuickDeathSlot_NoDel(r) == [EmptySlot EXCEPT !.lan_num = r.lan_num]

\* endp_evt_quick_death: every attached slot is deleted, then the record.  The
\* lan_num of a slot belongs to t_priv_endp and is not touched by endp_free.
QuickDeathSlot(r) == [EmptySlot EXCEPT
  !.lan_num = IF r.attached # NoLan THEN DelLanSlot(r).lan_num ELSE r.lan_num]
QuickDeath(e) ==
  /\ sl' = [s \in Slot |-> IF s[1] = e /\ mu[e].born THEN QuickDeathSlot(sl[s]) ELSE sl[s]]
  /\ nb_users' = NbDel({s \in SlotsOf(e) : sl[s].attached # NoLan})

\* endp_evt_quick_death, then muendp_free: KOUT when a slot still has a LAN.
\* The channel is closed, the process killed.  Timers name the endpoint, not
\* its record, and stay armed.  p is the process.
EndpGone(e, p) ==
  /\ QuickDeath(e)
  /\ IF \E s \in SlotsOf(e) : sl'[s].lan_num # NoLan
     THEN /\ fault' = "free_attached"
          /\ UNCHANGED <<mu, pr, ps>>
     ELSE /\ mu' = [mu EXCEPT ![e] = [NoEndp EXCEPT !.starts = mu[e].starts]]
          /\ pr' = [pr EXCEPT ![e] = [ProcessGone(p) EXCEPT !.outbox = <<>>]]
          /\ ps' = NoLinks(e)
          /\ UNCHANGED fault

\* endp_mngt_send_quit: the process is told to exit, timer_endp_free is armed.
\* m is the new t_priv_endp, box what is left to receive from the process.
SendQuit(e, m, box) ==
  /\ mu' = [mu EXCEPT ![e] = m]
  /\ pr' = [pr EXCEPT ![e] = [(IF HasLlid(e) THEN ProcessGone(pr[e]) ELSE pr[e])
                              EXCEPT !.outbox = box]]
  /\ ps' = IF HasLlid(e) THEN NoLinks(e) ELSE ps
-----------------------------------------------------------------------------
(* Requests of the clients.                                                  *)

\* endp_mngt_start: the record, the process and muendp_watchdog.
EndpStart(e) ==
  /\ Running
  /\ mu[e].stage = "none"
  /\ mu[e].starts < MaxStart
  /\ mu' = [mu EXCEPT ![e] = [NoEndp EXCEPT !.stage = "launched", !.starts = mu[e].starts + 1]]
  /\ pr' = [pr EXCEPT ![e] = [@ EXCEPT !.alive = TRUE, !.outbox = <<>>]]
  /\ et' = [et EXCEPT ![e].watchdog = @ + 1]
  /\ UNCHANGED <<sl, nb_users, lan, asking, chain, strays, lan_connect, ko_timer, ps,
                 fault>>

\* endp_mngt_stop: endp_evt_death, or muendp_free when there is no t_evendp.
EndpStop(e) ==
  /\ Running
  /\ mu[e].stage # "none"
  /\ ~mu[e].stop_done
  /\ IF mu[e].born
     THEN LET S == {s \in SlotsOf(e) : sl[s].attached # NoLan \/ sl[s].waiting # NoLan}
          IN  /\ mu' = [MuTold(S) EXCEPT ![e] = [@ EXCEPT !.stop_done = TRUE]]
              /\ pr' = PrTold(S)
              /\ ps' = PsTold(S)
              /\ et' = [et EXCEPT ![e].death = @ + 1]
              /\ UNCHANGED <<sl, nb_users, fault>>
     ELSE EndpGone(e, pr[e]) /\ UNCHANGED et
  /\ UNCHANGED <<lan, asking, chain, strays, lan_connect, ko_timer>>

\* local_add_lan and endp_evt_add_lan: the request is not refused.
FreeSlots(e) == {s \in SlotsOf(e) : sl[s].attached = NoLan /\ sl[s].waiting = NoLan}
Accepts(e, l) ==
  /\ ~IsZombie(l)
  /\ mu[e].born
  /\ \A s \in SlotsOf(e) : sl[s].attached # l
  /\ FreeSlots(e) # {}
  /\ mu[e].resp = ""

\* do_add_lan for slot s: a LAN that has no record is started, with a timer
\* that gives up; one that is in service is connected to; else the request
\* waits for endp_evt_mulan_birth.
DoAddLan(c, s, l) ==
  LET seq == IF lan[l].st = "none" THEN sl[s].seq + 1 ELSE sl[s].seq
  IN  /\ seq <= MaxSeq
      /\ sl' = [sl EXCEPT ![s] = [@ EXCEPT !.waiting = l, !.asker = c, !.seq = seq]]
      /\ IF lan[l].st = "none"
         THEN /\ lan' = [lan EXCEPT ![l] = [NoMulan EXCEPT !.st = "start", !.proc = "up"]]
              /\ ko_timer' = ko_timer \cup {<<s, l, seq>>}
         ELSE UNCHANGED <<lan, ko_timer>>
      /\ IF lan[l].st = "done"
         THEN /\ lan_connect' = [lan_connect EXCEPT ![<<s, l>>] = @ + 1]
              /\ mu' = [mu EXCEPT ![s[1]] = [@ EXCEPT !.resp = "unix_sock"]]
         ELSE UNCHANGED <<lan_connect, mu>>

LocalAddLan(c, e, l) ==
  IF Accepts(e, l)
  THEN /\ \E s \in FirstOf(FreeSlots(e)) : DoAddLan(c, s, l)
       /\ asking' = asking \cup {c}
  ELSE /\ asking' = asking \ {c}
       /\ UNCHANGED <<sl, lan, ko_timer, lan_connect, mu>>

\* The places where a request is held: slots, timer_endp, the coherency chain.
Holds(c) == ({"slot"} \X {s \in Slot : sl[s].asker = c})
            \cup ({"timer"} \X {e \in Endp : et[e].early.client = c})
            \cup ({"chain"} \X {x \in chain : x.client = c})

\* add_lan_endp without the coherency lock: while the endpoint has no t_evendp
\* the request is put aside (timer_endp_init), one for each endpoint.
AddLanEndp(c, e, l) ==
  IF mu[e].born
  THEN LocalAddLan(c, e, l) /\ UNCHANGED et
  ELSE /\ IF et[e].early = NoRequest
          THEN /\ et' = [et EXCEPT ![e] = [@ EXCEPT !.early = [client |-> c, lan |-> l]]]
               /\ asking' = asking \cup {c}
          ELSE /\ asking' = asking \ {c}
               /\ UNCHANGED et
       /\ UNCHANGED <<sl, lan, ko_timer, lan_connect, mu>>

\* recv_add_lan_endp: while the coherency lock is held (VmLife: it may be at any
\* time) the request waits in the chain.  The name of a request is given to a new
\* one when the server holds it no more.
AddLan(c, e, l) ==
  /\ Running
  /\ c \notin asking /\ Holds(c) = {}
  /\ IF mu[e].stage = "none"
     THEN UNCHANGED <<sl, lan, ko_timer, lan_connect, mu, asking, chain, et>>
     ELSE \/ AddLanEndp(c, e, l) /\ UNCHANGED chain
          \/ /\ Cardinality(chain) < MaxDelayed
             /\ chain' = chain \cup {[client |-> c, endp |-> e, lan |-> l]}
             /\ asking' = asking \cup {c}
             /\ UNCHANGED <<sl, lan, ko_timer, lan_connect, mu, et>>
  /\ strays' = strays \ {c}
  /\ UNCHANGED <<nb_users, pr, ps, fault>>

\* delayed_coherency_cmd_timeout once the lock is free.  The code empties its
\* chain in one callback and in order; here the requests leave it in any order,
\* and callbacks may come between them.
DelayedCoherency(x) ==
  /\ Running
  /\ x \in chain
  /\ chain' = chain \ {x}
  /\ AddLanEndp(x.client, x.endp, x.lan)
  /\ UNCHANGED <<strays, nb_users, pr, ps, fault>>

\* timer_endp: the request put aside is served, or refused after 100 tries.
TimerEndp(e) ==
  LET r == et[e].early
  IN  /\ Running
      /\ r # NoRequest
      /\ et' = [et EXCEPT ![e] = [@ EXCEPT !.early = NoRequest]]
      /\ IF mu[e].born
         THEN LocalAddLan(r.client, e, r.lan)
         ELSE /\ asking' = asking \ {r.client}
              /\ UNCHANGED <<sl, lan, ko_timer, lan_connect, mu>>
      /\ UNCHANGED <<nb_users, chain, strays, pr, ps, fault>>

\* recv_del_lan_endp
DelLan(e, l) ==
  /\ Running
  /\ nb_users[l] > 0
  /\ mu[e].born
  /\ \E s \in FirstOf({u \in SlotsOf(e) : sl[u].attached = l}) :
       /\ sl' = [sl EXCEPT ![s] = DelLanSlot(@)]
       /\ nb_users' = NbDel({s})
       /\ mu' = MuTold({s})
       /\ pr' = PrTold({s})
       /\ ps' = PsTold({s})
  /\ UNCHANGED <<lan, asking, chain, strays, et, lan_connect, ko_timer, fault>>
-----------------------------------------------------------------------------
(* The LAN records and their processes.                                      *)

\* endp_evt_mulan_death: of each endpoint the first slot that waits for the LAN
\* is refused, and the first slot attached to it is deleted.
MulanDeathEvent(l) ==
  LET W == FirstOf({s \in Slot : sl[s].waiting = l})
      A == FirstOf({s \in Slot : sl[s].attached = l})
  IN  /\ sl' = [s \in Slot |-> IF s \in A THEN DelLanSlot(sl[s])
                               ELSE IF s \in W THEN NotWaiting(sl[s]) ELSE sl[s]]
      /\ nb_users' = NbDel(A)
      /\ asking' = asking \ {sl[s].asker : s \in W}
      /\ mu' = MuTold(A)
      /\ pr' = PrTold(A)
      /\ ps' = PsTold(A)

\* trigger_zombie_kill, llid telling whether the process can be told to quit.
ZombieKill(l, llid) ==
  IF IsZombie(l)
  THEN /\ lan' = [lan EXCEPT ![l] = [@ EXCEPT !.llid = llid]]
       /\ UNCHANGED <<sl, nb_users, asking, mu, pr, ps>>
  ELSE /\ MulanDeathEvent(l)
       /\ lan' = [lan EXCEPT ![l] = [@ EXCEPT
                    !.llid = llid, !.zombie = 0,
                    !.proc = IF llid /\ lan[l].proc = "up" THEN "quitting" ELSE lan[l].proc]]

\* mulan_request_quit: from listen_ko, from timer_mulan_beat when the process
\* no longer answers, from mulan_del_all.
MulanRequestQuit(l) ==
  /\ Running
  /\ lan[l].st # "none"
  /\ ZombieKill(l, lan[l].llid)
  /\ UNCHANGED <<chain, strays, et, lan_connect, ko_timer, fault>>

\* timer_mulan_beat: trace_alloc.
MulanConnect(l) ==
  /\ Running
  /\ lan[l].st # "none"
  /\ ~lan[l].llid
  /\ lan[l].proc \in {"up", "quitting"}
  /\ lan' = [lan EXCEPT ![l] = [@ EXCEPT !.llid = TRUE]]
  /\ UNCHANGED <<mu, sl, nb_users, asking, chain, strays, et, lan_connect, ko_timer,
                 pr, ps, fault>>

\* mulan_pid_resp
MulanPid(l) ==
  /\ Running
  /\ lan[l].st = "start"
  /\ lan[l].llid
  /\ lan[l].proc \in {"up", "quitting"}
  /\ lan' = [lan EXCEPT ![l] = [@ EXCEPT !.st = "pid"]]
  /\ UNCHANGED <<mu, sl, nb_users, asking, chain, strays, et, lan_connect, ko_timer,
                 pr, ps, fault>>

\* timer_mulan_beat: cloonix_req_listen is sent.
MulanListen(l) ==
  /\ Running
  /\ lan[l].st = "pid"
  /\ lan[l].llid
  /\ lan' = [lan EXCEPT ![l] = [@ EXCEPT !.st = "wait"]]
  /\ UNCHANGED <<mu, sl, nb_users, asking, chain, strays, et, lan_connect, ko_timer,
                 pr, ps, fault>>

\* cloonix_resp_listen_ok, with endp_evt_mulan_birth: of each endpoint the first
\* slot that waits for the LAN is connected, if no answer is waited for.
MulanListenOk(l) ==
  LET C == {s \in FirstOf({u \in Slot : sl[u].waiting = l}) : mu[s[1]].resp = ""}
  IN  /\ Running
      /\ lan[l].st = "wait"
      /\ lan[l].llid
      /\ lan[l].proc \in {"up", "quitting"}
      /\ lan' = [lan EXCEPT ![l] = [@ EXCEPT !.st = "done"]]
      /\ lan_connect' = [x \in Slot \X Lan |->
           IF x[1] \in C /\ x[2] = l THEN lan_connect[x] + 1 ELSE lan_connect[x]]
      /\ mu' = [e \in Endp |-> IF \E s \in C : s[1] = e
                               THEN [mu[e] EXCEPT !.resp = "unix_sock"] ELSE mu[e]]
      /\ UNCHANGED <<sl, nb_users, asking, chain, strays, et, ko_timer, pr, ps, fault>>

\* mulan_err_cb: the channel to a process that has ended.
MulanErrCb(l) ==
  /\ Running
  /\ lan[l].llid
  /\ lan[l].proc = "dead"
  /\ ZombieKill(l, FALSE)
  /\ UNCHANGED <<chain, strays, et, lan_connect, ko_timer, fault>>

\* mulan_death, called when pid_clone.c has seen the process end.
MulanDeath(l) ==
  /\ Running
  /\ lan[l].proc = "dead"
  /\ MulanDeathEvent(l)
  /\ lan' = [lan EXCEPT ![l] = [NoMulan EXCEPT !.zombie = lan[l].zombie]]
  /\ UNCHANGED <<chain, strays, et, lan_connect, ko_timer, fault>>

\* The LAN process ends: it was told to, was killed, or crashed.
Unlinked(l) == [s \in Slot |-> IF ps[s].link = l
                               THEN [ps[s] EXCEPT !.link = NoLan, !.up = FALSE] ELSE ps[s]]
MulanExit(l) ==
  /\ Running
  /\ lan[l].proc \in {"up", "quitting"}
  /\ lan' = [lan EXCEPT ![l] = [@ EXCEPT !.proc = "dead"]]
  /\ ps' = Unlinked(l)
  /\ UNCHANGED <<mu, sl, nb_users, asking, chain, strays, et, lan_connect, ko_timer,
                 pr, fault>>

\* Mutant: the process is never killed.
TimerZombieKill_NoKill(l) ==
  /\ Running
  /\ IsZombie(l)
  /\ lan' = [lan EXCEPT ![l] = [@ EXCEPT !.zombie = IF lan[l].st # "none" THEN 0 ELSE -1]]
  /\ UNCHANGED <<mu, sl, nb_users, asking, chain, strays, et, lan_connect, ko_timer,
                 pr, ps, fault>>

\* timer_zombie_kill: while the record exists it counts, and kills the process
\* after ZombieRetimes; else the LAN is no longer a zombie.  The count stops
\* there, where it makes no more difference.
TimerZombieKill(l) ==
  LET count == IF lan[l].zombie > ZombieRetimes THEN lan[l].zombie ELSE lan[l].zombie + 1
      killed == count > ZombieRetimes /\ lan[l].proc \in {"up", "quitting"}
  IN  /\ Running
      /\ IsZombie(l)
      /\ IF lan[l].st # "none"
         THEN lan' = [lan EXCEPT ![l] = [@ EXCEPT !.zombie = count,
                                            !.proc = IF killed THEN "dead" ELSE lan[l].proc]]
         ELSE lan' = [lan EXCEPT ![l] = [@ EXCEPT !.zombie = -1]]
      /\ ps' = IF lan[l].st # "none" /\ killed THEN Unlinked(l) ELSE ps
      /\ UNCHANGED <<mu, sl, nb_users, asking, chain, strays, et, lan_connect,
                     ko_timer, pr, fault>>
-----------------------------------------------------------------------------
(* The endpoint records and their processes.                                 *)

\* timer_endp_beat: trace_alloc.
EndpConnect(e) ==
  /\ Running
  /\ mu[e].stage = "launched"
  /\ pr[e].alive
  /\ mu' = [mu EXCEPT ![e] = [@ EXCEPT !.stage = "connected"]]
  /\ UNCHANGED <<sl, nb_users, lan, asking, chain, strays, et, lan_connect, ko_timer,
                 pr, ps, fault>>

\* endp_mngt_pid_resp
EndpPid(e) ==
  /\ Running
  /\ mu[e].stage = "connected"
  /\ pr[e].alive
  /\ mu' = [mu EXCEPT ![e] = [@ EXCEPT !.stage = "named"]]
  /\ UNCHANGED <<sl, nb_users, lan, asking, chain, strays, et, lan_connect, ko_timer,
                 pr, ps, fault>>

\* timer_endp_beat: send_type_req at every beat until an answer has come.
EndpTypeReq(e) ==
  /\ Running
  /\ mu[e].stage = "named"
  /\ pr[e].alive
  /\ Len(pr[e].outbox) < MaxTypeReq
  /\ \E kind \in {"type_ok", "type_ko"}, t \in Tidx :
       /\ \A u \in Tidx : t <= u
       /\ pr' = [pr EXCEPT ![e] = [@ EXCEPT !.outbox = Reply(e, kind, NoLan, t)]]
  /\ UNCHANGED <<mu, sl, nb_users, lan, asking, chain, strays, et, lan_connect,
                 ko_timer, ps, fault>>

\* timer_endp_beat: the process does not listen, or no longer answers.
EndpBeatQuit(e) ==
  /\ Running
  /\ mu[e].stage \in {"launched", "open"}
  /\ et[e].free < MaxQuit
  /\ SendQuit(e, [mu[e] EXCEPT !.resp = "quit"], pr[e].outbox)
  /\ et' = [et EXCEPT ![e].free = @ + 1]
  /\ UNCHANGED <<sl, nb_users, lan, asking, chain, strays, lan_connect, ko_timer, fault>>

\* muendp_watchdog
MuendpWatchdog(e) ==
  /\ Running
  /\ et[e].watchdog > 0
  /\ et' = [et EXCEPT ![e].watchdog = @ - 1]
  /\ IF mu[e].stage \in {"launched", "connected"} THEN EndpGone(e, pr[e])
     ELSE UNCHANGED <<mu, sl, nb_users, pr, ps, fault>>
  /\ UNCHANGED <<lan, asking, chain, strays, lan_connect, ko_timer>>

\* endp_mngt_err_cb: everything the process sent has been received.
EndpErrCb(e) ==
  /\ Running
  /\ HasLlid(e)
  /\ ~pr[e].alive
  /\ pr[e].outbox = <<>>
  /\ EndpGone(e, pr[e])
  /\ UNCHANGED <<lan, asking, chain, strays, et, lan_connect, ko_timer>>

\* muendp_death finds the record by name, whatever process it belongs to now.
MuendpDeath(e) ==
  LET p == [pr[e] EXCEPT !.obituary = @ - 1]
  IN  /\ Running
      /\ pr[e].obituary > 0
      /\ IF mu[e].stage # "none" THEN EndpGone(e, p)
         ELSE /\ pr' = [pr EXCEPT ![e] = p]
              /\ UNCHANGED <<mu, sl, nb_users, ps, fault>>
      /\ UNCHANGED <<lan, asking, chain, strays, et, lan_connect, ko_timer>>

\* Mutant: endp_mngt_send_quit is not called.
TimerEndpDeath_NoQuit(e) ==
  /\ Running
  /\ et[e].death > 0
  /\ et' = [et EXCEPT ![e].death = @ - 1]
  /\ mu' = [mu EXCEPT ![e] = [@ EXCEPT !.born = FALSE]]
  /\ QuickDeath(e)
  /\ UNCHANGED <<pr, ps, lan, asking, chain, strays, lan_connect, ko_timer, fault>>

\* timer_endp_death: endp_mngt_send_quit, then endp_evt_quick_death.
TimerEndpDeath(e) ==
  /\ Running
  /\ et[e].death > 0
  /\ IF mu[e].stage # "none"
     THEN /\ SendQuit(e, [mu[e] EXCEPT !.resp = "quit", !.born = FALSE], pr[e].outbox)
          /\ et' = [et EXCEPT ![e].death = @ - 1, ![e].free = @ + 1]
          /\ QuickDeath(e)
     ELSE /\ et' = [et EXCEPT ![e].death = @ - 1]
          /\ UNCHANGED <<mu, pr, ps, sl, nb_users>>
  /\ UNCHANGED <<lan, asking, chain, strays, lan_connect, ko_timer, fault>>

\* timer_endp_free
TimerEndpFree(e) ==
  /\ Running
  /\ et[e].free > 0
  /\ et' = [et EXCEPT ![e].free = @ - 1]
  /\ IF mu[e].stage # "none" THEN EndpGone(e, pr[e])
     ELSE UNCHANGED <<mu, sl, nb_users, pr, ps, fault>>
  /\ UNCHANGED <<lan, asking, chain, strays, lan_connect, ko_timer>>
-----------------------------------------------------------------------------
(* endp_mngt_rpct_recv_diag_msg, for each answer of an endpoint process.     *)

Received(e, kinds) ==
  /\ HasLlid(e)
  /\ pr[e].outbox # <<>>
  /\ Head(pr[e].outbox).kind \in kinds
Taken(e) == [pr EXCEPT ![e].outbox = Tail(@)]

RecvTypeOk(e) ==
  /\ Running
  /\ Received(e, {"type_ok"})
  /\ mu' = [mu EXCEPT ![e] = [@ EXCEPT !.stage = "open", !.born = TRUE, !.resp = ""]]
  /\ pr' = Taken(e)
  /\ UNCHANGED <<sl, nb_users, lan, asking, chain, strays, et, lan_connect, ko_timer,
                 ps, fault>>

\* waiting_resp is cleared after endp_mngt_send_quit has set it.
RecvTypeKo(e) ==
  /\ Running
  /\ Received(e, {"type_ko"})
  /\ SendQuit(e, [mu[e] EXCEPT !.stage = "open", !.resp = ""], Tail(pr[e].outbox))
  /\ et' = [et EXCEPT ![e].free = @ + 1]
  /\ UNCHANGED <<sl, nb_users, lan, asking, chain, strays, lan_connect, ko_timer, fault>>

RecvDisconnectOk(e) ==
  /\ Running
  /\ Received(e, {"disconnect_ok"})
  /\ mu' = [mu EXCEPT ![e] = [@ EXCEPT !.resp = ""]]
  /\ pr' = Taken(e)
  /\ UNCHANGED <<sl, nb_users, lan, asking, chain, strays, et, lan_connect, ko_timer,
                 ps, fault>>

\* Mutant: endp_evt_connect_OK does not call init_waiting_lan.
Attached_KeepsWaiting(r, l) == [r EXCEPT
  !.attached = l, !.lan_num = IF r.lan_num = NoLan THEN l ELSE r.lan_num]

\* Mutant: lan_add_name counts the first user only.
NbAdd_FirstOnly(s, l) == [nb_users EXCEPT ![l] = 1]

\* endp_evt_connect_OK and endp_evt_connect_KO of the slot the answer names.
Attached(r, l) == [NotWaiting(r) EXCEPT
  !.attached = l, !.lan_num = IF r.lan_num = NoLan THEN l ELSE r.lan_num]
NbAdd(s, l) == IF sl[s].lan_num = NoLan THEN [nb_users EXCEPT ![l] = @ + 1] ELSE nb_users

\* An answer the slot does not wait for is given to whatever the uninitialised
\* llid and tid designate: nobody, a client whose values an earlier call has left
\* there, or msg_exist_channel ends the server because llid is out of range.
StrayAnswer ==
  /\ \/ fault' \in {"none", "bad_llid"} /\ UNCHANGED <<asking, strays>>
     \/ \E c \in Client : /\ asking' = asking \ {c}
                          /\ strays' = strays \cup {c}
                          /\ UNCHANGED fault
  /\ UNCHANGED <<sl, nb_users>>

RecvConnectOk(e) ==
  LET s == <<e, Head(pr[e].outbox).tidx>>
      l == Head(pr[e].outbox).lan
  IN  /\ Running
      /\ Received(e, {"connect_ok"})
      /\ mu' = [mu EXCEPT ![e] = [@ EXCEPT !.resp = ""]]
      /\ pr' = Taken(e)
      /\ \/ /\ ~mu[e].born
            /\ UNCHANGED <<sl, nb_users, asking, strays, fault>>
         \/ /\ mu[e].born
            /\ sl[s].waiting = l
            /\ sl' = [sl EXCEPT ![s] = Attached(@, l)]
            /\ nb_users' = NbAdd(s, l)
            /\ asking' = asking \ {sl[s].asker}
            /\ UNCHANGED <<strays, fault>>
         \/ /\ mu[e].born
            /\ sl[s].waiting # l
            /\ StrayAnswer
      /\ UNCHANGED <<lan, chain, et, lan_connect, ko_timer, ps>>

RecvConnectKo(e) ==
  LET s == <<e, Head(pr[e].outbox).tidx>>
      l == Head(pr[e].outbox).lan
  IN  /\ Running
      /\ Received(e, {"connect_ko"})
      /\ mu' = [mu EXCEPT ![e] = [@ EXCEPT !.resp = ""]]
      /\ pr' = Taken(e)
      /\ \/ /\ ~mu[e].born
            /\ UNCHANGED <<sl, nb_users, asking, strays, fault>>
         \/ /\ mu[e].born
            /\ sl[s].waiting = l
            /\ sl' = [sl EXCEPT ![s] = NotWaiting(@)]
            /\ asking' = asking \ {sl[s].asker}
            /\ UNCHANGED <<nb_users, strays, fault>>
         \/ /\ mu[e].born
            /\ sl[s].waiting # l
            /\ StrayAnswer
      /\ UNCHANGED <<lan, chain, et, lan_connect, ko_timer, ps>>
-----------------------------------------------------------------------------
(* The connection of a slot to a LAN.                                        *)

\* timer_lan_connect, and connect_req_process in the endpoint process: it
\* refuses when the slot has a connection or the LAN's socket does not answer.
TimerLanConnect(s, l) ==
  LET e == s[1]
      unreachable == lan[l].proc \notin {"up", "quitting"}
  IN  /\ Running
      /\ lan_connect[<<s, l>>] > 0
      /\ lan_connect' = [lan_connect EXCEPT ![<<s, l>>] = @ - 1]
      /\ IF mu[e].stage = "launched"
         THEN mu' = [mu EXCEPT ![e] = [@ EXCEPT !.resp = ""]]
         ELSE UNCHANGED mu
      /\ \/ /\ ~(HasLlid(e) /\ pr[e].alive)
            /\ UNCHANGED <<pr, ps>>
         \/ /\ HasLlid(e) /\ pr[e].alive
            /\ ps[s].link # NoLan \/ unreachable \/ lan[l].st = "start"
            /\ pr' = [pr EXCEPT ![e] = [@ EXCEPT !.outbox = Reply(e, "connect_ko", l, s[2])]]
            /\ UNCHANGED ps
         \/ /\ HasLlid(e) /\ pr[e].alive
            /\ ps[s].link = NoLan /\ ~unreachable
            /\ ps' = [ps EXCEPT ![s] = [link |-> l, up |-> FALSE, con |-> ps[s].con \cup {l}]]
            /\ UNCHANGED pr
      /\ UNCHANGED <<sl, nb_users, lan, asking, chain, strays, et, ko_timer, fault>>

\* mulan_req_start: the handshake and the rank of the LAN are done.  con_llid
\* is forgotten, so that no timer of the slot answers any more.
ProcConnectOk(s) ==
  LET e == s[1]
      l == ps[s].link
  IN  /\ Running
      /\ l # NoLan
      /\ ~ps[s].up
      /\ lan[l].proc = "up" /\ lan[l].st = "done"
      /\ ps' = [ps EXCEPT ![s] = [@ EXCEPT !.up = TRUE, !.con = {}]]
      /\ pr' = IF ps[s].con = {} THEN pr
               ELSE [pr EXCEPT ![e] = [@ EXCEPT !.outbox = Reply(e, "connect_ok", l, s[2])]]
      /\ UNCHANGED <<mu, sl, nb_users, lan, asking, chain, strays, et, lan_connect,
                     ko_timer, fault>>

\* muend_resp_rank_alloc_ko, a traffic socket that does not open, or
\* mulan_req_end from a LAN that quits: sock_fd_finish, no answer yet.
ProcLinkLost(s) ==
  /\ Running
  /\ ps[s].link # NoLan
  /\ ~ps[s].up \/ lan[ps[s].link].proc = "quitting"
  /\ ps' = [ps EXCEPT ![s] = [@ EXCEPT !.link = NoLan, !.up = FALSE]]
  /\ UNCHANGED <<mu, sl, nb_users, lan, asking, chain, strays, et, lan_connect,
                 ko_timer, pr, fault>>

\* fct_timeout_mulan: the timer of a connection that has had no answer.  It
\* answers for its own LAN and closes whatever connection the slot has now.
ProcTimeout(s, l) ==
  /\ Running
  /\ l \in ps[s].con
  /\ ps' = [ps EXCEPT ![s] = NoLink]
  /\ pr' = [pr EXCEPT ![s[1]] = [@ EXCEPT !.outbox = Reply(s[1], "connect_ko", l, s[2])]]
  /\ UNCHANGED <<mu, sl, nb_users, lan, asking, chain, strays, et, lan_connect,
                 ko_timer, fault>>

\* The endpoint process crashes.
ProcExit(e) ==
  /\ Running
  /\ pr[e].alive
  /\ pr[e].obituary < MaxCrash
  /\ pr' = [pr EXCEPT ![e] = ProcessGone(@)]
  /\ ps' = NoLinks(e)
  /\ UNCHANGED <<mu, sl, nb_users, lan, asking, chain, strays, et, lan_connect,
                 ko_timer, fault>>

\* Mutant: the timer answers only a slot whose counter has moved on.
TimerEvt_Stale(s, l, seq) ==
  /\ Running
  /\ <<s, l, seq>> \in ko_timer
  /\ ko_timer' = ko_timer \ {<<s, l, seq>>}
  /\ IF mu[s[1]].born /\ sl[s].asker # NoClient /\ sl[s].waiting = l /\ sl[s].seq > seq
     THEN /\ sl' = [sl EXCEPT ![s] = NotWaiting(@)]
          /\ asking' = asking \ {sl[s].asker}
     ELSE UNCHANGED <<sl, asking>>
  /\ UNCHANGED <<mu, nb_users, lan, chain, strays, et, lan_connect, pr, ps, fault>>

\* timer_evt
TimerEvt(s, l, seq) ==
  /\ Running
  /\ <<s, l, seq>> \in ko_timer
  /\ ko_timer' = ko_timer \ {<<s, l, seq>>}
  /\ IF /\ mu[s[1]].born
        /\ sl[s].asker # NoClient
        /\ sl[s].waiting = l
        /\ sl[s].seq = seq
        /\ sl[s].attached = NoLan
     THEN /\ sl' = [sl EXCEPT ![s] = NotWaiting(@)]
          /\ asking' = asking \ {sl[s].asker}
     ELSE UNCHANGED <<sl, asking>>
  /\ UNCHANGED <<mu, nb_users, lan, chain, strays, et, lan_connect, pr, ps, fault>>
-----------------------------------------------------------------------------
EndpStep(e) ==
  \/ EndpStart(e) \/ EndpStop(e) \/ TimerEndp(e)
  \/ EndpConnect(e) \/ EndpPid(e) \/ EndpTypeReq(e) \/ EndpBeatQuit(e)
  \/ MuendpWatchdog(e) \/ EndpErrCb(e) \/ MuendpDeath(e)
  \/ TimerEndpDeath(e) \/ TimerEndpFree(e)
  \/ RecvTypeOk(e) \/ RecvTypeKo(e) \/ RecvDisconnectOk(e)
  \/ RecvConnectOk(e) \/ RecvConnectKo(e) \/ ProcExit(e)
LanStep(l) ==
  \/ MulanRequestQuit(l) \/ MulanConnect(l) \/ MulanPid(l) \/ MulanListen(l)
  \/ MulanListenOk(l) \/ MulanErrCb(l) \/ MulanDeath(l) \/ MulanExit(l)
  \/ TimerZombieKill(l)
SlotStep(s) ==
  \/ ProcConnectOk(s) \/ ProcLinkLost(s)
  \/ \E l \in Lan : TimerLanConnect(s, l) \/ ProcTimeout(s, l)
  \/ \E l \in Lan, seq \in 1..MaxSeq : TimerEvt(s, l, seq)
Next ==
  \/ \E e \in Endp : EndpStep(e)
  \/ \E l \in Lan : LanStep(l)
  \/ \E s \in Slot : SlotStep(s)
  \/ \E c \in Client, e \in Endp, l \in Lan : AddLan(c, e, l)
  \/ \E x \in chain : DelayedCoherency(x)
  \/ \E e \in Endp, l \in Lan : DelLan(e, l)

Spec == Init /\ [][Next]_vars

\* Timers expire (ClownixTimer) and pid_clone.c reports a LAN process that has
\* ended.  No process has to answer, or to quit when it is told to.
Fairness ==
  /\ \A l \in Lan : WF_vars(TimerZombieKill(l)) /\ WF_vars(MulanDeath(l))
  /\ \A e \in Endp : WF_vars(TimerEndpDeath(e)) /\ WF_vars(TimerEndpFree(e))
  /\ \A s \in Slot, l \in Lan, seq \in 1..MaxSeq : WF_vars(TimerEvt(s, l, seq))
FairSpec == Spec /\ Fairness
-----------------------------------------------------------------------------
(* Properties.                                                               *)

\* endp_evt.c and endp_mngt.c agree on the LAN of every slot, an endpoint
\* without t_evendp has none, and a slot is not both attached and waiting.
AttachConsistent ==
  /\ \A s \in Slot :
       /\ sl[s].lan_num = sl[s].attached
       /\ ~mu[s[1]].born => sl[s].attached = NoLan /\ sl[s].waiting = NoLan
       /\ sl[s].attached # NoLan => sl[s].waiting = NoLan
  /\ \A e \in Endp : mu[e].born => mu[e].stage # "none"

\* nb_users of lan_to_name.c is the number of slots that have the LAN, so that
\* the LAN's index and its place in the layout live as long as it has a user.
UsersOf(l) == {s \in Slot : sl[s].lan_num = l}
NbUsersExact == \A l \in Lan : nb_users[l] = Cardinality(UsersOf(l))

\* The KOUT of muendp_free, "a slot still has a LAN", is never reached: whatever
\* ends the endpoint, the slots were emptied before.
FreeFindsNoLan == fault # "free_attached"

\* A request is held in one place at most, a slot, timer_endp or the coherency
\* chain, and only while it has had no answer: no client is answered twice, but
\* for the one that an answer to no request reaches (StrayAnswer).
AnsweredOnce ==
  \A c \in Client : /\ Holds(c) # {} /\ c \notin strays => c \in asking
                    /\ \A x, y \in Holds(c) : x = y

\* With one slot to an endpoint: a LAN that some slot has or waits for has its
\* record, and is no zombie.  A LAN's death reaches all its endpoints.
SlotLanLives ==
  \A s \in Slot, l \in Lan : l \in {sl[s].attached, sl[s].waiting}
    => lan[l].st # "none" /\ ~IsZombie(l)

\* trigger_zombie_kill: a LAN name that is a zombie, for which add lan is
\* refused, becomes usable again although the process ignores the quit request.
LanNameReusable == \A l \in Lan : []<>(~IsZombie(l) \/ ~Running)

\* endp_mngt_stop: an endpoint that is being stopped is freed, whether or not
\* its process answers.
StopFrees == \A e \in Endp : []<>(~mu[e].stop_done \/ ~Running)

\* endp_timer_ko_resp: the slot for which a LAN was started is served or
\* refused, whatever becomes of the LAN process.
StartTimesOut ==
  \A s \in Slot, l \in Lan :
    (sl[s].waiting = l /\ <<s, l, sl[s].seq>> \in ko_timer)
      ~> (sl[s].waiting = NoLan \/ ~Running)
==================================================================================
