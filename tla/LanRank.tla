------------------------------ MODULE LanRank ------------------------------
(***************************************************************************)
(* The process of one LAN (muswitch/lib_mulan) and the endpoint slots that *)
(* connect to it (muswitch/lib_muend).  A slot opens a signalling channel, *)
(* asks for a rank, opens a traffic channel, acknowledges its rank and is  *)
(* started.  The two channels of a slot are read in any order, and many    *)
(* slots are in this dialog at once.                                       *)
(*                                                                         *)
(* A connection is its number: the LAN's llid of the signalling channel,   *)
(* and that of the one traffic channel the slot opens along with it.       *)
(***************************************************************************)
EXTENDS Integers, Sequences, FiniteSets, FiniteSetsExt

CONSTANTS
    Ep,                 \* endpoint slots: a name, a number and a tidx
    MAX_USOCK_RANKS,
    MaxCon              \* bound: connections

ASSUME RankAssumption ==
    /\ MAX_USOCK_RANKS \in Nat \ {0} /\ MaxCon \in Nat
    /\ Ep # {} /\ IsFiniteSet(Ep)

Con == 1 .. MaxCon
Rank == 1 .. MAX_USOCK_RANKS - 1

VARIABLES
    ep,     \* of each slot: its channels, its answer, its timers
    net,    \* of each connection: which ends are open, what is under way
    lan,    \* the LAN process
    ncon    \* connections made

vars == <<ep, net, lan, ncon>>

\* t_traf_endp: llid_lan, llid_traf; ok is the connection that was answered
\* with cloonix_resp_connect_ok, pend the timers that hold the current
\* timeout_mulan_id (with con_llid set as long as there is one).
NoChannel == [lan |-> 0, traf |-> 0, ok |-> 0, pend |-> 0]

Unused == [owner |-> {}, sig |-> {}, trf |-> {}, up |-> <<>>, down |-> <<>>,
           opening |-> FALSE]

\* t_llid_rank, found by its llid; without a prechoice_rank there is none.
NoRec == [pre |-> 0, rank |-> 0, traf |-> 0]

Init ==
    /\ ep = [e \in Ep |-> NoChannel]
    /\ net = [n \in Con |-> Unused]
    /\ lan = [st |-> "run", rec |-> [n \in Con |-> NoRec],
              present |-> [r \in Rank |-> 0], max |-> 0, chain |-> {},
              member |-> [n \in Con |-> FALSE]]
    /\ ncon = 0

HasRec(n) == lan.rec[n].pre # 0

Ack(r) == [k |-> "ack", rank |-> r]
AllocOk(r) == [k |-> "alloc_ok", rank |-> r]
Msg(kind) == [k |-> kind, rank |-> 0]

SendUp(nt, n, m) ==
    IF nt[n].sig = {"e", "l"} THEN [nt EXCEPT ![n].up = Append(@, m)] ELSE nt
SendDown(nt, n, m) ==
    IF nt[n].sig = {"e", "l"} THEN [nt EXCEPT ![n].down = Append(@, m)] ELSE nt

-----------------------------------------------------------------------------
\* The endpoint: lib_muend.

\* sock_fd_finish: both channels are closed.
Finished(e) == [ep EXCEPT ![e].lan = 0, ![e].traf = 0, ![e].ok = 0]
FinishNet(nt, e) ==
    [n \in Con |->
        [nt[n] EXCEPT !.sig = IF n = ep[e].lan THEN @ \ {"e"} ELSE @,
                      !.down = IF n = ep[e].lan THEN <<>> ELSE @,
                      !.trf = IF n = ep[e].traf THEN @ \ {"e"} ELSE @]]

\* connect_req_process.  A slot that has its channel refuses, as does one that
\* finds no LAN to connect to; neither changes anything.
Connect(e) ==
    /\ ep[e].lan = 0 /\ lan.st # "dead"
    /\ ncon < MaxCon
    /\ ncon' = ncon + 1
    /\ ep' = [ep EXCEPT ![e].lan = ncon + 1, ![e].pend = @ + 1]
    /\ net' = [net EXCEPT ![ncon + 1] =
                  [Unused EXCEPT !.owner = {e}, !.sig = {"e", "l"},
                                 !.up = <<Msg("handshake")>>]]
    /\ UNCHANGED lan

\* lan_diag of lib_muend.  The traffic socket listens until the LAN quits.
EpRecv(e) ==
    LET n == ep[e].lan
        m == Head(net[n].down)
        nt == [net EXCEPT ![n].down = Tail(@)]
    IN  /\ n # 0 /\ net[n].down # <<>>
        /\ \/ /\ m.k = "handshake_ok"
              /\ net' = SendUp(nt, n, Msg("req_rank"))
              /\ UNCHANGED ep
           \/ /\ m.k = "alloc_ok" /\ lan.st = "run"
              /\ ep' = [ep EXCEPT ![e].traf = n]
              /\ net' = SendUp([nt EXCEPT ![n].trf = {"e", "l"},
                                          ![n].opening = TRUE], n, Ack(m.rank))
           \/ /\ m.k = "start"
              /\ ep' = [ep EXCEPT ![e].ok = n, ![e].pend = 0]
              /\ net' = nt
           \/ /\ \/ m.k \in {"alloc_ko", "end"}
                 \/ m.k = "alloc_ok" /\ lan.st # "run"
              /\ ep' = Finished(e) /\ net' = FinishNet(nt, e)
        /\ UNCHANGED <<lan, ncon>>

\* err_cb of diag.c: the signalling channel has ended.  An error comes before
\* what was not read yet.
EpErrLan(e) ==
    /\ ep[e].lan # 0 /\ net[ep[e].lan].sig = {"e"}
    /\ ep' = [ep EXCEPT ![e].lan = 0]
    /\ net' = [net EXCEPT ![ep[e].lan].sig = {}, ![ep[e].lan].down = <<>>]
    /\ UNCHANGED <<lan, ncon>>

\* err_sock_cb
EpErrTraf(e) ==
    /\ ep[e].traf # 0 /\ net[ep[e].traf].trf = {"e"}
    /\ ep' = Finished(e) /\ net' = FinishNet(net, e)
    /\ UNCHANGED <<lan, ncon>>

\* fct_timeout_mulan: by the time of an answer the id has changed, but not by
\* that of a disconnection, so that this may be the timer of an earlier one.
EpTimeout(e) ==
    /\ ep[e].pend > 0
    /\ ep' = [Finished(e) EXCEPT ![e].pend = 0]
    /\ net' = FinishNet(net, e)
    /\ UNCHANGED <<lan, ncon>>

\* cloonix_req_disconnect, or the end of the process, with its timers.
EpDisconnect(e) ==
    /\ ep[e].lan # 0
    /\ \/ ep' = Finished(e)
       \/ ep' = [Finished(e) EXCEPT ![e].pend = 0]
    /\ net' = FinishNet(net, e)
    /\ UNCHANGED <<lan, ncon>>

-----------------------------------------------------------------------------
\* The LAN process: rank_mngt.c and llid_rank.c.

\* adjust_max_rank
AdjustMax(present) ==
    LET used == {r \in Rank : present[r] # 0}
    IN  IF used = {} THEN 1 ELSE Max(used) + 1

\* Mutant: a rank that was chosen and not acknowledged yet is chosen again.
RankGetFree_Active(l) ==
    LET free == {r \in Rank : l.present[r] = 0}
    IN  IF free = {} THEN 0 ELSE Min(free)

\* rank_get_free
RankGetFree(l) ==
    LET free == {r \in Rank : /\ l.present[r] = 0
                              /\ \A n \in Con : l.rec[n].pre # r}
    IN  IF free = {} THEN 0 ELSE Min(free)

\* llid_rank_llid_create: nothing when the slot has a record of another channel.
LlidCreate(l, n, r) ==
    IF \E k \in Con : /\ l.rec[k].pre # 0
                      /\ net[k].owner = net[n].owner \/ k = n \/ l.rec[k].pre = r
    THEN l ELSE [l EXCEPT !.rec[n] = [NoRec EXCEPT !.pre = r]]

\* Mutant: traf_chain_extract is not called.
Freed_KeepsChain(l, n) ==
    LET left == [r \in Rank |-> IF r = l.rec[n].rank THEN 0 ELSE l.present[r]]
    IN  [l EXCEPT !.rec[n] = NoRec, !.present = left,
                  !.max = IF left # l.present THEN AdjustMax(left) ELSE @]

\* rank_has_become_inactive and free_llid_rank
Freed(l, n) ==
    LET left == [r \in Rank |-> IF r = l.rec[n].rank THEN 0 ELSE l.present[r]]
    IN  [l EXCEPT !.rec[n] = NoRec, !.chain = @ \ {l.rec[n].traf},
                  !.present = left,
                  !.max = IF left # l.present THEN AdjustMax(left) ELSE @]
FreedNet(nt, n) ==
    [k \in Con |->
        [nt[k] EXCEPT !.sig = IF k = n THEN @ \ {"l"} ELSE @,
                      !.up = IF k = n THEN <<>> ELSE @,
                      !.trf = IF k = lan.rec[n].traf THEN @ \ {"l"} ELSE @]]

\* exit or KOUT: every channel ends.
Exit ==
    /\ lan' = [lan EXCEPT !.st = "dead"]
    /\ net' = [n \in Con |->
                  [net[n] EXCEPT !.sig = @ \ {"l"}, !.trf = @ \ {"l"}, !.up = <<>>]]

\* The event loop serves channels in the order in which they became ready: the
\* end of an earlier connection of a slot is seen before what it sent after.
Ready(n) ==
    \A k \in 1 .. n - 1 :
        net[k].owner = net[n].owner => {"l"} \notin {net[k].sig, net[k].trf}

\* rank_dialog
ReqRank(n) ==
    LET nt == [net EXCEPT ![n].up = Tail(@)]
        r == RankGetFree(lan)
    IN  IF r = 0
        THEN net' = SendDown(nt, n, Msg("alloc_ko")) /\ lan' = lan
        ELSE net' = SendDown(nt, n, AllocOk(r)) /\ lan' = LlidCreate(lan, n, r)

\* rank_has_become_active and llid_rank_peer_rank_set; a refusal has no answer.
AckRank(n, r) ==
    LET nt == [net EXCEPT ![n].up = Tail(@)]
        act == [lan EXCEPT !.rec[n].rank = r, !.present[r] = n]
    IN  IF (\E k \in Con : lan.rec[k].rank = r) \/ lan.rec[n].pre # r
        THEN net' = nt /\ lan' = lan
        ELSE /\ net' = SendDown(nt, n, Msg("start"))
             /\ lan' = [act EXCEPT !.max = AdjustMax(act.present)]

\* rpct_recv_diag_msg of lib_mulan.  One that quits answers nothing of use.
LanRecv(n) ==
    LET m == Head(net[n].up)
        nt == [net EXCEPT ![n].up = Tail(@)]
    IN  /\ "l" \in net[n].sig /\ net[n].up # <<>> /\ Ready(n)
        /\ \/ lan.st = "quit" /\ net' = nt /\ lan' = lan
           \/ /\ lan.st = "run" /\ m.k = "handshake"
              /\ net' = SendDown(nt, n, Msg("handshake_ok")) /\ lan' = lan
           \/ lan.st = "run" /\ m.k = "req_rank" /\ ReqRank(n)
           \/ lan.st = "run" /\ m.k = "ack" /\ AckRank(n, m.rank)
        /\ UNCHANGED <<ep, ncon>>

\* Mutant: the traffic of a slot without an acknowledged rank is refused.
LanTraf_NeedsRank(n) ==
    LET own == {k \in Con : HasRec(k) /\ net[k].owner = net[n].owner
                            /\ lan.rec[k].rank # 0}
    IN  /\ "l" \in net[n].trf /\ net[n].opening /\ Ready(n)
        /\ net' = [net EXCEPT ![n].opening = FALSE]
        /\ lan' = [lan EXCEPT
                      !.member[n] = own # {},
                      !.rec = [k \in Con |-> IF k \in own THEN [@[k] EXCEPT !.traf = n]
                                             ELSE @[k]],
                      !.chain = IF own = {} THEN @ ELSE @ \cup {n}]
        /\ UNCHANGED <<ep, ncon>>

\* rx_init_traf_cb and llid_rank_traf_connect: the record is found by name.
\* member is which of the two pairs of callbacks the channel has.
LanTraf(n) ==
    LET own == {k \in Con : HasRec(k) /\ net[k].owner = net[n].owner}
        join == {k \in own : lan.rec[k].traf = 0}
    IN  /\ "l" \in net[n].trf /\ net[n].opening /\ Ready(n)
        /\ net' = [net EXCEPT ![n].opening = FALSE]
        /\ lan' = [lan EXCEPT
                      !.member[n] = own # {},
                      !.rec = [k \in Con |-> IF k \in join THEN [@[k] EXCEPT !.traf = n]
                                             ELSE @[k]],
                      !.chain = IF join = {} THEN @ ELSE @ \cup {n}]
        /\ UNCHANGED <<ep, ncon>>

\* client_err_cb and llid_rank_sig_disconnect
LanErrSig(n) ==
    /\ net[n].sig = {"l"}
    /\ lan' = Freed(lan, n)
    /\ net' = FreedNet(net, n)
    /\ UNCHANGED <<ep, ncon>>

\* err_traf_cb frees the record; err_init_traf_cb, of a channel that has not
\* said whose it is, is a KOUT when no other one carries traffic.
LanErrTraf(n) ==
    LET own == {k \in Con : lan.rec[k].traf = n}
        shut == [net EXCEPT ![n].trf = {}]
    IN  /\ net[n].trf = {"l"}
        /\ \/ /\ lan.member[n]
              /\ IF own = {} THEN net' = shut /\ lan' = lan
                 ELSE \E k \in own : lan' = Freed(lan, k) /\ net' = FreedNet(shut, k)
           \/ ~lan.member[n] /\ lan.chain \ {n} # {} /\ net' = shut /\ lan' = lan
           \/ ~lan.member[n] /\ lan.chain \ {n} = {} /\ Exit
        /\ UNCHANGED <<ep, ncon>>

\* cloonix_req_quit: self_destroy
LanQuit ==
    LET told == {lan.present[r] : r \in {q \in Rank : q < lan.max}}
    IN  /\ lan.st = "run"
        /\ lan' = [lan EXCEPT !.st = "quit"]
        /\ net' = [n \in Con |-> IF n \in told THEN SendDown(net, n, Msg("end"))[n]
                                 ELSE net[n]]
        /\ UNCHANGED <<ep, ncon>>

\* fct_timeout_self_destroy; or the server's channel has ended, or a crash.
LanExit ==
    /\ lan.st # "dead"
    /\ Exit
    /\ UNCHANGED <<ep, ncon>>

Next ==
    \/ \E e \in Ep : \/ Connect(e) \/ EpRecv(e) \/ EpErrLan(e) \/ EpErrTraf(e)
                     \/ EpTimeout(e) \/ EpDisconnect(e)
    \/ \E n \in Con : LanRecv(n) \/ LanTraf(n) \/ LanErrSig(n) \/ LanErrTraf(n)
    \/ LanQuit \/ LanExit

Spec == Init /\ [][Next]_vars

-----------------------------------------------------------------------------
TypeOK ==
    /\ ncon \in 0 .. MaxCon
    /\ ep \in [Ep -> [lan : 0 .. MaxCon, traf : 0 .. MaxCon, ok : 0 .. MaxCon,
                      pend : 0 .. MaxCon]]
    /\ \A n \in Con : /\ net[n].owner \in SUBSET Ep
                      /\ net[n].sig \cup net[n].trf \subseteq {"e", "l"}
    /\ lan.st \in {"run", "quit", "dead"}
    /\ lan.rec \in [Con -> [pre : 0 .. MAX_USOCK_RANKS - 1,
                            rank : 0 .. MAX_USOCK_RANKS - 1, traf : 0 .. MaxCon]]
    /\ lan.present \in [Rank -> 0 .. MaxCon]

\* A rank that a slot has been told, or acknowledges, over a channel that both
\* ends still have, is the one that is reserved for this channel.
GrantKept ==
    \A n \in Con : net[n].sig = {"e", "l"} =>
        /\ \A i \in DOMAIN net[n].down :
               net[n].down[i].k = "alloc_ok" => lan.rec[n].pre = net[n].down[i].rank
        /\ \A i \in DOMAIN net[n].up :
               net[n].up[i].k = "ack" => lan.rec[n].pre = net[n].up[i].rank

\* No rank is chosen twice, and a rank that was promised stays reserved.  The
\* table of ranks, which keeps pointers to the records, has those of the records
\* in use and no other, and the loop of self_destroy, which stops at the highest
\* rank, meets them all.
RanksApart ==
    /\ TypeOK
    /\ GrantKept
    /\ \A n, k \in Con : HasRec(n) /\ lan.rec[n].pre = lan.rec[k].pre => n = k
    /\ \A r \in Rank : lan.present[r] # 0 =>
           lan.rec[lan.present[r]].rank = r /\ r < lan.max
    /\ \A n \in Con : lan.rec[n].rank # 0 =>
           /\ lan.rec[n].rank = lan.rec[n].pre
           /\ lan.present[lan.rec[n].rank] = n

\* Packets go to the channels of the chain: these are the traffic channels of
\* the records, each with the record of its own connection and still open, and
\* every open channel whose opening was read is one of them.
MembersExact ==
    lan.st # "dead" =>
        /\ lan.chain = {lan.rec[n].traf : n \in Con} \ {0}
        /\ \A n \in Con : lan.rec[n].traf \in {0, n}
        /\ \A n \in lan.chain : "l" \in net[n].trf
        /\ \A n \in Con : net[n].trf = {"e", "l"} /\ ~net[n].opening => n \in lan.chain

\* A slot that connected never waits for its timeout: as long as it keeps its
\* channel and the LAN runs, a message of their dialog is under way, or it was
\* started and carries traffic as soon as its opening is read.  Its llids are
\* channels that it has open, so that the end of a LAN reaches it.
NeverStuck ==
    \A e \in Ep :
        LET n == ep[e].lan
        IN  /\ n # 0 => "e" \in net[n].sig
            /\ ep[e].traf # 0 => "e" \in net[ep[e].traf].trf
            /\ /\ n # 0 /\ lan.st = "run" /\ net[n].sig = {"e", "l"}
               /\ net[n].up = <<>> /\ net[n].down = <<>>
               => ep[e].ok = n /\ ep[e].traf = n /\ (net[n].opening \/ n \in lan.chain)

=============================================================================
