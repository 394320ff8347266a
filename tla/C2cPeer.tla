------------------------------- MODULE C2cPeer -------------------------------
(***************************************************************************)
(* A link between two cloonix servers: how the master and the slave set it *)
(* up, watch it with pings, lose it and make it again.  Four processes:    *)
(* the two switches (c2c.c, c2c_utils.c and the c2c parts of endp_mngt.c   *)
(* and recv_from_client.c in uml_cloonix_switch) and the two doors         *)
(* (doorways/src/c2c.c).  The switches talk over a connection the master   *)
(* opens; the doors open a second one for the traffic and hand it to a     *)
(* muc2c process.                                                          *)
(*                                                                         *)
(* Timers and messages find the link by its name only, and the name is     *)
(* used again, so one name is modelled, at both ends.                      *)
(*                                                                         *)
(* Abstractions.  The delay of a timer is left out (any armed timer may    *)
(* expire), except that the timers of 10 beats expire, and the doors       *)
(* answer, before the master tries to connect or a link is found lost      *)
(* (Settled).  A request of a switch to its own doors is handled when it   *)
(* is sent; the answer travels.  Two pings in a row are one.  Connections  *)
(* are numbered and their numbers are not used again.  The freed record    *)
(* that peer_err_cb reads has a name that is in no table.                  *)
(***************************************************************************)
EXTENDS Integers, Sequences, FiniteSets

CONSTANTS
    MAX_C2C_IDX,     \* the pool has one index less
    MAX_PING,        \* 3 in ping_timer
    MaxAdd,          \* bound: links the master's client adds
    MaxConn,         \* bound: connections between the switches
    MaxUpset         \* bound: links a client deletes, connections the network cuts

\* Two indexes at least, one of them never given.
ASSUME C2cAssumption ==
    /\ MAX_C2C_IDX \in Nat \ {0, 1}
    /\ {MAX_PING, MaxAdd, MaxConn, MaxUpset} \subseteq Nat

Side == {"m", "s"}                                 \* master, slave
Peer(x) == IF x = "m" THEN "s" ELSE "m"
Conn == 1 .. MaxConn

NoC2c == [st |-> "none", llid |-> 0, master_idx |-> 0, slave_idx |-> 0,
          count |-> 0, timer |-> "none", con |-> FALSE]
NoMu == [st |-> "none", fd |-> 0, dying |-> FALSE]
NoDoor == [idx |-> 0, peer |-> 0, dido |-> 0, con |-> FALSE]

VARIABLE w           \* the tables of the four processes and the network

PeerInit ==
    w = [c |-> [x \in Side |-> NoC2c],             \* t_sc2c of the switch
         mu |-> [x \in Side |-> NoMu],             \* t_priv_endp
         ping |-> [x \in Side |-> 0],              \* armed ping_timer
         stop |-> [x \in Side |-> <<>>],           \* armed timer_llid_trace_free
                                                   \* and timer_globtopo_free
         restart |-> 0,                            \* armed timer_c2c_restart
         door |-> [x \in Side |-> NoDoor],         \* t_c2c of the doors
         pool |-> [x \in Side |-> [i \in 1 .. MAX_C2C_IDX - 1 |-> i]],
         up |-> [x \in Side |-> <<>>],             \* from the doors to the switch
         conn |-> [k \in Conn |->                  \* switch to switch
                     [open |-> {}, cut |-> FALSE, q |-> [x \in Side |-> <<>>]]],
         tr |-> [d \in Conn |->                    \* doors to doors
                     [end |-> [x \in Side |-> "none"], ctx |-> {},
                      msg |-> "none", idx |-> 0]],
         nadd |-> 0, nconn |-> 0, ntr |-> 0, nupset |-> 0]

Exists(st, x) == st.c[x].st # "none"
Channel(st, x) == st.c[x].llid # 0 /\ x \in st.conn[st.c[x].llid].open

\* Nothing is left that takes 10 beats at most.
Settled ==
    \A x \in Side : /\ w.up[x] = <<>> /\ w.mu[x].st # "ready"
                    /\ w.stop[x] = <<>>

-----------------------------------------------------------------------------
\* Messages between the switches.

Ping == [k |-> "ping"]
Delete == [k |-> "delete"]
CreateReq(i) == [k |-> "create", master_idx |-> i]
Ack(i, j, status) ==
    [k |-> "ack", master_idx |-> i, slave_idx |-> j, status |-> status]

\* On connection n, from x; what is sent on a broken one is lost.
SendOn(st, x, n, msg) ==
    LET q == st.conn[n].q[Peer(x)]
    IN  IF \/ st.conn[n].cut \/ st.conn[n].open # Side
           \/ msg = Ping /\ q # <<>> /\ q[Len(q)] = Ping
        THEN st
        ELSE [st EXCEPT !.conn[n].q[Peer(x)] = Append(@, msg)]
Send(st, x, msg) == IF Channel(st, x) THEN SendOn(st, x, st.c[x].llid, msg) ELSE st

Close(st, x, n) ==
    [st EXCEPT !.conn[n].open = @ \ {x}, !.conn[n].q[x] = <<>>,
               !.conn[n].cut = @ /\ st.conn[n].open = Side]

-----------------------------------------------------------------------------
\* The doors: doorways/src/c2c.c

Answer(st, x, a) == [st EXCEPT !.up[x] = Append(@, a)]
AnsIdx(i) == [k |-> "idx", idx |-> i, fd |-> 0]
AnsConx(d) == [k |-> "conx", idx |-> 0, fd |-> d]      \* fd 0: status 1
AnsDeath == [k |-> "death", idx |-> 0, fd |-> 0]

\* free_c2c: the traffic connection is closed unless muc2c has it.
DoorFree(st, x) ==
    LET r == st.door[x]
        f == [st EXCEPT !.door[x] = NoDoor, !.pool[x] = Append(@, r.idx)]
    IN  IF r.idx = 0 THEN st
        ELSE IF r.dido = 0 THEN f
        ELSE [f EXCEPT !.tr[r.dido].ctx = @ \ {x},
                       !.tr[r.dido].end[x] = IF @ = "door" THEN "none" ELSE @]

\* c2c_abort_error
DoorAbort(st, x) == DoorFree(Answer(st, x, AnsConx(0)), x)

\* c2c_from_switch_req_idx: a record that is there keeps its index.
ReqIdx(st, x) ==
    IF st.door[x].idx # 0 THEN Answer(st, x, AnsIdx(st.door[x].idx))
    ELSE IF st.pool[x] = <<>> THEN Answer(st, x, AnsIdx(0))
    ELSE Answer([st EXCEPT !.door[x] = [NoDoor EXCEPT !.idx = Head(st.pool[x])],
                           !.pool[x] = Tail(@)], x, AnsIdx(Head(st.pool[x])))

\* c2c_from_switch_req_conx: the master's doors connect, the slave's wait.
ReqConx(st, x, i) ==
    IF st.door[x].idx = 0 THEN Answer(st, x, AnsConx(0))
    ELSE [st EXCEPT !.door[x].peer = i, !.door[x].con = (x = "m")]

-----------------------------------------------------------------------------
\* The end of a link: c2c_free and muendp_free

\* Mutant: the timers are not armed.
C2cFree_KeepsEndp(st, x) ==
    LET told == IF x = "m" THEN Send(st, x, Delete) ELSE st
    IN  IF ~Exists(st, x) THEN st ELSE DoorFree([told EXCEPT !.c[x] = NoC2c], x)

\* The slave is told by its master only.  Two timers of 10 beats close the
\* channel, if there is one, and stop the endpoint by name: they run in a row.
C2cFree(st, x) ==
    LET told == IF x = "m" THEN Send(st, x, Delete) ELSE st
    IN  IF ~Exists(st, x) THEN st
        ELSE DoorFree([told EXCEPT !.c[x] = NoC2c,
                                   !.stop[x] = Append(@, st.c[x].llid)], x)

MuendpFree(st, x) ==
    IF st.mu[x].st = "none" THEN st ELSE [C2cFree(st, x) EXCEPT !.mu[x] = NoMu]

\* endp_mngt_stop: an endpoint that has its t_evendp is freed later.
EndpStop(st, x) ==
    IF st.mu[x].st = "none" \/ st.mu[x].dying THEN {st}
    ELSE {MuendpFree(st, x)}
         \cup IF st.mu[x].st = "born" THEN {[st EXCEPT !.mu[x].dying = TRUE]} ELSE {}

-----------------------------------------------------------------------------
\* The master begins: recv_add_sat, timer_c2c_restart, c2c_create_master_begin

LocalAddSat(st) ==
    IF st.mu["m"].st # "none" THEN st
    ELSE [st EXCEPT !.mu["m"] = [NoMu EXCEPT !.st = "wait"],
                    !.c["m"] = [NoC2c EXCEPT !.st = "zero", !.timer = "try"]]

AddSat ==
    /\ w.nadd < MaxAdd
    /\ ~Exists(w, "m") /\ w.mu["m"].st = "none"
    /\ w' = [LocalAddSat(w) EXCEPT !.nadd = @ + 1]

DelSat(x) ==
    /\ w.nupset < MaxUpset
    /\ w.mu[x].st # "none"
    /\ w' \in EndpStop([w EXCEPT !.nupset = @ + 1], x)

\* 200 beats: every ping timer has found no link and ended.
TimerRestart ==
    /\ w.restart > 0
    /\ Settled /\ w.ping["m"] = 0
    /\ w' = LocalAddSat([w EXCEPT !.restart = @ - 1])

\* timer_c2c: time_try_connect_peer, or one of the callbacks that abort.
TimerC2c(x) ==
    /\ w.c[x].timer # "none"
    /\ w.c[x].timer = "try" => Settled
    /\ LET e == [w EXCEPT !.c[x].timer = "none"]
       IN  w' = IF w.c[x].timer # "try" THEN C2cFree(e, x)
                ELSE IF w.c[x].llid # 0 THEN e
                ELSE [w EXCEPT !.c[x].con = TRUE]

\* callback_connect of c2c_utils.c
PeerConnect ==
    /\ w.c["m"].con
    /\ w.nconn < MaxConn
    /\ LET n == w.nconn + 1
           e == [w EXCEPT !.c["m"].con = FALSE]
       IN  \/ w' = e
           \/ w' = ReqIdx([e EXCEPT !.nconn = n, !.conn[n].open = Side,
                              !.c["m"].llid = n, !.c["m"].st = "midx",
                              !.c["m"].timer = "idx"], "m")

-----------------------------------------------------------------------------
\* What the switches receive from each other.

\* recv_c2c_peer_ping: whatever the state was.
RecvPing(st, x) ==
    IF Exists(st, x) THEN [st EXCEPT !.c[x].st = "peered", !.c[x].count = 0] ELSE st

\* Mutant: a slave found again keeps the master's index it had.
RecvCreate_KeepsMaster(st, n, i) ==
    LET c == st.c["s"]
        new == [NoC2c EXCEPT !.st = "sidx", !.llid = n, !.master_idx = i,
                             !.timer = "idx"]
        refuse == Ack(0, 0, 1)
    IN  IF c.st = "recon"
        THEN ReqIdx([st EXCEPT !.c["s"] = [c EXCEPT !.st = "sidx", !.llid = n,
                                                !.timer = "idx"]], "s")
        ELSE IF Exists(st, "s") THEN SendOn(C2cFree(st, "s"), "s", n, refuse)
        ELSE IF st.mu["s"].st # "none" THEN SendOn(st, "s", n, refuse)
        ELSE ReqIdx([st EXCEPT !.c["s"] = new,
                               !.mu["s"] = [NoMu EXCEPT !.st = "wait"]], "s")

\* recv_c2c_peer_create
RecvCreate(st, n, i) ==
    LET c == st.c["s"]
        new == [NoC2c EXCEPT !.st = "sidx", !.llid = n, !.master_idx = i,
                             !.timer = "idx"]
        refuse == Ack(0, 0, 1)
    IN  IF c.st = "recon"
        THEN ReqIdx([st EXCEPT !.c["s"] = [c EXCEPT !.st = "sidx", !.llid = n,
                                  !.master_idx = i, !.timer = "idx"]], "s")
        ELSE IF Exists(st, "s") THEN SendOn(C2cFree(st, "s"), "s", n, refuse)
        ELSE IF st.mu["s"].st # "none" THEN SendOn(st, "s", n, refuse)
        ELSE ReqIdx([st EXCEPT !.c["s"] = new,
                               !.mu["s"] = [NoMu EXCEPT !.st = "wait"]], "s")

\* recv_c2c_ack_peer_create
RecvAck(st, n, a) ==
    IF ~Exists(st, "m") THEN st
    ELSE IF a.status # 0 \/ n # st.c["m"].llid
            \/ a.master_idx # st.c["m"].master_idx
    THEN C2cFree(st, "m")
    ELSE ReqConx([st EXCEPT !.c["m"].slave_idx = a.slave_idx,
                            !.c["m"].timer = "conx"], "m", a.slave_idx)

Recv(x, n) ==
    /\ x \in w.conn[n].open /\ w.conn[n].q[x] # <<>>
    /\ LET a == Head(w.conn[n].q[x])
           e == [w EXCEPT !.conn[n].q[x] = Tail(@)]
       IN  w' = CASE a.k = "ping" -> RecvPing(e, x)
                  [] a.k = "delete" -> C2cFree(e, x)
                  [] a.k = "create" -> RecvCreate(e, n, a.master_idx)
                  [] a.k = "ack" -> RecvAck(e, n, a)

\* The end of a connection: peer_err_cb at the master, with
\* endp_mngt_c2c_disconnect; the slave only forgets the channel.
PeerErr(x, n) ==
    /\ x \in w.conn[n].open /\ w.conn[n].q[x] = <<>>
    /\ w.conn[n].cut \/ Peer(x) \notin w.conn[n].open
    /\ LET e == Close(w, x, n)
       IN  w' = IF x = "m" /\ w.c["m"].llid = n
                THEN [MuendpFree(e, "m") EXCEPT !.restart = @ + 1] ELSE e

-----------------------------------------------------------------------------
\* What a switch receives from its doors.

\* rx_c2c_resp_idx_from_doors
RecvIdx(st, x, i) ==
    LET c == st.c[x]
        e == [st EXCEPT !.c[x].timer = "none"]
    IN  IF ~Exists(st, x) THEN st
        ELSE IF i = 0 \/ ~Channel(st, x) THEN C2cFree(e, x)
        ELSE IF c.st = "midx"
        THEN [Send(e, x, CreateReq(i)) EXCEPT !.c[x].master_idx = i,
                                           !.c[x].timer = "create"]
        ELSE IF c.st = "sidx" /\ c.master_idx # 0
        THEN ReqConx([Send(e, x, Ack(c.master_idx, i, 0)) EXCEPT
                        !.c[x].slave_idx = i, !.c[x].timer = "conx"], x, c.master_idx)
        ELSE C2cFree(e, x)

\* Mutant: c2c_arm_ping_timer is not called.
RecvConx_NoPing(st, x, d) ==
    IF ~Exists(st, x) \/ d = 0 THEN st
    ELSE [st EXCEPT !.c[x].timer = "none",
                    !.mu[x] = IF @.st = "wait"
                              THEN [@ EXCEPT !.st = "ready", !.fd = d] ELSE @]

\* rx_c2c_event_conx_from_doors: a failure is only logged.
RecvConx(st, x, d) ==
    IF ~Exists(st, x) \/ d = 0 THEN st
    ELSE [st EXCEPT !.c[x].timer = "none", !.ping[x] = @ + 1,
                    !.mu[x] = IF @.st = "wait"
                              THEN [@ EXCEPT !.st = "ready", !.fd = d] ELSE @]

RecvDoor(x) ==
    /\ w.up[x] # <<>>
    /\ LET a == Head(w.up[x])
           e == [w EXCEPT !.up[x] = Tail(@)]
       IN  w' = CASE a.k = "idx" -> RecvIdx(e, x, a.idx)
                  [] a.k = "conx" -> RecvConx(e, x, a.fd)
                  [] a.k = "death" -> MuendpFree(e, x)

-----------------------------------------------------------------------------
\* Timers of the switches.

\* What is left of a lost link.
Lost(c, x) ==
    [c EXCEPT !.st = "recon", !.llid = 0, !.count = 0,
              !.master_idx = 0, !.slave_idx = 0,
              !.timer = IF x = "m" THEN "try" ELSE @]

\* ping_timer ends when the link is lost: the channel is closed, the master
\* tries again, the slave waits.
PingTimer(x) ==
    /\ w.ping[x] > 0
    /\ w.c[x].count >= MAX_PING => Settled
    /\ LET c == w.c[x]
           e == [w EXCEPT !.ping[x] = @ - 1]
       IN  w' = IF ~Exists(w, x) THEN e
                ELSE IF c.count < MAX_PING
                THEN Send([w EXCEPT !.c[x].count = @ + 1], x, Ping)
                ELSE IF c.llid = 0
                THEN [e EXCEPT !.c[x].st = "recon", !.c[x].count = MAX_PING + 1]
                ELSE [Close(e, x, c.llid) EXCEPT !.c[x] = Lost(c, x)]

\* timer_llid_trace_free, then timer_globtopo_free.
TimerLlidFree(st, x, n) == IF n = 0 THEN st ELSE Close(st, x, n)
TimerGlobtopoFree(x) ==
    /\ w.stop[x] # <<>>
    /\ w' \in EndpStop(TimerLlidFree([w EXCEPT !.stop[x] = Tail(@)], x,
                                     Head(w.stop[x])), x)

\* timer_endp_death and timer_endp_free, see EndpLan.
EndpGone(x) == w.mu[x].dying /\ w' = MuendpFree(w, x)

\* endp_mngt_err_cb: the muc2c process of the endpoint has ended.
EndpErr(x) ==
    /\ w.mu[x].st = "born"
    /\ w.mu[x].fd = 0 \/ w.tr[w.mu[x].fd].end[x] = "none"
    /\ w' = MuendpFree(w, x)

\* fd_ready_doors_clone and doors_recv_c2c_clone_birth: muc2c gets the traffic
\* connection, the doors free their record.
FdReadyDoorsClone(x) ==
    /\ w.mu[x].st = "ready"
    /\ LET d == w.mu[x].fd
           e == [w EXCEPT !.mu[x].st = "born"]
       IN  w' = IF w.door[x].idx = 0 THEN e
                ELSE IF w.tr[d].end[x] = "door"
                THEN DoorFree([e EXCEPT !.tr[d].end[x] = "proc"], x)
                ELSE Answer(DoorFree(e, x), x, AnsDeath)

-----------------------------------------------------------------------------
\* The traffic connection.

\* callback_connect of the doors sends the hello, or timer_c2c_connect and the
\* other failures abort.
DoorConnect ==
    /\ w.door["m"].con
    /\ \/ /\ w.ntr < MaxConn
          /\ LET d == w.ntr + 1
             IN  w' = [w EXCEPT !.ntr = d,
                         !.door["m"].con = FALSE, !.door["m"].dido = d,
                         !.tr[d] = [end |-> [x \in Side |-> "door"], ctx |-> {"m"},
                                    msg |-> "hello", idx |-> w.door["m"].peer]]
       \/ w' = DoorAbort(w, "m")

\* c2c_server_dispach_rx_init finds the record by index.
DoorHello(d) ==
    /\ w.tr[d].msg = "hello"
    /\ LET e == [w EXCEPT !.tr[d].msg = "none", !.tr[d].idx = 0]
       IN  w' = IF w.door["s"].idx # w.tr[d].idx THEN e
                ELSE Answer([e EXCEPT !.tr[d].msg = "reply",
                                !.tr[d].ctx = @ \cup {"s"},
                                !.door["s"].dido = d], "s", AnsConx(d))

\* What a callback of connection d does: e without a context in llid2ctx, f with
\* one.  A record that got a second connection leaves the context of the first
\* behind when it is freed: the name read then is any.
Maybe(x, d, e, f) ==
    IF x \notin w.tr[d].ctx THEN {e}
    ELSE IF w.door[x].dido = d THEN {f} ELSE {e, f}

\* client_rx_cb
DoorReply(d) ==
    /\ w.tr[d].msg = "reply"
    /\ LET e == [w EXCEPT !.tr[d].msg = "none"]
       IN  w' \in Maybe("m", d, e, Answer(e, "m", AnsConx(d)))

\* The peer has closed: client_err_cb at the master's doors, nothing but the
\* channel at the slave's; a muc2c process ends.
TrafficErr(x, d) ==
    /\ w.tr[d].end[x] # "none"
    /\ w.tr[d].end[Peer(x)] = "none"
    /\ LET e == [w EXCEPT !.tr[d].end[x] = "none", !.tr[d].msg = "none", !.tr[d].idx = 0]
       IN  IF w.tr[d].end[x] = "proc" THEN w' = Answer(e, x, AnsDeath)
           ELSE IF x = "m" THEN w' \in Maybe(x, d, e, DoorAbort(e, x)) ELSE w' = e

\* muc2c ends, killed by muendp_free or by itself.
Muc2cEnds(x, d) ==
    /\ w.tr[d].end[x] = "proc"
    /\ w' = Answer([w EXCEPT !.tr[d].end[x] = "none"], x, AnsDeath)

\* The network cuts a connection between the switches.
Reset(n) ==
    /\ w.nupset < MaxUpset
    /\ w.conn[n].open # {} /\ ~w.conn[n].cut
    /\ w' = [w EXCEPT !.nupset = @ + 1, !.conn[n].cut = TRUE,
                      !.conn[n].q = [x \in Side |-> <<>>]]

-----------------------------------------------------------------------------
PeerSwitchStep(x) ==
    \/ TimerC2c(x) \/ RecvDoor(x) \/ PingTimer(x) \/ TimerGlobtopoFree(x)
    \/ EndpGone(x) \/ EndpErr(x) \/ FdReadyDoorsClone(x)
    \/ \E n \in Conn : Recv(x, n) \/ PeerErr(x, n)

PeerNext ==
    \/ AddSat \/ TimerRestart \/ PeerConnect \/ DoorConnect
    \/ \E x \in Side : PeerSwitchStep(x) \/ DelSat(x)
    \/ \E d \in Conn :
          \/ DoorHello(d) \/ DoorReply(d) \/ Reset(d)
          \/ \E x \in Side : TrafficErr(x, d) \/ Muc2cEnds(x, d)

PeerSpec == PeerInit /\ [][PeerNext]_w

-----------------------------------------------------------------------------
\* Properties.

States == {"none", "zero", "midx", "sidx", "peered", "recon"}

\* The tables of the switches and of the doors hold what their types say.
PeerTypeOK ==
    /\ \A x \in Side :
          /\ w.c[x].st \in States /\ w.c[x].llid \in 0 .. MaxConn
          /\ w.c[x].count \in 0 .. MAX_PING + 1
          /\ w.c[x].timer \in {"none", "try", "idx", "create", "conx"}
          /\ w.mu[x].st \in {"none", "wait", "ready", "born"}
          /\ w.door[x].idx \in 0 .. MAX_C2C_IDX - 1
          /\ w.ping[x] \in Nat /\ w.stop[x] \in Seq(0 .. MaxConn)
    /\ w.restart \in Nat

\* A link has its endpoint, so that c2c_create_master_begin, which looks only
\* for an endpoint of that name, never makes a second record; and an endpoint
\* whose link was freed will be stopped.
EndpHasOwner ==
    /\ PeerTypeOK
    /\ \A x \in Side :
        /\ Exists(w, x) => w.mu[x].st # "none"
        /\ w.mu[x].st # "none" /\ ~Exists(w, x) => w.stop[x] # <<>> \/ w.mu[x].dying

\* The doors hold an index for a link of their switch only, and the pool has
\* every other one once: none is lost or given twice however a link ends.
IndexHeldOnce ==
    \A x \in Side :
        LET held == IF w.door[x].idx = 0 THEN {} ELSE {w.door[x].idx}
            free == {w.pool[x][i] : i \in DOMAIN w.pool[x]}
        IN  /\ held # {} => Exists(w, x)
            /\ held \cap free = {} /\ held \cup free = 1 .. MAX_C2C_IDX - 1
            /\ Cardinality(free) = Len(w.pool[x])

\* A link that has a connection is watched: its own timer or a ping timer will
\* find the connection lost. Without one a slave waits for its master, and a
\* master may wait for nobody: the ping timer of an earlier link, found by name,
\* can end the trial of a new one whose doors are still connecting.
Watched ==
    \A x \in Side :
        w.c[x].llid # 0 => w.c[x].timer # "none" \/ w.ping[x] > 0

\* Two ends that share a working connection agree on the indexes their doors
\* join, once what is under way has come: an index answer is matched by name
\* alone, so that one for an earlier link makes an ack that a second one corrects.
IndexesAgree ==
    LET m == w.c["m"]
        s == w.c["s"]
        k == w.conn[m.llid]
    IN  /\ IndexHeldOnce
        /\ m.llid # 0 /\ m.llid = s.llid =>
            /\ m.master_idx = s.master_idx
            /\ /\ m.slave_idx # 0 /\ w.up["s"] = <<>>
               /\ k.open = Side /\ ~k.cut /\ k.q["m"] = <<>>
               => m.slave_idx = s.slave_idx

=============================================================================
