------------------------------ MODULE A2bSched ------------------------------
(***************************************************************************)
(* The shaper between two LANs (muswitch/mua2b), from A to B.  The thread  *)
(* of A puts a packet in the ring of B and wakes the thread of B through a *)
(* pipe; the thread of B sends what is in its ring when it is woken and    *)
(* each millisecond, as the delay and the token bucket of B allow.  The    *)
(* other direction is the same with A and B exchanged, and shares nothing  *)
(* with this one.                                                          *)
(*                                                                         *)
(* Time is kept relative: since the last date of the bucket, until the     *)
(* timer, and the age of each packet.  No time passes while a thread runs. *)
(***************************************************************************)
EXTENDS Integers, FiniteSets

CONSTANTS
    CIRC_SIZE,      \* CIRC_MASK + 1
    MS,             \* units of time in a millisecond
    Late,           \* bound: how late the timer may be
    UNIT,           \* tokens for one octet (1000 in the code)
    TOTAL_LOSS_VALUE,
    INT,            \* values of an int (2^32)
    Length,         \* lengths of packets
    Conf0,          \* config_init
    Commands,       \* pairs of a command that concerns side B and its value
    MaxPkt,         \* bound: packets
    MaxConf,        \* bound: commands
    MaxDelay        \* bound: of the delays asked for

\* What a command of the client sets, to any int.
Field == {"loss", "delay", "qsize", "bsize", "brate"}

ASSUME A2bAssumption ==
    /\ {CIRC_SIZE, MS, UNIT, TOTAL_LOSS_VALUE, INT} \subseteq Nat \ {0}
    /\ {Late, MaxPkt, MaxConf, MaxDelay} \subseteq Nat
    /\ Length \subseteq Nat \ {0} /\ IsFiniteSet(Length)
    /\ Conf0 \in [Field -> Int] /\ Commands \subseteq Field \X Int

VARIABLES
    conf,       \* t_connect_side of B: what is configured
    ring,       \* g_circ_ctx1, with the lock held or not
    stored, tockens,
    wake,       \* something is in the pipe
    p,          \* the thread of A: its control point, register and packet
    c,          \* the thread of B: likewise, and the date of its activation
    clock,      \* until the timer, since g_prev_date_us_b
    pace,       \* history of what the bucket was given
    n           \* counters: packets, put, sent, commands

vars == <<conf, ring, stored, tockens, wake, p, c, clock, pace, n>>

NoPkt == [id |-> 0, len |-> 0, age |-> 0]
Idle == [pc |-> "idle", reg |-> 0, pkt |-> NoPkt, shift |-> 0]

\* What the bucket was given since the timer, a wake that came with the timer,
\* and for the last period of the timer, until time passes, the same and its length.
Pace(fed) == [fed |-> fed, at |-> FALSE, gap |-> 1, gaplen |-> MS, same |-> FALSE]

Init ==
    /\ conf = Conf0
    /\ ring = [q |-> [i \in 0 .. CIRC_SIZE - 1 |-> NoPkt], head |-> 0, tail |-> 0,
               lock |-> FALSE]
    /\ stored = 0 /\ tockens = 0 /\ wake = FALSE
    /\ p = Idle /\ c = Idle
    /\ clock = [left |-> MS, since |-> -MS]
    /\ pace = Pace(0)
    /\ n = [pkt |-> 0, put |-> 0, sent |-> 0, conf |-> 0]

\* An int: the product wraps.
Wrap(x) == ((x + INT \div 2) % INT) - INT \div 2
\* Division of C.
Trunc(x) == IF x < 0 THEN -((-x) \div MS) ELSE x \div MS

Least(a, b) == IF a < b THEN a ELSE b

CircCnt == (ring.head - ring.tail) % CIRC_SIZE

\* Mutant: no slot is kept empty.
CircSpace_All == CIRC_SIZE - CircCnt

\* circ_space
CircSpace == (ring.tail - (ring.head + 1)) % CIRC_SIZE

Kout(t) == [t EXCEPT !.pc = "kout"]

-----------------------------------------------------------------------------
\* The thread of A: rx_from_traffic_sock, sched_tx_pkt.

\* is_lost, cmp being the draw of rand
IsLost(cmp) == conf.loss # 0 /\ cmp <= conf.loss

\* can_enqueue
Rx(len, cmp) ==
    /\ p.pc = "idle" /\ n.pkt < MaxPkt
    /\ \/ /\ IsLost(cmp)
          /\ p' = [p EXCEPT !.pc = "wake"]
          /\ n' = [n EXCEPT !.pkt = @ + 1]
       \/ /\ ~IsLost(cmp)
          /\ p' = IF stored + len < conf.qsize
                  THEN [p EXCEPT !.pc = "load", !.pkt = [NoPkt EXCEPT !.len = len]]
                  ELSE [p EXCEPT !.pc = "wake"]
          /\ n' = [n EXCEPT !.pkt = @ + 1]
    /\ UNCHANGED <<conf, ring, stored, tockens, wake, c, clock, pace>>

\* inc_queue_size: the other thread decrements the same long, without a lock.
IncQueueSize ==
    /\ \/ /\ p.pc = "load"
          /\ p' = [p EXCEPT !.pc = "store", !.reg = stored]
          /\ UNCHANGED stored
       \/ /\ p.pc = "store"
          /\ stored' = p.reg + p.pkt.len
          /\ p' = [p EXCEPT !.pc = "space", !.reg = 0]
    /\ UNCHANGED <<conf, ring, tockens, wake, c, clock, pace, n>>

\* do_enqueue: a packet without a slot is dropped; it stays in stored.
DoEnqueue ==
    /\ p.pc = "space" /\ ~ring.lock
    /\ p' = IF CircSpace > 0 THEN [p EXCEPT !.pc = "put"]
            ELSE [Idle EXCEPT !.pc = "wake"]
    /\ UNCHANGED <<conf, ring, stored, tockens, wake, c, clock, pace, n>>

\* circ_slot_put: the slot, then the head, which circ_slot_lookat reads without
\* the lock.
CircSlotPut ==
    /\ \/ /\ p.pc = "put" /\ ~ring.lock
          /\ IF CircSpace = 0 \/ ring.q[ring.head] # NoPkt
             THEN p' = Kout(p) /\ UNCHANGED <<ring, n>>
             ELSE /\ ring' = [ring EXCEPT !.lock = TRUE, !.q[ring.head] =
                                 [p.pkt EXCEPT !.id = n.put + 1]]
                  /\ n' = [n EXCEPT !.put = @ + 1]
                  /\ p' = [p EXCEPT !.pc = "publish"]
       \/ /\ p.pc = "publish"
          /\ ring' = [ring EXCEPT !.lock = FALSE, !.head = (@ + 1) % CIRC_SIZE]
          /\ p' = [Idle EXCEPT !.pc = "wake"]
          /\ UNCHANGED n
    /\ UNCHANGED <<conf, stored, tockens, wake, c, clock, pace>>

\* wake_tx_send, for a packet that was dropped too.  A pipe full of wakes that
\* nobody read ends the program: left out.
WakeTxSend ==
    /\ p.pc = "wake"
    /\ wake' = TRUE /\ p' = Idle
    /\ UNCHANGED <<conf, ring, stored, tockens, c, clock, pace, n>>

-----------------------------------------------------------------------------
\* The thread of B: timer_sched, sched_tx1_activate, activate_tx.

\* update_add_tockens
AddTockens(ms) == Least(tockens + Wrap(conf.brate * ms), Wrap(UNIT * conf.bsize))

\* rx_wake_tx1 empties the pipe: one activation for many packets.
RxWakeTx ==
    LET ms == Trunc(clock.since)
    IN  /\ c.pc = "idle" /\ wake
        /\ wake' = FALSE
        /\ tockens' = AddTockens(ms)
        /\ clock' = [clock EXCEPT !.since = 0]
        /\ c' = [c EXCEPT !.pc = "look", !.shift = 0]
        /\ pace' = [pace EXCEPT !.fed = @ + ms, !.at = @ \/ clock.since = -MS]
        /\ UNCHANGED <<conf, ring, stored, p, n>>

\* The timer with the date now + ahead, and what the thread does then.
TimerAt(ahead, then) ==
    LET ms == Trunc(clock.since + ahead)
    IN  /\ c.pc = "idle" /\ clock.left <= 0
        /\ tockens' = AddTockens(ms)
        /\ clock' = [left |-> MS, since |-> -ahead]
        /\ c' = [c EXCEPT !.pc = then, !.shift = ahead]
        /\ pace' = [Pace(0) EXCEPT
                       !.gap = pace.fed + ms, !.gaplen = MS - clock.left, !.same = pace.at]
        /\ UNCHANGED <<conf, ring, stored, wake, p, n>>

\* Mutant: the date is the one at which the timer expires.
TimerSched_Now == TimerAt(0, "look")

\* Mutant: only a wake sends.
TimerSched_NoSend == TimerAt(MS, "idle")

\* timer_sched takes for its date the one of its next call.
TimerSched == TimerAt(MS, "look")

\* Mutant: the delay is that of the next call but one.
DelayOver_Early(age, shift) == (age + shift + MS) \div MS >= conf.delay

\* The test of the delay in activate_tx.  The age is cast to an int: one of more
\* than 2^31 microseconds, which the code takes for a negative one, is not met.
DelayOver(age, shift) == (age + shift) \div MS >= conf.delay

\* activate_tx, with circ_slot_lookat and tocken_authorization.
ActivateTx ==
    LET q == ring.q[ring.tail]
        go == CircCnt > 0 /\ DelayOver(q.age, c.shift) /\ tockens > UNIT * q.len
    IN  /\ c.pc = "look"
        /\ c' = IF go THEN [c EXCEPT !.pc = "get"] ELSE Idle
        /\ UNCHANGED <<conf, ring, stored, tockens, wake, p, clock, pace, n>>

\* do_dequeue and circ_slot_get
DoDequeue ==
    /\ c.pc = "get" /\ ~ring.lock
    /\ IF CircCnt = 0 \/ ring.q[ring.tail] = NoPkt
       THEN c' = Kout(c) /\ UNCHANGED ring
       ELSE /\ c' = [c EXCEPT !.pc = "load", !.pkt = ring.q[ring.tail]]
            /\ ring' = [ring EXCEPT !.q[ring.tail] = NoPkt, !.tail = (@ + 1) % CIRC_SIZE]
    /\ UNCHANGED <<conf, stored, tockens, wake, p, clock, pace, n>>

\* dec_queue_size, update_remove_tockens and sock_fd_tx
DecQueueSize ==
    /\ \/ /\ c.pc = "load"
          /\ c' = [c EXCEPT !.pc = "store", !.reg = stored]
          /\ UNCHANGED <<stored, tockens, n>>
       \/ /\ c.pc = "store"
          /\ stored' = c.reg - c.pkt.len
          /\ tockens' = tockens - UNIT * c.pkt.len
          /\ c' = IF tockens' < 0 THEN Kout(c)
                  ELSE [c EXCEPT !.pc = "look", !.reg = 0, !.pkt = NoPkt]
          /\ n' = [n EXCEPT !.sent = @ + 1]
    /\ UNCHANGED <<conf, ring, wake, p, clock, pace>>

-----------------------------------------------------------------------------
\* config_recv_command: the loss that concerns the packets of side B is the one
\* of direction B2A, the rest that of A2B.
ConfigRecvCommand ==
    /\ n.conf < MaxConf
    /\ \E k \in Commands : conf' = [conf EXCEPT ![k[1]] = k[2]]
    /\ n' = [n EXCEPT !.conf = @ + 1]
    /\ UNCHANGED <<ring, stored, tockens, wake, p, c, clock, pace>>

\* Ages beyond every delay are not told apart.
Older(k) ==
    IF k = NoPkt THEN k
    ELSE [k EXCEPT !.age = Least(@ + 1, MaxDelay * MS)]

Tick ==
    /\ p.pc = "idle" /\ c.pc = "idle"
    /\ clock.left > -Late
    /\ clock' = [left |-> clock.left - 1, since |-> clock.since + 1]
    /\ ring' = [ring EXCEPT !.q = [i \in DOMAIN @ |-> Older(@[i])]]
    /\ pace' = [Pace(pace.fed) EXCEPT !.at = pace.at]
    /\ UNCHANGED <<conf, stored, tockens, wake, p, c, n>>

Next ==
    \/ \E len \in Length, cmp \in 0 .. TOTAL_LOSS_VALUE - 1 : Rx(len, cmp)
    \/ IncQueueSize \/ DoEnqueue \/ CircSlotPut \/ WakeTxSend
    \/ RxWakeTx \/ TimerSched \/ ActivateTx \/ DoDequeue \/ DecQueueSize
    \/ ConfigRecvCommand \/ Tick

Spec == Init /\ [][Next]_vars

\* Both threads run, time passes and the timer is served.
FairSpec ==
    /\ Spec
    /\ WF_vars(IncQueueSize) /\ WF_vars(DoEnqueue) /\ WF_vars(CircSlotPut)
    /\ WF_vars(WakeTxSend) /\ WF_vars(RxWakeTx) /\ WF_vars(TimerSched)
    /\ WF_vars(ActivateTx) /\ WF_vars(DoDequeue) /\ WF_vars(DecQueueSize)
    /\ WF_vars(Tick)

-----------------------------------------------------------------------------
TypeOK ==
    /\ p.pc \in {"idle", "load", "store", "space", "put", "publish", "wake"}
    /\ c.pc \in {"idle", "look", "get", "load", "store"}
    /\ ring.head \in 0 .. CIRC_SIZE - 1 /\ ring.tail \in 0 .. CIRC_SIZE - 1
    /\ n.put \in 0 .. n.pkt /\ n.sent \in 0 .. n.put /\ tockens \in Int

\* The ring holds the packets that were put and not taken, in their order, and
\* no KOUT of either thread is reached (their control points are in TypeOK):
\* not the ones of the ring, and not the one of a bucket below zero.
RingSound ==
    LET taken == n.sent + IF c.pkt = NoPkt THEN 0 ELSE 1
        shown == n.put - IF p.pc = "publish" THEN 1 ELSE 0
    IN  /\ TypeOK
        /\ CircCnt = shown - taken
        /\ \A i \in 0 .. CircCnt - 1 :
               ring.q[(ring.tail + i) % CIRC_SIZE].id = taken + i + 1
        /\ c.pkt # NoPkt => c.pkt.id = taken

\* Between two calls of the timer the bucket gets less than one millisecond more
\* than has passed, and one at least however often the thread is woken: the date
\* that timer_sched takes ahead makes up for what each wake rounds off.  A wake in
\* the same microsecond as the timer takes that one back.  The bound is for one
\* period: a wake soon after each tick may make the next one count two, so that the
\* rate over many periods is nearly twice the one asked for.
FeedPace ==
    /\ pace.gap >= IF pace.same THEN 0 ELSE 1
    /\ pace.gap * MS < pace.gaplen + MS

\* A packet is sent one millisecond before its delay at most.
DelayKept ==
    [][c.pc = "look" /\ c'.pc = "get" =>
          ring.q[ring.tail].age + MS >= conf.delay * MS]_vars

\* What was put in the ring is sent, however the wakes are merged, as long as the
\* bucket is larger than the packets.
Leaves == \A i \in 1 .. MaxPkt : n.put >= i ~> n.sent >= i

=============================================================================
