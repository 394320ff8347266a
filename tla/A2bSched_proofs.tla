---------------------------- MODULE A2bSched_proofs ----------------------------
(***************************************************************************)
(* For any size of the ring, any lengths of packets, any configuration and *)
(* any commands, and with each thread stopped between any two accesses to  *)
(* what they share: packets keep their order and no KOUT is reached, the   *)
(* bucket is fed at its pace, and the delay is kept.                       *)
(***************************************************************************)
EXTENDS A2bSched, TLAPS

Cells == 0 .. CIRC_SIZE - 1
Pkt == [id : Nat, len : Nat, age : Nat]
RingRec == [q : [Cells -> Pkt], head : Cells, tail : Cells, lock : BOOLEAN]
ProdRec == [pc : {"idle", "load", "store", "space", "put", "publish", "wake"},
            reg : Int, pkt : Pkt, shift : Int]
ConsRec == [pc : {"idle", "look", "get", "load", "store"},
            reg : Int, pkt : Pkt, shift : {0, MS}]
ClockRec == [left : Int, since : Int]
PaceRec == [fed : Int, at : BOOLEAN, gap : Int, gaplen : Int, same : BOOLEAN]
CountRec == [pkt : Nat, put : Nat, sent : Nat, conf : Nat]

Typed ==
    /\ conf \in [Field -> Int]
    /\ ring \in RingRec
    /\ stored \in Int /\ tockens \in Int /\ wake \in BOOLEAN
    /\ p \in ProdRec /\ c \in ConsRec
    /\ clock \in ClockRec /\ pace \in PaceRec /\ n \in CountRec

\* Packets that left the ring, and packets whose slot the head has passed.
Taken == n.sent + IF c.pkt = NoPkt THEN 0 ELSE 1
Shown == n.put - IF p.pc = "publish" THEN 1 ELSE 0

\* The slots from the tail on.
At(i) == ring.q[(ring.tail + i) % CIRC_SIZE]

\* The ring holds the packets in their order and nothing else, but for a packet
\* that is put and not yet published.
Contents ==
    /\ CircCnt = Shown - Taken
    /\ \A i \in Cells : i < CircCnt => At(i).id = Taken + i + 1
    /\ \A i \in Cells :
          i > CircCnt \/ (i = CircCnt /\ p.pc # "publish") => At(i) = NoPkt
    /\ p.pc = "publish" => At(CircCnt).id = n.put

\* The thread of A has the lock from the slot to the head, and what it found free
\* stays free.
Producer ==
    /\ n.put + (IF p.pc \in {"load", "store", "space", "put"} THEN 1 ELSE 0) <= n.pkt
    /\ ring.lock <=> p.pc = "publish"
    /\ p.pc \in {"put", "publish"} => CircCnt < CIRC_SIZE - 1

\* The thread of B has at most the packet it took, and the tokens for the one it
\* decided to send.
Consumer ==
    /\ c.pkt = NoPkt <=> c.pc \notin {"load", "store"}
    /\ c.pkt # NoPkt => c.pkt.id = Taken
    /\ c.pc = "get" => CircCnt > 0 /\ tockens > UNIT * ring.q[ring.tail].len
    /\ c.pc \in {"load", "store"} => tockens > UNIT * c.pkt.len

\* The date of the bucket is one millisecond ahead until a wake sets it back;
\* what the wakes gave and the time since the last one are less than the time
\* since the timer.
Feed ==
    /\ clock.left <= MS
    /\ \/ /\ ~pace.at /\ pace.fed = 0
          /\ clock.since = -clock.left
       \/ /\ clock.since >= 0
          /\ pace.fed >= IF pace.at THEN -1 ELSE 0
          /\ pace.fed * MS + clock.since < MS - clock.left
    /\ FeedPace

\* The inductive invariant.
IInv == Typed /\ Contents /\ Producer /\ Consumer /\ Feed
-----------------------------------------------------------------------------
(* Arithmetic.                                                               *)

LEMMA SizesPositive == /\ CIRC_SIZE \in Nat /\ CIRC_SIZE > 0
                       /\ MS \in Nat /\ MS > 0 /\ UNIT \in Nat
                       /\ MaxDelay \in Nat
  BY A2bAssumption

\* The remainder by a size, for a number less than a turn away from the slots.
LEMMA Remainder ==
  ASSUME NEW M \in Nat, M > 0, NEW x \in Int, -M <= x, x < 2 * M
  PROVE  x % M = IF x < 0 THEN x + M ELSE IF x < M THEN x ELSE x - M
<1>1. /\ x = M * (x \div M) + (x % M)
      /\ x \div M \in Int /\ x % M \in Int /\ 0 <= x % M /\ x % M < M
  OBVIOUS
<1>2. DEFINE d == x \div M
<1>3. d \in Int /\ x = M * d + (x % M)
  BY <1>1
<1> HIDE DEF d
<1>4. d >= -1 /\ d <= 1
  <2>1. d < -1 => M * d <= -2 * M
    BY <1>3
  <2>2. d > 1 => M * d >= 2 * M
    BY <1>3
  <2> QED BY <1>1, <1>3, <2>1, <2>2
<1>5. d = -1 \/ d = 0 \/ d = 1
  BY <1>3, <1>4
<1>6. M * d = IF d = -1 THEN -M ELSE IF d = 0 THEN 0 ELSE M
  BY <1>5
<1> QED BY <1>1, <1>3, <1>5, <1>6

LEMMA SlotRemainder ==
  \A x \in Int : -CIRC_SIZE <= x /\ x < 2 * CIRC_SIZE =>
     x % CIRC_SIZE = IF x < 0 THEN x + CIRC_SIZE
                     ELSE IF x < CIRC_SIZE THEN x ELSE x - CIRC_SIZE
<1> TAKE x \in Int
<1> HAVE -CIRC_SIZE <= x /\ x < 2 * CIRC_SIZE
<1> QED BY SizesPositive, Remainder

\* Slot i from the tail, the slot after one, and the two counts of circ_slot.c.
LEMMA Slots ==
  /\ \A t, i \in Cells :
        /\ (t + i) % CIRC_SIZE \in Cells
        /\ (t + i) % CIRC_SIZE =
              IF t + i < CIRC_SIZE THEN t + i ELSE t + i - CIRC_SIZE
  /\ \A t \in Cells :
        /\ (t + 1) % CIRC_SIZE \in Cells
        /\ (t + 1) % CIRC_SIZE = IF t + 1 < CIRC_SIZE THEN t + 1 ELSE 0
  /\ ring \in RingRec =>
        /\ CircCnt \in Cells
        /\ CircCnt = IF ring.head < ring.tail THEN ring.head - ring.tail + CIRC_SIZE
                     ELSE ring.head - ring.tail
        /\ CircSpace = CIRC_SIZE - 1 - CircCnt
<1>1. ASSUME NEW t \in Cells, NEW i \in Cells
      PROVE  /\ (t + i) % CIRC_SIZE \in Cells
             /\ (t + i) % CIRC_SIZE =
                   IF t + i < CIRC_SIZE THEN t + i ELSE t + i - CIRC_SIZE
  <2>1. t \in Int /\ i \in Int /\ t + i \in Int
       /\ -CIRC_SIZE <= t + i /\ t + i < 2 * CIRC_SIZE
    BY SizesPositive DEF Cells
  <2>2. (t + i) % CIRC_SIZE =
           IF t + i < 0 THEN t + i + CIRC_SIZE
           ELSE IF t + i < CIRC_SIZE THEN t + i ELSE t + i - CIRC_SIZE
    BY <2>1, SlotRemainder, SizesPositive
  <2> QED BY <2>2, SizesPositive DEF Cells
<1>2. ASSUME NEW t \in Cells
      PROVE  /\ (t + 1) % CIRC_SIZE \in Cells
             /\ (t + 1) % CIRC_SIZE = IF t + 1 < CIRC_SIZE THEN t + 1 ELSE 0
  <2>1. t \in Int /\ t + 1 \in Int /\ -CIRC_SIZE <= t + 1 /\ t + 1 < 2 * CIRC_SIZE
    BY SizesPositive DEF Cells
  <2>2. (t + 1) % CIRC_SIZE =
           IF t + 1 < 0 THEN t + 1 + CIRC_SIZE
           ELSE IF t + 1 < CIRC_SIZE THEN t + 1 ELSE t + 1 - CIRC_SIZE
    BY <2>1, SlotRemainder, SizesPositive
  <2> QED BY <2>2, SizesPositive DEF Cells
<1>3. ASSUME ring \in RingRec
      PROVE  /\ CircCnt \in Cells
             /\ CircCnt = IF ring.head < ring.tail THEN ring.head - ring.tail + CIRC_SIZE
                          ELSE ring.head - ring.tail
             /\ CircSpace = CIRC_SIZE - 1 - CircCnt
  <2>1. PICK h \in Cells, t \in Cells : h = ring.head /\ t = ring.tail
    BY <1>3 DEF RingRec
  <2>2. h - t \in Int /\ -CIRC_SIZE <= h - t /\ h - t < 2 * CIRC_SIZE
    BY SizesPositive DEF Cells
  <2>3. (h - t) % CIRC_SIZE = IF h < t THEN h - t + CIRC_SIZE ELSE h - t
    <3>1. (h - t) % CIRC_SIZE =
             IF h - t < 0 THEN h - t + CIRC_SIZE
             ELSE IF h - t < CIRC_SIZE THEN h - t ELSE h - t - CIRC_SIZE
      BY <2>2, SlotRemainder
    <3> QED BY <3>1, SizesPositive DEF Cells
  <2>4. t - (h + 1) \in Int /\ -CIRC_SIZE <= t - (h + 1) /\ t - (h + 1) < 2 * CIRC_SIZE
    BY SizesPositive DEF Cells
  <2>5. (t - (h + 1)) % CIRC_SIZE =
           IF t - (h + 1) < 0 THEN t - (h + 1) + CIRC_SIZE
           ELSE IF t - (h + 1) < CIRC_SIZE THEN t - (h + 1) ELSE t - (h + 1) - CIRC_SIZE
    BY <2>4, SlotRemainder
  <2>6. CircCnt = (h - t) % CIRC_SIZE /\ CircSpace = (t - (h + 1)) % CIRC_SIZE
    BY <2>1 DEF CircCnt, CircSpace
  <2> QED BY <2>1, <2>3, <2>5, <2>6, SizesPositive DEF Cells
<1> QED BY <1>1, <1>2, <1>3

LEMMA SlotZero ==
  0 \in Cells /\ \A t \in Cells : (t + 0) % CIRC_SIZE = t
<1>1. 0 \in Cells
  BY SizesPositive DEF Cells
<1>2. ASSUME NEW t \in Cells PROVE (t + 0) % CIRC_SIZE = t
  <2>1. t \in Int /\ t + 0 = t /\ t < CIRC_SIZE
    BY SizesPositive DEF Cells
  <2>2. (t + 0) % CIRC_SIZE = IF t + 0 < CIRC_SIZE THEN t + 0 ELSE t + 0 - CIRC_SIZE
    BY <1>1, Slots
  <2> QED BY <2>1, <2>2
<1> QED BY <1>1, <1>2

\* Different slots from the tail are different slots of the ring.
LEMMA SlotsDiffer ==
  ASSUME NEW t \in Cells, NEW i \in Cells, NEW j \in Cells,
         (t + i) % CIRC_SIZE = (t + j) % CIRC_SIZE
  PROVE  i = j
<1>1. /\ (t + i) % CIRC_SIZE = IF t + i < CIRC_SIZE THEN t + i ELSE t + i - CIRC_SIZE
      /\ (t + j) % CIRC_SIZE = IF t + j < CIRC_SIZE THEN t + j ELSE t + j - CIRC_SIZE
  BY Slots
<1> QED BY <1>1, SizesPositive DEF Cells

\* The head is as far from the tail as CircCnt says.
LEMMA HeadIsAtCount ==
  ASSUME ring \in RingRec
  PROVE  ring.head = (ring.tail + CircCnt) % CIRC_SIZE
<1>1. ring.head \in Cells /\ ring.tail \in Cells
  BY DEF RingRec
<1>2. CircCnt \in Cells
      /\ CircCnt = IF ring.head < ring.tail THEN ring.head - ring.tail + CIRC_SIZE
                   ELSE ring.head - ring.tail
  BY Slots
<1>3. (ring.tail + CircCnt) % CIRC_SIZE =
         IF ring.tail + CircCnt < CIRC_SIZE THEN ring.tail + CircCnt
         ELSE ring.tail + CircCnt - CIRC_SIZE
  BY <1>1, <1>2, Slots
<1> QED BY <1>1, <1>2, <1>3, SizesPositive DEF Cells

\* Trunc rounds towards zero.
LEMMA TruncIs ==
  ASSUME NEW x \in Int
  PROVE  /\ Trunc(x) \in Int
         /\ x >= 0 => /\ Trunc(x) >= 0
                      /\ MS * Trunc(x) <= x /\ x < MS * Trunc(x) + MS
         /\ x < 0 /\ x > -MS => Trunc(x) = 0
         /\ x = -MS => Trunc(x) = -1
<1>1. \A y \in Int : /\ y \div MS \in Int /\ y % MS \in Int
                     /\ y = MS * (y \div MS) + (y % MS)
                     /\ 0 <= y % MS /\ y % MS < MS
  BY SizesPositive
<1>2. CASE x >= 0
  <2> DEFINE d == x \div MS
  <2>1. Trunc(x) = d /\ d \in Int /\ x = MS * d + (x % MS)
    BY <1>1, <1>2 DEF Trunc
  <2> HIDE DEF d
  <2>2. d >= 0
    <3>1. d < 0 => MS * d <= -MS
      BY <2>1, SizesPositive
    <3> QED BY <1>1, <1>2, <2>1, <3>1, SizesPositive
  <2> QED BY <1>1, <1>2, <2>1, <2>2, SizesPositive
<1>3. CASE x < 0
  <2> DEFINE d == (-x) \div MS
  <2>1. Trunc(x) = -d /\ d \in Int /\ -x = MS * d + ((-x) % MS)
    <3>1. -x \in Int
      OBVIOUS
    <3> QED BY <1>1, <1>3, <3>1 DEF Trunc
  <2>2. 0 <= (-x) % MS /\ (-x) % MS < MS /\ (-x) % MS \in Int
    <3>1. -x \in Int
      OBVIOUS
    <3> QED BY <1>1, <3>1
  <2> HIDE DEF d
  <2>3. d < 0 => MS * d <= -MS
    BY <2>1, SizesPositive
  <2>4. d > 0 => MS * d >= MS
    BY <2>1, SizesPositive
  <2>5. d > 1 => MS * d >= 2 * MS
    BY <2>1, SizesPositive
  <2>6. d >= 0
    BY <1>3, <2>1, <2>2, <2>3, SizesPositive
  <2>7. x > -MS => d = 0
    BY <1>3, <2>1, <2>2, <2>4, <2>6, SizesPositive
  <2>8. x = -MS => d = 1
    <3>1. d = 0 => MS * d = 0
      BY <2>1, SizesPositive
    <3> QED BY <2>1, <2>2, <2>5, <2>6, <3>1, SizesPositive
  <2> QED BY <1>3, <2>1, <2>7, <2>8
<1> QED BY <1>2, <1>3

\* The bucket is an integer whatever the product wraps to.
LEMMA AddTockensInt ==
  ASSUME Typed, NEW ms \in Int
  PROVE  AddTockens(ms) \in Int
<1>1. \A x \in Int : Wrap(x) \in Int
  <2>1. INT \in Nat /\ INT > 0
    BY A2bAssumption
  <2>2. \A y \in Int : y % INT \in Int /\ y \div 2 \in Int
    BY <2>1
  <2>3. INT \div 2 \in Int
    BY <2>1, <2>2
  <2> QED BY <2>1, <2>2, <2>3 DEF Wrap
<1>2. conf.brate \in Int /\ conf.bsize \in Int /\ tockens \in Int
  BY DEF Typed, Field
<1>3. conf.brate * ms \in Int /\ UNIT * conf.bsize \in Int
  BY <1>2, SizesPositive
<1>4. Wrap(conf.brate * ms) \in Int /\ Wrap(UNIT * conf.bsize) \in Int
  BY <1>1, <1>3
<1> QED BY <1>2, <1>4 DEF AddTockens, Least

LEMMA NoPktType == NoPkt \in Pkt
  BY DEF NoPkt, Pkt
-----------------------------------------------------------------------------
(* Type correctness.                                                         *)

LEMMA InitTyped == Init => Typed
<1> SUFFICES ASSUME Init PROVE Typed
  OBVIOUS
<1>1. conf \in [Field -> Int]
  BY A2bAssumption DEF Init
<1>2. ring \in RingRec
  <2>1. 0 \in Cells
    BY SizesPositive DEF Cells
  <2>2. [i \in 0 .. CIRC_SIZE - 1 |-> NoPkt] \in [Cells -> Pkt]
    BY NoPktType DEF Cells
  <2> QED BY <2>1, <2>2 DEF Init, RingRec
<1>3. p \in ProdRec /\ c \in ConsRec
  BY NoPktType DEF Init, Idle, ProdRec, ConsRec
<1>4. clock \in ClockRec /\ pace \in PaceRec /\ n \in CountRec
  BY SizesPositive DEF Init, Pace, ClockRec, PaceRec, CountRec
<1>5. wake \in BOOLEAN
  BY Zenon DEF Init
<1>6. stored \in Int /\ tockens \in Int
  BY DEF Init
<1> QED BY <1>1, <1>2, <1>3, <1>4, <1>5, <1>6, Zenon DEF Typed

LEMMA RxTyped ==
  ASSUME Typed, NEW len \in Length, NEW cmp \in 0 .. TOTAL_LOSS_VALUE - 1, Rx(len, cmp)
  PROVE  Typed'
<1> USE DEF Typed
<1>1. len \in Nat
  BY A2bAssumption
<1>2. [NoPkt EXCEPT !.len = len] \in Pkt
  BY <1>1 DEF NoPkt, Pkt
<1>3. p' \in ProdRec
  BY <1>2 DEF Rx, ProdRec
<1>4. n' \in CountRec
  BY DEF Rx, CountRec
<1> QED BY <1>3, <1>4 DEF Rx

LEMMA ProducerTyped ==
  ASSUME Typed, IncQueueSize \/ DoEnqueue \/ WakeTxSend
  PROVE  Typed'
<1> USE DEF Typed
<1>1. CASE IncQueueSize
  <2>1. p.reg \in Int /\ p.pkt.len \in Nat
    BY DEF ProdRec, Pkt
  <2>2. stored' \in Int
    BY <1>1, <2>1 DEF IncQueueSize
  <2>3. p' \in ProdRec
    <3>1. CASE p.pc = "load" /\ p' = [p EXCEPT !.pc = "store", !.reg = stored]
      BY <3>1 DEF ProdRec
    <3>2. CASE p.pc = "store" /\ p' = [p EXCEPT !.pc = "space", !.reg = 0]
      <4>1. 0 \in Int /\ p.pkt \in Pkt /\ p.shift \in Int
        BY DEF ProdRec
      <4> QED BY <3>2, <4>1 DEF ProdRec
    <3> QED BY <1>1, <3>1, <3>2 DEF IncQueueSize
  <2> QED BY <1>1, <2>2, <2>3 DEF IncQueueSize
<1>2. CASE DoEnqueue
  <2>1. p' \in ProdRec
    BY <1>2, NoPktType DEF DoEnqueue, ProdRec, Idle
  <2> QED BY <1>2, <2>1 DEF DoEnqueue
<1>3. CASE WakeTxSend
  <2>1. p' \in ProdRec
    BY <1>3, NoPktType DEF WakeTxSend, ProdRec, Idle
  <2> QED BY <1>3, <2>1 DEF WakeTxSend
<1> QED BY <1>1, <1>2, <1>3

LEMMA PutTyped ==
  ASSUME IInv, CircSlotPut
  PROVE  Typed'
<1> USE DEF Typed
<1> IInv
  OBVIOUS
<1>0. Typed /\ ring \in RingRec /\ p \in ProdRec /\ n \in CountRec
  BY DEF IInv
<1>1. CASE p.pc = "put"
  <2>1. CircSpace # 0 /\ ring.q[ring.head] = NoPkt
    <3>1. CircCnt \in Cells /\ CircSpace = CIRC_SIZE - 1 - CircCnt
      BY <1>0, Slots
    <3>2. CircCnt < CIRC_SIZE - 1
      BY <1>1 DEF IInv, Producer
    <3>3. At(CircCnt) = NoPkt
      BY <1>1, <3>1 DEF IInv, Contents
    <3> QED BY <1>0, <3>1, <3>2, <3>3, HeadIsAtCount, SizesPositive DEF At, Cells
  <2> DEFINE k == [p.pkt EXCEPT !.id = n.put + 1]
  <2>2. k \in Pkt
    BY <1>0 DEF ProdRec, Pkt, CountRec
  <2>3. ring' = [ring EXCEPT !.lock = TRUE, !.q[ring.head] = k]
    BY <1>1, <2>1 DEF CircSlotPut
  <2> HIDE DEF k
  <2>4. ring' \in RingRec
    BY <1>0, <2>2, <2>3 DEF RingRec
  <2>5. n' \in CountRec /\ p' \in ProdRec
    BY <1>0, <1>1, <2>1 DEF CircSlotPut, CountRec, ProdRec
  <2> QED BY <1>0, <2>4, <2>5 DEF CircSlotPut
<1>2. CASE p.pc = "publish"
  <2>1. (ring.head + 1) % CIRC_SIZE \in Cells
    BY <1>0, Slots DEF RingRec
  <2>2. ring' \in RingRec
    BY <1>0, <1>2, <2>1 DEF CircSlotPut, RingRec
  <2>3. p' \in ProdRec
    BY <1>2, NoPktType DEF CircSlotPut, ProdRec, Idle
  <2> QED BY <1>0, <1>2, <2>2, <2>3 DEF CircSlotPut
<1> QED BY <1>1, <1>2 DEF CircSlotPut

LEMMA ConsumerTyped ==
  ASSUME Typed, RxWakeTx \/ TimerSched \/ ActivateTx
  PROVE  Typed'
<1> USE DEF Typed
<1>0. /\ clock \in ClockRec /\ pace \in PaceRec /\ c \in ConsRec
      /\ clock.since \in Int /\ clock.left \in Int /\ pace.fed \in Int
      /\ pace.at \in BOOLEAN
  BY DEF ClockRec, PaceRec
<1>1. CASE RxWakeTx
  <2>1. PICK ms \in Int : ms = Trunc(clock.since)
    BY <1>0, TruncIs
  <2>2. tockens' \in Int
    BY <1>1, <2>1, AddTockensInt DEF RxWakeTx
  <2>3. clock' \in ClockRec
    BY <1>0, <1>1 DEF RxWakeTx, ClockRec
  <2>4. c' \in ConsRec
    BY <1>0, <1>1 DEF RxWakeTx, ConsRec
  <2>5. pace' \in PaceRec
    <3>1. pace' = [pace EXCEPT !.fed = @ + ms, !.at = @ \/ clock.since = -MS]
      BY <1>1, <2>1 DEF RxWakeTx
    <3> DEFINE f == pace.fed + ms
               b == pace.at \/ clock.since = -MS
    <3>2. f \in Int /\ b \in BOOLEAN
      BY <1>0
    <3>3. pace' = [pace EXCEPT !.fed = f, !.at = b]
      BY <3>1, <1>0 DEF PaceRec
    <3> HIDE DEF f, b
    <3> QED BY <1>0, <3>2, <3>3 DEF PaceRec
  <2>6. wake' \in BOOLEAN
    BY <1>1, Zenon DEF RxWakeTx
  <2> QED BY <1>1, <2>2, <2>3, <2>4, <2>5, <2>6 DEF RxWakeTx
<1>2. CASE TimerSched
  <2>0. TimerAt(MS, "look")
    BY <1>2 DEF TimerSched
  <2>1. PICK ms \in Int : ms = Trunc(clock.since + MS)
    BY <1>0, TruncIs, SizesPositive
  <2>2. tockens' \in Int
    BY <2>0, <2>1, AddTockensInt DEF TimerAt
  <2>3. clock' \in ClockRec
    BY <2>0, SizesPositive DEF TimerAt, ClockRec
  <2>4. c' \in ConsRec
    BY <1>0, <2>0 DEF TimerAt, ConsRec
  <2>5. pace' \in PaceRec
    <3> DEFINE f == pace.fed + ms
               g == MS - clock.left
               b == pace.at
    <3>1. f \in Int /\ g \in Int /\ b \in BOOLEAN
      BY <1>0, SizesPositive
    <3>2. pace' = [fed |-> 0, at |-> FALSE, gap |-> f, gaplen |-> g, same |-> b]
      BY <2>0, <2>1 DEF TimerAt, Pace
    <3> HIDE DEF f, g, b
    <3> QED BY <3>1, <3>2 DEF PaceRec
  <2> QED BY <2>0, <2>2, <2>3, <2>4, <2>5 DEF TimerAt
<1>3. CASE ActivateTx
  <2>1. c' \in ConsRec
    BY <1>0, <1>3, NoPktType DEF ActivateTx, ConsRec, Idle
  <2> QED BY <1>3, <2>1 DEF ActivateTx
<1> QED BY <1>1, <1>2, <1>3

LEMMA DequeueTyped ==
  ASSUME IInv, DoDequeue \/ DecQueueSize
  PROVE  Typed'
<1> USE DEF Typed
<1>0. /\ Typed /\ ring \in RingRec /\ c \in ConsRec /\ n \in CountRec
      /\ ring.tail \in Cells /\ tockens \in Int /\ ring.q \in [Cells -> Pkt]
  BY DEF IInv, RingRec
<1>1. CASE DoDequeue
  <2>1. CircCnt > 0 /\ CircCnt \in Cells
    BY <1>0, <1>1, Slots DEF IInv, Consumer, DoDequeue
  <2>2. 0 \in Cells /\ (ring.tail + 0) % CIRC_SIZE = ring.tail
    BY <1>0, SlotZero
  <2>3. ring.q[ring.tail].id = Taken + 0 + 1
    BY <2>1, <2>2 DEF IInv, Contents, At
  <2>4. Taken \in Nat
    BY <1>0 DEF Taken, CountRec
  <2>5. ring.q[ring.tail] # NoPkt
    BY <2>3, <2>4 DEF NoPkt
  <2> DEFINE k == ring.q[ring.tail]
             t == (ring.tail + 1) % CIRC_SIZE
  <2>6. k \in Pkt /\ t \in Cells
    BY <1>0, Slots
  <2>7. /\ c' = [c EXCEPT !.pc = "load", !.pkt = k]
        /\ ring' = [ring EXCEPT !.q[ring.tail] = NoPkt, !.tail = t]
    BY <1>1, <2>1, <2>5 DEF DoDequeue, RingRec
  <2> HIDE DEF k, t
  <2>8. c' \in ConsRec
    BY <1>0, <2>6, <2>7 DEF ConsRec
  <2>9. ring' \in RingRec
    BY <1>0, <2>6, <2>7, NoPktType DEF RingRec
  <2> QED BY <1>0, <1>1, <2>8, <2>9 DEF DoDequeue
<1>2. CASE DecQueueSize /\ c.pc = "load"
  <2>1. c' \in ConsRec
    BY <1>0, <1>2 DEF DecQueueSize, ConsRec
  <2> QED BY <1>0, <1>2, <2>1 DEF DecQueueSize
<1>3. CASE DecQueueSize /\ c.pc = "store"
  <2> DEFINE u == UNIT * c.pkt.len
  <2>1. c.pkt.len \in Nat /\ c.reg \in Int /\ u \in Int
    BY <1>0, SizesPositive DEF ConsRec, Pkt
  <2>2. tockens > u
    BY <1>3 DEF IInv, Consumer
  <2>3. tockens' = tockens - u /\ stored' = c.reg - c.pkt.len
    BY <1>3 DEF DecQueueSize
  <2> HIDE DEF u
  <2>4. tockens' \in Int /\ ~ (tockens' < 0) /\ stored' \in Int
    BY <1>0, <2>1, <2>2, <2>3
  <2>5. c' = [c EXCEPT !.pc = "look", !.reg = 0, !.pkt = NoPkt]
    BY <1>3, <2>4 DEF DecQueueSize
  <2>6. c' \in ConsRec
    <3>1. 0 \in Int /\ c.shift \in {0, MS}
      BY <1>0 DEF ConsRec
    <3> QED BY <1>0, <2>5, <3>1, NoPktType DEF ConsRec
  <2>7. n' \in CountRec
    BY <1>0, <1>3 DEF DecQueueSize, CountRec
  <2> QED BY <1>0, <1>3, <2>4, <2>6, <2>7 DEF DecQueueSize
<1> QED BY <1>1, <1>2, <1>3 DEF DecQueueSize

\* A packet that gets older stays what it is.
LEMMA OlderIs ==
  ASSUME NEW k \in Pkt
  PROVE  /\ Older(k) \in Pkt
         /\ k = NoPkt => Older(k) = NoPkt
         /\ Older(k).id = k.id /\ Older(k).len = k.len
<1>1. CASE k = NoPkt
  BY <1>1, NoPktType DEF Older
<1>2. CASE k # NoPkt
  <2> DEFINE a == Least(k.age + 1, MaxDelay * MS)
  <2>1. MaxDelay * MS \in Nat
    BY SizesPositive
  <2>2. a \in Nat
    BY <2>1 DEF Pkt, Least
  <2>3. Older(k) = [k EXCEPT !.age = a]
    BY <1>2 DEF Older, Pkt
  <2> HIDE DEF a
  <2>5. Older(k) \in Pkt /\ Older(k).id = k.id /\ Older(k).len = k.len
    BY <2>2, <2>3 DEF Pkt
  <2> QED BY <1>2, <2>5
<1> QED BY <1>1, <1>2

LEMMA TimeTyped ==
  ASSUME Typed, ConfigRecvCommand \/ Tick
  PROVE  Typed'
<1> USE DEF Typed
<1>1. CASE ConfigRecvCommand
  <2>1. PICK k \in Commands : conf' = [conf EXCEPT ![k[1]] = k[2]]
    BY <1>1 DEF ConfigRecvCommand
  <2>2. k[1] \in Field /\ k[2] \in Int
    BY A2bAssumption
  <2>3. conf' \in [Field -> Int]
    BY <2>1, <2>2
  <2>4. n' \in CountRec
    BY <1>1 DEF ConfigRecvCommand, CountRec
  <2> QED BY <1>1, <2>3, <2>4 DEF ConfigRecvCommand
<1>2. CASE Tick
  <2> DEFINE q == [i \in Cells |-> Older(ring.q[i])]
  <2>1. ring' = [ring EXCEPT !.q = q]
    BY <1>2 DEF Tick, RingRec
  <2>2. q \in [Cells -> Pkt]
    BY OlderIs DEF RingRec
  <2> HIDE DEF q
  <2>3. ring' \in RingRec
    BY <2>1, <2>2 DEF RingRec
  <2>4. clock' \in ClockRec
    BY <1>2 DEF Tick, ClockRec
  <2>5. pace' \in PaceRec
    <3>1. pace.fed \in Int /\ pace.at \in BOOLEAN
      BY DEF PaceRec
    <3>2. pace' = [fed |-> pace.fed, at |-> pace.at, gap |-> 1, gaplen |-> MS,
                   same |-> FALSE]
      BY <1>2 DEF Tick, Pace
    <3> QED BY <3>1, <3>2, SizesPositive DEF PaceRec
  <2> QED BY <1>2, <2>3, <2>4, <2>5 DEF Tick
<1> QED BY <1>1, <1>2

LEMMA TypedStep == IInv /\ [Next]_vars => Typed'
<1> SUFFICES ASSUME IInv, [Next]_vars PROVE Typed'
  OBVIOUS
<1>0. Typed
  BY DEF IInv
<1>1. ASSUME NEW len \in Length, NEW cmp \in 0 .. TOTAL_LOSS_VALUE - 1, Rx(len, cmp)
      PROVE  Typed'
  BY <1>0, <1>1, RxTyped
<1>2. CASE IncQueueSize \/ DoEnqueue \/ WakeTxSend
  BY <1>0, <1>2, ProducerTyped
<1>3. CASE CircSlotPut
  BY <1>3, PutTyped
<1>4. CASE RxWakeTx \/ TimerSched \/ ActivateTx
  BY <1>0, <1>4, ConsumerTyped
<1>5. CASE DoDequeue \/ DecQueueSize
  BY <1>5, DequeueTyped
<1>6. CASE ConfigRecvCommand \/ Tick
  BY <1>0, <1>6, TimeTyped
<1>7. CASE UNCHANGED vars
  BY <1>0, <1>7 DEF vars, Typed
<1> QED BY <1>1, <1>2, <1>3, <1>4, <1>5, <1>6, <1>7 DEF Next

-----------------------------------------------------------------------------
(* The ring holds what was put and not taken.                                *)

LEMMA InitContents == Init => Contents
<1> SUFFICES ASSUME Init PROVE Contents
  OBVIOUS
<1>0. Typed
  BY InitTyped
<1>1. ring.head = 0 /\ ring.tail = 0 /\ \A i \in Cells : ring.q[i] = NoPkt
  BY DEF Init, Cells
<1>2. CircCnt = 0 /\ CircCnt \in Cells
  BY <1>0, <1>1, Slots DEF Typed
<1>3. Shown = 0 /\ Taken = 0 /\ p.pc = "idle"
  BY DEF Init, Shown, Taken, Idle
<1>4. \A i \in Cells : (ring.tail + i) % CIRC_SIZE \in Cells
  BY <1>0, Slots DEF Typed, RingRec
<1>5. \A i \in Cells : At(i) = NoPkt
  BY <1>1, <1>4 DEF At
<1>6. 0 = 0 - 0 /\ \A i \in Cells : ~(i < 0)
  BY DEF Cells
<1> QED BY <1>2, <1>3, <1>5, <1>6 DEF Contents

\* Steps that leave the ring and its counts alone.
LEMMA ContentsKept ==
  ASSUME Contents, UNCHANGED ring, Shown' = Shown, Taken' = Taken,
         p'.pc = "publish" <=> p.pc = "publish",
         p.pc = "publish" => n'.put = n.put
  PROVE  Contents'
<1>1. CircCnt' = CircCnt /\ \A i : At(i)' = At(i)
  BY DEF CircCnt, At
<1> QED BY <1>1 DEF Contents

LEMMA QuietContents ==
  ASSUME IInv,
         \/ \E len \in Length, cmp \in 0 .. TOTAL_LOSS_VALUE - 1 : Rx(len, cmp)
         \/ IncQueueSize \/ DoEnqueue \/ WakeTxSend
         \/ RxWakeTx \/ TimerSched \/ ActivateTx \/ DecQueueSize \/ ConfigRecvCommand
         \/ UNCHANGED vars
  PROVE  Contents'
<1>0. Contents /\ p \in ProdRec /\ c \in ConsRec /\ n \in CountRec /\ ring \in RingRec
  BY DEF IInv, Typed
<1>1. UNCHANGED ring /\ n'.put = n.put
  <2>1. ASSUME NEW len \in Length, NEW cmp \in 0 .. TOTAL_LOSS_VALUE - 1, Rx(len, cmp)
        PROVE  UNCHANGED ring /\ n'.put = n.put
    BY <1>0, <2>1 DEF Rx, CountRec
  <2>2. CASE IncQueueSize \/ DoEnqueue \/ WakeTxSend \/ RxWakeTx \/ ActivateTx \/ UNCHANGED vars
    BY <2>2 DEF IncQueueSize, DoEnqueue, WakeTxSend, RxWakeTx, ActivateTx, vars
  <2>3. CASE TimerSched
    BY <2>3 DEF TimerSched, TimerAt
  <2>4. CASE DecQueueSize \/ ConfigRecvCommand
    BY <1>0, <2>4 DEF DecQueueSize, ConfigRecvCommand, CountRec
  <2> QED BY <2>1, <2>2, <2>3, <2>4
<1>2. p'.pc = "publish" <=> p.pc = "publish"
  <2>1. ASSUME NEW len \in Length, NEW cmp \in 0 .. TOTAL_LOSS_VALUE - 1, Rx(len, cmp)
        PROVE  p.pc # "publish" /\ p'.pc # "publish"
    BY <1>0, <2>1 DEF Rx, ProdRec
  <2>2. CASE IncQueueSize \/ DoEnqueue \/ WakeTxSend
    <3>1. p.pc # "publish"
      BY <2>2 DEF IncQueueSize, DoEnqueue, WakeTxSend
    <3>2. IncQueueSize => p'.pc # "publish"
      BY <1>0 DEF IncQueueSize, ProdRec
    <3>3. DoEnqueue => p'.pc # "publish"
      BY <1>0 DEF DoEnqueue, ProdRec, Idle
    <3>4. WakeTxSend => p'.pc # "publish"
      BY DEF WakeTxSend, Idle
    <3> QED BY <2>2, <3>1, <3>2, <3>3, <3>4
  <2>3. CASE RxWakeTx \/ ActivateTx \/ UNCHANGED vars \/ DecQueueSize \/ ConfigRecvCommand
    BY <2>3 DEF RxWakeTx, ActivateTx, vars, DecQueueSize, ConfigRecvCommand
  <2>4. CASE TimerSched
    BY <2>4 DEF TimerSched, TimerAt
  <2> QED BY <2>1, <2>2, <2>3, <2>4
<1>3. Shown' = Shown
  <2>1. CASE p.pc = "publish"
    BY <1>1, <1>2, <2>1 DEF Shown
  <2>2. CASE p.pc # "publish"
    BY <1>1, <1>2, <2>2 DEF Shown
  <2> QED BY <2>1, <2>2
<1>4. Taken' = Taken
  <2>1. ASSUME NEW len \in Length, NEW cmp \in 0 .. TOTAL_LOSS_VALUE - 1, Rx(len, cmp)
        PROVE  UNCHANGED c /\ n'.sent = n.sent
    BY <1>0, <2>1 DEF Rx, CountRec
  <2>2. CASE IncQueueSize \/ DoEnqueue \/ WakeTxSend \/ UNCHANGED vars
    BY <2>2 DEF IncQueueSize, DoEnqueue, WakeTxSend, vars, Taken
  <2>3. CASE RxWakeTx
    <3>1. c'.pkt = c.pkt /\ n' = n
      BY <1>0, <2>3 DEF RxWakeTx, ConsRec
    <3> QED BY <3>1 DEF Taken
  <2>4. CASE TimerSched
    <3>1. c'.pkt = c.pkt /\ n' = n
      BY <1>0, <2>4 DEF TimerSched, TimerAt, ConsRec
    <3> QED BY <3>1 DEF Taken
  <2>5. CASE ActivateTx
    <3>1. c.pkt = NoPkt
      BY <2>5 DEF ActivateTx, IInv, Consumer
    <3>2. c'.pkt = NoPkt /\ n' = n
      BY <1>0, <2>5, <3>1 DEF ActivateTx, ConsRec, Idle
    <3> QED BY <3>1, <3>2 DEF Taken
  <2>6. CASE DecQueueSize /\ c.pc = "load"
    <3>1. c'.pkt = c.pkt /\ n' = n
      BY <1>0, <2>6 DEF DecQueueSize, ConsRec
    <3> QED BY <3>1 DEF Taken
  <2>7. CASE DecQueueSize /\ c.pc = "store"
    <3>1. c.pkt # NoPkt
      BY <2>7 DEF IInv, Consumer
    <3>2. n'.sent = n.sent + 1
      BY <1>0, <2>7 DEF DecQueueSize, CountRec
    <3>3. ~ (tockens' < 0)
      <4>1. tockens > UNIT * c.pkt.len /\ tockens' = tockens - UNIT * c.pkt.len
        BY <2>7 DEF IInv, Consumer, DecQueueSize
      <4>2. UNIT * c.pkt.len \in Int /\ tockens \in Int
        BY <1>0, SizesPositive DEF ConsRec, Pkt, IInv, Typed
      <4> DEFINE u == UNIT * c.pkt.len
      <4>3. u \in Int /\ tockens > u /\ tockens' = tockens - u
        BY <4>1, <4>2
      <4> HIDE DEF u
      <4> QED BY <4>2, <4>3
    <3>4. c'.pkt = NoPkt
      BY <1>0, <2>7, <3>3 DEF DecQueueSize, ConsRec
    <3> QED BY <1>0, <3>1, <3>2, <3>4 DEF Taken, CountRec
  <2>8. CASE ConfigRecvCommand
    <3>1. c' = c /\ n'.sent = n.sent
      BY <1>0, <2>8 DEF ConfigRecvCommand, CountRec
    <3> QED BY <3>1 DEF Taken
  <2> QED BY <2>1, <2>2, <2>3, <2>4, <2>5, <2>6, <2>7, <2>8 DEF Taken, DecQueueSize
<1> QED BY <1>0, <1>1, <1>2, <1>3, <1>4, ContentsKept

\* circ_slot_put before it moves the head.
LEMMA PutContents ==
  ASSUME IInv, CircSlotPut, p.pc = "put"
  PROVE  /\ Contents'
         /\ CircCnt' = CircCnt
         /\ p'.pc = "publish" /\ n' = [n EXCEPT !.put = @ + 1]
         /\ ring'.lock = TRUE /\ ring'.tail = ring.tail
         /\ CircCnt > 0 => ring'.q[ring.tail] = ring.q[ring.tail]
<1>0. /\ Contents /\ Typed /\ p \in ProdRec /\ c \in ConsRec /\ n \in CountRec
      /\ ring \in RingRec /\ ring.tail \in Cells /\ ring.head \in Cells
      /\ ring.q \in [Cells -> Pkt]
  BY DEF IInv, Typed, RingRec
<1>1. CircCnt \in Cells /\ CircSpace = CIRC_SIZE - 1 - CircCnt /\ CircCnt < CIRC_SIZE - 1
  BY <1>0, Slots DEF IInv, Producer
<1>2. CircSpace # 0
  BY <1>1, SizesPositive DEF Cells
<1>3. ring.head = (ring.tail + CircCnt) % CIRC_SIZE
  BY <1>0, HeadIsAtCount
<1>4. ring.q[ring.head] = NoPkt
  BY <1>0, <1>1, <1>3 DEF Contents, At
<1> DEFINE k == [p.pkt EXCEPT !.id = n.put + 1]
<1>5. k \in Pkt /\ k.id = n.put + 1
  BY <1>0 DEF ProdRec, Pkt, CountRec
<1>6. /\ ring' = [ring EXCEPT !.lock = TRUE, !.q[ring.head] = k]
      /\ n' = [n EXCEPT !.put = @ + 1] /\ p' = [p EXCEPT !.pc = "publish"] /\ c' = c
  BY <1>2, <1>4 DEF CircSlotPut
<1> HIDE DEF k
<1>7. /\ ring'.q = [ring.q EXCEPT ![ring.head] = k]
      /\ ring'.head = ring.head /\ ring'.tail = ring.tail /\ ring'.lock = TRUE
  BY <1>0, <1>6 DEF RingRec
<1>8. /\ CircCnt' = CircCnt
      /\ p'.pc = "publish" /\ n'.put = n.put + 1 /\ n'.sent = n.sent
  BY <1>0, <1>6, <1>7 DEF CircCnt, ProdRec, CountRec
<1>9. Shown' = Shown /\ Taken' = Taken
  BY <1>0, <1>6, <1>8 DEF Shown, Taken, CountRec
<1>10. \A i \in Cells : i # CircCnt => At(i)' = At(i)
  <2> SUFFICES ASSUME NEW i \in Cells, i # CircCnt
               PROVE  At(i)' = At(i)
    OBVIOUS
  <2>1. (ring.tail + i) % CIRC_SIZE \in Cells
    BY <1>0, Slots
  <2>2. (ring.tail + i) % CIRC_SIZE # ring.head
    BY <1>0, <1>1, <1>3, SlotsDiffer
  <2> QED BY <1>0, <1>7, <2>1, <2>2 DEF At
<1>11. At(CircCnt)' = k
  BY <1>0, <1>3, <1>7, <1>8 DEF At
<1>12. Contents'
  <2>1. CircCnt' = Shown' - Taken'
    BY <1>0, <1>8, <1>9 DEF Contents
  <2>2. \A i \in Cells : i < CircCnt => At(i)'.id = Taken' + i + 1
    BY <1>0, <1>1, <1>9, <1>10 DEF Contents, Cells
  <2>3. \A i \in Cells : i > CircCnt => At(i)' = NoPkt
    BY <1>0, <1>1, <1>10 DEF Contents, Cells
  <2>4. At(CircCnt)'.id = n'.put
    BY <1>5, <1>8, <1>11
  <2> QED BY <1>8, <2>1, <2>2, <2>3, <2>4 DEF Contents
<1>13. CircCnt > 0 => ring'.q[ring.tail] = ring.q[ring.tail]
  <2>1. CircCnt > 0 => ring.head # ring.tail
    BY <1>0, <1>1, <1>3, SlotZero, SlotsDiffer DEF Cells
  <2> QED BY <1>0, <1>7, <2>1
<1> QED BY <1>6, <1>7, <1>8, <1>12, <1>13

\* circ_slot_put moves the head.
LEMMA PublishContents ==
  ASSUME IInv, CircSlotPut, p.pc = "publish"
  PROVE  /\ Contents'
         /\ CircCnt' = CircCnt + 1
         /\ p' = [Idle EXCEPT !.pc = "wake"] /\ n' = n
         /\ ring'.lock = FALSE /\ ring'.tail = ring.tail /\ ring'.q = ring.q
<1>0. /\ Contents /\ Typed /\ p \in ProdRec /\ c \in ConsRec /\ n \in CountRec
      /\ ring \in RingRec /\ ring.tail \in Cells /\ ring.head \in Cells
      /\ ring.q \in [Cells -> Pkt]
  BY DEF IInv, Typed, RingRec
<1>1. CircCnt \in Cells /\ CircCnt < CIRC_SIZE - 1
  BY <1>0, Slots DEF IInv, Producer
<1>2. /\ p' = [Idle EXCEPT !.pc = "wake"] /\ n' = n /\ c' = c
      /\ ring' = [ring EXCEPT !.lock = FALSE, !.head = (@ + 1) % CIRC_SIZE]
  BY DEF CircSlotPut
<1>3. /\ ring'.head = (ring.head + 1) % CIRC_SIZE
      /\ ring'.tail = ring.tail /\ ring'.lock = FALSE /\ ring'.q = ring.q
  BY <1>0, <1>2 DEF RingRec
<1>4. ring' \in RingRec /\ Typed'
  BY PutTyped DEF Typed
<1>5. CircCnt' = CircCnt + 1
  <2>1. (ring.head + 1) % CIRC_SIZE = IF ring.head + 1 < CIRC_SIZE THEN ring.head + 1 ELSE 0
    BY <1>0, Slots
  <2>2. CircCnt = IF ring.head < ring.tail THEN ring.head - ring.tail + CIRC_SIZE
                  ELSE ring.head - ring.tail
    BY <1>0, Slots
  <2>3. CircCnt' = (ring'.head - ring'.tail) % CIRC_SIZE
    BY DEF CircCnt
  <2>4. CircCnt' = IF ring'.head < ring'.tail THEN ring'.head - ring'.tail + CIRC_SIZE
                   ELSE ring'.head - ring'.tail
    <3>1. PICK h \in Cells, t \in Cells : h = ring'.head /\ t = ring'.tail
      BY <1>4 DEF RingRec
    <3>2. h \in Int /\ t \in Int /\ -CIRC_SIZE <= h - t /\ h - t < CIRC_SIZE
      BY SizesPositive DEF Cells
    <3>3. (h - t) % CIRC_SIZE = IF h - t < 0 THEN h - t + CIRC_SIZE
                                ELSE IF h - t < CIRC_SIZE THEN h - t
                                ELSE h - t - CIRC_SIZE
      BY <3>2, SlotRemainder, SizesPositive
    <3> QED BY <2>3, <3>1, <3>2, <3>3, SizesPositive
  <2>5. PICK h \in Int, t \in Int, k \in Int : h = ring.head /\ t = ring.tail /\ k = CircCnt
    BY <1>0, <1>1 DEF Cells
  <2>6. /\ 0 <= h /\ h < CIRC_SIZE /\ 0 <= t /\ t < CIRC_SIZE /\ k < CIRC_SIZE - 1
        /\ k = IF h < t THEN h - t + CIRC_SIZE ELSE h - t
    BY <1>0, <1>1, <2>2, <2>5, SizesPositive DEF Cells
  <2>7. ring'.head = (IF h + 1 < CIRC_SIZE THEN h + 1 ELSE 0) /\ ring'.tail = t
    BY <1>3, <2>1, <2>5
  <2>8. CASE h + 1 < CIRC_SIZE
    <3>1. CircCnt' = IF h + 1 < t THEN h + 1 - t + CIRC_SIZE ELSE h + 1 - t
      BY <2>4, <2>7, <2>8
    <3> QED BY <2>5, <2>6, <3>1, SizesPositive
  <2>9. CASE h + 1 >= CIRC_SIZE
    <3>1. CircCnt' = IF 0 < t THEN 0 - t + CIRC_SIZE ELSE 0 - t
      BY <2>4, <2>7, <2>9, SizesPositive
    <3> QED BY <2>5, <2>6, <2>9, <3>1, SizesPositive
  <2> QED BY <2>8, <2>9, SizesPositive
<1>6. p'.pc # "publish"
  BY <1>2 DEF Idle
<1>7. Shown' = Shown + 1 /\ Taken' = Taken /\ Shown' = n.put
  BY <1>0, <1>2, <1>6 DEF Shown, Taken, CountRec
<1>8. Shown \in Int /\ Taken \in Int
  BY <1>0 DEF Shown, Taken, CountRec
<1>9. \A i : At(i)' = At(i)
  BY <1>3 DEF At
<1>10. CircCnt' = Shown' - Taken'
  BY <1>0, <1>5, <1>7, <1>8 DEF Contents
<1>11. \A i \in Cells : i < CircCnt' => At(i)'.id = Taken' + i + 1
  <2> SUFFICES ASSUME NEW i \in Cells, i < CircCnt + 1
               PROVE  At(i).id = Taken + i + 1
    BY <1>5, <1>7, <1>9
  <2>1. CASE i < CircCnt
    BY <1>0, <2>1 DEF Contents
  <2>2. CASE i = CircCnt
    <3>1. At(i).id = n.put
      BY <1>0, <2>2 DEF Contents
    <3>2. n.put = Taken + i + 1
      BY <1>5, <1>7, <1>8, <1>10, <2>2, <1>1 DEF Cells
    <3> QED BY <3>1, <3>2
  <2> QED BY <1>1, <2>1, <2>2 DEF Cells
<1>12. \A i \in Cells : i >= CircCnt' => At(i)' = NoPkt
  BY <1>0, <1>1, <1>5, <1>9 DEF Contents, Cells
<1>13. Contents'
  <2>1. \A i \in Cells : (i > CircCnt' \/ (i = CircCnt' /\ p'.pc # "publish")) => At(i)' = NoPkt
    BY <1>1, <1>5, <1>12 DEF Cells
  <2> QED BY <1>6, <1>10, <1>11, <2>1 DEF Contents
<1> QED BY <1>2, <1>3, <1>5, <1>13

\* circ_slot_get.
LEMMA GetContents ==
  ASSUME IInv, DoDequeue
  PROVE  /\ Contents'
         /\ CircCnt' = CircCnt - 1
         /\ c'.pc = "load" /\ c'.pkt = ring.q[ring.tail] /\ c'.pkt # NoPkt
         /\ c'.pkt.id = Taken'
         /\ ring'.lock = ring.lock
<1>0. /\ Contents /\ Typed /\ p \in ProdRec /\ c \in ConsRec /\ n \in CountRec
      /\ ring \in RingRec /\ ring.tail \in Cells /\ ring.head \in Cells
      /\ ring.q \in [Cells -> Pkt]
  BY DEF IInv, Typed, RingRec
<1>1. CircCnt \in Cells /\ CircCnt > 0 /\ c.pkt = NoPkt
  BY <1>0, Slots DEF IInv, Consumer, DoDequeue
<1> DEFINE k == ring.q[ring.tail]
           u == (ring.tail + 1) % CIRC_SIZE
<1>2. Taken = n.sent /\ Taken \in Nat
  BY <1>0, <1>1 DEF Taken, CountRec
<1>3. k \in Pkt /\ u \in Cells /\ u = IF ring.tail + 1 < CIRC_SIZE THEN ring.tail + 1 ELSE 0
  BY <1>0, Slots
<1>4. k.id = Taken + 1
  <2>1. k.id = Taken + 0 + 1
    BY <1>0, <1>1, SlotZero DEF Contents, At
  <2> QED BY <1>2, <2>1
<1>5. k # NoPkt
  BY <1>2, <1>4 DEF NoPkt
<1>6. /\ c' = [c EXCEPT !.pc = "load", !.pkt = k]
      /\ ring' = [ring EXCEPT !.q[ring.tail] = NoPkt, !.tail = u]
      /\ n' = n /\ p' = p /\ ~ring.lock
  BY <1>0, <1>1, <1>5 DEF DoDequeue, RingRec
<1>8. /\ ring'.q = [ring.q EXCEPT ![ring.tail] = NoPkt]
      /\ ring'.tail = u /\ ring'.head = ring.head /\ ring'.lock = ring.lock
  <2> HIDE DEF k, u
  <2> QED BY <1>0, <1>6 DEF RingRec
<1>9. c'.pc = "load" /\ c'.pkt = k
  <2> HIDE DEF k, u
  <2> QED BY <1>0, <1>3, <1>6 DEF ConsRec
<1> HIDE DEF k, u
<1>10. Taken' = Taken + 1
  BY <1>0, <1>2, <1>5, <1>6, <1>9 DEF Taken, CountRec
<1>11. Shown' = Shown /\ Shown \in Int /\ p.pc # "publish" /\ p'.pc # "publish"
  BY <1>0, <1>6 DEF Shown, CountRec, IInv, Producer
<1>12. CircCnt' = CircCnt - 1
  <2>1. ring' \in RingRec
    BY <1>0, <1>3, <1>6, NoPktType DEF RingRec
  <2>2. CircCnt = IF ring.head < ring.tail THEN ring.head - ring.tail + CIRC_SIZE
                  ELSE ring.head - ring.tail
    BY <1>0, Slots
  <2>3. PICK h \in Int, t \in Int, m \in Int, v \in Int :
           h = ring.head /\ t = ring.tail /\ m = CircCnt /\ v = u
    BY <1>0, <1>1, <1>3 DEF Cells
  <2>4. /\ 0 <= h /\ h < CIRC_SIZE /\ 0 <= t /\ t < CIRC_SIZE /\ m > 0
        /\ m = (IF h < t THEN h - t + CIRC_SIZE ELSE h - t)
        /\ v = (IF t + 1 < CIRC_SIZE THEN t + 1 ELSE 0)
    BY <1>0, <1>1, <1>3, <2>2, <2>3, SizesPositive DEF Cells
  <2>5. CircCnt' = (h - v) % CIRC_SIZE
    BY <1>8, <2>3 DEF CircCnt
  <2>6. h - v \in Int /\ -CIRC_SIZE <= h - v /\ h - v < 2 * CIRC_SIZE
    BY <2>4, SizesPositive
  <2>7. (h - v) % CIRC_SIZE = IF h - v < 0 THEN h - v + CIRC_SIZE
                              ELSE IF h - v < CIRC_SIZE THEN h - v
                              ELSE h - v - CIRC_SIZE
    BY <2>6, SlotRemainder, SizesPositive
  <2> QED BY <2>3, <2>4, <2>5, <2>7, SizesPositive
<1>13. \A i \in Cells : i + 1 \in Cells => At(i)' = At(i + 1)
  <2> SUFFICES ASSUME NEW i \in Cells, i + 1 \in Cells
               PROVE  At(i)' = At(i + 1)
    OBVIOUS
  <2>1. At(i)' = ring'.q[(u + i) % CIRC_SIZE]
    BY <1>8 DEF At
  <2>2. (u + i) % CIRC_SIZE = (ring.tail + (i + 1)) % CIRC_SIZE
    <3>1. PICK t \in Int, v \in Int, m \in Int, j \in Int :
             t = ring.tail /\ v = u /\ m = i /\ j = i + 1
      BY <1>0, <1>3 DEF Cells
    <3>2. /\ 0 <= t /\ t < CIRC_SIZE /\ 0 <= m /\ j = m + 1 /\ j < CIRC_SIZE
          /\ v = (IF t + 1 < CIRC_SIZE THEN t + 1 ELSE 0)
      <4>1. 0 <= t /\ t < CIRC_SIZE
        BY <1>0, <3>1, SizesPositive DEF Cells
      <4>2. 0 <= m /\ j = m + 1 /\ j < CIRC_SIZE
        BY <3>1, SizesPositive DEF Cells
      <4>3. v = IF t + 1 < CIRC_SIZE THEN t + 1 ELSE 0
        BY <1>3, <3>1
      <4> QED BY <4>1, <4>2, <4>3
    <3>3. (u + i) % CIRC_SIZE = IF v + m < CIRC_SIZE THEN v + m ELSE v + m - CIRC_SIZE
      BY <1>3, <3>1, Slots
    <3>4. (ring.tail + (i + 1)) % CIRC_SIZE =
             IF t + j < CIRC_SIZE THEN t + j ELSE t + j - CIRC_SIZE
      BY <1>0, <3>1, Slots
    <3> QED BY <3>2, <3>3, <3>4, SizesPositive
  <2>3. (ring.tail + (i + 1)) % CIRC_SIZE \in Cells
    BY <1>0, Slots
  <2>4. (ring.tail + (i + 1)) % CIRC_SIZE # ring.tail
    <3>1. (ring.tail + 0) % CIRC_SIZE = ring.tail /\ 0 \in Cells /\ i + 1 # 0
      BY <1>0, SlotZero DEF Cells
    <3> QED BY <1>0, <3>1, SlotsDiffer
  <2> QED BY <1>0, <1>8, <2>1, <2>2, <2>3, <2>4 DEF At
<1>14. \A i \in Cells : i + 1 = CIRC_SIZE => At(i)' = NoPkt
  <2> SUFFICES ASSUME NEW i \in Cells, i + 1 = CIRC_SIZE
               PROVE  At(i)' = NoPkt
    OBVIOUS
  <2>1. At(i)' = ring'.q[(u + i) % CIRC_SIZE]
    BY <1>8 DEF At
  <2>2. (u + i) % CIRC_SIZE = ring.tail
    <3>1. PICK t \in Int, v \in Int, m \in Int : t = ring.tail /\ v = u /\ m = i
      BY <1>0, <1>3 DEF Cells
    <3>2. /\ 0 <= t /\ t < CIRC_SIZE /\ m + 1 = CIRC_SIZE
          /\ v = (IF t + 1 < CIRC_SIZE THEN t + 1 ELSE 0)
      BY <1>0, <1>3, <3>1 DEF Cells
    <3>3. (u + i) % CIRC_SIZE = IF v + m < CIRC_SIZE THEN v + m ELSE v + m - CIRC_SIZE
      BY <1>3, <3>1, Slots
    <3> QED BY <3>1, <3>2, <3>3, SizesPositive
  <2> QED BY <1>0, <1>8, <2>1, <2>2
<1>15. Contents'
  <2>1. CircCnt' = Shown' - Taken'
    BY <1>0, <1>2, <1>10, <1>11, <1>12 DEF Contents
  <2>2. \A i \in Cells : i < CircCnt' => At(i)'.id = Taken' + i + 1
    <3> SUFFICES ASSUME NEW i \in Cells, i < CircCnt - 1
                 PROVE  At(i)'.id = Taken + 1 + i + 1
      BY <1>10, <1>12
    <3>1. i + 1 \in Cells /\ i + 1 < CircCnt
      BY <1>1, SizesPositive DEF Cells
    <3>2. At(i + 1).id = Taken + (i + 1) + 1
      BY <1>0, <3>1 DEF Contents
    <3>3. At(i)' = At(i + 1)
      BY <1>13, <3>1 DEF Cells
    <3> QED BY <1>2, <3>2, <3>3 DEF Cells
  <2>3. \A i \in Cells : i >= CircCnt' => At(i)' = NoPkt
    <3> SUFFICES ASSUME NEW i \in Cells, i >= CircCnt - 1
                 PROVE  At(i)' = NoPkt
      BY <1>12
    <3>1. CASE i + 1 = CIRC_SIZE
      BY <1>14, <3>1
    <3>2. CASE i + 1 # CIRC_SIZE
      <4>1. i + 1 \in Cells /\ i + 1 >= CircCnt
        BY <1>1, <3>2, SizesPositive DEF Cells
      <4>2. At(i + 1) = NoPkt
        <5>1. i + 1 > CircCnt \/ i + 1 = CircCnt
          BY <1>1, <4>1 DEF Cells
        <5> QED BY <1>0, <1>11, <4>1, <5>1 DEF Contents
      <4> QED BY <1>13, <3>2, <4>1, <4>2
    <3> QED BY <3>1, <3>2
  <2>4. CircCnt' \in Int
    BY <1>1, <1>12 DEF Cells
  <2>5. \A i \in Cells : (i > CircCnt' \/ (i = CircCnt' /\ p'.pc # "publish")) => At(i)' = NoPkt
    BY <2>3, <2>4 DEF Cells
  <2> QED BY <1>11, <2>1, <2>2, <2>5 DEF Contents
<1>16. c'.pkt.id = Taken'
  BY <1>4, <1>9, <1>10
<1> QED BY <1>5, <1>8, <1>9, <1>12, <1>15, <1>16 DEF k

LEMMA TickContents ==
  ASSUME IInv, Tick
  PROVE  Contents' /\ CircCnt' = CircCnt
<1>0. /\ Contents /\ Typed /\ n \in CountRec /\ ring \in RingRec
      /\ ring.tail \in Cells /\ ring.q \in [Cells -> Pkt]
  BY DEF IInv, Typed, RingRec
<1> DEFINE q == [i \in Cells |-> Older(ring.q[i])]
<1>1. ring' = [ring EXCEPT !.q = q] /\ p' = p /\ c' = c /\ n' = n /\ p.pc = "idle"
  BY <1>0 DEF Tick
<1>2. ring'.q = q /\ ring'.tail = ring.tail /\ ring'.head = ring.head
  <2> HIDE DEF q
  <2> QED BY <1>0, <1>1 DEF RingRec
<1>3. CircCnt' = CircCnt /\ Shown' = Shown /\ Taken' = Taken
  BY <1>1, <1>2 DEF CircCnt, Shown, Taken
<1>4. ASSUME NEW i \in Cells
      PROVE  At(i)'.id = At(i).id /\ (At(i) = NoPkt => At(i)' = NoPkt)
  <2>1. (ring.tail + i) % CIRC_SIZE \in Cells
    BY <1>0, Slots
  <2>2. At(i)' = Older(At(i)) /\ At(i) \in Pkt
    BY <1>0, <1>2, <2>1 DEF At
  <2> QED BY <2>2, OlderIs
<1> QED BY <1>0, <1>1, <1>3, <1>4 DEF Contents

LEMMA ContentsStep == IInv /\ [Next]_vars => Contents'
<1> SUFFICES ASSUME IInv, [Next]_vars PROVE Contents'
  OBVIOUS
<1>1. CASE CircSlotPut
  BY <1>1, PutContents, PublishContents DEF CircSlotPut
<1>2. CASE DoDequeue
  BY <1>2, GetContents
<1>3. CASE Tick
  BY <1>3, TickContents
<1> QED BY <1>1, <1>2, <1>3, QuietContents DEF Next
-----------------------------------------------------------------------------
(* The thread of A.                                                          *)

LEMMA ProducerStep == IInv /\ [Next]_vars => Producer'
<1> SUFFICES ASSUME IInv, [Next]_vars PROVE Producer'
  OBVIOUS
<1>0. /\ Producer /\ Typed /\ p \in ProdRec /\ n \in CountRec /\ ring \in RingRec
      /\ CircCnt \in Cells /\ CircSpace = CIRC_SIZE - 1 - CircCnt
  BY Slots DEF IInv, Typed
<1>1. ASSUME NEW len \in Length, NEW cmp \in 0 .. TOTAL_LOSS_VALUE - 1, Rx(len, cmp)
      PROVE  Producer'
  <2>1. /\ p.pc = "idle" /\ n'.put = n.put /\ n'.pkt = n.pkt + 1 /\ ring' = ring
        /\ p'.pc \in {"wake", "load"}
    BY <1>0, <1>1 DEF Rx, ProdRec, CountRec
  <2> QED BY <1>0, <2>1 DEF Producer, CountRec
<1>2. CASE IncQueueSize
  <2>1. /\ n' = n /\ ring' = ring /\ p.pc \in {"load", "store"}
        /\ p'.pc \in {"store", "space"}
    BY <1>0, <1>2 DEF IncQueueSize, ProdRec
  <2> QED BY <1>0, <2>1 DEF Producer
<1>3. CASE DoEnqueue
  <2>1. /\ n' = n /\ ring' = ring /\ p.pc = "space" /\ CircCnt' = CircCnt
    BY <1>3 DEF DoEnqueue, CircCnt
  <2>2. CASE CircSpace > 0
    <3>1. p'.pc = "put" /\ CircCnt < CIRC_SIZE - 1
      BY <1>0, <1>3, <2>2, SizesPositive DEF DoEnqueue, ProdRec, Cells
    <3> QED BY <1>0, <2>1, <3>1 DEF Producer
  <2>3. CASE ~ (CircSpace > 0)
    <3>1. p'.pc = "wake"
      BY <1>3, <2>3 DEF DoEnqueue, Idle
    <3> QED BY <1>0, <2>1, <3>1 DEF Producer, CountRec
  <2> QED BY <2>2, <2>3
<1>4. CASE CircSlotPut /\ p.pc = "put"
  <2>1. /\ CircCnt' = CircCnt /\ p'.pc = "publish" /\ ring'.lock = TRUE
        /\ n' = [n EXCEPT !.put = @ + 1]
    BY <1>4, PutContents
  <2>2. n'.put = n.put + 1 /\ n'.pkt = n.pkt
    BY <1>0, <2>1 DEF CountRec
  <2> QED BY <1>0, <1>4, <2>1, <2>2 DEF Producer, CountRec
<1>5. CASE CircSlotPut /\ p.pc = "publish"
  <2>1. p'.pc = "wake" /\ ring'.lock = FALSE /\ n' = n
    BY <1>5, PublishContents DEF Idle
  <2> QED BY <1>0, <1>5, <2>1 DEF Producer, CountRec
<1>6. CASE WakeTxSend
  <2>1. n' = n /\ ring' = ring /\ p.pc = "wake" /\ p'.pc = "idle"
    BY <1>6 DEF WakeTxSend, Idle
  <2> QED BY <1>0, <2>1 DEF Producer, CountRec
<1>7. CASE RxWakeTx \/ TimerSched \/ ActivateTx \/ DecQueueSize \/ ConfigRecvCommand
           \/ UNCHANGED vars
  <2>1. p' = p /\ ring' = ring /\ n'.put = n.put /\ n'.pkt = n.pkt
    BY <1>0, <1>7 DEF RxWakeTx, TimerSched, TimerAt, ActivateTx, DecQueueSize,
                      ConfigRecvCommand, vars, CountRec
  <2> QED BY <1>0, <2>1 DEF Producer, CircCnt
<1>8. CASE DoDequeue
  <2>1. CircCnt' = CircCnt - 1 /\ ring'.lock = ring.lock
    BY <1>8, GetContents
  <2>2. p' = p /\ n' = n
    BY <1>8 DEF DoDequeue
  <2> QED BY <1>0, <2>1, <2>2, SizesPositive DEF Producer, Cells
<1>9. CASE Tick
  <2>1. CircCnt' = CircCnt
    BY <1>9, TickContents
  <2>2. p' = p /\ n' = n /\ ring'.lock = ring.lock
    BY <1>0, <1>9 DEF Tick, RingRec
  <2> QED BY <1>0, <2>1, <2>2 DEF Producer
<1> QED BY <1>1, <1>2, <1>3, <1>4, <1>5, <1>6, <1>7, <1>8, <1>9 DEF Next, CircSlotPut
-----------------------------------------------------------------------------
(* The thread of B.                                                          *)

\* Steps of the other thread leave the packet at the tail where it is.
LEMMA ConsumerKept ==
  ASSUME IInv, UNCHANGED <<c, tockens>>, n'.sent = n.sent,
         CircCnt > 0 => CircCnt' > 0 /\ ring'.q[ring'.tail] = ring.q[ring.tail]
  PROVE  Consumer'
<1>1. Taken' = Taken /\ Consumer
  BY DEF Taken, IInv
<1> QED BY <1>1 DEF Consumer

LEMMA ConsumerStep == IInv /\ [Next]_vars => Consumer'
<1> SUFFICES ASSUME IInv, [Next]_vars PROVE Consumer'
  OBVIOUS
<1>0. /\ Consumer /\ Typed /\ c \in ConsRec /\ n \in CountRec /\ ring \in RingRec
      /\ CircCnt \in Cells
  BY Slots DEF IInv, Typed
<1>1. ASSUME NEW len \in Length, NEW cmp \in 0 .. TOTAL_LOSS_VALUE - 1, Rx(len, cmp)
      PROVE  Consumer'
  <2>1. UNCHANGED <<c, tockens, ring>> /\ n'.sent = n.sent
    BY <1>0, <1>1 DEF Rx, CountRec
  <2> QED BY <2>1, ConsumerKept DEF CircCnt
<1>2. CASE IncQueueSize \/ DoEnqueue \/ WakeTxSend \/ ConfigRecvCommand \/ UNCHANGED vars
  <2>1. UNCHANGED <<c, tockens, ring>> /\ n'.sent = n.sent
    BY <1>0, <1>2 DEF IncQueueSize, DoEnqueue, WakeTxSend, ConfigRecvCommand, vars, CountRec
  <2> QED BY <2>1, ConsumerKept DEF CircCnt
<1>3. CASE CircSlotPut /\ p.pc = "put"
  <2>1. /\ CircCnt' = CircCnt /\ n'.sent = n.sent /\ ring'.tail = ring.tail
        /\ CircCnt > 0 => ring'.q[ring.tail] = ring.q[ring.tail]
    BY <1>0, <1>3, PutContents DEF CountRec
  <2>2. UNCHANGED <<c, tockens>>
    BY <1>3 DEF CircSlotPut
  <2> QED BY <2>1, <2>2, ConsumerKept
<1>4. CASE CircSlotPut /\ p.pc = "publish"
  <2>1. /\ CircCnt' = CircCnt + 1 /\ n'.sent = n.sent
        /\ ring'.tail = ring.tail /\ ring'.q = ring.q
    BY <1>4, PublishContents
  <2>2. UNCHANGED <<c, tockens>>
    BY <1>4 DEF CircSlotPut
  <2>3. CircCnt > 0 => CircCnt' > 0
    BY <1>0, <2>1 DEF Cells
  <2> QED BY <2>1, <2>2, <2>3, ConsumerKept
<1>5. CASE RxWakeTx \/ TimerSched
  <2>1. c.pc = "idle" /\ c'.pc = "look" /\ c'.pkt = c.pkt
    BY <1>0, <1>5 DEF RxWakeTx, TimerSched, TimerAt, ConsRec
  <2> QED BY <1>0, <2>1 DEF Consumer
<1>6. CASE ActivateTx
  <2>1. c.pc = "look" /\ c.pkt = NoPkt
    BY <1>0, <1>6 DEF ActivateTx, Consumer
  <2>2. CASE c' = [c EXCEPT !.pc = "get"] /\ CircCnt > 0
             /\ tockens > UNIT * ring.q[ring.tail].len
    <3>1. c'.pc = "get" /\ c'.pkt = NoPkt
      BY <1>0, <2>1, <2>2 DEF ConsRec
    <3>2. UNCHANGED <<ring, tockens>> /\ CircCnt' = CircCnt
      BY <1>6 DEF ActivateTx, CircCnt
    <3> QED BY <2>2, <3>1, <3>2 DEF Consumer
  <2>3. CASE c' = Idle
    <3>1. c'.pc = "idle" /\ c'.pkt = NoPkt
      BY <2>3 DEF Idle
    <3> QED BY <3>1 DEF Consumer
  <2> QED BY <1>6, <2>2, <2>3 DEF ActivateTx
<1>7. CASE DoDequeue
  <2>1. /\ c'.pc = "load" /\ c'.pkt = ring.q[ring.tail] /\ c'.pkt # NoPkt
        /\ c'.pkt.id = Taken'
    BY <1>7, GetContents
  <2>2. tockens' = tockens /\ c.pc = "get"
    BY <1>7 DEF DoDequeue
  <2> QED BY <1>0, <2>1, <2>2 DEF Consumer
<1>8. CASE DecQueueSize /\ c.pc = "load"
  <2>1. c'.pc = "store" /\ c'.pkt = c.pkt /\ n' = n /\ tockens' = tockens
    BY <1>0, <1>8 DEF DecQueueSize, ConsRec
  <2>2. Taken' = Taken
    BY <2>1 DEF Taken
  <2> QED BY <1>0, <1>8, <2>1, <2>2 DEF Consumer
<1>9. CASE DecQueueSize /\ c.pc = "store"
  <2>1. tockens > UNIT * c.pkt.len /\ tockens' = tockens - UNIT * c.pkt.len
    BY <1>0, <1>9 DEF DecQueueSize, Consumer
  <2> DEFINE u == UNIT * c.pkt.len
  <2>2. u \in Int /\ tockens \in Int /\ tockens > u /\ tockens' = tockens - u
    BY <1>0, <2>1, SizesPositive DEF Typed, ConsRec, Pkt
  <2> HIDE DEF u
  <2>3. ~ (tockens' < 0)
    BY <2>2
  <2>4. c'.pc = "look" /\ c'.pkt = NoPkt
    BY <1>0, <1>9, <2>3 DEF DecQueueSize, ConsRec
  <2> QED BY <2>4 DEF Consumer
<1>10. CASE Tick
  <2>1. c.pc = "idle" /\ c' = c /\ n' = n
    BY <1>10 DEF Tick
  <2>2. Taken' = Taken
    BY <2>1 DEF Taken
  <2> QED BY <1>0, <2>1, <2>2 DEF Consumer
<1> QED BY <1>1, <1>2, <1>3, <1>4, <1>5, <1>6, <1>7, <1>8, <1>9, <1>10
        DEF Next, CircSlotPut, DecQueueSize

-----------------------------------------------------------------------------
(* What the bucket is given.                                                 *)

LEMMA InitFeed == Init => Feed
<1> SUFFICES ASSUME Init PROVE Feed
  OBVIOUS
<1>1. /\ clock.left = MS /\ clock.since = -MS /\ pace.fed = 0 /\ pace.at = FALSE
      /\ pace.gap = 1 /\ pace.gaplen = MS /\ pace.same = FALSE
  BY DEF Init, Pace
<1>2. 1 * MS < MS + MS
  BY SizesPositive
<1>3. FeedPace
  BY <1>1, <1>2 DEF FeedPace
<1> QED BY <1>1, <1>3, SizesPositive DEF Feed

\* A wake gives the whole milliseconds since the date and sets it to now.
LEMMA WakeFeed ==
  ASSUME IInv, RxWakeTx
  PROVE  Feed'
<1>0. Feed /\ clock \in ClockRec /\ pace \in PaceRec
  BY DEF IInv, Typed
<1>1. PICK l \in Int, s \in Int, f \in Int :
         l = clock.left /\ s = clock.since /\ f = pace.fed
  BY <1>0 DEF ClockRec, PaceRec
<1>2. PICK ms \in Int : ms = Trunc(s)
  BY TruncIs
<1>3. /\ clock'.left = l /\ clock'.since = 0
      /\ pace'.fed = f + ms /\ pace'.at = (pace.at \/ s = -MS)
      /\ pace'.gap = pace.gap /\ pace'.gaplen = pace.gaplen /\ pace'.same = pace.same
  BY <1>0, <1>1, <1>2 DEF RxWakeTx, ClockRec, PaceRec
<1>4. l <= MS
  BY <1>0, <1>1 DEF Feed
<1>5. FeedPace'
  BY <1>0, <1>3 DEF Feed, FeedPace
<1>6. (f + ms) * MS = f * MS + MS * ms
  BY SizesPositive
<1>7. f + ms >= (IF pace'.at THEN -1 ELSE 0) /\ (f + ms) * MS + 0 < MS - l
  <2>1. CASE ~pace.at /\ f = 0 /\ s = -l
    <3>1. CASE s = -MS
      <4>1. ms = -1 /\ pace'.at
        BY <1>2, <1>3, <3>1, TruncIs
      <4>2. MS * ms = -MS /\ f * MS = 0 /\ l = MS
        BY <2>1, <3>1, <4>1, SizesPositive
      <4> QED BY <1>6, <2>1, <4>1, <4>2, SizesPositive
    <3>2. CASE s > -MS /\ s < 0
      <4>1. ms = 0
        BY <1>2, <3>2, TruncIs
      <4>2. MS * ms = 0 /\ f * MS = 0
        BY <2>1, <4>1, SizesPositive
      <4> QED BY <1>6, <2>1, <3>2, <4>1, <4>2, SizesPositive
    <3>3. CASE s >= 0
      <4>1. ms >= 0 /\ MS * ms <= s
        BY <1>2, <3>3, TruncIs
      <4>2. MS * ms \in Int /\ f * MS = 0
        BY <2>1, SizesPositive
      <4> QED BY <1>6, <2>1, <4>1, <4>2, SizesPositive
    <3> QED BY <1>4, <2>1, <3>1, <3>2, <3>3, SizesPositive
  <2>2. CASE s >= 0 /\ f >= (IF pace.at THEN -1 ELSE 0) /\ f * MS + s < MS - l
    <3>1. ms >= 0 /\ MS * ms <= s
      BY <1>2, <2>2, TruncIs
    <3>2. MS * ms \in Int /\ f * MS \in Int
      BY SizesPositive
    <3>3. s # -MS
      BY <2>2, SizesPositive
    <3>4. (f + ms) * MS + 0 < MS - l
      BY <1>6, <2>2, <3>1, <3>2, SizesPositive
    <3>5. pace'.at = pace.at
      BY <1>0, <1>3, <3>3 DEF PaceRec
    <3>6. f + ms >= IF pace.at THEN -1 ELSE 0
      BY <2>2, <3>1
    <3> QED BY <3>4, <3>5, <3>6
  <2> QED BY <1>0, <1>1, <2>1, <2>2 DEF Feed
<1> QED BY <1>3, <1>4, <1>5, <1>7 DEF Feed

\* The timer sets the date one millisecond ahead, and gives that one as well.
LEMMA TimerFeed ==
  ASSUME IInv, TimerSched
  PROVE  Feed'
<1>0. Feed /\ clock \in ClockRec /\ pace \in PaceRec /\ TimerAt(MS, "look")
  BY DEF IInv, Typed, TimerSched
<1>1. PICK l \in Int, s \in Int, f \in Int :
         l = clock.left /\ s = clock.since /\ f = pace.fed
  BY <1>0 DEF ClockRec, PaceRec
<1>2. PICK ms \in Int : ms = Trunc(s + MS)
  BY TruncIs, SizesPositive
<1>3. /\ l <= 0 /\ clock'.left = MS /\ clock'.since = -MS
      /\ pace'.fed = 0 /\ pace'.at = FALSE
      /\ pace'.gap = f + ms /\ pace'.gaplen = MS - l /\ pace'.same = pace.at
  BY <1>0, <1>1, <1>2 DEF TimerAt, Pace
<1>4. s >= 0
  BY <1>0, <1>1, <1>3 DEF Feed
<1>5. ms >= 1 /\ MS * ms <= s + MS
  <2>1. s + MS \in Int /\ s + MS >= 0
    BY <1>4, SizesPositive
  <2>2. MS * ms <= s + MS /\ s + MS < MS * ms + MS /\ ms >= 0
    BY <1>2, <2>1, TruncIs
  <2>3. ms = 0 => MS * ms = 0
    BY SizesPositive
  <2> QED BY <1>4, <2>2, <2>3, SizesPositive
<1>6. (f + ms) * MS = f * MS + MS * ms /\ f * MS \in Int /\ MS * ms \in Int
  BY SizesPositive
<1>7. /\ f + ms >= IF pace.at THEN 0 ELSE 1
      /\ (f + ms) * MS < MS - l + MS
  <2>1. CASE ~pace.at /\ f = 0 /\ s = -l
    <3>1. f * MS = 0
      BY <2>1, SizesPositive
    <3> QED BY <1>5, <1>6, <2>1, <3>1, SizesPositive
  <2>2. CASE f >= (IF pace.at THEN -1 ELSE 0) /\ f * MS + s < MS - l
    BY <1>5, <1>6, <2>2, SizesPositive
  <2> QED BY <1>0, <1>1, <2>1, <2>2 DEF Feed
<1>8. FeedPace'
  BY <1>3, <1>7 DEF FeedPace
<1> QED BY <1>3, <1>8, SizesPositive DEF Feed

LEMMA FeedStep == IInv /\ [Next]_vars => Feed'
<1> SUFFICES ASSUME IInv, [Next]_vars PROVE Feed'
  OBVIOUS
<1>0. Feed /\ clock \in ClockRec /\ pace \in PaceRec
  BY DEF IInv, Typed
<1>1. CASE UNCHANGED <<clock, pace>>
  BY <1>0, <1>1 DEF Feed, FeedPace
<1>2. ASSUME NEW len \in Length, NEW cmp \in 0 .. TOTAL_LOSS_VALUE - 1, Rx(len, cmp)
      PROVE  UNCHANGED <<clock, pace>>
  BY <1>2 DEF Rx
<1>3. CASE Tick
  <2>1. PICK l \in Int, s \in Int, f \in Int :
           l = clock.left /\ s = clock.since /\ f = pace.fed
    BY <1>0 DEF ClockRec, PaceRec
  <2>2. /\ clock'.left = l - 1 /\ clock'.since = s + 1
        /\ pace'.fed = f /\ pace'.at = pace.at
        /\ pace'.gap = 1 /\ pace'.gaplen = MS /\ pace'.same = FALSE
    BY <1>3, <2>1 DEF Tick, Pace
  <2>3. 1 * MS < MS + MS /\ f * MS \in Int
    BY SizesPositive
  <2>4. FeedPace'
    BY <2>2, <2>3 DEF FeedPace
  <2>5. l <= MS
    BY <1>0, <2>1 DEF Feed
  <2>6. CASE ~pace.at /\ f = 0 /\ s = -l
    BY <2>2, <2>4, <2>5, <2>6, SizesPositive DEF Feed
  <2>7. CASE s >= 0 /\ f >= (IF pace.at THEN -1 ELSE 0) /\ f * MS + s < MS - l
    BY <2>2, <2>3, <2>4, <2>5, <2>7, SizesPositive DEF Feed
  <2> QED BY <1>0, <2>1, <2>6, <2>7 DEF Feed
<1> QED BY <1>1, <1>2, <1>3, WakeFeed, TimerFeed
        DEF Next, vars, IncQueueSize, DoEnqueue, CircSlotPut, WakeTxSend,
            ActivateTx, DoDequeue, DecQueueSize, ConfigRecvCommand
-----------------------------------------------------------------------------
(* The theorems.                                                             *)

\* In every reachable state the ring, the two threads and the bucket are as
\* IInv says, whatever the threads do between the steps of circ_slot_put,
\* circ_slot_get, inc_queue_size and dec_queue_size.
THEOREM SchedInvariant == Spec => []IInv
<1>1. Init => IInv
  <2> SUFFICES ASSUME Init PROVE IInv
    OBVIOUS
  <2>1. Typed /\ Contents /\ Feed
    BY InitTyped, InitContents, InitFeed
  <2>2. CircCnt \in Cells
    BY <2>1, Slots DEF Typed
  <2>3. Producer
    <3>1. p.pc = "idle" /\ n.put = 0 /\ n.pkt = 0 /\ ring.lock = FALSE
      BY DEF Init, Idle
    <3> QED BY <3>1 DEF Producer
  <2>4. Consumer
    BY DEF Init, Idle, Consumer
  <2> QED BY <2>1, <2>3, <2>4 DEF IInv
<1>2. IInv /\ [Next]_vars => IInv'
  BY TypedStep, ContentsStep, ProducerStep, ConsumerStep, FeedStep DEF IInv
<1> QED BY <1>1, <1>2, PTL DEF Spec

LEMMA InvRingSound == IInv => RingSound
<1> SUFFICES ASSUME IInv PROVE RingSound
  OBVIOUS
<1>0. /\ Typed /\ Contents /\ Producer /\ Consumer
      /\ n \in CountRec /\ ring \in RingRec /\ CircCnt \in Cells
  BY Slots DEF IInv, Typed
<1>1. Taken \in Nat /\ n.sent <= Taken /\ Shown <= n.put /\ Shown \in Int
  BY <1>0 DEF Taken, Shown, CountRec
<1>2. n.put \in 0 .. n.pkt /\ n.sent \in 0 .. n.put
  <2>1. n.put <= n.pkt
    BY <1>0 DEF Producer, CountRec
  <2>2. n.sent <= n.put
    BY <1>0, <1>1 DEF Contents, Cells, CountRec
  <2> QED BY <1>0, <2>1, <2>2 DEF CountRec
<1>3. TypeOK
  BY <1>0, <1>2 DEF TypeOK, Typed, RingRec, ProdRec, ConsRec, Cells
<1>4. \A i \in 0 .. CircCnt - 1 : ring.q[(ring.tail + i) % CIRC_SIZE].id = Taken + i + 1
  <2> SUFFICES ASSUME NEW i \in 0 .. CircCnt - 1 PROVE At(i).id = Taken + i + 1
    BY DEF At
  <2>1. i \in Cells /\ i < CircCnt
    BY <1>0, SizesPositive DEF Cells
  <2> QED BY <1>0, <2>1 DEF Contents
<1>5. c.pkt # NoPkt => c.pkt.id = Taken
  BY <1>0 DEF Consumer
<1> QED BY <1>0, <1>3, <1>4, <1>5 DEF RingSound, Contents, Taken, Shown

\* The ring holds the packets that were put and not taken, in their order, and no
\* KOUT of circ_slot_put, circ_slot_get or update_remove_tockens is reached.
THEOREM RingInOrder == Spec => []RingSound
  BY SchedInvariant, InvRingSound, PTL

\* Between two calls of timer_sched the bucket gets less than one millisecond more
\* than has passed, and one at least unless a wake took the date back at once.
THEOREM BucketPace == Spec => []FeedPace
<1>1. IInv => FeedPace
  BY DEF IInv, Feed
<1> QED BY <1>1, SchedInvariant, PTL

\* activate_tx lets no packet go more than a millisecond before its delay.
THEOREM DelayRespected == Spec => DelayKept
<1> DEFINE A == c.pc = "look" /\ c'.pc = "get" =>
                   ring.q[ring.tail].age + MS >= conf.delay * MS
<1>1. ASSUME IInv, [Next]_vars
      PROVE  A
  <2> SUFFICES ASSUME c.pc = "look", c'.pc = "get"
               PROVE  ring.q[ring.tail].age + MS >= conf.delay * MS
    OBVIOUS
  <2>0. /\ c \in ConsRec /\ ring \in RingRec /\ conf \in [Field -> Int]
    BY <1>1 DEF IInv, Typed
  <2>1. ActivateTx
    <3>1. ASSUME NEW len \in Length, NEW cmp \in 0 .. TOTAL_LOSS_VALUE - 1, Rx(len, cmp)
          PROVE  c' = c
      BY <3>1 DEF Rx
    <3>2. IncQueueSize \/ DoEnqueue \/ CircSlotPut \/ WakeTxSend \/ ConfigRecvCommand
          \/ Tick \/ UNCHANGED vars => c' = c
      BY DEF IncQueueSize, DoEnqueue, CircSlotPut, WakeTxSend, ConfigRecvCommand, Tick, vars
    <3>3. RxWakeTx \/ TimerSched \/ DoDequeue \/ DecQueueSize => c.pc # "look"
      BY DEF RxWakeTx, TimerSched, TimerAt, DoDequeue, DecQueueSize
    <3> QED BY <1>1, <3>1, <3>2, <3>3 DEF Next
  <2>2. DelayOver(ring.q[ring.tail].age, c.shift)
    BY <2>1 DEF ActivateTx, Idle
  <2>3. PICK a \in Nat, h \in {0, MS}, d \in Int :
           a = ring.q[ring.tail].age /\ h = c.shift /\ d = conf.delay
    BY <2>0 DEF RingRec, ConsRec, Pkt, Field
  <2>4. (a + h) \div MS >= d
    BY <2>2, <2>3 DEF DelayOver
  <2>5. PICK k \in Int : k = (a + h) \div MS /\ MS * k <= a + h
    <3>1. a + h \in Int /\ MS \in Nat /\ MS > 0
      BY SizesPositive
    <3>2. \A x \in Int : /\ x \div MS \in Int /\ x % MS \in Int
                         /\ x = MS * (x \div MS) + (x % MS) /\ 0 <= x % MS
      BY SizesPositive
    <3>3. /\ (a + h) \div MS \in Int /\ (a + h) % MS \in Int /\ 0 <= (a + h) % MS
          /\ a + h = MS * ((a + h) \div MS) + ((a + h) % MS)
      BY <3>1, <3>2
    <3>4. MS * ((a + h) \div MS) \in Int
      BY <3>1, <3>3
    <3> QED BY <3>1, <3>3, <3>4
  <2>6. d * MS <= MS * k
    BY <2>4, <2>5, SizesPositive
  <2>7. d * MS \in Int /\ MS * k \in Int /\ h <= MS /\ h \in Int
    BY SizesPositive
  <2>8. a + MS >= d * MS
    BY <2>5, <2>6, <2>7, SizesPositive
  <2> QED BY <2>3, <2>8
<1>2. IInv /\ [Next]_vars => [A]_vars
  BY <1>1
<1> HIDE DEF A
<1>3. Spec => [][A]_vars
  BY <1>2, SchedInvariant, PTL DEF Spec
<1> USE DEF A
<1> QED BY <1>3 DEF DelayKept

=============================================================================
