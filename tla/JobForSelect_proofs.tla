-------------------------- MODULE JobForSelect_proofs --------------------------
(***************************************************************************)
(* Proofs about the jobs handed by a signal handler to the main loop: for  *)
(* every size of the ring and every number of requests, an index is in one *)
(* place whatever the store the handler comes between, and each request is *)
(* served once and in order.                                               *)
(***************************************************************************)
EXTENDS JobForSelect, FiniteSetTheorems, SequenceTheorems, TLAPS

\* A number less than twice m is its own rest, or m more than it.
LEMMA RestOfShort ==
  ASSUME NEW m \in Nat, m > 0, NEW a \in Int, -m <= a, a < 2 * m
  PROVE  a % m = IF a < 0 THEN a + m ELSE IF a < m THEN a ELSE a - m
<1>1. a = m * (a \div m) + (a % m) /\ a % m \in 0..(m - 1) /\ a \div m \in Int
  OBVIOUS
<1> DEFINE q == a \div m
           r == a % m
<1>2. a = m * q + r /\ r \in 0..(m - 1) /\ q \in Int
  BY <1>1
<1> HIDE DEF q, r
<1>3. CASE a < 0
  <2>1. q = -1
    BY <1>2, <1>3
  <2> QED BY <1>2, <1>3, <2>1 DEF r
<1>4. CASE a >= 0 /\ a < m
  <2>1. q = 0
    BY <1>2, <1>4
  <2> QED BY <1>2, <1>4, <2>1 DEF r
<1>5. CASE a >= m
  <2>1. q = 1
    BY <1>2, <1>5
  <2> QED BY <1>2, <1>5, <2>1 DEF r
<1> QED BY <1>3, <1>4, <1>5

\* The cell after a cell, and how many indices are free.
LEMMA RingFacts ==
  ASSUME TypeOK
  PROVE  /\ MaxJobs \in Nat /\ MaxJobs > 1
         /\ \A c \in Cell : /\ NextCell(c) = IF c = MaxJobs - 1 THEN 0 ELSE c + 1
                            /\ NextCell(c) \in Cell
         /\ NbFree = IF read_idx <= write_idx THEN write_idx - read_idx
                     ELSE write_idx - read_idx + MaxJobs
         /\ NbFree \in 0..(MaxJobs - 1)
         /\ read_idx \in Cell /\ write_idx \in Cell
         /\ \A c : c \in FreeCells <=>
              /\ c \in 0..(MaxJobs - 1)
              /\ IF read_idx <= write_idx THEN read_idx <= c /\ c < write_idx
                 ELSE read_idx <= c \/ c < write_idx
<1>1. MaxJobs \in Nat /\ MaxJobs > 1
  BY JobForSelectAssumption
<1>2. read_idx \in 0..(MaxJobs - 1) /\ write_idx \in 0..(MaxJobs - 1)
  BY DEF TypeOK, Cell
<1>3. ASSUME NEW c \in Cell
      PROVE  /\ NextCell(c) = IF c = MaxJobs - 1 THEN 0 ELSE c + 1
             /\ NextCell(c) \in Cell
  <2>1. c \in 0..(MaxJobs - 1)
    BY DEF Cell
  <2>2. (c + 1) % MaxJobs = IF c + 1 < MaxJobs THEN c + 1 ELSE c + 1 - MaxJobs
    BY <1>1, <2>1, RestOfShort
  <2> QED BY <1>1, <2>1, <2>2 DEF NextCell, Cell
<1>4. NbFree = IF read_idx <= write_idx THEN write_idx - read_idx
               ELSE write_idx - read_idx + MaxJobs
  <2> DEFINE a == write_idx - read_idx
  <2>1. a \in Int /\ -MaxJobs <= a /\ a < MaxJobs
    BY <1>1, <1>2
  <2>2. a % MaxJobs = IF a < 0 THEN a + MaxJobs ELSE a
    BY <1>1, <2>1, RestOfShort
  <2> QED BY <1>1, <1>2, <2>2 DEF NbFree
<1>5. NbFree \in 0..(MaxJobs - 1)
  BY <1>1, <1>2, <1>4
<1> QED BY <1>1, <1>2, <1>3, <1>4, <1>5 DEF FreeCells, Cell

LEMMA CountersTyped ==
  ASSUME TypeOK
  PROVE  requested \in Nat /\ served \in Nat
<1>1. requested \in 0..MaxReq /\ served \in 0..MaxReq
  BY Zenon DEF TypeOK
<1> QED BY <1>1, JobForSelectAssumption

\* The indices in use, as a sequence: the buffer comes first.
LEMMA UseFacts ==
  ASSUME TypeOK
  PROVE  /\ InUse \in Seq(Job)
         /\ Len(InUse) \in Nat
         /\ \A k \in 1..Len(InUse) : InUse[k] \in Job
         /\ buffer # <<>> => /\ Len(InUse) >= 1
                             /\ InUse[1] = Head(buffer)
                             /\ Head(buffer) \in Job
<1>1. buffer \in Seq(Job) /\ sock \in Seq(Job)
  BY DEF TypeOK
<1>2. /\ InUse \in Seq(Job)
      /\ Len(InUse) = Len(buffer) + Len(sock)
      /\ \A i \in 1..(Len(buffer) + Len(sock)) : InUse[i] =
           IF i <= Len(buffer) THEN buffer[i] ELSE sock[i - Len(buffer)]
  BY <1>1, ConcatProperties DEF InUse
<1>3. Len(buffer) \in Nat /\ Len(sock) \in Nat /\ Len(InUse) \in Nat
  BY <1>1, <1>2, LenProperties
<1>4. \A k \in 1..Len(InUse) : InUse[k] \in Job
  BY <1>2, ElementOfSeq
<1>5. ASSUME buffer # <<>>
      PROVE  Len(InUse) >= 1 /\ InUse[1] = Head(buffer) /\ Head(buffer) \in Job
  <2>1. Len(buffer) >= 1
    BY <1>1, <1>5, EmptySeq
  <2>2. InUse[1] = buffer[1]
    BY <1>2, <1>3, <2>1
  <2>3. buffer[1] = Head(buffer)
    BY <1>1, <1>5
  <2> QED BY <1>2, <1>3, <1>4, <2>1, <2>2, <2>3
<1> QED BY <1>2, <1>3, <1>4, <1>5

\* What an index after the ones in use does to them.
LEMMA UseAppended ==
  ASSUME TypeOK, NEW j \in Job, sock' = Append(sock, j), buffer' = buffer
  PROVE  /\ InUse' = Append(InUse, j)
         /\ Len(InUse') = Len(InUse) + 1
         /\ \A k \in 1..Len(InUse) : InUse'[k] = InUse[k]
         /\ InUse'[Len(InUse) + 1] = j
         /\ sock' \in Seq(Job)
<1>1. buffer \in Seq(Job) /\ sock \in Seq(Job)
  BY DEF TypeOK
<1>0. <<j>> \in Seq(Job)
  <2>1. <<j>> \in [1..1 -> Job]
    OBVIOUS
  <2> QED BY <2>1, SeqDef
<1>2. InUse' = buffer \o (sock \o <<j>>)
  BY <1>1, AppendIsConcat DEF InUse
<1>3. InUse' = (buffer \o sock) \o <<j>>
  BY <1>1, <1>2, <1>0, ConcatAssociative
<1>4. InUse' = Append(InUse, j)
  BY <1>3, UseFacts, AppendIsConcat DEF InUse
<1>5. sock' \in Seq(Job)
  BY <1>1, AppendProperties
<1> QED BY <1>4, <1>5, UseFacts, AppendProperties

\* The k-th free index is in a free cell.
LEMMA FreeCell ==
  ASSUME TypeOK, NEW k \in 1..NbFree, NEW a, a = read_idx + k - 1
  PROVE  /\ a % MaxJobs \in FreeCells
         /\ a % MaxJobs = IF a < MaxJobs THEN a ELSE a - MaxJobs
<1> DEFINE d == IF a < MaxJobs THEN a ELSE a - MaxJobs
<1>1. /\ MaxJobs \in Nat /\ MaxJobs > 1 /\ NbFree \in 0..(MaxJobs - 1)
      /\ read_idx \in 0..(MaxJobs - 1) /\ write_idx \in 0..(MaxJobs - 1)
      /\ NbFree = IF read_idx <= write_idx THEN write_idx - read_idx
                  ELSE write_idx - read_idx + MaxJobs
  BY RingFacts DEF Cell
<1>2. a \in Int /\ 0 <= a /\ a < 2 * MaxJobs
  BY <1>1
<1>3. a % MaxJobs = d
  BY <1>1, <1>2, RestOfShort
<1>4. /\ d \in 0..(MaxJobs - 1)
      /\ IF read_idx <= write_idx THEN read_idx <= d /\ d < write_idx
         ELSE read_idx <= d \/ d < write_idx
  BY <1>1
<1>5. d \in FreeCells
  BY <1>4, RingFacts
<1> QED BY <1>3, <1>5

\* The indices in use but the first, when it is in hand.
LEMMA TailOfUse ==
  ASSUME TypeOK, buffer # <<>>
  PROVE  /\ Len(Tail(buffer) \o sock) = Len(InUse) - 1
         /\ \A k \in 1..(Len(InUse) - 1) : (Tail(buffer) \o sock)[k] = InUse[k + 1]
<1> DEFINE t == Tail(buffer)
<1>1. buffer \in Seq(Job) /\ sock \in Seq(Job)
  BY DEF TypeOK
<1>2. /\ t \in Seq(Job) /\ Len(t) = Len(buffer) - 1
      /\ \A i \in 1..Len(t) : t[i] = buffer[i + 1]
  BY <1>1, HeadTailProperties
<1> HIDE DEF t
<1>3. /\ Len(InUse) = Len(buffer) + Len(sock)
      /\ \A i \in 1..(Len(buffer) + Len(sock)) : InUse[i] =
           IF i <= Len(buffer) THEN buffer[i] ELSE sock[i - Len(buffer)]
  BY <1>1, ConcatProperties DEF InUse
<1>4. /\ Len(t \o sock) = Len(t) + Len(sock)
      /\ \A i \in 1..(Len(t) + Len(sock)) : (t \o sock)[i] =
           IF i <= Len(t) THEN t[i] ELSE sock[i - Len(t)]
  BY <1>1, <1>2, ConcatProperties
<1>5. Len(buffer) \in Nat /\ Len(sock) \in Nat /\ Len(buffer) >= 1
  BY <1>1, EmptySeq, LenProperties
<1>6. Len(t \o sock) = Len(InUse) - 1
  BY <1>2, <1>3, <1>4, <1>5
<1>7. ASSUME NEW k \in 1..(Len(InUse) - 1)
      PROVE  (t \o sock)[k] = InUse[k + 1]
  <2>1. CASE k <= Len(t)
    <3>1. k \in 1..Len(t) /\ k + 1 \in 1..(Len(buffer) + Len(sock)) /\ k + 1 <= Len(buffer)
      BY <1>2, <1>3, <1>5, <2>1
    <3> QED BY <1>2, <1>3, <1>4, <1>5, <2>1, <3>1
  <2>2. CASE ~(k <= Len(t))
    <3>1. /\ k \in 1..(Len(t) + Len(sock))
          /\ k + 1 \in 1..(Len(buffer) + Len(sock)) /\ ~(k + 1 <= Len(buffer))
          /\ k - Len(t) = (k + 1) - Len(buffer)
      BY <1>2, <1>3, <1>5, <2>2
    <3> QED BY <1>3, <1>4, <2>2, <3>1
  <2> QED BY <2>1, <2>2
<1> QED BY <1>6, <1>7 DEF t

\* What the release of the index in hand does to them.
LEMMA UseReleased ==
  ASSUME TypeOK, buffer # <<>>, buffer' = Tail(buffer), sock' = sock
  PROVE  /\ buffer' \in Seq(Job)
         /\ Len(InUse') = Len(InUse) - 1
         /\ \A k \in 1..(Len(InUse) - 1) : InUse'[k] = InUse[k + 1]
<1>1. buffer' \in Seq(Job)
  BY HeadTailProperties DEF TypeOK
<1>2. InUse' = Tail(buffer) \o sock
  BY DEF InUse
<1> QED BY <1>1, <1>2, TailOfUse

\* The first index of the ring and the rest of the ring.
LEMMA RingTaken ==
  ASSUME TypeOK, read_idx # write_idx, read_idx' = NextCell(read_idx), write_idx' = write_idx
  PROVE  /\ read_idx \in FreeCells
         /\ FreeCells' = FreeCells \ {read_idx}
         /\ NbFree' = NbFree - 1
         /\ read_idx' \in Cell
<1> DEFINE M == MaxJobs
           r == read_idx
           w == write_idx
           r1 == IF r = M - 1 THEN 0 ELSE r + 1
<1>1. /\ M \in Nat /\ M > 1 /\ r \in 0..(M - 1) /\ w \in 0..(M - 1) /\ r # w
      /\ r' = r1 /\ w' = w /\ r' \in Cell
  BY RingFacts DEF Cell
<1>2. FreeCells = {c \in 0..(M - 1) : IF r <= w THEN r <= c /\ c < w ELSE r <= c \/ c < w}
  BY DEF FreeCells, Cell
<1>3. FreeCells' = {c \in 0..(M - 1) : IF r1 <= w THEN r1 <= c /\ c < w ELSE r1 <= c \/ c < w}
  BY <1>1 DEF FreeCells, Cell
<1>4. r1 \in 0..(M - 1) /\ (w - r) \in Int /\ (w - r1) \in Int
  BY <1>1
<1>5. NbFree = IF w - r < 0 THEN w - r + M ELSE w - r
  BY <1>1, RingFacts
<1>6. NbFree' = IF w - r1 < 0 THEN w - r1 + M ELSE w - r1
  <2>1. -M <= w - r1 /\ w - r1 < M
    BY <1>1, <1>4
  <2>2. NbFree' = (w - r1) % M
    BY <1>1 DEF NbFree
  <2> HIDE DEF r1, r, w, M
  <2> QED BY <1>1, <1>4, <2>1, <2>2, RestOfShort
<1>7. r \in FreeCells
  BY <1>1, <1>2
<1>8. NbFree' = NbFree - 1
  BY <1>1, <1>5, <1>6
<1>9. FreeCells' = FreeCells \ {r}
  BY <1>1, <1>2, <1>3
<1> QED BY <1>1, <1>7, <1>8, <1>9

\* The ring takes one index more, unless it is full.
LEMMA RingGiven ==
  ASSUME TypeOK, NbFree < MaxJobs - 1, write_idx' = NextCell(write_idx), read_idx' = read_idx
  PROVE  /\ write_idx \notin FreeCells
         /\ FreeCells' = FreeCells \cup {write_idx}
         /\ NbFree' = NbFree + 1
         /\ write_idx' \in Cell
<1> DEFINE M == MaxJobs
           r == read_idx
           w == write_idx
           w1 == IF w = M - 1 THEN 0 ELSE w + 1
<1>1. /\ M \in Nat /\ M > 1 /\ r \in 0..(M - 1) /\ w \in 0..(M - 1)
      /\ r' = r /\ w' = w1 /\ w' \in Cell
  BY RingFacts DEF Cell
<1>2. FreeCells = {c \in 0..(M - 1) : IF r <= w THEN r <= c /\ c < w ELSE r <= c \/ c < w}
  BY DEF FreeCells, Cell
<1>3. FreeCells' = {c \in 0..(M - 1) : IF r <= w1 THEN r <= c /\ c < w1 ELSE r <= c \/ c < w1}
  BY <1>1 DEF FreeCells, Cell
<1>4. w1 \in 0..(M - 1)
  BY <1>1
<1>5. NbFree = IF w - r < 0 THEN w - r + M ELSE w - r
  BY <1>1, RingFacts
<1>6. NbFree' = IF w1 - r < 0 THEN w1 - r + M ELSE w1 - r
  <2>1. (w1 - r) \in Int /\ -M <= w1 - r /\ w1 - r < M
    BY <1>1, <1>4
  <2>2. NbFree' = (w1 - r) % M
    BY <1>1 DEF NbFree
  <2> HIDE DEF w1, r, w, M
  <2> QED BY <1>1, <2>1, <2>2, RestOfShort
<1>7. w \notin FreeCells
  BY <1>1, <1>2
<1>8. NbFree' = NbFree + 1
  BY <1>1, <1>5, <1>6
<1>9. r # w1
  BY <1>1, <1>5
<1>10. FreeCells' = FreeCells \cup {w}
  BY <1>1, <1>2, <1>3, <1>9
<1> QED BY <1>1, <1>7, <1>8, <1>10

\* What IInv says depends on the variables of its parts.
LEMMA FrameHelpers ==
  /\ UNCHANGED <<read_idx, write_idx>> => FreeCells' = FreeCells /\ NbFree' = NbFree
  /\ UNCHANGED <<buffer, sock>> => InUse' = InUse
  /\ UNCHANGED pc => Released' = Released /\ Served' = Served
BY DEF FreeCells, NbFree, InUse, Released, Served

\* A request that is refused: the ring is empty, or what is left of it is the
\* index that is being released.
LEMMA RefusedStep ==
  ASSUME IInv, kout = "none",
         kout' = Refusal(fifo_free_index[read_idx]), kout' # "none",
         UNCHANGED <<pool, glob_jobs, sock, requested, buffer, pc, served>>
  PROVE  IInv'
<1> USE DEF IInv, pool
<1> DEFINE job == fifo_free_index[read_idx]
<1>1. /\ FreeCells' = FreeCells /\ NbFree' = NbFree /\ InUse' = InUse
      /\ Released' = Released /\ Served' = Served
  BY FrameHelpers
<1>2. kout' \in {"full", "check"} /\ Len(InUse) >= MaxJobs - 1
  <2>1. Len(InUse) \in Nat /\ MaxJobs \in Nat
    BY UseFacts, RingFacts
  <2>2. CASE read_idx = write_idx
    <3>1. kout' = "full"
      BY <2>2 DEF Refusal
    <3>2. NbFree = 0
      BY <2>2, RingFacts DEF Cell
    <3> QED BY <2>1, <3>1, <3>2 DEF NoneLost, Released
  <2>3. CASE read_idx # write_idx
    <3>1. read_idx \in FreeCells
      BY <2>3, RingFacts DEF Cell
    <3>2. job \in Job /\ glob_jobs[job] = 0
      BY <3>1 DEF Apart, RanksInOrder
    <3>3. kout' = "check" /\ check_tab[job]
      BY <2>3, <3>2, Zenon DEF Refusal
    <3>4. PICK k \in 1..Len(InUse) : InUse[k] = job
      BY <3>2, <3>3 DEF CheckExact
    <3>5. k \notin Kept
      BY <3>1, <3>4 DEF Apart
    <3>6. k = 1 /\ pc = "clear"
      BY <2>1, <3>5 DEF Kept, Released
    <3>7. PICK c \in FreeCells : NextCell(c) = write_idx /\ fifo_free_index[c] = InUse[1]
      BY <3>6 DEF HandStored
    <3>8. c = read_idx
      BY <3>1, <3>4, <3>6, <3>7 DEF Apart
    <3>9. NbFree = 1
      <4>1. read_idx \in 0..(MaxJobs - 1) /\ write_idx \in 0..(MaxJobs - 1)
        BY RingFacts DEF Cell
      <4>2. write_idx = IF read_idx = MaxJobs - 1 THEN 0 ELSE read_idx + 1
        BY <3>7, <3>8, RingFacts
      <4>3. NbFree = IF read_idx <= write_idx THEN write_idx - read_idx
                     ELSE write_idx - read_idx + MaxJobs
        BY RingFacts
      <4> QED BY <2>1, <2>3, <4>1, <4>2, <4>3
    <3> QED BY <2>1, <3>3, <3>6, <3>9 DEF NoneLost, Released
  <2> QED BY <2>2, <2>3
<1>3. TypeOK'
  BY <1>2 DEF TypeOK
<1>4. Apart' /\ NoneLost'
  BY <1>1 DEF Apart, NoneLost, Kept
<1>5. HandStored' /\ CheckExact'
  BY <1>1 DEF HandStored, CheckExact, NextCell
<1>6. RanksInOrder'
  BY <1>1 DEF RanksInOrder
<1>7. LeavesWhenFull'
  BY <1>1, <1>2 DEF LeavesWhenFull
<1> QED BY <1>3, <1>4, <1>5, <1>6, <1>7

\* A request that is accepted: the first index of the ring goes behind the ones
\* in use.
LEMMA AcceptedStep ==
  ASSUME IInv, kout = "none", requested < MaxReq,
         NEW job, job = fifo_free_index[read_idx],
         Refusal(job) = "none", kout' = "none",
         read_idx' = NextCell(read_idx),
         check_tab' = [check_tab EXCEPT ![job] = TRUE],
         requested' = requested + 1,
         glob_jobs' = [glob_jobs EXCEPT ![job] = requested'],
         sock' = Append(sock, job),
         UNCHANGED <<fifo_free_index, write_idx, buffer, pc, served>>
  PROVE  IInv'
<1> USE DEF IInv
<1> DEFINE L == Len(InUse)
<1>1. read_idx # write_idx /\ ~check_tab[job]
  BY DEF Refusal
<1>2. /\ read_idx \in FreeCells
      /\ FreeCells' = FreeCells \ {read_idx}
      /\ NbFree' = NbFree - 1
      /\ read_idx' \in Cell
  BY <1>1, RingTaken
<1>3. job \in Job
  BY <1>2 DEF Apart
<1>4. /\ L \in Nat /\ Len(InUse') = L + 1
      /\ \A k \in 1..L : InUse'[k] = InUse[k] /\ InUse[k] \in Job
      /\ InUse'[L + 1] = job
      /\ sock' \in Seq(Job)
  BY <1>3, UseAppended, UseFacts
<1>5. \A k \in 1..L : InUse[k] # job
  BY <1>1, <1>3 DEF CheckExact
<1>6. Released' = Released /\ Served' = Served
  BY FrameHelpers
<1>7. Released \in {0, 1} /\ Served \in {0, 1}
  BY DEF Released, Served
<1>8. buffer = <<>> \/ L >= 1
  BY UseFacts
<1>9. Released = 1 => L >= 1
  BY <1>8 DEF Released, HandStored
<1>10. Served = 1 => L >= 1
  BY <1>8 DEF Served, HandStored
<1> HIDE DEF L
<1>11. Kept = (Released + 1)..L /\ Kept' = (Released + 1)..(L + 1)
  BY <1>4, <1>6 DEF Kept, L
<1>12. requested \in Nat /\ served \in Nat /\ MaxReq \in Nat /\ NbFree \in Nat
  BY RingFacts, JobForSelectAssumption DEF TypeOK
<1>13. TypeOK'
  <2>1. requested' \in 0..MaxReq
    BY <1>12 DEF TypeOK
  <2>2. glob_jobs' \in [Job -> 0..MaxReq]
    BY <1>3, <2>1 DEF TypeOK
  <2>3. check_tab' \in [Job -> BOOLEAN]
    BY <1>3 DEF TypeOK
  <2> QED BY <1>2, <1>4, <2>1, <2>2, <2>3 DEF TypeOK
<1>14. Apart'
  <2>1. \A c \in FreeCells' : fifo_free_index[c] \in Job /\ fifo_free_index[c] # job
    BY <1>2 DEF Apart
  <2>2. \A c, d \in FreeCells' : fifo_free_index[c] = fifo_free_index[d] => c = d
    BY <1>2 DEF Apart
  <2>3. ASSUME NEW k \in Kept', k # L + 1
        PROVE  k \in Kept /\ InUse'[k] = InUse[k] /\ InUse[k] # job
    <3>1. k \in Int /\ Released + 1 <= k /\ k <= L + 1
      BY <1>4, <1>7, <1>11
    <3>2. k \in 1..L /\ k \in Kept
      BY <1>4, <1>7, <1>11, <2>3, <3>1
    <3> QED BY <1>4, <1>5, <3>2
  <2>4. \A k, l \in Kept' : InUse'[k] = InUse'[l] => k = l
    BY <1>4, <2>3 DEF Apart
  <2>5. \A c \in FreeCells', k \in Kept' : fifo_free_index[c] # InUse'[k]
    BY <1>2, <1>4, <2>1, <2>3 DEF Apart
  <2> QED BY <2>1, <2>2, <2>4, <2>5 DEF Apart
<1>15. NoneLost'
  BY <1>2, <1>4, <1>6, <1>7, <1>12 DEF NoneLost, L
<1>16. HandStored'
  <2>1. pc # "idle" => InUse'[1] = InUse[1] /\ L >= 1
    BY <1>4, <1>8 DEF HandStored
  <2>2. ASSUME pc = "clear"
        PROVE  \E c \in FreeCells' : NextCell(c) = write_idx /\ fifo_free_index[c] = InUse'[1]
    <3>1. PICK c \in FreeCells : NextCell(c) = write_idx /\ fifo_free_index[c] = InUse[1]
      BY <2>2 DEF HandStored
    <3>2. c # read_idx
      BY <1>4, <1>5, <2>1, <2>2, <3>1
    <3> QED BY <1>2, <2>1, <2>2, <3>1, <3>2
  <2> QED BY <2>1, <2>2 DEF HandStored, NextCell
<1>17. CheckExact'
  <2>1. check_tab'[job] = TRUE /\ \A j \in Job : j # job => check_tab'[j] = check_tab[j]
    BY <1>3 DEF TypeOK
  <2>2. \A j \in Job : (\E k \in 1..Len(InUse') : InUse'[k] = j)
                         <=> ((\E k \in 1..L : InUse[k] = j) \/ j = job)
    <3>1. \A k \in 1..Len(InUse') : k \in 1..L \/ k = L + 1
      BY <1>4
    <3>2. L + 1 \in 1..Len(InUse') /\ \A k \in 1..L : k \in 1..Len(InUse')
      BY <1>4
    <3> QED BY <1>4, <3>1, <3>2, Zenon
  <2>3. \A j \in Job : check_tab[j] <=> \E k \in 1..L : InUse[k] = j
    BY Zenon DEF CheckExact, L
  <2>4. ASSUME NEW j \in Job
        PROVE  check_tab'[j] <=> \E k \in 1..Len(InUse') : InUse'[k] = j
    <3>1. CASE j = job
      BY <2>1, <2>2, <3>1, Zenon
    <3>2. CASE j # job
      BY <2>1, <2>2, <2>3, <3>2, Zenon
    <3> QED BY <3>1, <3>2
  <2> QED BY <2>4, Zenon DEF CheckExact
<1>18. RanksInOrder'
  <2>1. requested' = served + Len(InUse') - Served
    BY <1>4, <1>7, <1>12 DEF RanksInOrder, L
  <2>2. \A j \in Job : glob_jobs'[j] = IF j = job THEN requested' ELSE glob_jobs[j]
    BY DEF TypeOK
  <2>3. ASSUME NEW k \in (Served + 1)..(L + 1)
        PROVE  glob_jobs'[InUse'[k]] = served + k - Served
    <3>1. CASE k = L + 1
      BY <1>3, <1>4, <1>7, <1>12, <2>1, <2>2, <3>1
    <3>2. CASE k # L + 1
      <4>1. k \in 1..L /\ k \in (Served + 1)..L
        BY <1>4, <1>7, <3>2
      <4>2. glob_jobs[InUse[k]] = served + k - Served
        BY <4>1 DEF RanksInOrder, L
      <4> QED BY <1>4, <1>5, <2>2, <4>1, <4>2
    <3> QED BY <3>1, <3>2
  <2>4. pc \in {"store", "advance"} => glob_jobs'[InUse'[1]] = 0
    <3>1. pc \in {"store", "advance"} => L >= 1 /\ glob_jobs[InUse[1]] = 0
      BY <1>8 DEF HandStored, RanksInOrder
    <3> QED BY <1>4, <1>5, <2>2, <3>1
  <2>5. \A c \in FreeCells' : glob_jobs'[fifo_free_index[c]] = 0
    <3>1. \A c \in FreeCells' : /\ glob_jobs[fifo_free_index[c]] = 0
                                /\ fifo_free_index[c] \in Job /\ fifo_free_index[c] # job
      BY <1>2 DEF Apart, RanksInOrder
    <3> QED BY <2>2, <3>1
  <2> QED BY <1>4, <1>6, <2>1, <2>3, <2>4, <2>5 DEF RanksInOrder
<1>19. LeavesWhenFull'
  BY DEF LeavesWhenFull
<1> QED BY <1>13, <1>14, <1>15, <1>16, <1>17, <1>18, <1>19

\* The main loop reads all the indices that were written to the socket.
LEMMA ReadAckStep ==
  ASSUME IInv, ReadAck
  PROVE  IInv'
<1> USE DEF IInv
<1>1. /\ kout = "none" /\ pc = "idle" /\ pc' = "call" /\ sock # <<>>
      /\ buffer' = sock /\ sock' = <<>> /\ buffer = <<>>
      /\ UNCHANGED <<fifo_free_index, read_idx, write_idx, check_tab>>
      /\ UNCHANGED <<glob_jobs, requested, served, kout>>
  BY DEF ReadAck, Received, pool, HandStored
<1>2. FreeCells' = FreeCells /\ NbFree' = NbFree
  BY <1>1, FrameHelpers
<1>3. sock \in Seq(Job) /\ <<>> \in Seq(Job)
  BY EmptySeq DEF TypeOK
<1>4. InUse' = InUse
  BY <1>1, <1>3, ConcatEmptySeq DEF InUse
<1>5. Released' = Released /\ Served' = Served
  BY <1>1 DEF Released, Served
<1>6. TypeOK'
  BY <1>1, <1>3 DEF TypeOK, Steps
<1>7. Apart' /\ NoneLost'
  BY <1>1, <1>2, <1>4, <1>5 DEF Apart, NoneLost, Kept
<1>8. HandStored'
  BY <1>1 DEF HandStored
<1>9. CheckExact' /\ LeavesWhenFull'
  BY <1>1, <1>4 DEF CheckExact, LeavesWhenFull
<1>10. RanksInOrder'
  BY <1>1, <1>2, <1>4, <1>5 DEF RanksInOrder
<1> QED BY <1>6, <1>7, <1>8, <1>9, <1>10

\* A step of the main loop has an index in hand.
LEMMA InHandFacts ==
  ASSUME IInv, pc # "idle"
  PROVE  /\ buffer # <<>>
         /\ Head(buffer) = InUse[1] /\ Head(buffer) \in Job
         /\ Len(InUse) \in Nat /\ Len(InUse) >= 1
BY UseFacts DEF IInv, HandStored

\* The callback of the request in hand is called: it is the next one.
LEMMA CallStep ==
  ASSUME IInv, Call
  PROVE  /\ IInv'
         /\ served < requested /\ served' = served + 1 /\ requested' = requested
<1> USE DEF IInv
<1> DEFINE L == Len(InUse)
<1>1. pc = "call" /\ kout = "none"
  BY DEF Call, Step
<1>2. Head(buffer) = InUse[1] /\ Head(buffer) \in Job /\ L \in Nat /\ L >= 1
  BY <1>1, InHandFacts
<1>3. Served = 0 /\ Released = 0
  BY <1>1 DEF Served, Released
<1>4. requested \in Nat /\ served \in Nat
  BY CountersTyped
<1>5. glob_jobs[Head(buffer)] = served + 1 /\ requested = served + L
  BY <1>2, <1>3, <1>4 DEF RanksInOrder
<1>6. /\ served' = served + 1
      /\ pc' = "wipe"
      /\ UNCHANGED <<buffer, sock, requested, read_idx, fifo_free_index, write_idx>>
      /\ UNCHANGED <<check_tab, glob_jobs, kout>>
  <2>1. glob_jobs[Head(buffer)] # 0
    BY <1>4, <1>5
  <2>2. pc' = "wipe" /\ UNCHANGED <<buffer, sock, requested, read_idx>>
    BY <1>1 DEF Call, Step, After
  <2>3. /\ served' = glob_jobs[Head(buffer)]
        /\ UNCHANGED <<fifo_free_index, write_idx, check_tab, glob_jobs, kout>>
    BY <2>1, Zenon DEF Call
  <2> QED BY <1>5, <2>2, <2>3
<1>7. /\ FreeCells' = FreeCells /\ NbFree' = NbFree /\ InUse' = InUse
      /\ Released' = Released /\ Served' = 1
  BY <1>1, <1>6, FrameHelpers DEF Released, Served
<1>8. TypeOK'
  <2>1. served' \in 0..MaxReq
    BY <1>2, <1>4, <1>5, <1>6, JobForSelectAssumption DEF TypeOK
  <2> QED BY <1>6, <2>1 DEF TypeOK, Steps
<1>9. Apart' /\ NoneLost'
  BY <1>6, <1>7 DEF Apart, NoneLost, Kept
<1>10. HandStored' /\ LeavesWhenFull'
  BY <1>1, <1>6 DEF HandStored, LeavesWhenFull
<1>11. CheckExact'
  BY <1>6, <1>7 DEF CheckExact
<1>12. RanksInOrder'
  <2>1. requested' = served' + L - 1
    BY <1>2, <1>4, <1>5, <1>6
  <2>2. \A k \in 1..L : glob_jobs[InUse[k]] = served + k
    BY <1>3, <1>4, <1>2 DEF RanksInOrder
  <2>3. \A k \in 2..L : glob_jobs[InUse[k]] = served' + k - 1
    BY <1>2, <1>4, <1>6, <2>2
  <2>4. \A c \in FreeCells : glob_jobs[fifo_free_index[c]] = 0
    BY DEF RanksInOrder
  <2> QED BY <1>6, <1>7, <2>1, <2>3, <2>4 DEF RanksInOrder
<1> QED BY <1>2, <1>4, <1>5, <1>6, <1>8, <1>9, <1>10, <1>11, <1>12

\* The request in hand is taken out of glob_jobs.
LEMMA WipeStep ==
  ASSUME IInv, Wipe
  PROVE  IInv' /\ UNCHANGED <<requested, served>>
<1> USE DEF IInv
<1> DEFINE L == Len(InUse)
           job == InUse[1]
<1>1. pc = "wipe" /\ kout = "none"
  BY DEF Wipe, Step
<1>2. Head(buffer) = job /\ job \in Job /\ L \in Nat /\ L >= 1
  BY <1>1, InHandFacts
<1>3. /\ glob_jobs' = [glob_jobs EXCEPT ![job] = 0]
      /\ pc' = "store"
      /\ UNCHANGED <<buffer, sock, requested, read_idx, fifo_free_index, write_idx>>
      /\ UNCHANGED <<check_tab, served, kout>>
  BY <1>1, <1>2 DEF Wipe, Step, After
<1>4. /\ FreeCells' = FreeCells /\ NbFree' = NbFree /\ InUse' = InUse
      /\ Released = 0 /\ Released' = 0 /\ Served = 1 /\ Served' = 1
  BY <1>1, <1>3, FrameHelpers DEF Released, Served
<1>5. Kept = 1..L
  BY <1>4 DEF Kept
<1>6. /\ \A k \in 1..L : k # 1 => InUse[k] # job
      /\ \A c \in FreeCells : fifo_free_index[c] # job /\ fifo_free_index[c] \in Job
      /\ \A k \in 1..L : InUse[k] \in Job
  BY <1>2, <1>5, UseFacts DEF Apart
<1>7. \A j \in Job : glob_jobs'[j] = IF j = job THEN 0 ELSE glob_jobs[j]
  BY <1>2, <1>3 DEF TypeOK
<1> HIDE DEF job
<1>8. TypeOK'
  <2>1. glob_jobs' \in [Job -> 0..MaxReq]
    <3>1. 0 \in 0..MaxReq
      BY JobForSelectAssumption
    <3> QED BY <1>2, <1>3, <3>1 DEF TypeOK
  <2> QED BY <1>3, <2>1 DEF TypeOK, Steps
<1>9. Apart' /\ NoneLost'
  BY <1>3, <1>4 DEF Apart, NoneLost, Kept
<1>10. HandStored' /\ LeavesWhenFull'
  BY <1>1, <1>3 DEF HandStored, LeavesWhenFull
<1>11. CheckExact'
  BY <1>3, <1>4 DEF CheckExact
<1>12. RanksInOrder'
  <2>1. \A k \in 2..L : glob_jobs'[InUse[k]] = served + k - 1
    <3>1. \A k \in 2..L : k \in 1..L /\ glob_jobs[InUse[k]] = served + k - 1
      BY <1>2, <1>4 DEF RanksInOrder
    <3> QED BY <1>2, <1>6, <1>7, <3>1
  <2>2. \A c \in FreeCells : glob_jobs'[fifo_free_index[c]] = 0
    BY <1>6, <1>7 DEF RanksInOrder
  <2>3. glob_jobs'[InUse[1]] = 0
    BY <1>2, <1>7 DEF job
  <2>4. requested = served + L - 1
    BY <1>4 DEF RanksInOrder
  <2> QED BY <1>3, <1>4, <2>1, <2>2, <2>3, <2>4 DEF RanksInOrder
<1> QED BY <1>3, <1>8, <1>9, <1>10, <1>11, <1>12

\* The index in hand is stored in the cell that is free to take it.
LEMMA StoreStep ==
  ASSUME IInv, Store
  PROVE  IInv' /\ UNCHANGED <<requested, served>>
<1> USE DEF IInv
<1> DEFINE L == Len(InUse)
           job == InUse[1]
<1>1. pc = "store" /\ kout = "none"
  BY DEF Store, Step
<1>2. Head(buffer) = job /\ job \in Job /\ L \in Nat /\ L >= 1
  BY <1>1, InHandFacts
<1>3. /\ fifo_free_index' = [fifo_free_index EXCEPT ![write_idx] = job]
      /\ pc' = "advance"
      /\ UNCHANGED <<buffer, sock, requested, read_idx, write_idx>>
      /\ UNCHANGED <<check_tab, glob_jobs, served, kout>>
  BY <1>1, <1>2 DEF Store, Step, After
<1>4. /\ FreeCells' = FreeCells /\ NbFree' = NbFree /\ InUse' = InUse
      /\ Released = 0 /\ Released' = 0 /\ Served = 1 /\ Served' = 1
  BY <1>1, <1>3, FrameHelpers DEF Released, Served
<1>5. job \in 1..MaxJobs /\ write_idx \in Cell
  BY <1>2, RingFacts DEF Job
<1>6. NbFree < MaxJobs - 1 /\ write_idx \notin FreeCells
  <2>1. NbFree < MaxJobs - 1
    BY <1>2, <1>4, RingFacts DEF NoneLost
  <2>2. write_idx \notin FreeCells
    BY RingFacts DEF Cell
  <2> QED BY <2>1, <2>2
<1>7. /\ \A c \in FreeCells : fifo_free_index'[c] = fifo_free_index[c]
      /\ fifo_free_index'[write_idx] = job
      /\ fifo_free_index' \in [Cell -> 1..MaxJobs]
  <2>1. \A c \in FreeCells : c \in Cell /\ c # write_idx
    BY <1>6 DEF FreeCells
  <2> QED BY <1>3, <1>5, <2>1 DEF TypeOK
<1>8. TypeOK'
  BY <1>3, <1>7 DEF TypeOK, Steps
<1>9. Apart' /\ NoneLost'
  BY <1>4, <1>7 DEF Apart, NoneLost, Kept
<1>10. HandStored' /\ LeavesWhenFull'
  BY <1>1, <1>3, <1>4, <1>7 DEF HandStored, LeavesWhenFull
<1>11. CheckExact'
  BY <1>3, <1>4 DEF CheckExact
<1>12. RanksInOrder'
  BY <1>1, <1>3, <1>4, <1>7 DEF RanksInOrder
<1> QED BY <1>3, <1>8, <1>9, <1>10, <1>11, <1>12

\* write_idx moves: the index in hand is free, and still marked as in use.
LEMMA AdvanceStep ==
  ASSUME IInv, Advance
  PROVE  IInv' /\ UNCHANGED <<requested, served>>
<1> USE DEF IInv
<1> DEFINE L == Len(InUse)
           job == InUse[1]
<1>1. pc = "advance" /\ kout = "none"
  BY DEF Advance, Step
<1>2. Head(buffer) = job /\ job \in Job /\ L \in Nat /\ L >= 1
  BY <1>1, InHandFacts
<1>3. check_tab[job]
  BY <1>2 DEF CheckExact
<1>4. /\ write_idx' = NextCell(write_idx)
      /\ pc' = "clear" /\ kout' = "none"
      /\ UNCHANGED <<buffer, sock, requested, read_idx, fifo_free_index>>
      /\ UNCHANGED <<check_tab, glob_jobs, served>>
  <2>1. pc' = "clear" /\ UNCHANGED <<buffer, sock, requested, read_idx>>
    BY <1>1 DEF Advance, Step, After
  <2>2. kout' = "none"
    BY <1>2, <1>3, Zenon DEF Advance
  <2> QED BY <2>1, <2>2 DEF Advance
<1>5. /\ InUse' = InUse
      /\ Released = 0 /\ Released' = 1 /\ Served = 1 /\ Served' = 1
  BY <1>1, <1>4, FrameHelpers DEF Released, Served
<1>6. NbFree < MaxJobs - 1 /\ NbFree \in Nat
  BY <1>2, <1>5, RingFacts DEF NoneLost
<1>7. /\ write_idx \notin FreeCells
      /\ FreeCells' = FreeCells \cup {write_idx}
      /\ NbFree' = NbFree + 1
      /\ write_idx' \in Cell
  BY <1>4, <1>6, RingGiven
<1>8. fifo_free_index[write_idx] = job
  BY <1>1 DEF HandStored
<1>9. Kept = 1..L /\ Kept' = 2..L
  BY <1>5 DEF Kept
<1>10. /\ \A c \in FreeCells : fifo_free_index[c] # job
       /\ \A k \in Kept' : k \in Kept /\ InUse[k] # job
  BY <1>2, <1>9 DEF Apart
<1> HIDE DEF job
<1>11. TypeOK'
  BY <1>4, <1>7 DEF TypeOK, Steps
<1>12. Apart'
  <2>1. \A c \in FreeCells' : fifo_free_index[c] \in Job
    BY <1>2, <1>7, <1>8 DEF Apart
  <2>2. \A c, d \in FreeCells' : fifo_free_index[c] = fifo_free_index[d] => c = d
    BY <1>7, <1>8, <1>10 DEF Apart
  <2>3. \A k, l \in Kept' : InUse[k] = InUse[l] => k = l
    BY <1>10 DEF Apart
  <2>4. \A c \in FreeCells', k \in Kept' : fifo_free_index[c] # InUse[k]
    BY <1>7, <1>8, <1>10 DEF Apart
  <2> QED BY <1>4, <1>5, <2>1, <2>2, <2>3, <2>4 DEF Apart
<1>13. NoneLost'
  BY <1>2, <1>5, <1>6, <1>7, RingFacts DEF NoneLost
<1>14. HandStored'
  <2>1. NextCell(write_idx) = write_idx' /\ NextCell(write_idx)' = NextCell(write_idx')
    BY <1>4 DEF NextCell
  <2>2. \E c \in FreeCells' : (NextCell(c) = write_idx /\ fifo_free_index[c] = InUse[1])'
    BY <1>4, <1>5, <1>7, <1>8, <2>1 DEF NextCell, job
  <2> QED BY <1>1, <1>4, <1>5, <2>2 DEF HandStored
<1>15. CheckExact' /\ LeavesWhenFull'
  BY <1>4, <1>5 DEF CheckExact, LeavesWhenFull
<1>16. RanksInOrder'
  <2>1. \A c \in FreeCells' : glob_jobs[fifo_free_index[c]] = 0
    BY <1>1, <1>7, <1>8 DEF RanksInOrder, job
  <2> QED BY <1>4, <1>5, <2>1 DEF RanksInOrder
<1> QED BY <1>4, <1>11, <1>12, <1>13, <1>14, <1>15, <1>16

\* The index is no more marked as in use, and the main loop goes on with the next.
LEMMA ClearStep ==
  ASSUME IInv, Clear
  PROVE  IInv' /\ UNCHANGED <<requested, served>>
<1> USE DEF IInv
<1> DEFINE L == Len(InUse)
           job == InUse[1]
<1>1. pc = "clear" /\ kout = "none"
  BY DEF Clear, Step
<1>2. Head(buffer) = job /\ job \in Job /\ L \in Nat /\ L >= 1 /\ buffer # <<>>
  BY <1>1, InHandFacts
<1>3. /\ check_tab' = [check_tab EXCEPT ![job] = FALSE]
      /\ buffer' = Tail(buffer)
      /\ pc' = IF buffer' = <<>> THEN "idle" ELSE "call"
      /\ UNCHANGED <<sock, requested, read_idx, fifo_free_index, write_idx>>
      /\ UNCHANGED <<glob_jobs, served, kout>>
  BY <1>1, <1>2 DEF Clear, Step, After
<1>4. /\ FreeCells' = FreeCells /\ NbFree' = NbFree
      /\ Released = 1 /\ Released' = 0 /\ Served = 1 /\ Served' = 0
  BY <1>1, <1>3, FrameHelpers DEF Released, Served
<1>5. /\ buffer' \in Seq(Job)
      /\ Len(InUse') = L - 1
      /\ \A k \in 1..(L - 1) : InUse'[k] = InUse[k + 1]
  BY <1>2, <1>3, UseReleased
<1>6. PICK c \in FreeCells : fifo_free_index[c] = job
  BY <1>1 DEF HandStored
<1>7. \A k \in 2..L : InUse[k] # job /\ InUse[k] \in Job
  <2>1. \A k \in 2..L : InUse[k] # job
    BY <1>4, <1>6 DEF Apart, Kept
  <2>2. \A k \in 2..L : k \in 1..L
    BY <1>2
  <2> QED BY <2>1, <2>2, UseFacts
<1> HIDE DEF L, job
<1>8. Kept = 2..L /\ Kept' = 1..(L - 1)
  BY <1>4, <1>5 DEF Kept, L
<1>9. \A k \in Kept' : k + 1 \in Kept /\ InUse'[k] = InUse[k + 1]
  BY <1>2, <1>5, <1>8
<1>10. TypeOK'
  <2>1. check_tab' \in [Job -> BOOLEAN]
    BY <1>2, <1>3 DEF TypeOK
  <2> QED BY <1>3, <1>5, <2>1 DEF TypeOK, Steps
<1>11. Apart'
  <2>1. \A k, l \in Kept' : InUse'[k] = InUse'[l] => k = l
    <3>1. \A k, l \in Kept' : k \in Int /\ l \in Int
      BY <1>8
    <3> QED BY <1>9, <3>1 DEF Apart
  <2>2. \A d \in FreeCells, k \in Kept' : fifo_free_index[d] # InUse'[k]
    BY <1>9 DEF Apart
  <2> QED BY <1>3, <1>4, <2>1, <2>2 DEF Apart
<1>12. NoneLost'
  BY <1>2, <1>4, <1>5, RingFacts DEF NoneLost, L
<1>13. HandStored'
  BY <1>3 DEF HandStored
<1>14. LeavesWhenFull'
  BY <1>1, <1>3 DEF LeavesWhenFull
<1>15. CheckExact'
  <2>1. check_tab'[job] = FALSE /\ \A j \in Job : j # job => check_tab'[j] = check_tab[j]
    BY <1>2, <1>3 DEF TypeOK
  <2>2. \A k \in 1..Len(InUse') : k + 1 \in 2..L /\ k + 1 \in 1..L /\ InUse'[k] = InUse[k + 1]
    BY <1>2, <1>5
  <2>3. \A k \in 1..L : k = 1 \/ (k - 1 \in 1..Len(InUse') /\ InUse'[k - 1] = InUse[k])
    <3>1. ASSUME NEW k \in 1..L, k # 1
          PROVE  k - 1 \in 1..Len(InUse') /\ InUse'[k - 1] = InUse[k]
      <4>1. k - 1 \in 1..(L - 1) /\ (k - 1) + 1 = k
        BY <1>2, <3>1
      <4> QED BY <1>5, <4>1
    <3> QED BY <3>1
  <2>4. \A j \in Job : check_tab[j] <=> \E k \in 1..L : InUse[k] = j
    BY Zenon DEF CheckExact, L
  <2>5. ASSUME NEW j \in Job
        PROVE  check_tab'[j] <=> \E k \in 1..Len(InUse') : InUse'[k] = j
    <3>1. CASE j = job
      <4>1. \A k \in 1..Len(InUse') : InUse'[k] # job
        BY <1>7, <2>2
      <4> QED BY <2>1, <3>1, <4>1, Zenon
    <3>2. CASE j # job
      <4>1. (\E k \in 1..Len(InUse') : InUse'[k] = j) <=> (\E k \in 1..L : InUse[k] = j)
        BY <2>2, <2>3, <3>2 DEF job
      <4> QED BY <2>1, <2>4, <3>2, <4>1, Zenon
    <3> QED BY <3>1, <3>2
  <2> QED BY <2>5, Zenon DEF CheckExact
<1>16. RanksInOrder'
  <2>1. requested \in Nat /\ served \in Nat
    BY CountersTyped
  <2>2. requested = served + Len(InUse')
    BY <1>2, <1>4, <1>5, <2>1 DEF RanksInOrder, L
  <2>3. ASSUME NEW k \in 1..Len(InUse')
        PROVE  glob_jobs[InUse'[k]] = served + k
    <3>1. k + 1 \in 2..L /\ k \in 1..(L - 1) /\ k \in Int
      BY <1>2, <1>5
    <3>2. glob_jobs[InUse[k + 1]] = served + (k + 1) - 1
      BY <1>4, <3>1 DEF RanksInOrder, L
    <3> QED BY <1>5, <2>1, <3>1, <3>2
  <2>4. requested' = served' + Len(InUse') - Served'
    BY <1>2, <1>3, <1>4, <1>5, <2>1, <2>2
  <2>5. \A k \in (Served' + 1)..Len(InUse') : glob_jobs'[InUse'[k]] = served' + k - Served'
    BY <1>3, <1>4, <2>1, <2>3
  <2>6. pc' \notin {"store", "advance"}
    BY <1>3
  <2>7. \A d \in FreeCells' : glob_jobs'[fifo_free_index'[d]] = 0
    BY <1>3, <1>4 DEF RanksInOrder
  <2> QED BY <2>4, <2>5, <2>6, <2>7 DEF RanksInOrder
<1> QED BY <1>3, <1>10, <1>11, <1>12, <1>13, <1>14, <1>15, <1>16

LEMMA RequestStep ==
  ASSUME IInv, Request
  PROVE  /\ IInv' /\ served' = served
         /\ requested' = requested + 1 \/ requested' = requested
<1> DEFINE job == fifo_free_index[read_idx]
<1>1. kout = "none" /\ requested < MaxReq /\ kout' = Refusal(job)
  BY DEF Request
<1>2. CASE kout' # "none"
  <2>1. UNCHANGED <<pool, glob_jobs, sock, requested, buffer, pc, served>>
    BY <1>2, Zenon DEF Request
  <2> QED BY <1>1, <1>2, <2>1, RefusedStep
<1>3. CASE kout' = "none"
  <2>1. /\ read_idx' = NextCell(read_idx)
        /\ check_tab' = [check_tab EXCEPT ![job] = TRUE]
        /\ requested' = requested + 1
        /\ glob_jobs' = [glob_jobs EXCEPT ![job] = requested']
        /\ sock' = Append(sock, job)
        /\ UNCHANGED <<fifo_free_index, write_idx, buffer, pc, served>>
    BY <1>3, Zenon DEF Request
  <2> HIDE DEF job
  <2>2. Refusal(job) = "none"
    BY <1>1, <1>3
  <2> QED BY <1>1, <1>3, <2>1, <2>2, AcceptedStep DEF job
<1> QED BY <1>2, <1>3

\* The first cells of the ring hold all the indices but the MAX_JOBS of its last.
LEMMA InitInv == Init => IInv
<1> SUFFICES ASSUME Init
             PROVE  IInv
  OBVIOUS
<1>1. /\ fifo_free_index = [c \in Cell |-> c + 1]
      /\ read_idx = 0 /\ write_idx = MaxJobs - 1
      /\ check_tab = [j \in Job |-> FALSE] /\ glob_jobs = [j \in Job |-> 0]
      /\ sock = <<>> /\ buffer = <<>> /\ pc = "idle"
      /\ requested = 0 /\ served = 0 /\ kout = "none"
  BY DEF Init
<1>2. TypeOK
  <2>1. fifo_free_index \in [Cell -> 1..MaxJobs]
    BY <1>1, JobForSelectAssumption DEF Cell
  <2>2. read_idx \in Cell /\ write_idx \in Cell
    BY <1>1, JobForSelectAssumption DEF Cell
  <2>3. 0 \in 0..MaxReq
    BY JobForSelectAssumption
  <2>4. check_tab \in [Job -> BOOLEAN]
    BY <1>1
  <2>5. glob_jobs \in [Job -> 0..MaxReq]
    BY <1>1, <2>3
  <2>6. sock \in Seq(Job) /\ buffer \in Seq(Job)
    BY <1>1, EmptySeq
  <2> QED BY <1>1, <2>1, <2>2, <2>3, <2>4, <2>5, <2>6 DEF TypeOK, Steps
<1>3. InUse = <<>> /\ Len(InUse) = 0
  BY <1>1, <1>2, ConcatEmptySeq, EmptySeq DEF InUse, TypeOK
<1>4. Released = 0 /\ Served = 0 /\ Kept = {}
  BY <1>1, <1>3 DEF Released, Served, Kept
<1>5. FreeCells = 0..(MaxJobs - 2) /\ NbFree = MaxJobs - 1
  <2>1. NbFree = MaxJobs - 1
    BY <1>1, <1>2, RingFacts
  <2>2. \A c : c \in FreeCells <=> c \in 0..(MaxJobs - 1) /\ 0 <= c /\ c < MaxJobs - 1
    <3>1. read_idx <= write_idx
      BY <1>1, JobForSelectAssumption
    <3> QED BY <1>1, <1>2, <3>1, RingFacts
  <2>3. \A c : c \in 0..(MaxJobs - 2) <=> c \in 0..(MaxJobs - 1) /\ 0 <= c /\ c < MaxJobs - 1
    BY JobForSelectAssumption
  <2> QED BY <2>1, <2>2, <2>3
<1>6. \A c \in FreeCells : c \in Cell /\ fifo_free_index[c] = c + 1 /\ c + 1 \in Job
  BY <1>1, <1>5, JobForSelectAssumption DEF Cell, Job
<1>7. Apart
  <2>1. \A c, d \in FreeCells : fifo_free_index[c] = fifo_free_index[d] => c = d
    BY <1>5, <1>6
  <2> QED BY <1>4, <1>6, <2>1 DEF Apart
<1>8. NoneLost
  BY <1>3, <1>4, <1>5, JobForSelectAssumption DEF NoneLost
<1>9. HandStored /\ LeavesWhenFull
  BY <1>1 DEF HandStored, LeavesWhenFull
<1>10. CheckExact
  BY <1>1, <1>3 DEF CheckExact
<1>11. RanksInOrder
  BY <1>1, <1>3, <1>4, <1>6 DEF RanksInOrder
<1> QED BY <1>2, <1>7, <1>8, <1>9, <1>10, <1>11 DEF IInv

LEMMA StutterInv ==
  ASSUME IInv, UNCHANGED vars
  PROVE  IInv' /\ UNCHANGED <<requested, served>>
<1> USE DEF IInv, vars, pool
<1>1. /\ FreeCells' = FreeCells /\ NbFree' = NbFree /\ InUse' = InUse
      /\ Released' = Released /\ Served' = Served
  BY FrameHelpers
<1>2. TypeOK' /\ LeavesWhenFull'
  BY <1>1 DEF TypeOK, LeavesWhenFull
<1>3. Apart' /\ NoneLost'
  BY <1>1 DEF Apart, NoneLost, Kept
<1>4. HandStored' /\ CheckExact'
  BY <1>1 DEF HandStored, CheckExact, NextCell
<1>5. RanksInOrder'
  BY <1>1 DEF RanksInOrder
<1> QED BY <1>2, <1>3, <1>4, <1>5

\* Every step keeps the invariant, and asks for a job, serves the next, or neither.
LEMMA NextInv ==
  ASSUME IInv, [Next]_vars
  PROVE  /\ IInv'
         /\ \/ Promise!Ask
            \/ Promise!Serve
            \/ UNCHANGED <<requested, served>>
<1>1. CASE Request
  BY <1>1, RequestStep DEF Promise!Ask
<1>2. CASE ReadAck
  BY <1>2, ReadAckStep DEF ReadAck
<1>3. CASE Call
  BY <1>3, CallStep DEF Promise!Serve
<1>4. CASE Wipe
  BY <1>4, WipeStep
<1>5. CASE Store
  BY <1>5, StoreStep
<1>6. CASE Advance
  BY <1>6, AdvanceStep
<1>7. CASE Clear
  BY <1>7, ClearStep
<1>8. CASE UNCHANGED vars
  BY <1>8, StutterInv
<1> QED BY <1>1, <1>2, <1>3, <1>4, <1>5, <1>6, <1>7, <1>8 DEF Next, MainLoop

\* The inductive invariant of the ring, the indices in use and their requests.
THEOREM PoolInvariant == Spec => []IInv
<1>1. IInv /\ [Next]_vars => IInv'
  BY NextInv
<1> QED BY <1>1, InitInv, PTL DEF Spec

\* For every size of the ring and at every store of the main loop the handler may
\* come between: each index is in one place, none is lost or given twice, and the
\* program leaves only when all of them, or all but the one in hand, are in use.
THEOREM NoIndexLost == Spec => []IndexInOnePlace
<1>1. IInv => IndexInOnePlace
  <2> SUFFICES ASSUME IInv
               PROVE  IndexInOnePlace
    OBVIOUS
  <2> USE DEF IInv
  <2> DEFINE used == InHand \o sock
             places == Free \o used
             L == Len(InUse)
             N == NbFree
  <2>1. /\ L \in Nat /\ \A k \in 1..L : InUse[k] \in Job
        /\ N \in 0..(MaxJobs - 1) /\ MaxJobs \in Nat /\ MaxJobs > 1
    BY UseFacts, RingFacts
  <2>2. /\ InHand \in Seq(Job) /\ used \in Seq(Job)
        /\ Len(used) = L - Released
        /\ \A k \in 1..(L - Released) : used[k] = InUse[k + Released]
    <3>1. CASE pc = "clear"
      <4>1. buffer # <<>> /\ buffer \in Seq(Job) /\ sock \in Seq(Job)
        BY <3>1 DEF HandStored, TypeOK
      <4>2. InHand = Tail(buffer) /\ Tail(buffer) \in Seq(Job)
        BY <3>1, <4>1, HeadTailProperties DEF InHand
      <4>3. /\ Len(used) = L - 1
            /\ \A k \in 1..(L - 1) : used[k] = InUse[k + 1]
        BY <4>1, <4>2, TailOfUse
      <4> QED BY <3>1, <4>1, <4>2, <4>3, ConcatProperties DEF Released
    <3>2. CASE pc # "clear"
      <4>1. InHand = buffer /\ Released = 0 /\ used = InUse
        BY <3>2 DEF InHand, Released, InUse
      <4>2. buffer \in Seq(Job) /\ InUse \in Seq(Job)
        BY UseFacts DEF TypeOK
      <4> QED BY <2>1, <4>1, <4>2
    <3> QED BY <3>1, <3>2
  <2>3. ASSUME NEW k \in 1..N, NEW a, a = read_idx + k - 1
        PROVE  /\ a % MaxJobs \in FreeCells
               /\ a % MaxJobs = IF a < MaxJobs THEN a ELSE a - MaxJobs
    BY <2>3, FreeCell
  <2>4. /\ Free \in Seq(Job) /\ Len(Free) = N
        /\ \A k \in 1..N : Free[k] = fifo_free_index[(read_idx + k - 1) % MaxJobs]
    <3>1. ASSUME NEW k \in 1..N
          PROVE  fifo_free_index[(read_idx + k - 1) % MaxJobs] \in Job
      <4> DEFINE a == read_idx + k - 1
      <4>1. a % MaxJobs \in FreeCells
        BY <2>3
      <4> HIDE DEF a
      <4>2. fifo_free_index[a % MaxJobs] \in Job
        BY <4>1 DEF Apart
      <4> QED BY <4>2 DEF a
    <3>2. Free \in [1..N -> Job]
      BY <3>1 DEF Free
    <3> QED BY <2>1, <3>2, SeqDef DEF Free
  <2>5. /\ places \in Seq(Job)
        /\ Len(places) = N + (L - Released)
        /\ \A k \in 1..(N + (L - Released)) : places[k] =
             IF k <= N THEN Free[k] ELSE used[k - N]
    <3> HIDE DEF used, L, N
    <3>1. /\ places \in Seq(Job)
          /\ Len(places) = Len(Free) + Len(used)
          /\ \A k \in 1..(Len(Free) + Len(used)) : places[k] =
               IF k <= Len(Free) THEN Free[k] ELSE used[k - Len(Free)]
      BY <2>2, <2>4, ConcatProperties
    <3> HIDE DEF places
    <3> QED BY <2>2, <2>4, <3>1
  <2>6. Len(places) = MaxJobs - 1
    BY <2>1, <2>5 DEF NoneLost, Released
  <2>7. Released \in {0, 1}
    BY DEF Released
  <2> HIDE DEF places, used, L, N
  <2>8. ASSUME NEW k \in 1..N, NEW a, a = read_idx + k - 1
        PROVE  \E c \in FreeCells :
                 Free[k] = fifo_free_index[c] /\ c = IF a < MaxJobs THEN a ELSE a - MaxJobs
    <3>1. Free[k] = fifo_free_index[a % MaxJobs]
      BY <2>4, <2>8
    <3>2. a % MaxJobs \in FreeCells /\ a % MaxJobs = IF a < MaxJobs THEN a ELSE a - MaxJobs
      BY <2>3, <2>8
    <3> QED BY <3>1, <3>2
  <2>9. \A k, l \in 1..N : Free[k] = Free[l] => k = l
    <3> SUFFICES ASSUME NEW k \in 1..N, NEW l \in 1..N, Free[k] = Free[l]
                 PROVE  k = l
      OBVIOUS
    <3> DEFINE a == read_idx + k - 1
               b == read_idx + l - 1
    <3>1. PICK c \in FreeCells :
            Free[k] = fifo_free_index[c] /\ c = IF a < MaxJobs THEN a ELSE a - MaxJobs
      BY <2>8
    <3>2. PICK d \in FreeCells :
            Free[l] = fifo_free_index[d] /\ d = IF b < MaxJobs THEN b ELSE b - MaxJobs
      BY <2>8
    <3>3. c = d
      BY <3>1, <3>2 DEF Apart
    <3>4. read_idx \in 0..(MaxJobs - 1)
      BY RingFacts DEF Cell
    <3> QED BY <2>1, <3>1, <3>2, <3>3, <3>4
  <2>10. \A k \in 1..(L - Released) : k + Released \in Kept /\ used[k] = InUse[k + Released]
    BY <2>1, <2>2, <2>7 DEF Kept, L
  <2>11. \A k, l \in 1..(L - Released) : used[k] = used[l] => k = l
    <3>1. \A k, l \in 1..(L - Released) : k \in Int /\ l \in Int
      OBVIOUS
    <3> QED BY <2>7, <2>10, <3>1 DEF Apart
  <2>12. \A k \in 1..N, l \in 1..(L - Released) : Free[k] # used[l]
    <3>1. \A k \in 1..N : \E c \in FreeCells : Free[k] = fifo_free_index[c]
      BY <2>8
    <3> QED BY <2>10, <3>1 DEF Apart
  <2>13. \A k, l \in 1..(MaxJobs - 1) : places[k] = places[l] => k = l
    <3> SUFFICES ASSUME NEW k \in 1..(MaxJobs - 1), NEW l \in 1..(MaxJobs - 1),
                        places[k] = places[l]
                 PROVE  k = l
      OBVIOUS
    <3>1. N + (L - Released) = MaxJobs - 1 /\ N \in Nat /\ L - Released \in Int
      BY <2>1, <2>5, <2>6, <2>7
    <3>2. CASE k <= N /\ l <= N
      BY <2>5, <2>9, <3>1, <3>2
    <3>3. CASE k <= N /\ ~(l <= N)
      BY <2>5, <2>12, <3>1, <3>3
    <3>4. CASE ~(k <= N) /\ l <= N
      BY <2>5, <2>12, <3>1, <3>4
    <3>5. CASE ~(k <= N) /\ ~(l <= N)
      <4>1. k - N \in 1..(L - Released) /\ l - N \in 1..(L - Released)
        BY <3>1, <3>5
      <4>2. used[k - N] = used[l - N]
        BY <2>5, <3>1, <3>5
      <4>3. k - N = l - N
        BY <2>11, <4>1, <4>2
      <4> QED BY <3>1, <4>3
    <3> QED BY <3>2, <3>3, <3>4, <3>5
  <2>14. {places[k] : k \in 1..Len(places)} = Job
    <3> DEFINE D == 1..(MaxJobs - 1)
    <3>1. places \in [D -> Job] /\ D = Job
      BY <2>5, <2>6, LenProperties DEF Job
    <3>2. places \in Injection(D, Job)
      BY <2>13, <3>1 DEF Injection, IsInjective
    <3>3. IsFiniteSet(Job)
      BY <2>1, FS_Interval DEF Job
    <3>4. places \in Surjection(D, Job)
      BY <3>1, <3>2, <3>3, FS_Injection
    <3>5. \A j \in Job : \E k \in D : places[k] = j
      BY <3>4 DEF Surjection
    <3> QED BY <2>6, <3>1, <3>5
  <2> QED BY <2>6, <2>14 DEF IndexInOnePlace, places, used
<1> QED BY <1>1, PoolInvariant, PTL

\* Each request of the handler is served once and in the order of the requests.
THEOREM JobsServedInOrder == Spec => ImplementsPromise
<1>1. Init => Promise!Init
  BY DEF Init, Promise!Init
<1>2. IInv /\ [Next]_vars => [Promise!Ask \/ Promise!Serve]_<<requested, served>>
  BY NextInv
<1> QED BY <1>1, <1>2, PoolInvariant, PTL DEF Spec, ImplementsPromise, Promise!Spec
================================================================================
