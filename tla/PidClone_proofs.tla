---------------------------- MODULE PidClone_proofs ----------------------------
(***************************************************************************)
(* Proofs about the clones of the server: for every number of pids, idents *)
(* and launches, a clone is known by one ident until it is reported, it is *)
(* reported once, and never before the messages it sent.                   *)
(***************************************************************************)
EXTENDS PidClone, FiniteSetTheorems, SequenceTheorems, WellFoundedInduction, TLAPS

\* A nonempty set of naturals has a least element.
LEMMA LeastExists ==
  ASSUME NEW T \in SUBSET Nat, T # {}
  PROVE  \E x \in T : \A y \in T : x <= y
<1> DEFINE R == OpToRel(<, Nat)
<1>1. IsWellFoundedOn(R, Nat)
  BY NatLessThanWellFounded
<1>2. PICK x \in T : \A y \in T : ~ (<<y, x>> \in R)
  <2> HIDE DEF R
  <2> QED BY <1>1, WFMin
<1>3. \A y \in T : <<y, x>> \in R <=> y < x
  BY DEF OpToRel
<1> HIDE DEF R
<1>4. \A y \in T : ~ (y < x)
  BY <1>2, <1>3
<1> QED BY <1>4

LEMMA LowestIn ==
  ASSUME NEW T \in SUBSET Nat, T # {}
  PROVE  Lowest(T) \in T
BY LeastExists DEF Lowest

\* The highest of a set of idents is the one that is the nearest to MAX_FORK_IDENT.
LEMMA HighestIn ==
  ASSUME NEW T \in SUBSET Ident, T # {}
  PROVE  Highest(T) \in T /\ \A y \in T : Highest(T) >= y
<1> DEFINE U == {MaxIdent - x : x \in T}
<1>1. \A x \in T : x \in Nat /\ MaxIdent - x \in Nat
  BY PidCloneAssumption DEF Ident
<1>2. U \in SUBSET Nat /\ U # {}
  BY <1>1
<1>3. PICK u \in U : \A v \in U : u <= v
  BY <1>2, LeastExists
<1>4. PICK x \in T : u = MaxIdent - x
  BY <1>3
<1>5. \A y \in T : MaxIdent - x <= MaxIdent - y
  BY <1>3, <1>4
<1> HIDE DEF U
<1>6. \A y \in T : x >= y
  BY <1>1, <1>5, PidCloneAssumption
<1> QED BY <1>6 DEF Highest

-----------------------------------------------------------------------------
(* The channel of a clone.                                                   *)

Word == {"msg", "end"}

\* A message, or the end, sent on a channel that has no end yet.
LEMMA BoxAppend ==
  ASSUME NEW box \in Seq(Word), NEW e \in Word,
         \A k \in 1..(Len(box) - 1) : box[k] = "msg", box = <<>> \/ Last(box) = "msg"
  PROVE  /\ Append(box, e) \in Seq(Word) /\ Append(box, e) # <<>>
         /\ Last(Append(box, e)) = e
         /\ \A k \in 1..(Len(Append(box, e)) - 1) : Append(box, e)[k] = "msg"
         /\ Pending(Append(box, e)) = IF e = "end" THEN Pending(box) ELSE Pending(box) + 1
<1> DEFINE b == Append(box, e)
<1>1. /\ b \in Seq(Word) /\ b # <<>> /\ Len(b) = Len(box) + 1
      /\ \A i \in 1..Len(box) : b[i] = box[i]
      /\ b[Len(box) + 1] = e
  BY AppendProperties
<1>2. Len(box) \in Nat /\ (box # <<>> => Len(box) >= 1)
  BY EmptySeq, LenProperties
<1> HIDE DEF b
<1>3. Last(b) = e
  BY <1>1 DEF Last
<1>4. Pending(box) = Len(box)
  BY DEF Pending
<1>5. Pending(b) = IF e = "end" THEN Len(box) ELSE Len(box) + 1
  BY <1>1, <1>2, <1>3 DEF Pending, Word
<1>6. ASSUME NEW k \in 1..(Len(b) - 1)
      PROVE  b[k] = "msg"
  <2>1. k \in 1..Len(box) /\ box # <<>>
    BY <1>1, <1>2, EmptySeq
  <2>2. k = Len(box) \/ k \in 1..(Len(box) - 1)
    BY <1>2, <2>1
  <2> QED BY <1>1, <2>1, <2>2 DEF Last
<1> QED BY <1>1, <1>3, <1>4, <1>5, <1>6 DEF b

\* The head of a channel is read: a message less to come, unless it is the end.
LEMMA BoxTail ==
  ASSUME NEW box \in Seq(Word), box # <<>>, \A k \in 1..(Len(box) - 1) : box[k] = "msg"
  PROVE  /\ Tail(box) \in Seq(Word) /\ Head(box) \in Word
         /\ Pending(Tail(box)) = IF Head(box) = "end" THEN Pending(box) ELSE Pending(box) - 1
         /\ \A k \in 1..(Len(Tail(box)) - 1) : Tail(box)[k] = "msg"
         /\ Tail(box) # <<>> => Last(Tail(box)) = Last(box)
         /\ Tail(box) = <<>> => Last(box) = Head(box)
         /\ Head(box) = "end" => Tail(box) = <<>>
         /\ Pending(Tail(box)) \in Nat
<1> DEFINE t == Tail(box)
<1>1. /\ t \in Seq(Word) /\ Len(t) = Len(box) - 1
      /\ \A i \in 1..Len(t) : t[i] = box[i + 1]
      /\ Head(box) \in Word
  BY HeadTailProperties
<1>2. /\ Len(box) \in Nat /\ Len(box) >= 1 /\ Len(t) \in Nat
      /\ t = <<>> => Len(t) = 0
      /\ t # <<>> => Len(t) >= 1
  <2>1. Len(box) \in Nat /\ Len(box) >= 1
    BY EmptySeq, LenProperties
  <2>2. Len(t) \in Nat
    BY <1>1, LenProperties
  <2>3. t # <<>> => Len(t) \in Nat \ {0}
    BY <1>1, EmptySeq
  <2>4. t = <<>> => Len(t) = 0
    BY EmptySeq, Zenon
  <2> QED BY <2>1, <2>2, <2>3, <2>4
<1>3. Head(box) = box[1]
  OBVIOUS
<1> HIDE DEF t
<1>4. \A k \in 1..(Len(t) - 1) : t[k] = "msg"
  <2>1. \A k \in 1..(Len(t) - 1) : k \in 1..Len(t) /\ k + 1 \in 1..(Len(box) - 1)
    BY <1>1, <1>2
  <2> QED BY <1>1, <2>1
<1>5. t # <<>> => Last(t) = Last(box)
  <2>1. t # <<>> => Len(t) \in 1..Len(t) /\ Len(t) + 1 = Len(box)
    BY <1>1, <1>2
  <2> QED BY <1>1, <2>1 DEF Last
<1>6. t = <<>> => Last(box) = Head(box)
  <2>1. t = <<>> => Len(box) = 1
    BY <1>1, <1>2
  <2> QED BY <1>3, <2>1 DEF Last
<1>7. Head(box) = "end" => t = <<>>
  <2>1. t # <<>> => 1 \in 1..(Len(box) - 1)
    BY <1>1, <1>2
  <2> QED BY <1>3, <2>1
<1>8. CASE t = <<>>
  <2>1. Len(box) = 1 /\ Pending(t) = 0
    BY <1>1, <1>2, <1>8 DEF Pending
  <2>2. Pending(box) = IF Head(box) = "end" THEN 0 ELSE 1
    BY <1>6, <1>8, <2>1 DEF Pending
  <2> QED BY <1>1, <1>4, <1>5, <1>6, <1>7, <2>1, <2>2 DEF t
<1>9. CASE t # <<>>
  <2>1. Head(box) # "end" /\ Last(t) = Last(box)
    BY <1>5, <1>7, <1>9
  <2>2. Pending(t) = IF Last(box) = "end" THEN Len(t) - 1 ELSE Len(t)
    BY <1>9, <2>1 DEF Pending
  <2>3. Pending(box) = IF Last(box) = "end" THEN Len(box) - 1 ELSE Len(box)
    BY DEF Pending
  <2>4. Pending(t) = Pending(box) - 1 /\ Pending(t) \in Nat
    BY <1>1, <1>2, <1>9, <2>2, <2>3
  <2> QED BY <1>1, <1>4, <1>5, <1>6, <1>7, <2>1, <2>4 DEF t
<1> QED BY <1>8, <1>9

-----------------------------------------------------------------------------
(* What keeps Sound.                                                         *)

Typed(ctx, procs, n, rep, del) ==
  /\ ctx \in [Ident -> 0..MaxLaunch]
  /\ procs \in [Rank -> Child]
  /\ n \in 0..MaxLaunch
  /\ rep \in [Rank -> {"no", "ok", "ko"}]
  /\ \A m \in Rank : del[m] \in Nat

LEMMA NotLaunchedTyped ==
  /\ NotLaunched \in Child
  /\ NotLaunched.st = "none" /\ NotLaunched.outbox = <<>> /\ NotLaunched.sent = 0
  /\ ~NotLaunched.event /\ ~NotLaunched.stopped
<1>1. <<>> \in Seq({"msg", "end"})
  BY EmptySeq
<1>2. 0 \in 0..MaxMsg
  BY PidCloneAssumption
<1> QED BY <1>1, <1>2 DEF NotLaunched, Child, Stage

\* A process of rank m that is known has the ident that is used for it.
LEMMA KnownRank ==
  ASSUME NEW ctx, NEW procs, NEW n, NEW rep, NEW del,
         Typed(ctx, procs, n, rep, del), OneIdent(ctx, n, rep), NEW i \in Used(ctx)
  PROVE  /\ i \in Ident /\ ctx[i] # 0
         /\ ctx[i] \in 1..n /\ ctx[i] \in Rank
         /\ rep[ctx[i]] = "no"
<1>1. i \in Ident /\ ctx[i] # 0
  BY DEF Used
<1>2. ctx[i] \in 0..MaxLaunch /\ ctx[i] <= n /\ n \in 0..MaxLaunch
  BY <1>1 DEF Typed, OneIdent
<1>3. ctx[i] \in 1..n /\ ctx[i] \in Rank
  BY <1>1, <1>2, PidCloneAssumption DEF Rank
<1> QED BY <1>1, <1>3 DEF OneIdent

\* A step of one process, known or not, that keeps its pid.
LEMMA ProcSound ==
  ASSUME NEW ctx, NEW procs, NEW n, NEW rep, NEW del,
         Typed(ctx, procs, n, rep, del), Sound(ctx, procs, n, rep, del),
         NEW m \in Rank, m <= n, NEW q \in Child, q.pid = procs[m].pid,
         q.st # "none", EndLast(q),
         \/ q.st = "gone" /\ q.outbox = <<>>
         \/ HoldsPid(procs, m),
         NEW d, \A k \in Rank : k # m => d[k] = del[k],
         \A i \in Used(ctx) : ctx[i] = m =>
           /\ q.st # "gone"
           /\ d[m] + Pending(q.outbox) = q.sent
           /\ q.st = "zombie" /\ q.status = "ok" => q.outbox = <<>>,
         rep[m] = "ok" => q.st = "gone"
  PROVE  Sound(ctx, [procs EXCEPT ![m] = q], n, rep, d)
<1> DEFINE P == [procs EXCEPT ![m] = q]
<1>1. \A k \in Rank : P[k] = IF k = m THEN q ELSE procs[k]
  BY DEF Typed
<1>2. n \in 0..MaxLaunch /\ MaxLaunch \in Nat /\ \A k \in 1..n : k \in Rank
  BY PidCloneAssumption DEF Typed, Rank
<1>3. \A i \in Used(ctx) : ctx[i] \in Rank
  BY KnownRank DEF Sound
<1> HIDE DEF P
<1> USE DEF Sound
<1>4. OneIdent(ctx, n, rep)
  OBVIOUS
<1>5. OnePid(ctx, P, n)
  <2>1. \A i \in Used(ctx) : P[ctx[i]].st \notin {"none", "gone"}
    BY <1>1, <1>3 DEF OnePid
  <2>2. \A k \in Rank : k <= n => P[k].st # "none" /\ P[k].pid \in Pid
    BY <1>1 DEF OnePid
  <2>3. \A k \in Rank : P[k].pid = procs[k].pid /\ (HoldsPid(P, k) => HoldsPid(procs, k))
    BY <1>1 DEF HoldsPid
  <2>4. \A k, l \in 1..n : HoldsPid(P, k) /\ HoldsPid(P, l) /\ P[k].pid = P[l].pid => k = l
    BY <1>2, <2>3 DEF OnePid
  <2> QED BY <2>1, <2>2, <2>4 DEF OnePid
<1>6. NotYet(P, n, rep, d)
  BY <1>1, <1>2 DEF NotYet, Rank
<1>7. Backlog(ctx, P, d)
  <2>1. \A k \in Rank : EndLast(P[k])
    BY <1>1 DEF Backlog
  <2>2. ASSUME NEW i \in Used(ctx)
        PROVE  /\ d[ctx[i]] + Pending(P[ctx[i]].outbox) = P[ctx[i]].sent
               /\ P[ctx[i]].st = "zombie" /\ P[ctx[i]].status = "ok"
                    => P[ctx[i]].outbox = <<>>
    <3>1. CASE ctx[i] = m
      BY <1>1, <3>1
    <3>2. CASE ctx[i] # m
      BY <1>1, <1>3, <3>2 DEF Backlog
    <3> QED BY <3>1, <3>2
  <2> QED BY <2>1, <2>2 DEF Backlog
<1>8. OkIsGone(P, rep)
  BY <1>1 DEF OkIsGone
<1> QED BY <1>4, <1>5, <1>6, <1>7, <1>8 DEF P

\* The report of the clone that has the ident i, which is free from then on.
LEMMA ReportSound ==
  ASSUME NEW ctx, NEW procs, NEW n, NEW rep, NEW del,
         Typed(ctx, procs, n, rep, del), Sound(ctx, procs, n, rep, del),
         NEW i \in Used(ctx), NEW q \in Child, q.pid = procs[ctx[i]].pid,
         q.st # "none", EndLast(q),
         NEW s \in {"ok", "ko"}, s = "ok" => q.st = "gone"
  PROVE  /\ Typed([ctx EXCEPT ![i] = 0], [procs EXCEPT ![ctx[i]] = q], n,
                  [rep EXCEPT ![ctx[i]] = s], del)
         /\ Sound([ctx EXCEPT ![i] = 0], [procs EXCEPT ![ctx[i]] = q], n,
                  [rep EXCEPT ![ctx[i]] = s], del)
<1> DEFINE m == ctx[i]
           C == [ctx EXCEPT ![i] = 0]
           P == [procs EXCEPT ![m] = q]
           R == [rep EXCEPT ![m] = s]
<1> USE DEF Sound
<1>0. i \in Ident /\ m # 0 /\ m \in 1..n /\ m \in Rank /\ rep[m] = "no"
  BY KnownRank
<1>1. /\ \A k \in Ident : C[k] = IF k = i THEN 0 ELSE ctx[k]
      /\ \A k \in Rank : P[k] = IF k = m THEN q ELSE procs[k]
      /\ \A k \in Rank : R[k] = IF k = m THEN s ELSE rep[k]
  BY <1>0 DEF Typed
<1>2. n \in 0..MaxLaunch /\ MaxLaunch \in Nat /\ \A k \in 1..n : k \in Rank
  BY PidCloneAssumption DEF Typed, Rank
<1>3. Typed(C, P, n, R, del)
  <2>1. 0 \in 0..MaxLaunch
    BY <1>2
  <2> QED BY <1>0, <2>1 DEF Typed
<1> HIDE DEF m, C, P, R
<1>4. \A k \in Used(C) : k \in Used(ctx) /\ k # i /\ C[k] = ctx[k] /\ ctx[k] # m /\ ctx[k] \in Rank
  <2>1. \A k \in Used(C) : k \in Used(ctx) /\ k # i /\ C[k] = ctx[k]
    BY <1>1 DEF Used
  <2>2. \A k \in Used(ctx) : k # i => ctx[k] # m
    BY DEF OneIdent, m
  <2>3. \A k \in Used(ctx) : ctx[k] \in Rank
    BY KnownRank
  <2> QED BY <2>1, <2>2, <2>3
<1>5. OneIdent(C, n, R)
  <2>1. \A k \in Ident : C[k] <= n
    BY <1>1, <1>2 DEF OneIdent
  <2>2. \A k, l \in Used(C) : C[k] = C[l] => k = l
    BY <1>4 DEF OneIdent
  <2>3. ASSUME NEW k \in 1..n
        PROVE  R[k] = "no" <=> \E l \in Ident : C[l] = k
    <3>1. k \in Rank /\ k # 0
      BY <1>2
    <3>2. CASE k = m
      <4>1. \A l \in Ident : C[l] # m
        <5>1. \A l \in Ident : C[l] = 0 \/ l \in Used(C)
          BY DEF Used
        <5> QED BY <1>0, <1>4, <5>1
      <4>2. R[k] # "no"
        BY <1>0, <1>1, <3>2
      <4> QED BY <3>2, <4>1, <4>2
    <3>3. CASE k # m
      <4>1. R[k] = rep[k]
        BY <1>1, <3>1, <3>3
      <4>2. \A l \in Ident : C[l] = k <=> ctx[l] = k
        BY <1>1, <3>1, <3>3 DEF m
      <4>3. rep[k] = "no" <=> \E l \in Ident : ctx[l] = k
        BY Zenon DEF OneIdent
      <4> QED BY <4>1, <4>2, <4>3, Zenon
    <3> QED BY <3>2, <3>3
  <2> QED BY <2>1, <2>2, <2>3 DEF OneIdent
<1>6. OnePid(C, P, n)
  <2>1. \A k \in Used(C) : P[C[k]].st \notin {"none", "gone"}
    BY <1>1, <1>4 DEF OnePid
  <2>2. \A k \in Rank : k <= n => P[k].st # "none" /\ P[k].pid \in Pid
    BY <1>1 DEF OnePid, m
  <2>3. HoldsPid(procs, m)
    BY DEF OnePid, HoldsPid, m
  <2>4. \A k \in Rank : P[k].pid = procs[k].pid /\ (HoldsPid(P, k) => HoldsPid(procs, k))
    BY <1>1, <2>3 DEF HoldsPid, m
  <2>5. \A k, l \in 1..n : HoldsPid(P, k) /\ HoldsPid(P, l) /\ P[k].pid = P[l].pid => k = l
    BY <1>2, <2>4 DEF OnePid
  <2> QED BY <2>1, <2>2, <2>5 DEF OnePid
<1>7. NotYet(P, n, R, del)
  <2>1. \A k \in Rank : k > n => k # m
    BY <1>0, <1>2
  <2>2. \A k \in Rank : k > n => P[k] = procs[k] /\ R[k] = rep[k]
    BY <1>1, <2>1
  <2> QED BY <2>2 DEF NotYet
<1>8. Backlog(C, P, del)
  <2>1. \A k \in Rank : EndLast(P[k])
    BY <1>1 DEF Backlog
  <2>2. \A k \in Used(C) : P[C[k]] = procs[ctx[k]]
    BY <1>1, <1>4
  <2> QED BY <1>4, <2>1, <2>2 DEF Backlog
<1>9. OkIsGone(P, R)
  BY <1>0, <1>1 DEF OkIsGone
<1> QED BY <1>3, <1>5, <1>6, <1>7, <1>8, <1>9 DEF m, C, P, R

\* The launch of a clone for the free ident j.
LEMMA LaunchSound ==
  ASSUME NEW ctx, NEW procs, NEW n, NEW rep, NEW del,
         Typed(ctx, procs, n, rep, del), Sound(ctx, procs, n, rep, del),
         n < MaxLaunch, NEW j \in Ident, ctx[j] = 0, NEW p \in FreePids(procs)
  PROVE  LET new == [NotLaunched EXCEPT !.st = "running", !.pid = p]
         IN  /\ Typed([ctx EXCEPT ![j] = n + 1], [procs EXCEPT ![n + 1] = new], n + 1, rep, del)
             /\ Sound([ctx EXCEPT ![j] = n + 1], [procs EXCEPT ![n + 1] = new], n + 1, rep, del)
<1> DEFINE new == [NotLaunched EXCEPT !.st = "running", !.pid = p]
           C == [ctx EXCEPT ![j] = n + 1]
           P == [procs EXCEPT ![n + 1] = new]
<1> USE DEF Sound
<1>1. /\ n \in Nat /\ MaxLaunch \in Nat /\ n + 1 \in 0..MaxLaunch /\ n + 1 \in Rank
      /\ \A k \in 1..(n + 1) : k \in Rank /\ (k = n + 1 \/ k \in 1..n)
      /\ \A k \in 1..n : k # n + 1
  BY PidCloneAssumption DEF Typed, Rank
<1>2. /\ new \in Child /\ new.st = "running" /\ new.pid = p /\ new.outbox = <<>>
      /\ new.sent = 0 /\ p \in Pid
  <2>1. p \in Pid
    BY DEF FreePids
  <2>2. NotLaunched \in Child
    BY NotLaunchedTyped
  <2>3. new \in Child
    BY <2>1, <2>2 DEF Child, Stage
  <2> QED BY <2>1, <2>3 DEF NotLaunched
<1>3. /\ \A k \in Ident : C[k] = IF k = j THEN n + 1 ELSE ctx[k]
      /\ \A k \in Rank : P[k] = IF k = n + 1 THEN new ELSE procs[k]
  BY DEF Typed
<1>4. Typed(C, P, n + 1, rep, del)
  BY <1>1, <1>2 DEF Typed
<1>5. procs[n + 1] = NotLaunched /\ rep[n + 1] = "no" /\ del[n + 1] = 0
  BY <1>1 DEF NotYet
<1> HIDE DEF new, C, P
<1>6. \A k \in Used(ctx) : k # j /\ k \in Ident /\ C[k] = ctx[k] /\ ctx[k] \in 1..n /\ ctx[k] \in Rank
  <2>1. \A k \in Used(ctx) : k \in Ident /\ ctx[k] # 0
    BY DEF Used
  <2>2. \A k \in Used(ctx) : ctx[k] \in 1..n /\ ctx[k] \in Rank
    BY KnownRank
  <2> QED BY <1>3, <2>1, <2>2
<1>7. C[j] = n + 1 /\ \A k \in Used(C) : k = j \/ k \in Used(ctx)
  BY <1>3 DEF Used
<1>8. OneIdent(C, n + 1, rep)
  <2>1. \A k \in Ident : C[k] <= n + 1
    BY <1>1, <1>3 DEF OneIdent, Typed
  <2>2. ASSUME NEW k \in Used(C), NEW l \in Used(C), C[k] = C[l]
        PROVE  k = l
    <3>1. CASE k \in Used(ctx) /\ l \in Used(ctx)
      BY <1>6, <2>2, <3>1 DEF OneIdent
    <3>2. CASE k = j /\ l \in Used(ctx)
      BY <1>1, <1>6, <1>7, <2>2, <3>2
    <3>3. CASE k \in Used(ctx) /\ l = j
      BY <1>1, <1>6, <1>7, <2>2, <3>3
    <3> QED BY <1>7, <3>1, <3>2, <3>3
  <2>3. ASSUME NEW k \in 1..(n + 1)
        PROVE  rep[k] = "no" <=> \E l \in Ident : C[l] = k
    <3>1. CASE k = n + 1
      BY <1>5, <1>7, <3>1
    <3>2. CASE k \in 1..n
      <4>1. k # n + 1 /\ k # 0
        BY <1>1, <3>2
      <4>2. \A l \in Ident : C[l] = k <=> ctx[l] = k
        BY <1>3, <4>1
      <4>3. rep[k] = "no" <=> \E l \in Ident : ctx[l] = k
        BY <3>2, Zenon DEF OneIdent
      <4> QED BY <4>2, <4>3, Zenon
    <3> QED BY <1>1, <3>1, <3>2
  <2> QED BY <2>1, <2>2, <2>3 DEF OneIdent
<1>9. OnePid(C, P, n + 1)
  <2>1. \A k \in Used(ctx) : C[k] # n + 1 /\ P[C[k]] = procs[ctx[k]]
    BY <1>1, <1>3, <1>6
  <2>2. ASSUME NEW k \in Used(C)
        PROVE  P[C[k]].st \notin {"none", "gone"}
    <3>1. CASE k = j
      BY <1>1, <1>2, <1>3, <1>7, <3>1
    <3>2. CASE k \in Used(ctx)
      BY <2>1, <3>2 DEF OnePid
    <3> QED BY <1>7, <3>1, <3>2
  <2>3. ASSUME NEW k \in Rank, k <= n + 1
        PROVE  P[k].st # "none" /\ P[k].pid \in Pid
    <3>1. CASE k = n + 1
      BY <1>2, <1>3, <3>1
    <3>2. CASE k # n + 1
      <4>1. k <= n
        BY <1>1, <2>3, <3>2 DEF Rank
      <4> QED BY <1>3, <3>2, <4>1 DEF OnePid
    <3> QED BY <3>1, <3>2
  <2>4. \A k \in 1..n : P[k] = procs[k] /\ (HoldsPid(procs, k) => procs[k].pid # p)
    BY <1>1, <1>3 DEF FreePids, HoldsPid
  <2>5. P[n + 1].pid = p
    BY <1>1, <1>2, <1>3
  <2>6. ASSUME NEW k \in 1..(n + 1), NEW l \in 1..(n + 1),
               HoldsPid(P, k), HoldsPid(P, l), P[k].pid = P[l].pid
        PROVE  k = l
    <3>1. CASE k \in 1..n /\ l \in 1..n
      BY <2>4, <2>6, <3>1 DEF OnePid, HoldsPid
    <3>2. CASE k = n + 1 /\ l \in 1..n
      BY <2>4, <2>5, <2>6, <3>2 DEF HoldsPid
    <3>3. CASE k \in 1..n /\ l = n + 1
      BY <2>4, <2>5, <2>6, <3>3 DEF HoldsPid
    <3> QED BY <1>1, <3>1, <3>2, <3>3
  <2> QED BY <2>2, <2>3, <2>6 DEF OnePid
<1>10. NotYet(P, n + 1, rep, del)
  <2>1. \A k \in Rank : k > n + 1 => k > n /\ k # n + 1
    BY <1>1 DEF Rank
  <2> QED BY <1>3, <2>1 DEF NotYet
<1>11. Backlog(C, P, del)
  <2>1. EndLast(new)
    BY <1>2 DEF EndLast
  <2>2. \A k \in Rank : EndLast(P[k])
    BY <1>3, <2>1 DEF Backlog
  <2>3. Pending(new.outbox) = 0
    BY <1>2 DEF Pending
  <2>4. ASSUME NEW k \in Used(C)
        PROVE  /\ del[C[k]] + Pending(P[C[k]].outbox) = P[C[k]].sent
               /\ P[C[k]].st = "zombie" /\ P[C[k]].status = "ok" => P[C[k]].outbox = <<>>
    <3>1. CASE k = j
      BY <1>1, <1>2, <1>3, <1>5, <1>7, <2>3, <3>1
    <3>2. CASE k \in Used(ctx)
      <4>1. C[k] = ctx[k] /\ P[C[k]] = procs[ctx[k]]
        BY <1>1, <1>3, <1>6, <3>2
      <4> QED BY <3>2, <4>1 DEF Backlog
    <3> QED BY <1>7, <3>1, <3>2
  <2> QED BY <2>2, <2>4 DEF Backlog
<1>12. OkIsGone(P, rep)
  BY <1>3, <1>5 DEF OkIsGone
<1> QED BY <1>4, <1>8, <1>9, <1>10, <1>11, <1>12 DEF new, C, P

-----------------------------------------------------------------------------
(* The table.                                                                *)

Counted(ctx, max, nb) ==
  /\ ctx \in [Ident -> 0..MaxLaunch]
  /\ max \in 0..(MaxIdent - 1)
  /\ Used(ctx) \subseteq 1..max
  /\ nb = Cardinality(Used(ctx))

\* nb_running_pids fits in the table.
LEMMA UsedFinite ==
  ASSUME NEW ctx
  PROVE  IsFiniteSet(Used(ctx)) /\ Cardinality(Used(ctx)) \in 0..(MaxIdent - 1)
<1>1. IsFiniteSet(Ident) /\ Cardinality(Ident) = MaxIdent - 1
  BY PidCloneAssumption, FS_Interval DEF Ident
<1>2. Used(ctx) \in SUBSET Ident
  BY DEF Used
<1>3. IsFiniteSet(Used(ctx)) /\ Cardinality(Used(ctx)) <= MaxIdent - 1
  BY <1>1, <1>2, FS_Subset
<1> QED BY <1>3, FS_CardinalityType, PidCloneAssumption

LEMMA CountedLaunch ==
  ASSUME NEW ctx, NEW max, NEW nb, Counted(ctx, max, nb),
         NEW j \in Ident, ctx[j] = 0, NEW r \in Rank
  PROVE  Counted([ctx EXCEPT ![j] = r], MaxGrown(max, j), nb + 1)
<1> DEFINE C == [ctx EXCEPT ![j] = r]
<1>1. r \in 0..MaxLaunch /\ r # 0 /\ MaxIdent \in Nat
  BY PidCloneAssumption DEF Rank
<1>2. C \in [Ident -> 0..MaxLaunch] /\ \A k \in Ident : C[k] = IF k = j THEN r ELSE ctx[k]
  BY <1>1 DEF Counted
<1> HIDE DEF C
<1>3. Used(C) = Used(ctx) \cup {j} /\ j \notin Used(ctx)
  BY <1>1, <1>2 DEF Used
<1>4. Cardinality(Used(C)) = nb + 1
  BY <1>3, UsedFinite, FS_AddElement DEF Counted
<1>5. MaxGrown(max, j) \in 0..(MaxIdent - 1) /\ j <= MaxGrown(max, j) /\ max <= MaxGrown(max, j)
  BY <1>1 DEF MaxGrown, Counted, Ident
<1>6. Used(C) \subseteq 1..MaxGrown(max, j)
  <2>1. \A k \in Used(ctx) : k \in 1..max
    BY DEF Counted
  <2>2. max \in Int /\ j \in Int /\ j >= 1
    BY <1>1 DEF Counted, Ident
  <2> QED BY <1>1, <1>3, <1>5, <2>1, <2>2
<1> QED BY <1>2, <1>4, <1>5, <1>6 DEF Counted, C

LEMMA CountedLeave ==
  ASSUME NEW ctx, NEW max, NEW nb, Counted(ctx, max, nb), NEW i \in Used(ctx)
  PROVE  LET C == [ctx EXCEPT ![i] = 0] IN Counted(C, MaxLeft(max, C, i), nb - 1)
<1> DEFINE C == [ctx EXCEPT ![i] = 0]
           M == MaxLeft(max, C, i)
<1>1. 0 \in 0..MaxLaunch /\ i \in Ident /\ MaxIdent \in Nat
  BY PidCloneAssumption DEF Used
<1>2. C \in [Ident -> 0..MaxLaunch] /\ \A k \in Ident : C[k] = IF k = i THEN 0 ELSE ctx[k]
  BY <1>1 DEF Counted
<1> HIDE DEF C
<1>3. Used(C) = Used(ctx) \ {i} /\ Used(C) \subseteq Ident
  BY <1>2 DEF Used
<1>4. Cardinality(Used(C)) = nb - 1
  BY <1>3, UsedFinite, FS_RemoveElement DEF Counted
<1>5. M \in 0..(MaxIdent - 1) /\ Used(C) \subseteq 1..M
  <2>1. CASE i = max /\ Used(C) # {}
    <3>1. M = Highest(Used(C))
      BY <2>1 DEF MaxLeft
    <3>2. M \in Ident /\ \A k \in Used(C) : M >= k
      BY <1>3, <2>1, <3>1, HighestIn
    <3> HIDE DEF M
    <3>3. M \in 0..(MaxIdent - 1) /\ \A k \in Ident : k <= M => k \in 1..M
      BY <1>1, <3>2 DEF Ident
    <3>4. \A k \in Used(C) : k \in Ident /\ k <= M
      BY <1>1, <1>3, <3>2 DEF Ident
    <3> QED BY <3>3, <3>4
  <2>2. CASE ~(i = max /\ Used(C) # {})
    <3>1. M = max
      BY <2>2 DEF MaxLeft
    <3> QED BY <1>3, <3>1 DEF Counted
  <2> QED BY <2>1, <2>2
<1> QED BY <1>2, <1>4, <1>5 DEF Counted, C

\* pid_find_ident finds the ident of a clone that counts as long as it is not reported.
LEMMA FindIdentKnown ==
  ASSUME IInv, ~kout, NEW n \in Rank, n <= launched, HoldsPid(child, n),
         NEW i, i = FindIdent(child[n].pid)
  PROVE  /\ i # 0 => i \in Used(clone_ctx) /\ clone_ctx[i] = n
         /\ i = 0 => \A k \in Used(clone_ctx) : clone_ctx[k] # n
         /\ i # 0 <=> reported[n] = "no"
<1> DEFINE I == {k \in 1..current_max_pid : clone_ctx[k] # 0 /\ child[clone_ctx[k]].pid = child[n].pid}
<1>1. Typed(clone_ctx, child, launched, reported, delivered)
  BY DEF IInv, TypeOK, Typed
<1>2. /\ OneIdent(clone_ctx, launched, reported) /\ OnePid(clone_ctx, child, launched)
      /\ Used(clone_ctx) \subseteq 1..current_max_pid
      /\ current_max_pid \in 0..(MaxIdent - 1)
      /\ launched \in Nat /\ n \in 1..launched
  BY PidCloneAssumption DEF IInv, Sound, TableCounted, TypeOK, Rank
<1>3. \A k \in 1..current_max_pid : k \in Ident /\ k \in Nat
  BY <1>2, PidCloneAssumption DEF Ident
<1>4. \A k \in Used(clone_ctx) :
        clone_ctx[k] \in 1..launched /\ (child[clone_ctx[k]].pid = child[n].pid <=> clone_ctx[k] = n)
  <2>1. \A k \in Used(clone_ctx) : clone_ctx[k] \in 1..launched
    BY <1>1, <1>2, KnownRank
  <2>2. \A k \in Used(clone_ctx) : HoldsPid(child, clone_ctx[k])
    BY <1>2 DEF OnePid, HoldsPid
  <2> QED BY <1>2, <2>1, <2>2 DEF OnePid
<1>5. I = {k \in Used(clone_ctx) : clone_ctx[k] = n}
  BY <1>2, <1>3, <1>4 DEF Used
<1>6. i = IF I = {} THEN 0 ELSE Lowest(I)
  BY DEF FindIdent
<1>7. I \in SUBSET Nat
  BY <1>3
<1>8. I # {} => Lowest(I) \in I
  BY <1>7, LowestIn
<1>9. I # {} <=> reported[n] = "no"
  <2>1. reported[n] = "no" <=> \E k \in Ident : clone_ctx[k] = n
    BY <1>2, Zenon DEF OneIdent
  <2>2. n # 0
    BY <1>2
  <2>3. (\E k \in Ident : clone_ctx[k] = n) <=> I # {}
    BY <1>5, <2>2 DEF Used
  <2> QED BY <2>1, <2>3
<1> HIDE DEF I
<1>10. I # {} => i # 0 /\ i \in Used(clone_ctx) /\ clone_ctx[i] = n
  <2>1. \A k \in Used(clone_ctx) : k # 0
    BY PidCloneAssumption DEF Used, Ident
  <2> QED BY <1>5, <1>6, <1>8, <2>1
<1>11. I = {} => i = 0 /\ \A k \in Used(clone_ctx) : clone_ctx[k] # n
  BY <1>5, <1>6
<1> QED BY <1>9, <1>10, <1>11

-----------------------------------------------------------------------------
(* The inductive invariant.                                                  *)

\* The state of the server after a callback that did not leave by KOUT.
Kept ==
  /\ Typed(clone_ctx', child', launched', reported', delivered')
  /\ Sound(clone_ctx', child', launched', reported', delivered')
  /\ Counted(clone_ctx', current_max_pid', nb_running_pids')

\* What a callback makes of the invariant.
After ==
  /\ clone_ctx' \in [Ident -> 0..MaxLaunch]
  /\ child' \in [Rank -> Child]
  /\ launched' \in 0..MaxLaunch
  /\ reported' \in [Rank -> {"no", "ok", "ko"}]
  /\ Counted(clone_ctx', current_max_pid', nb_running_pids')
  /\ kout' \in BOOLEAN
  /\ \A m \in Rank : child'[m].sent = child[m].sent \/ m > launched
  /\ ~kout' => Sound(clone_ctx', child', launched', reported', delivered')

LEMMA Parts ==
  ASSUME IInv
  PROVE  /\ Typed(clone_ctx, child, launched, reported, delivered)
         /\ Counted(clone_ctx, current_max_pid, nb_running_pids)
         /\ launched \in Nat /\ MaxLaunch \in Nat
         /\ ~kout => Sound(clone_ctx, child, launched, reported, delivered)
BY PidCloneAssumption DEF IInv, TypeOK, TableCounted, Typed, Counted

LEMMA InitInv == Init => IInv
<1> SUFFICES ASSUME Init PROVE IInv
  OBVIOUS
<1>1. /\ 0 \in 0..MaxLaunch /\ 0 \in 0..(MaxIdent - 1) /\ 0 \in 0..MaxMsg /\ 0 \in 0..(MaxJobs - 1)
      /\ 0 \in 0..MaxStop
  BY PidCloneAssumption
<1>2. TypeOK
  BY <1>1, NotLaunchedTyped DEF Init, TypeOK
<1>3. Used(clone_ctx) = {}
  BY DEF Init, Used
<1>4. TableCounted
  <2>1. Cardinality({}) = 0
    BY FS_EmptySet
  <2> QED BY <1>3, <2>1 DEF TableCounted, Init
<1>5. MessagesBeforeReport
  BY NotLaunchedTyped DEF Init, MessagesBeforeReport
<1>6. Sound(clone_ctx, child, launched, reported, delivered)
  <2>1. OneIdent(clone_ctx, launched, reported)
    BY <1>3, PidCloneAssumption DEF OneIdent, Init
  <2>2. \A m \in Rank : ~(m <= launched)
    BY DEF Init, Rank
  <2>3. OnePid(clone_ctx, child, launched)
    BY <1>3, <2>2 DEF OnePid, Init
  <2>4. NotYet(child, launched, reported, delivered)
    BY DEF NotYet, Init
  <2>5. EndLast(NotLaunched)
    BY NotLaunchedTyped DEF EndLast
  <2>6. Backlog(clone_ctx, child, delivered)
    BY <1>3, <2>5 DEF Backlog, Init
  <2>7. OkIsGone(child, reported)
    BY DEF OkIsGone, Init
  <2> QED BY <2>1, <2>3, <2>4, <2>6, <2>7 DEF Sound
<1> QED BY <1>2, <1>4, <1>5, <1>6 DEF IInv

\* The least free ident is free.
LEMMA FreeIdent ==
  ASSUME FreeIdents # {}
  PROVE  Lowest(FreeIdents) \in Ident /\ clone_ctx[Lowest(FreeIdents)] = 0
<1>1. FreeIdents \in SUBSET Nat
  BY PidCloneAssumption DEF FreeIdents, Ident
<1>2. Lowest(FreeIdents) \in FreeIdents
  BY <1>1, LowestIn
<1> QED BY <1>2 DEF FreeIdents

LEMMA LaunchAfter ==
  ASSUME IInv, PidCloneLaunch
  PROVE  After
<1> USE Parts
<1>1. CASE FreeIdents = {}
  <2>1. UNCHANGED <<table, child>> /\ kout' = TRUE
    BY <1>1 DEF PidCloneLaunch
  <2> QED BY <2>1 DEF After, table, Typed
<1>2. CASE FreeIdents # {}
  <2> DEFINE j == Lowest(FreeIdents)
  <2>1. /\ ~kout /\ ~kout' /\ kout' \in BOOLEAN /\ CanLaunch
        /\ clone_ctx' = [clone_ctx EXCEPT ![j] = launched + 1]
        /\ current_max_pid' = MaxGrown(current_max_pid, j)
        /\ nb_running_pids' = nb_running_pids + 1
        /\ launched' = launched + 1
        /\ UNCHANGED <<reported, delivered>>
    BY <1>2 DEF PidCloneLaunch, IInv, TypeOK
  <2>2. PICK p \in FreePids(child) : child' = Launched(child, p)
    BY <1>2 DEF PidCloneLaunch
  <2>3. j \in Ident /\ clone_ctx[j] = 0
    BY <1>2, FreeIdent
  <2> HIDE DEF j
  <2>4. launched < MaxLaunch /\ launched + 1 \in Rank
    BY <2>1 DEF CanLaunch, Rank
  <2>5. /\ Typed(clone_ctx', child', launched', reported', delivered')
        /\ Sound(clone_ctx', child', launched', reported', delivered')
    BY <2>1, <2>2, <2>3, <2>4, LaunchSound DEF Launched
  <2>6. Counted(clone_ctx', current_max_pid', nb_running_pids')
    BY <2>1, <2>3, <2>4, CountedLaunch
  <2>7. \A m \in Rank : child'[m] = child[m] \/ m > launched
    <3>1. \A m \in Rank : m # launched + 1 => child'[m] = child[m]
      BY <2>2 DEF Launched, Typed
    <3> QED BY <2>4, <3>1
  <2> QED BY <2>1, <2>5, <2>6, <2>7 DEF After, Typed
<1> QED BY <1>1, <1>2

\* What waitid returns counts, and has been launched.
LEMMA WaitableCounts ==
  ASSUME IInv, ~kout, NEW n \in Rank, Waitable(n)
  PROVE  n <= launched /\ HoldsPid(child, n) /\ child[n].st \notin {"none", "gone"}
<1>1. NotYet(child, launched, reported, delivered)
  BY DEF IInv, Sound
<1>2. child[n].st \notin {"none", "gone"}
  BY DEF Waitable, Exists
<1>3. n > launched => child[n] = NotLaunched
  BY <1>1 DEF NotYet
<1>4. n \in Int /\ launched \in Int
  BY PidCloneAssumption DEF Rank, IInv, TypeOK
<1> QED BY <1>2, <1>3, <1>4, NotLaunchedTyped DEF HoldsPid

\* What the wait makes of the process.
WaitedProc(n) ==
  IF child[n].st = "zombie" THEN [child[n] EXCEPT !.st = "gone"]
  ELSE [child[n] EXCEPT !.event = FALSE]

LEMMA WaitKeeps ==
  ASSUME IInv, ~kout, NEW n \in Rank, Waitable(n), NEW q, q = WaitedProc(n)
  PROVE  /\ Waited(n) = [child EXCEPT ![n] = q]
         /\ q \in Child /\ q.pid = child[n].pid /\ q.st # "none" /\ EndLast(q)
         /\ q.outbox = child[n].outbox /\ q.sent = child[n].sent
         /\ q.st = IF child[n].st = "zombie" THEN "gone" ELSE child[n].st
         /\ child[n].st = "zombie" => q.status = child[n].status
         /\ WaitStatus(n) \in {"ok", "ko"}
         /\ WaitStatus(n) = "ok" => q.st = "gone" /\ child[n].st = "zombie" /\ child[n].status = "ok"
<1>1. child \in [Rank -> Child] /\ child[n] \in Child
  BY DEF IInv, TypeOK
<1>2. EndLast(child[n])
  BY DEF IInv, Sound, Backlog
<1>3. child[n].st \notin {"none", "gone"}
  BY WaitableCounts
<1>4. Waited(n) = [child EXCEPT ![n] = q]
  BY <1>1, Zenon DEF Waited, WaitedProc
<1>5. CASE child[n].st = "zombie"
  <2>1. q = [child[n] EXCEPT !.st = "gone"]
    BY <1>5 DEF WaitedProc
  <2>2. q \in Child /\ q.pid = child[n].pid /\ q.st = "gone" /\ q.outbox = child[n].outbox
        /\ q.sent = child[n].sent /\ q.status = child[n].status /\ q.result = child[n].result
    BY <1>1, <2>1 DEF Child, Stage
  <2>3. WaitStatus(n) = child[n].status /\ child[n].status \in {"ok", "ko"}
    BY <1>1, <1>5 DEF WaitStatus, Child
  <2>4. EndLast(q)
    BY <1>2, <2>2 DEF EndLast
  <2> QED BY <1>4, <1>5, <2>2, <2>3, <2>4
<1>6. CASE child[n].st # "zombie"
  <2>1. q = [child[n] EXCEPT !.event = FALSE]
    BY <1>6 DEF WaitedProc
  <2>2. q \in Child /\ q.pid = child[n].pid /\ q.st = child[n].st /\ q.outbox = child[n].outbox
        /\ q.sent = child[n].sent /\ q.status = child[n].status /\ q.result = child[n].result
    BY <1>1, <2>1 DEF Child
  <2>3. WaitStatus(n) = "ko"
    BY <1>6 DEF WaitStatus
  <2>4. EndLast(q)
    BY <1>2, <2>2 DEF EndLast
  <2> QED BY <1>3, <1>4, <1>6, <2>2, <2>3, <2>4
<1> QED BY <1>5, <1>6

\* A death that is reported.
LEMMA DeadAfter ==
  ASSUME IInv, ~kout, UNCHANGED delivered, NEW n \in Rank, Waitable(n),
         NEW i, i = FindIdent(child[n].pid), i # 0,
         DeadClone(i, Waited(n), WaitStatus(n))
  PROVE  After /\ reported' = [reported EXCEPT ![n] = WaitStatus(n)]
<1> USE Parts
<1> DEFINE q == WaitedProc(n)
           s == WaitStatus(n)
<1>1. /\ Waited(n) = [child EXCEPT ![n] = q] /\ q \in Child /\ q.pid = child[n].pid
      /\ q.st # "none" /\ EndLast(q) /\ q.sent = child[n].sent
      /\ s \in {"ok", "ko"} /\ (s = "ok" => q.st = "gone")
  BY WaitKeeps
<1>2. n <= launched /\ HoldsPid(child, n)
  BY WaitableCounts
<1>3. i \in Used(clone_ctx) /\ clone_ctx[i] = n
  BY <1>2, FindIdentKnown
<1>4. i \in Ident /\ clone_ctx[i] # 0
  BY <1>3 DEF Used
<1> HIDE DEF q, s
<1> DEFINE C == [clone_ctx EXCEPT ![i] = 0]
           P == [child EXCEPT ![n] = q]
           R == [reported EXCEPT ![n] = s]
<1>5. Typed(C, P, launched, R, delivered) /\ Sound(C, P, launched, R, delivered)
  BY <1>1, <1>3, ReportSound, ZenonT(40)
<1>6. reported' = R
  BY <1>3 DEF DeadClone, s
<1>7. \A m \in Rank : P[m].sent = child[m].sent
  BY <1>1 DEF Typed
<1>8. R \in [Rank -> {"no", "ok", "ko"}]
  BY <1>5 DEF Typed
<1>9. kout \in BOOLEAN
  BY Zenon DEF IInv, TypeOK
<1>10. ASSUME /\ clone_ctx' = C
             /\ current_max_pid' = MaxLeft(current_max_pid, clone_ctx', i)
             /\ nb_running_pids' = nb_running_pids - 1
             /\ child' = P
             /\ UNCHANGED <<launched, kout>>
      PROVE  After
  <2> HIDE DEF P, R
  <2>1. Counted(clone_ctx', current_max_pid', nb_running_pids')
    BY <1>3, <1>10, CountedLeave
  <2> HIDE DEF C
  <2>2. Sound(clone_ctx', child', launched', reported', delivered')
    BY <1>5, <1>6, <1>10
  <2>3. kout' \in BOOLEAN
    BY <1>10, <1>9, Zenon
  <2> QED BY <1>5, <1>6, <1>7, <1>8, <1>10, <2>1, <2>2, <2>3 DEF After, Typed
<1>11. ASSUME /\ CanLaunch /\ FreeIdents = {}
              /\ kout' = TRUE
              /\ child' = P
              /\ UNCHANGED <<clone_ctx, current_max_pid, nb_running_pids, launched>>
       PROVE  After
  <2> HIDE DEF P, R
  <2>1. Counted(clone_ctx', current_max_pid', nb_running_pids')
    BY <1>11
  <2>2. kout' /\ kout' \in BOOLEAN
    BY <1>11
  <2>3. P \in [Rank -> Child]
    BY <1>5 DEF Typed
  <2> QED BY <1>6, <1>7, <1>8, <1>11, <2>1, <2>2, <2>3 DEF After, Typed
<1>12. ASSUME /\ CanLaunch /\ FreeIdents # {}
              /\ LET j == Lowest(FreeIdents)
                     max == MaxGrown(current_max_pid, j)
                 IN  /\ clone_ctx' = [clone_ctx EXCEPT ![j] = launched + 1, ![i] = 0]
                     /\ current_max_pid' = MaxLeft(max, clone_ctx', i)
              /\ \E p \in FreePids(P) : child' = Launched(P, p)
              /\ launched' = launched + 1
              /\ UNCHANGED <<nb_running_pids, kout>>
       PROVE  After
  <2> DEFINE j == Lowest(FreeIdents)
             L == [clone_ctx EXCEPT ![j] = launched + 1]
             max == MaxGrown(current_max_pid, j)
  <2>1. j \in Ident /\ clone_ctx[j] = 0 /\ j # i
    BY <1>4, <1>12, FreeIdent
  <2>2. launched < MaxLaunch /\ launched + 1 \in Rank /\ launched + 1 # 0
    BY <1>12 DEF CanLaunch, Rank
  <2>3. /\ clone_ctx' = [L EXCEPT ![i] = 0]
        /\ current_max_pid' = MaxLeft(max, clone_ctx', i)
        /\ UNCHANGED <<nb_running_pids, kout>> /\ launched' = launched + 1
    BY <1>12
  <2> HIDE DEF j, P, R
  <2> DEFINE nb == nb_running_pids + 1
  <2>4. Counted(L, max, nb)
    BY <2>1, <2>2, CountedLaunch
  <2>5. L \in [Ident -> 0..MaxLaunch] /\ \A k \in Ident : L[k] = IF k = j THEN launched + 1 ELSE clone_ctx[k]
    BY <2>1, <2>2, <2>4 DEF Counted, Typed
  <2>6. i \in Used(L)
    BY <1>4, <2>1, <2>5 DEF Used
  <2> DEFINE N == [L EXCEPT ![i] = 0]
  <2>7. N = [C EXCEPT ![j] = launched + 1] /\ C[j] = 0
    BY <1>4, <2>1 DEF Typed
  <2> HIDE DEF L, max, nb
  <2>8. Counted(N, MaxLeft(max, N, i), nb - 1)
    BY <2>4, <2>6, CountedLeave
  <2>9. nb_running_pids \in Nat
    BY UsedFinite DEF Counted
  <2>10. Counted(clone_ctx', current_max_pid', nb_running_pids')
    <3>1. nb - 1 = nb_running_pids
      BY <2>9 DEF nb
    <3> QED BY <2>3, <2>8, <3>1 DEF N
  <2> HIDE DEF N, C
  <2>11. PICK p \in FreePids(P) : child' = [P EXCEPT ![launched + 1] = [NotLaunched EXCEPT !.st = "running", !.pid = p]]
    BY <1>12 DEF Launched
  <2>12. Typed(clone_ctx', child', launched', reported', delivered')
         /\ Sound(clone_ctx', child', launched', reported', delivered')
    <3>1. clone_ctx' = [C EXCEPT ![j] = launched + 1]
      BY <2>3, <2>7 DEF N
    <3> DEFINE new == [NotLaunched EXCEPT !.st = "running", !.pid = p]
               Q == [P EXCEPT ![launched + 1] = new]
               D == [C EXCEPT ![j] = launched + 1]
    <3>2. Typed(D, Q, launched + 1, R, delivered) /\ Sound(D, Q, launched + 1, R, delivered)
      BY <1>5, <2>1, <2>2, <2>7, LaunchSound
    <3>3. clone_ctx' = D /\ child' = Q /\ launched' = launched + 1 /\ reported' = R
      BY <1>6, <2>3, <2>11, <3>1
    <3> HIDE DEF D, Q
    <3> QED BY <3>2, <3>3
  <2>13. \A m \in Rank : child'[m].sent = child[m].sent \/ m > launched
    <3>1. \A m \in Rank : m # launched + 1 => child'[m] = P[m]
      BY <1>5, <2>11 DEF Typed
    <3> QED BY <1>7, <2>2, <3>1
  <2>14. kout' \in BOOLEAN
    BY <1>9, <2>3, Zenon
  <2> QED BY <2>10, <2>12, <2>13, <2>14 DEF After, Typed
<1>13. After
  <2>1. DeadClone(i, P, s)
    BY <1>1 DEF s
  <2> HIDE DEF C, P, R
  <2> QED BY <1>10, <1>11, <1>12, <2>1, Zenon DEF DeadClone, C
<1> QED BY <1>6, <1>13 DEF s

LEMMA UnchangedAfter ==
  ASSUME IInv, UNCHANGED <<table, child, delivered, kout>>
  PROVE  After /\ MessagesBeforeReport'
<1> USE Parts
<1>1. MessagesBeforeReport'
  BY DEF IInv, MessagesBeforeReport, table
<1>2. kout' \in BOOLEAN /\ (~kout' => ~kout)
  BY Zenon DEF IInv, TypeOK
<1>3. After
  BY <1>2 DEF After, table, Typed
<1> QED BY <1>1, <1>3

LEMMA HarvestAfter ==
  ASSUME IInv, ~kout, HarvestDeath, UNCHANGED delivered
  PROVE  After /\ MessagesBeforeReport'
<1> USE Parts
<1>1. CASE \A n \in Rank : ~Waitable(n)
  BY <1>1, UnchangedAfter DEF HarvestDeath
<1>2. ASSUME NEW n \in Rank, Waitable(n), FindIdent(child[n].pid) = 0,
             child' = Waited(n), UNCHANGED <<table, kout>>
      PROVE  After /\ MessagesBeforeReport'
  <2> DEFINE q == WaitedProc(n)
  <2>1. /\ child' = [child EXCEPT ![n] = q] /\ q \in Child /\ q.pid = child[n].pid
        /\ q.st # "none" /\ EndLast(q) /\ q.sent = child[n].sent
        /\ q.st = IF child[n].st = "zombie" THEN "gone" ELSE child[n].st
    BY <1>2, WaitKeeps
  <2>2. n <= launched /\ HoldsPid(child, n) /\ child[n].st \notin {"none", "gone"}
    BY <1>2, WaitableCounts
  <2>3. \A k \in Used(clone_ctx) : clone_ctx[k] # n
    BY <1>2, <2>2, FindIdentKnown
  <2> HIDE DEF q
  <2>4. reported[n] # "ok"
    BY <2>2 DEF IInv, Sound, OkIsGone
  <2>5. Sound(clone_ctx, [child EXCEPT ![n] = q], launched, reported, delivered)
    BY <2>1, <2>2, <2>3, <2>4, ProcSound
  <2>6. \A m \in Rank : child'[m].sent = child[m].sent
    BY <2>1 DEF Typed
  <2>7. kout' \in BOOLEAN
    BY <1>2, Zenon DEF IInv, TypeOK
  <2>8. After
    BY <1>2, <2>1, <2>5, <2>6, <2>7 DEF After, table, Typed
  <2>9. MessagesBeforeReport'
    BY <1>2, <2>6 DEF IInv, MessagesBeforeReport, table
  <2> QED BY <2>8, <2>9
<1>3. ASSUME NEW n \in Rank, Waitable(n), NEW i, i = FindIdent(child[n].pid), i # 0,
             DeadClone(i, Waited(n), WaitStatus(n))
      PROVE  After /\ MessagesBeforeReport'
  <2>1. After /\ reported' = [reported EXCEPT ![n] = WaitStatus(n)]
    BY <1>3, DeadAfter
  <2>2. n <= launched /\ HoldsPid(child, n)
    BY <1>3, WaitableCounts
  <2>3. i \in Used(clone_ctx) /\ clone_ctx[i] = n
    BY <1>3, <2>2, FindIdentKnown
  <2>4. WaitStatus(n) = "ok" => child[n].outbox = <<>>
    <3>1. WaitStatus(n) = "ok" => child[n].st = "zombie" /\ child[n].status = "ok"
      BY <1>3, WaitKeeps
    <3> QED BY <2>3, <3>1 DEF IInv, Sound, Backlog
  <2>5. WaitStatus(n) = "ok" => delivered[n] = child[n].sent
    <3>1. delivered[n] + Pending(child[n].outbox) = child[n].sent /\ delivered[n] \in Nat
      BY <2>3 DEF IInv, Sound, Backlog, Typed
    <3>2. Pending(<<>>) = 0
      BY DEF Pending
    <3> QED BY <2>4, <3>1, <3>2
  <2>6. ASSUME NEW m \in Rank
        PROVE  /\ delivered'[m] <= child'[m].sent
               /\ reported'[m] = "ok" => delivered'[m] = child'[m].sent
    <3>1. /\ delivered[m] <= child[m].sent
          /\ reported[m] = "ok" => delivered[m] = child[m].sent
      BY DEF IInv, MessagesBeforeReport
    <3>2. reported'[m] = "ok" => reported[m] = "ok" \/ delivered[m] = child[m].sent
      BY <2>1, <2>5 DEF Typed
    <3>3. CASE m <= launched
      <4>1. child'[m].sent = child[m].sent
        BY <2>1, <3>3 DEF After, Rank
      <4> QED BY <3>1, <3>2, <4>1
    <3>4. CASE m > launched
      <4>1. delivered[m] = 0 /\ reported[m] = "no" /\ m # n
        BY <2>2, <3>4 DEF IInv, Sound, NotYet, Rank
      <4>2. reported'[m] = "no"
        BY <2>1, <4>1 DEF Typed
      <4>3. child'[m].sent \in Nat
        BY <2>1 DEF After, Child
      <4> QED BY <4>1, <4>2, <4>3
    <3> QED BY <3>3, <3>4 DEF Rank
  <2> QED BY <2>1, <2>6 DEF MessagesBeforeReport
<1>4. CASE ~ (\A n \in Rank : ~Waitable(n))
  <2>1. PICK n \in Rank :
          /\ Waitable(n)
          /\ LET i == FindIdent(child[n].pid)
             IN  IF i = 0 THEN child' = Waited(n) /\ UNCHANGED <<table, kout>>
                 ELSE DeadClone(i, Waited(n), WaitStatus(n))
    BY <1>4 DEF HarvestDeath
  <2>2. CASE FindIdent(child[n].pid) = 0
    BY <1>2, <2>1, <2>2
  <2>3. CASE FindIdent(child[n].pid) # 0
    <3> DEFINE i == FindIdent(child[n].pid)
    <3>1. DeadClone(i, Waited(n), WaitStatus(n))
      BY <2>1, <2>3
    <3> HIDE DEF i
    <3>2. i = FindIdent(child[n].pid) /\ i # 0
      BY <2>3 DEF i
    <3> QED BY <1>3, <2>1, <3>1, <3>2
  <2> QED BY <2>2, <2>3
<1> QED BY <1>1, <1>4

LEMMA AfterInv ==
  ASSUME IInv, After, MessagesBeforeReport', UNCHANGED delivered,
         sigchld' \in BOOLEAN, jobs' \in 0..(MaxJobs - 1), stops' \in 0..MaxStop
  PROVE  IInv'
<1>1. TypeOK'
  <2>1. current_max_pid' \in 0..(MaxIdent - 1) /\ nb_running_pids' \in 0..(MaxIdent - 1)
    BY UsedFinite DEF After, Counted
  <2>2. kout' \in BOOLEAN
    BY Zenon DEF After
  <2>3. sigchld' \in BOOLEAN
    OBVIOUS
  <2> QED BY <2>1, <2>2, <2>3 DEF After, TypeOK, IInv
<1>2. TableCounted'
  BY DEF After, Counted, TableCounted
<1>3. ~kout' => Sound(clone_ctx, child, launched, reported, delivered)'
  BY Zenon DEF After
<1> QED BY <1>1, <1>2, <1>3 DEF IInv

-----------------------------------------------------------------------------
(* The steps of a clone.                                                     *)

\* A step of one process that the server has no part in.
LEMMA ChildInv ==
  ASSUME IInv, ~kout, NEW n \in Rank, child[n].st # "none", NEW q \in Child,
         child' = [child EXCEPT ![n] = q], ServerIdle,
         sigchld' \in BOOLEAN, stops' \in 0..MaxStop,
         q.pid = child[n].pid, q.st # "none", EndLast(q),
         q.st = "gone" <=> child[n].st = "gone",
         child[n].sent <= q.sent, q.sent = child[n].sent \/ child[n].st # "gone",
         HoldsPid(child, n) \/ q.outbox = <<>>,
         \A i \in Used(clone_ctx) : clone_ctx[i] = n =>
           /\ delivered[n] + Pending(q.outbox) = q.sent
           /\ q.st = "zombie" /\ q.status = "ok" => q.outbox = <<>>
  PROVE  IInv'
<1> USE Parts
<1>1. /\ UNCHANGED table /\ UNCHANGED delivered /\ UNCHANGED jobs /\ UNCHANGED kout
  BY DEF ServerIdle
<1>2. \A m \in Rank : child'[m] = IF m = n THEN q ELSE child[m]
  BY DEF Typed
<1>3. n <= launched
  BY NotLaunchedTyped DEF IInv, Sound, NotYet, Rank
<1>4. \A i \in Used(clone_ctx) : clone_ctx[i] = n => child[n].st # "gone"
  BY DEF IInv, Sound, OnePid
<1>5. reported[n] = "ok" => q.st = "gone"
  BY DEF IInv, Sound, OkIsGone
<1>6. \/ q.st = "gone" /\ q.outbox = <<>>
     \/ HoldsPid(child, n)
  BY DEF HoldsPid
<1>7. Sound(clone_ctx, [child EXCEPT ![n] = q], launched, reported, delivered)
  BY <1>3, <1>4, <1>5, <1>6, ProcSound
<1>8. TypeOK'
  <2>1. child' \in [Rank -> Child]
    BY DEF Typed
  <2>2. kout' \in BOOLEAN
    BY <1>1, Zenon DEF IInv, TypeOK
  <2>3. sigchld' \in BOOLEAN
    OBVIOUS
  <2> QED BY <1>1, <2>1, <2>2, <2>3 DEF IInv, TypeOK, table
<1>9. TableCounted'
  BY <1>1 DEF IInv, TableCounted, table, Used
<1>10. MessagesBeforeReport'
  <2>1. ASSUME NEW m \in Rank
        PROVE  /\ delivered[m] <= child'[m].sent
               /\ reported[m] = "ok" => delivered[m] = child'[m].sent
    <3>1. /\ delivered[m] <= child[m].sent
          /\ reported[m] = "ok" => delivered[m] = child[m].sent
      BY DEF IInv, MessagesBeforeReport
    <3>2. CASE m = n
      <4>1. q.sent \in Nat /\ child[n].sent \in Nat /\ delivered[n] \in Nat
        BY DEF Child, Typed
      <4>2. reported[n] = "ok" => q.sent = child[n].sent
        BY <1>5
      <4> QED BY <1>2, <3>1, <3>2, <4>1, <4>2
    <3>3. CASE m # n
      BY <1>2, <3>1, <3>3
    <3> QED BY <3>2, <3>3
  <2> QED BY <1>1, <2>1 DEF MessagesBeforeReport, table
<1>11. Sound(clone_ctx, child, launched, reported, delivered)'
  BY <1>1, <1>7 DEF table
<1> QED BY <1>8, <1>9, <1>10, <1>11 DEF IInv

\* What is known of a process that has not left.
LEMMA ChildKnown ==
  ASSUME IInv, ~kout, NEW n \in Rank
  PROVE  /\ child[n] \in Child /\ EndLast(child[n])
         /\ child[n].outbox \in Seq(Word)
         /\ stops \in 0..MaxStop /\ sigchld \in BOOLEAN
         /\ \A i \in Used(clone_ctx) : clone_ctx[i] = n =>
              /\ delivered[n] + Pending(child[n].outbox) = child[n].sent
              /\ child[n].st = "zombie" /\ child[n].status = "ok" => child[n].outbox = <<>>
         /\ child[n].st \notin {"none", "gone"} => HoldsPid(child, n)
<1>1. child[n] \in Child /\ stops \in 0..MaxStop
  BY DEF IInv, TypeOK
<1>2. sigchld \in BOOLEAN
  BY Zenon DEF IInv, TypeOK
<1>3. child[n].outbox \in Seq(Word)
  BY <1>1 DEF Child, Word
<1> QED BY <1>1, <1>2, <1>3 DEF IInv, Sound, Backlog, HoldsPid

LEMMA ChildMsgInv ==
  ASSUME IInv, NEW n \in Rank, ChildMsg(n)
  PROVE  IInv'
<1> USE ChildKnown
<1> DEFINE q == [child[n] EXCEPT !.outbox = Append(@, "msg"), !.sent = @ + 1]
<1>1. ~kout /\ child[n].st = "running" /\ child[n].sent < MaxMsg
      /\ UNCHANGED <<sigchld, stops>> /\ ServerIdle
  BY DEF ChildMsg, Runs
<1>2. child' = [child EXCEPT ![n] = q]
  BY <1>1, Zenon DEF ChildMsg, IInv, TypeOK
<1>3. /\ Append(child[n].outbox, "msg") \in Seq(Word)
      /\ Last(Append(child[n].outbox, "msg")) = "msg"
      /\ \A k \in 1..(Len(Append(child[n].outbox, "msg")) - 1) : Append(child[n].outbox, "msg")[k] = "msg"
      /\ Pending(Append(child[n].outbox, "msg")) = Pending(child[n].outbox) + 1
  <2>1. /\ \A k \in 1..(Len(child[n].outbox) - 1) : child[n].outbox[k] = "msg"
        /\ child[n].outbox = <<>> \/ Last(child[n].outbox) = "msg"
    BY <1>1 DEF EndLast
  <2>2. "msg" \in Word /\ "msg" # "end"
    BY DEF Word
  <2>3. child[n].outbox \in Seq(Word)
    BY <1>1
  <2> QED BY <2>1, <2>2, <2>3, BoxAppend
<1>4. child[n].sent \in Nat /\ child[n].sent + 1 \in 0..MaxMsg
  BY <1>1, PidCloneAssumption DEF Child
<1>5. /\ q \in Child /\ q.pid = child[n].pid /\ q.st = "running"
      /\ q.sent = child[n].sent + 1 /\ q.outbox = Append(child[n].outbox, "msg")
  <2>1. child[n] \in Child
    BY <1>1
  <2>2. q \in Child
    BY <1>3, <1>4, <2>1 DEF Child, Word
  <2> QED BY <1>1, <2>1, <2>2 DEF Child
<1> HIDE DEF q
<1>6. EndLast(q)
  BY <1>3, <1>5 DEF EndLast
<1>7. \A i \in Used(clone_ctx) : clone_ctx[i] = n => delivered[n] + Pending(q.outbox) = q.sent
  <2>1. \A i \in Used(clone_ctx) : clone_ctx[i] = n =>
          delivered[n] + Pending(child[n].outbox) = child[n].sent
    BY <1>1
  <2>2. delivered[n] \in Nat
    BY Parts DEF Typed
  <2>3. Pending(child[n].outbox) \in Int
    <3>1. Len(child[n].outbox) \in Nat
      BY <1>1, LenProperties
    <3> QED BY <3>1 DEF Pending
  <2> QED BY <1>3, <1>4, <1>5, <2>1, <2>2, <2>3
<1>8. sigchld' \in BOOLEAN /\ stops' \in 0..MaxStop
  BY <1>1, Zenon
<1>9. child[n].sent <= q.sent /\ HoldsPid(child, n)
  BY <1>1, <1>4, <1>5
<1> QED BY <1>1, <1>2, <1>5, <1>6, <1>7, <1>8, <1>9, ChildInv

LEMMA ChildEndInv ==
  ASSUME IInv, NEW n \in Rank, ChildEnd(n)
  PROVE  IInv'
<1> USE ChildKnown
<1>1. ~kout /\ child[n].st = "running" /\ UNCHANGED <<sigchld, stops>> /\ ServerIdle
  BY DEF ChildEnd, Runs
<1>2. PICK r \in {"ok", "ko"} :
        child' = [child EXCEPT ![n].outbox = Append(@, "end"), ![n].st = AwaitsAnswer,
                               ![n].result = r]
  BY DEF ChildEnd
<1> DEFINE q == [child[n] EXCEPT !.outbox = Append(@, "end"), !.st = AwaitsAnswer, !.result = r]
<1>3. child' = [child EXCEPT ![n] = q]
  BY <1>2, Zenon DEF IInv, TypeOK
<1>4. /\ Append(child[n].outbox, "end") \in Seq(Word)
      /\ Append(child[n].outbox, "end") # <<>>
      /\ Last(Append(child[n].outbox, "end")) = "end"
      /\ \A k \in 1..(Len(Append(child[n].outbox, "end")) - 1) : Append(child[n].outbox, "end")[k] = "msg"
      /\ Pending(Append(child[n].outbox, "end")) = Pending(child[n].outbox)
  <2>1. /\ \A k \in 1..(Len(child[n].outbox) - 1) : child[n].outbox[k] = "msg"
        /\ child[n].outbox = <<>> \/ Last(child[n].outbox) = "msg"
    BY <1>1 DEF EndLast
  <2>2. "end" \in Word
    BY DEF Word
  <2>3. child[n].outbox \in Seq(Word)
    BY <1>1
  <2> QED BY <2>1, <2>2, <2>3, BoxAppend
<1>5. /\ q \in Child /\ q.pid = child[n].pid /\ q.st = "ended" /\ q.result # "none"
      /\ q.sent = child[n].sent /\ q.outbox = Append(child[n].outbox, "end")
  <2>1. child[n] \in Child
    BY <1>1
  <2>2. q \in Child
    BY <1>4, <2>1 DEF Child, Word, AwaitsAnswer, Stage
  <2> QED BY <1>1, <2>1, <2>2 DEF Child, AwaitsAnswer
<1> HIDE DEF q
<1>6. EndLast(q)
  BY <1>4, <1>5 DEF EndLast
<1>7. child[n].sent \in Nat
  BY <1>1 DEF Child
<1>8. sigchld' \in BOOLEAN /\ stops' \in 0..MaxStop
  BY <1>1, Zenon
<1>9. child[n].sent <= q.sent /\ HoldsPid(child, n)
  BY <1>1, <1>5, <1>7
<1>10. \A i \in Used(clone_ctx) : clone_ctx[i] = n => delivered[n] + Pending(q.outbox) = q.sent
  BY <1>1, <1>4, <1>5
<1> QED BY <1>1, <1>3, <1>5, <1>6, <1>8, <1>9, <1>10, ChildInv

\* An end by which the clone reports well only with nothing left on its channel.
LEMMA ExitInv ==
  ASSUME IInv, ~kout, NEW n \in Rank, child[n].st \notin {"none", "gone"},
         NEW result \in {"none", "ok", "ko"}, NEW status \in {"ok", "ko"},
         Exit(n, result, status),
         \A i \in Used(clone_ctx) : clone_ctx[i] = n /\ status = "ok" => child[n].outbox = <<>>
  PROVE  IInv'
<1> USE ChildKnown
<1> DEFINE q == [child[n] EXCEPT !.st = "zombie", !.event = FALSE, !.stopped = FALSE,
                                 !.result = result, !.status = status]
<1>1. child' = [child EXCEPT ![n] = q]
  <2>1. child' = [child EXCEPT ![n].st = "zombie", ![n].event = FALSE, ![n].stopped = FALSE,
                               ![n].result = result, ![n].status = status]
    BY DEF Exit
  <2> QED BY <2>1, Zenon DEF IInv, TypeOK
<1>2. sigchld' \in BOOLEAN /\ stops' \in 0..MaxStop /\ ServerIdle
  BY Zenon DEF Exit
<1>3. child[n] \in Child
  OBVIOUS
<1>4. /\ q \in Child /\ q.pid = child[n].pid /\ q.st = "zombie" /\ q.status = status
      /\ q.sent = child[n].sent /\ q.outbox = child[n].outbox
  BY <1>3 DEF Child, Stage
<1> HIDE DEF q
<1>5. EndLast(q)
  <2>1. EndLast(child[n])
    OBVIOUS
  <2> QED BY <1>4, <2>1 DEF EndLast
<1>6. child[n].sent <= q.sent
  BY <1>3, <1>4 DEF Child
<1>7. \A i \in Used(clone_ctx) : clone_ctx[i] = n =>
        /\ delivered[n] + Pending(q.outbox) = q.sent
        /\ q.st = "zombie" /\ q.status = "ok" => q.outbox = <<>>
  BY <1>4
<1> QED BY <1>1, <1>2, <1>4, <1>5, <1>6, <1>7, ChildInv

\* A clone that runs and has sent nothing has nothing on its channel.
LEMMA NothingSent ==
  ASSUME IInv, ~kout, NEW n \in Rank, child[n].st = "running", child[n].sent = 0
  PROVE  \A i \in Used(clone_ctx) : clone_ctx[i] = n => child[n].outbox = <<>>
<1> USE ChildKnown
<1>1. child[n].outbox = <<>> \/ Last(child[n].outbox) = "msg"
  BY DEF EndLast
<1>2. Pending(child[n].outbox) = Len(child[n].outbox)
  BY <1>1 DEF Pending
<1>3. Len(child[n].outbox) \in Nat /\ delivered[n] \in Nat
  BY Parts, LenProperties DEF Typed
<1>4. \A i \in Used(clone_ctx) : clone_ctx[i] = n => Len(child[n].outbox) = 0
  <2>1. \A i \in Used(clone_ctx) : clone_ctx[i] = n => delivered[n] + Pending(child[n].outbox) = 0
    OBVIOUS
  <2> QED BY <1>2, <1>3, <2>1
<1>5. child[n].outbox \in Seq(Word)
  OBVIOUS
<1> QED BY <1>4, <1>5, EmptySeq

LEMMA ExitsInv ==
  ASSUME IInv, NEW n \in Rank,
         ChildLeaves(n) \/ ChildExec(n) \/ ChildNoServer(n) \/ ChildKilled(n)
  PROVE  IInv'
<1> USE ChildKnown
<1>1. CASE ChildLeaves(n)
  <2>1. ~kout /\ child[n].st = "leaving" /\ Exit(n, child[n].result, child[n].result)
    BY <1>1 DEF ChildLeaves, Runs
  <2>2. child[n] \in Child /\ EndLast(child[n])
    BY <2>1
  <2>3. child[n].result \in {"ok", "ko"} /\ child[n].outbox = <<>>
    BY <2>1, <2>2 DEF Child, EndLast
  <2> QED BY <2>1, <2>3, ExitInv
<1>2. CASE ChildExec(n)
  <2>1. ~kout /\ child[n].st = "running" /\ child[n].sent = 0
    BY <1>2 DEF ChildExec, Runs
  <2>2. PICK r \in {"ok", "ko"} : Exit(n, r, r)
    BY <1>2 DEF ChildExec
  <2>3. \A i \in Used(clone_ctx) : clone_ctx[i] = n => child[n].outbox = <<>>
    BY <2>1, NothingSent
  <2> QED BY <2>1, <2>2, <2>3, ExitInv
<1>3. CASE ChildNoServer(n)
  <2>1. ~kout /\ child[n].st = "running" /\ child[n].sent = 0 /\ Exit(n, "none", "ok")
    BY <1>3 DEF ChildNoServer, Runs
  <2>2. \A i \in Used(clone_ctx) : clone_ctx[i] = n => child[n].outbox = <<>>
    BY <2>1, NothingSent
  <2> QED BY <2>1, <2>2, ExitInv
<1>4. CASE ChildKilled(n)
  <2>1. ~kout /\ child[n].st \in {"running", "ended", "leaving"} /\ Exit(n, child[n].result, "ko")
    BY <1>4 DEF ChildKilled
  <2>2. child[n].result \in {"none", "ok", "ko"}
    BY <2>1 DEF Child
  <2> QED BY <2>1, <2>2, ExitInv
<1> QED BY <1>1, <1>2, <1>3, <1>4

LEMMA SignalsInv ==
  ASSUME IInv, NEW n \in Rank, ChildStop(n) \/ ChildContinue(n)
  PROVE  IInv'
<1> USE ChildKnown
<1>1. ASSUME NEW b \in BOOLEAN, ~kout, child[n].st # "none",
             child' = [child EXCEPT ![n].stopped = b, ![n].event = TRUE],
             sigchld' = TRUE, stops' \in 0..MaxStop, ServerIdle
      PROVE  IInv'
  <2> DEFINE q == [child[n] EXCEPT !.stopped = b, !.event = TRUE]
  <2>1. child' = [child EXCEPT ![n] = q]
    BY <1>1, Zenon DEF IInv, TypeOK
  <2>2. child[n] \in Child
    BY <1>1
  <2>3. /\ q \in Child /\ q.pid = child[n].pid /\ q.st = child[n].st /\ q.status = child[n].status
        /\ q.sent = child[n].sent /\ q.outbox = child[n].outbox /\ q.result = child[n].result
    BY <1>1, <2>2 DEF Child
  <2> HIDE DEF q
  <2>4. EndLast(q)
    <3>1. EndLast(child[n])
      BY <1>1
    <3> QED BY <2>3, <3>1 DEF EndLast
  <2>5. child[n].sent <= q.sent
    BY <2>2, <2>3 DEF Child
  <2>6. \A i \in Used(clone_ctx) : clone_ctx[i] = n =>
          /\ delivered[n] + Pending(q.outbox) = q.sent
          /\ q.st = "zombie" /\ q.status = "ok" => q.outbox = <<>>
    BY <1>1, <2>3
  <2>7. HoldsPid(child, n) \/ q.outbox = <<>>
    BY <2>3 DEF HoldsPid
  <2>8. sigchld' \in BOOLEAN
    BY <1>1
  <2>9. q.st # "none" /\ (q.st = "gone" <=> child[n].st = "gone") /\ q.sent = child[n].sent
    BY <1>1, <2>3, Zenon
  <2>10. q \in Child /\ q.pid = child[n].pid
    BY <2>3
  <2>11. /\ ~kout /\ child[n].st # "none" /\ child' = [child EXCEPT ![n] = q] /\ ServerIdle
         /\ stops' \in 0..MaxStop
    BY <1>1, <2>1, Zenon
  <2> QED BY <2>4, <2>5, <2>6, <2>7, <2>8, <2>9, <2>10, <2>11, ChildInv
<1>2. CASE ChildStop(n)
  <2>1. /\ ~kout /\ child[n].st # "none" /\ ServerIdle /\ sigchld' = TRUE
        /\ child' = [child EXCEPT ![n].stopped = TRUE, ![n].event = TRUE]
    BY <1>2 DEF ChildStop
  <2>2. stops' \in 0..MaxStop
    BY <1>2, PidCloneAssumption DEF ChildStop, IInv, TypeOK
  <2> QED BY <1>1, <2>1, <2>2
<1>3. CASE ChildContinue(n)
  <2>1. /\ ~kout /\ ServerIdle /\ sigchld' = TRUE /\ UNCHANGED stops /\ child[n].stopped
        /\ child' = [child EXCEPT ![n].stopped = FALSE, ![n].event = TRUE]
    BY <1>3 DEF ChildContinue
  <2>2. child[n].st # "none"
    <3>1. OnePid(clone_ctx, child, launched) /\ NotYet(child, launched, reported, delivered)
      BY <2>1 DEF IInv, Sound
    <3>2. n <= launched \/ n > launched
      BY DEF IInv, TypeOK, Rank
    <3>3. n > launched => child[n] = NotLaunched
      BY <3>1 DEF NotYet
    <3>4. n <= launched
      BY <2>1, <3>2, <3>3, NotLaunchedTyped
    <3> QED BY <3>1, <3>4 DEF OnePid
  <2>3. stops' \in 0..MaxStop
    BY <2>1
  <2> QED BY <1>1, <2>1, <2>2, <2>3
<1> QED BY <1>2, <1>3

-----------------------------------------------------------------------------
(* The messages of the clones.                                               *)

LEMMA RxInv ==
  ASSUME IInv, NEW n \in Rank, RxFromChild(n)
  PROVE  IInv'
<1> DEFINE box == child[n].outbox
           i == FindIdent(child[n].pid)
           isEnd == Head(box) = "end"
           newst == IF isEnd /\ child[n].st = "ended" THEN "leaving" ELSE child[n].st
           q == [child[n] EXCEPT !.outbox = Tail(@), !.st = newst]
           d == IF isEnd \/ i = 0 THEN delivered ELSE [delivered EXCEPT ![clone_ctx[i]] = @ + 1]
<1>1. /\ ~kout /\ box # <<>> /\ delivered' = d
      /\ UNCHANGED <<table, sigchld, jobs, stops, kout>>
  BY DEF RxFromChild
<1>2. child' = [child EXCEPT ![n] = q]
  <2>1. child' = [child EXCEPT ![n].outbox = Tail(@),
                               ![n].st = IF isEnd /\ @ = "ended" THEN "leaving" ELSE @]
    BY DEF RxFromChild
  <2> QED BY <2>1, Zenon DEF IInv, TypeOK
<1>3. /\ child[n] \in Child /\ EndLast(child[n]) /\ box \in Seq(Word)
      /\ \A k \in Used(clone_ctx) : clone_ctx[k] = n =>
           /\ delivered[n] + Pending(box) = child[n].sent
           /\ child[n].st = "zombie" /\ child[n].status = "ok" => box = <<>>
  BY <1>1, ChildKnown
<1>4. n <= launched /\ HoldsPid(child, n) /\ child[n].st # "none"
  <2>1. OnePid(clone_ctx, child, launched) /\ NotYet(child, launched, reported, delivered)
    BY <1>1 DEF IInv, Sound
  <2>2. n <= launched \/ n > launched
    BY DEF IInv, TypeOK, Rank
  <2>3. n > launched => child[n] = NotLaunched
    BY <2>1 DEF NotYet
  <2>4. n <= launched
    BY <1>1, <2>2, <2>3, NotLaunchedTyped
  <2> QED BY <1>1, <2>1, <2>4 DEF OnePid, HoldsPid
<1>5. /\ i # 0 => i \in Used(clone_ctx) /\ clone_ctx[i] = n
      /\ i = 0 => \A k \in Used(clone_ctx) : clone_ctx[k] # n
      /\ i # 0 <=> reported[n] = "no"
  BY <1>1, <1>4, FindIdentKnown
<1>6. /\ Tail(box) \in Seq(Word) /\ Head(box) \in Word
      /\ Pending(Tail(box)) = IF isEnd THEN Pending(box) ELSE Pending(box) - 1
      /\ \A k \in 1..(Len(Tail(box)) - 1) : Tail(box)[k] = "msg"
      /\ Tail(box) # <<>> => Last(Tail(box)) = Last(box)
      /\ Tail(box) = <<>> => Last(box) = Head(box)
      /\ isEnd => Tail(box) = <<>>
      /\ Pending(Tail(box)) \in Nat
  <2>1. \A k \in 1..(Len(box) - 1) : box[k] = "msg"
    BY <1>3 DEF EndLast
  <2> HIDE DEF box
  <2> QED BY <1>1, <1>3, <2>1, BoxTail
<1>7. newst \in Stage
  BY <1>3 DEF Child, Stage
<1>8. /\ q \in Child /\ q.pid = child[n].pid /\ q.st = newst /\ q.status = child[n].status
      /\ q.sent = child[n].sent /\ q.outbox = Tail(box) /\ q.result = child[n].result
  <2> HIDE DEF newst, i, d
  <2>1. Tail(box) \in Seq({"msg", "end"})
    BY <1>6 DEF Word
  <2> QED BY <1>3, <1>7, <2>1 DEF Child
<1> HIDE DEF q
<1>9. EndLast(q)
  <2>1. /\ child[n].st = "running" => Last(box) = "msg"
        /\ child[n].st = "ended" => Last(box) = "end"
        /\ child[n].st # "leaving"
        /\ child[n].st \in {"ended", "leaving"} => child[n].result # "none"
    BY <1>1, <1>3 DEF EndLast
  <2>2. q.st = "running" => Tail(box) = <<>> \/ Last(Tail(box)) = "msg"
    BY <1>6, <1>8, <2>1
  <2>3. q.st = "ended" => Tail(box) # <<>> /\ Last(Tail(box)) = "end"
    BY <1>6, <1>8, <2>1
  <2>4. q.st = "leaving" => Tail(box) = <<>>
    BY <1>6, <1>8, <2>1
  <2>5. q.st \in {"ended", "leaving"} => q.result # "none"
    BY <1>8, <2>1
  <2> HIDE DEF box, newst
  <2> QED BY <1>6, <1>8, <2>2, <2>3, <2>4, <2>5 DEF EndLast
<1>10. delivered \in [Rank -> 0..MaxMsg] /\ \A m \in Rank : delivered[m] \in Nat
  BY DEF IInv, TypeOK
<1>11. /\ \A k \in Rank : k # n => d[k] = delivered[k]
       /\ d[n] = IF isEnd \/ i = 0 THEN delivered[n] ELSE delivered[n] + 1
  BY <1>5, <1>10
<1> HIDE DEF d, i
<1>12. i # 0 => d[n] + Pending(Tail(box)) = child[n].sent
  <2>1. i # 0 => delivered[n] + Pending(box) = child[n].sent
    BY <1>3, <1>5
  <2>2. child[n].sent \in Nat /\ delivered[n] \in Nat
    BY <1>3, <1>10 DEF Child
  <2> HIDE DEF box
  <2>3. Pending(box) \in Int
    <3>1. Len(box) \in Nat
      BY <1>3, LenProperties
    <3> QED BY <3>1 DEF Pending
  <2> QED BY <1>6, <1>11, <2>1, <2>2, <2>3
<1>13. d[n] \in 0..MaxMsg /\ d[n] <= child[n].sent
  <2>1. child[n].sent \in 0..MaxMsg /\ MaxMsg \in Nat /\ delivered[n] \in 0..MaxMsg
    BY <1>3, <1>10, PidCloneAssumption DEF Child
  <2>2. delivered[n] <= child[n].sent
    BY DEF IInv, MessagesBeforeReport
  <2>3. CASE i = 0
    BY <1>11, <2>1, <2>2, <2>3
  <2>4. CASE i # 0
    <3>1. d[n] \in Nat
      BY <1>11, <2>1
    <3> HIDE DEF box
    <3> QED BY <1>6, <1>12, <2>1, <2>4, <3>1
  <2> QED BY <2>3, <2>4
<1>14. Sound(clone_ctx, [child EXCEPT ![n] = q], launched, reported, d)
  <2>1. Typed(clone_ctx, child, launched, reported, delivered)
        /\ Sound(clone_ctx, child, launched, reported, delivered)
    BY <1>1, Parts
  <2>2. q.st # "none" /\ (child[n].st = "gone" => q.st = "gone")
    BY <1>4, <1>8
  <2>3. reported[n] = "ok" => q.st = "gone"
    BY <2>1, <2>2 DEF Sound, OkIsGone
  <2>4. \A k \in Used(clone_ctx) : clone_ctx[k] = n => i # 0 /\ child[n].st # "gone"
    BY <1>5, <2>1 DEF Sound, OnePid
  <2>5. child[n].st # "gone" => q.st # "gone"
    BY <1>8
  <2>6. \A k \in Used(clone_ctx) : clone_ctx[k] = n =>
          /\ q.st # "gone"
          /\ d[n] + Pending(q.outbox) = q.sent
          /\ q.st = "zombie" /\ q.status = "ok" => q.outbox = <<>>
    <3>1. child[n].st = "zombie" /\ child[n].status = "ok" =>
            \A k \in Used(clone_ctx) : clone_ctx[k] # n
      BY <1>1, <1>3
    <3>2. q.st = "zombie" => child[n].st = "zombie"
      BY <1>8
    <3> QED BY <1>8, <1>12, <2>4, <2>5, <3>1, <3>2
  <2> HIDE DEF box, newst
  <2> QED BY <1>4, <1>8, <1>9, <1>11, <2>1, <2>2, <2>3, <2>6, ProcSound
<1>15. \A m \in Rank : child'[m].sent = child[m].sent
  BY <1>2, <1>8 DEF IInv, TypeOK
<1>16. TypeOK'
  <2>1. child' \in [Rank -> Child]
    BY <1>2, <1>8 DEF IInv, TypeOK
  <2>2. delivered' \in [Rank -> 0..MaxMsg]
    <3>1. \A m \in Rank : d[m] \in 0..MaxMsg
      BY <1>10, <1>11, <1>13
    <3>2. d \in [Rank -> 0..MaxMsg]
      BY <1>5, <1>10, <3>1 DEF d
    <3> QED BY <1>1, <3>2
  <2>3. kout' \in BOOLEAN /\ sigchld' \in BOOLEAN
    BY <1>1, Zenon DEF IInv, TypeOK
  <2> QED BY <1>1, <2>1, <2>2, <2>3 DEF IInv, TypeOK, table
<1>17. TableCounted'
  BY <1>1 DEF IInv, TableCounted, table, Used
<1>18. MessagesBeforeReport'
  <2>1. ASSUME NEW m \in Rank
        PROVE  /\ d[m] <= child[m].sent
               /\ reported[m] = "ok" => d[m] = child[m].sent
    <3>1. /\ delivered[m] <= child[m].sent
          /\ reported[m] = "ok" => delivered[m] = child[m].sent
      BY DEF IInv, MessagesBeforeReport
    <3>2. reported[n] = "ok" => i = 0
      BY <1>5
    <3>3. CASE m = n
      BY <1>11, <1>13, <3>1, <3>2, <3>3
    <3>4. CASE m # n
      BY <1>11, <3>1, <3>4
    <3> QED BY <3>3, <3>4
  <2> QED BY <1>1, <1>15, <2>1 DEF MessagesBeforeReport, table
<1>19. Sound(clone_ctx, child, launched, reported, delivered)'
  BY <1>1, <1>2, <1>14 DEF table
<1> QED BY <1>16, <1>17, <1>18, <1>19 DEF IInv

-----------------------------------------------------------------------------
(* The invariant of the specification.                                       *)

LEMMA NextInv == IInv /\ [Next]_vars => IInv'
<1> SUFFICES ASSUME IInv, [Next]_vars PROVE IInv'
  OBVIOUS
<1>0. jobs \in 0..(MaxJobs - 1) /\ stops \in 0..MaxStop /\ MaxJobs \in Nat
  BY PidCloneAssumption DEF IInv, TypeOK
<1>1. sigchld \in BOOLEAN /\ kout \in BOOLEAN
  BY Zenon DEF IInv, TypeOK
<1>2. CASE PidCloneLaunch
  <2>1. After
    BY <1>2, LaunchAfter
  <2>2. /\ UNCHANGED delivered /\ UNCHANGED reported /\ sigchld' \in BOOLEAN
        /\ jobs' \in 0..(MaxJobs - 1) /\ stops' \in 0..MaxStop
    BY <1>0, <1>1, <1>2, Zenon DEF PidCloneLaunch, table
  <2>3. MessagesBeforeReport'
    <3>1. ASSUME NEW m \in Rank
          PROVE  /\ delivered[m] <= child'[m].sent
                 /\ reported[m] = "ok" => delivered[m] = child'[m].sent
      <4>1. CASE m <= launched
        <5>1. child'[m].sent = child[m].sent
          BY <2>1, <4>1, Parts DEF After, Rank
        <5> QED BY <5>1 DEF IInv, MessagesBeforeReport
      <4>2. CASE m > launched
        <5>1. ~kout
          BY <1>2 DEF PidCloneLaunch
        <5>2. delivered[m] = 0 /\ reported[m] = "no"
          BY <4>2, <5>1 DEF IInv, Sound, NotYet
        <5>3. child'[m].sent \in Nat
          BY <2>1 DEF After, Child
        <5> QED BY <5>2, <5>3
      <4> QED BY <4>1, <4>2 DEF IInv, TypeOK, Rank
    <3> QED BY <2>2, <3>1 DEF MessagesBeforeReport
  <2> QED BY <2>1, <2>2, <2>3, AfterInv
<1>3. CASE ChildDeathCatcherSignal
  <2>1. /\ UNCHANGED <<table, child, delivered>> /\ sigchld' = FALSE /\ UNCHANGED stops
        /\ jobs' \in 0..(MaxJobs - 1) /\ ~kout
        /\ kout' = TRUE \/ UNCHANGED kout
    BY <1>0, <1>3 DEF ChildDeathCatcherSignal
  <2>2. MessagesBeforeReport'
    BY <2>1 DEF IInv, MessagesBeforeReport, table
  <2>3. CASE UNCHANGED kout
    <3>1. After
      BY <2>1, <2>3, UnchangedAfter
    <3>2. sigchld' \in BOOLEAN /\ stops' \in 0..MaxStop
      BY <1>0, <2>1
    <3> QED BY <2>1, <2>2, <3>1, <3>2, AfterInv
  <2>4. CASE kout' = TRUE
    <3>1. After
      BY <2>1, <2>4, Parts DEF After, table, Typed
    <3>2. sigchld' \in BOOLEAN /\ stops' \in 0..MaxStop
      BY <1>0, <2>1
    <3> QED BY <2>1, <2>2, <3>1, <3>2, AfterInv
  <2> QED BY <2>1, <2>3, <2>4
<1>4. CASE FctJobForSelect
  <2>1. /\ ~kout /\ HarvestDeath /\ UNCHANGED delivered /\ jobs' \in 0..(MaxJobs - 1)
        /\ UNCHANGED sigchld /\ UNCHANGED stops
    BY <1>0, <1>4 DEF FctJobForSelect
  <2>2. After /\ MessagesBeforeReport'
    BY <2>1, HarvestAfter
  <2>3. sigchld' \in BOOLEAN /\ stops' \in 0..MaxStop
    BY <1>0, <1>1, <2>1, Zenon
  <2> QED BY <2>1, <2>2, <2>3, AfterInv
<1>5. CASE TimerClonesCheck
  <2>1. /\ ~kout /\ HarvestDeath /\ UNCHANGED delivered
        /\ UNCHANGED sigchld /\ UNCHANGED stops /\ UNCHANGED jobs
    BY <1>5 DEF TimerClonesCheck
  <2>2. After /\ MessagesBeforeReport'
    BY <2>1, HarvestAfter
  <2>3. sigchld' \in BOOLEAN /\ stops' \in 0..MaxStop /\ jobs' \in 0..(MaxJobs - 1)
    BY <1>0, <1>1, <2>1, Zenon
  <2> QED BY <2>1, <2>2, <2>3, AfterInv
<1>6. ASSUME NEW n \in Rank, RxFromChild(n) \/ ChildStep(n)
      PROVE  IInv'
  BY <1>6, RxInv, ChildMsgInv, ChildEndInv, ExitsInv, SignalsInv DEF ChildStep
<1>7. CASE UNCHANGED vars
  <2>1. /\ UNCHANGED <<table, child, delivered, kout>>
        /\ UNCHANGED sigchld /\ UNCHANGED stops /\ UNCHANGED jobs /\ UNCHANGED delivered
    BY <1>7 DEF vars
  <2>2. After /\ MessagesBeforeReport'
    BY <2>1, UnchangedAfter
  <2>3. sigchld' \in BOOLEAN /\ stops' \in 0..MaxStop /\ jobs' \in 0..(MaxJobs - 1)
    BY <1>0, <1>1, <2>1, Zenon
  <2> QED BY <2>1, <2>2, <2>3, AfterInv
<1> QED BY <1>2, <1>3, <1>4, <1>5, <1>6, <1>7 DEF Next

\* The invariant of pid_clone.c: what the table knows, what the processes are and
\* what was delivered agree after every callback.
THEOREM ClonesInvariant == Spec => []IInv
<1>1. Init => IInv
  BY InitInv
<1> QED BY <1>1, NextInv, PTL DEF Spec

\* rx_from_child and pid_clone_harvest_death read two channels, and the report of a
\* clone that ended well still comes after all its messages.
THEOREM ReportIsLast == Spec => []MessagesBeforeReport
<1>1. IInv => MessagesBeforeReport
  BY DEF IInv
<1> QED BY <1>1, ClonesInvariant, PTL

LEMMA KnownOnce == IInv => EachKnownOnce
<1> SUFFICES ASSUME IInv PROVE EachKnownOnce
  OBVIOUS
<1>1. TypeOK /\ TableCounted
  BY DEF IInv
<1>2. ASSUME ~kout, NEW n \in 1..launched
      PROVE  Cardinality(Holders(n)) = IF reported[n] = "no" THEN 1 ELSE 0
  <2>1. OneIdent(clone_ctx, launched, reported) /\ n # 0
    BY <1>2 DEF IInv, Sound
  <2>2. reported[n] = "no" <=> \E i \in Ident : clone_ctx[i] = n
    BY <2>1, Zenon DEF OneIdent
  <2>3. CASE reported[n] = "no"
    <3>1. PICK i \in Ident : clone_ctx[i] = n
      BY <2>2, <2>3
    <3>2. \A j \in Ident : clone_ctx[j] = n => j = i
      BY <2>1, <3>1 DEF OneIdent, Used
    <3>3. Holders(n) = {i}
      BY <3>1, <3>2 DEF Holders
    <3> QED BY <2>3, <3>3, FS_Singleton
  <2>4. CASE reported[n] # "no"
    <3>1. Holders(n) = {}
      BY <2>2, <2>4 DEF Holders
    <3> QED BY <2>4, <3>1, FS_EmptySet
  <2> QED BY <2>3, <2>4
<1>3. ASSUME ~kout, NEW i \in Used(clone_ctx), NEW j \in Used(clone_ctx),
             child[clone_ctx[i]].pid = child[clone_ctx[j]].pid
      PROVE  i = j
  <2>1. OneIdent(clone_ctx, launched, reported) /\ OnePid(clone_ctx, child, launched)
    BY <1>3 DEF IInv, Sound
  <2>2. clone_ctx[i] \in 1..launched /\ clone_ctx[j] \in 1..launched
    BY <2>1, Parts, KnownRank
  <2>3. HoldsPid(child, clone_ctx[i]) /\ HoldsPid(child, clone_ctx[j])
    BY <2>1 DEF OnePid, HoldsPid
  <2>4. clone_ctx[i] = clone_ctx[j]
    BY <1>3, <2>1, <2>2, <2>3 DEF OnePid
  <2> QED BY <2>1, <2>4 DEF OneIdent
<1>4. ~kout => \A i \in Used(clone_ctx) : Exists(clone_ctx[i])
  BY DEF IInv, Sound, OnePid, Exists
<1> QED BY <1>1, <1>2, <1>3, <1>4, Zenon DEF EachKnownOnce

\* pid_find_ident finds a clone from its launch to its report, and no other.
THEOREM ClonesKnownOnce == Spec => []EachKnownOnce
BY ClonesInvariant, KnownOnce, PTL

-----------------------------------------------------------------------------
(* The refinement of CloneDeaths.                                            *)

Visible == <<launched, Ended, Reported>>

\* What is not launched has not ended, and its rank is not reported.
LEMMA LaterNotEnded ==
  ASSUME IInv, ~kout, NEW n \in Rank, n > launched
  PROVE  ~IsEnded(n) /\ reported[n] = "no" /\ child[n] = NotLaunched
<1>1. child[n] = NotLaunched /\ reported[n] = "no"
  BY DEF IInv, Sound, NotYet
<1> QED BY <1>1, NotLaunchedTyped DEF IsEnded

\* The new process of a launch has not ended.
LEMMA NewNotEnded ==
  ASSUME NEW procs \in [Rank -> Child], NEW p, NEW P, P = Launched(procs, p), launched + 1 \in Rank
  PROVE  /\ P[launched + 1].st = "running" /\ ~P[launched + 1].event /\ ~P[launched + 1].stopped
         /\ \A m \in Rank : m # launched + 1 => P[m] = procs[m]
<1> DEFINE new == [NotLaunched EXCEPT !.st = "running", !.pid = p]
<1>1. P[launched + 1] = new /\ \A m \in Rank : m # launched + 1 => P[m] = procs[m]
  BY DEF Launched
<1>2. new.st = "running" /\ ~new.event /\ ~new.stopped
  BY DEF NotLaunched
<1> QED BY <1>1, <1>2

\* A step of one process, which does not come back from its end.
LEMMA EndStep ==
  ASSUME IInv, ~kout, NEW n \in Rank, child[n].st # "none",
         UNCHANGED <<launched, reported>>,
         \A m \in Rank : m # n => child'[m] = child[m],
         IsEnded(n) => IsEnded(n)'
  PROVE  Promise!End(n) \/ UNCHANGED Visible
<1>1. n \in 1..launched
  <2>1. ~(n > launched)
    BY LaterNotEnded, NotLaunchedTyped
  <2> QED BY <2>1, Parts DEF Rank
<1>2. \A m \in Rank : m # n => (IsEnded(m)' <=> IsEnded(m))
  BY DEF IsEnded
<1>3. Reported' = Reported
  BY DEF Reported
<1>4. CASE IsEnded(n)
  <2>1. Ended' = Ended
    BY <1>2, <1>4 DEF Ended
  <2> QED BY <1>3, <2>1 DEF Visible
<1>5. CASE ~IsEnded(n) /\ ~(IsEnded(n)')
  <2>1. Ended' = Ended
    BY <1>2, <1>5 DEF Ended
  <2> QED BY <1>3, <2>1 DEF Visible
<1>6. CASE ~IsEnded(n) /\ IsEnded(n)'
  <2>1. Ended' = Ended \cup {n} /\ n \notin Ended
    BY <1>2, <1>6 DEF Ended
  <2> QED BY <1>1, <1>3, <2>1 DEF Promise!End, Ended, IsEnded, Reported
<1> QED BY <1>4, <1>5, <1>6

LEMMA LaunchStep ==
  ASSUME IInv, PidCloneLaunch
  PROVE  Promise!Launch \/ UNCHANGED Visible
<1>1. CASE FreeIdents = {}
  <2>1. UNCHANGED <<table, child>>
    BY <1>1 DEF PidCloneLaunch
  <2> QED BY <2>1 DEF Visible, Ended, Reported, IsEnded, table
<1>2. CASE FreeIdents # {}
  <2>1. ~kout /\ launched' = launched + 1 /\ UNCHANGED reported /\ launched < MaxLaunch
    BY <1>2 DEF PidCloneLaunch, CanLaunch
  <2>2. PICK p \in FreePids(child) : child' = Launched(child, p)
    BY <1>2 DEF PidCloneLaunch
  <2>3. launched + 1 \in Rank /\ launched + 1 > launched
    BY <2>1, Parts DEF Rank
  <2>4. ~IsEnded(launched + 1) /\ reported[launched + 1] = "no"
    BY <2>1, <2>3, LaterNotEnded
  <2>5. /\ child'[launched + 1].st = "running" /\ ~child'[launched + 1].event
        /\ ~child'[launched + 1].stopped
        /\ \A m \in Rank : m # launched + 1 => child'[m] = child[m]
    BY <2>2, <2>3, Parts, NewNotEnded DEF Typed
  <2>6. \A m \in Rank : IsEnded(m)' <=> IsEnded(m)
    BY <2>1, <2>4, <2>5 DEF IsEnded
  <2>7. Ended' = Ended /\ Reported' = Reported
    BY <2>1, <2>6 DEF Ended, Reported
  <2> QED BY <2>1, <2>7 DEF Promise!Launch, Ended, IsEnded, Reported
<1> QED BY <1>1, <1>2

LEMMA HarvestStep ==
  ASSUME IInv, ~kout, HarvestDeath, UNCHANGED delivered
  PROVE  (\E n \in 1..launched : Promise!Report(n)) \/ UNCHANGED Visible
<1>1. CASE \A n \in Rank : ~Waitable(n)
  <2>1. UNCHANGED <<table, child>>
    BY <1>1 DEF HarvestDeath
  <2> QED BY <2>1 DEF Visible, Ended, Reported, IsEnded, table
<1>2. CASE ~ (\A n \in Rank : ~Waitable(n))
  <2>1. PICK n \in Rank :
          /\ Waitable(n)
          /\ LET i == FindIdent(child[n].pid)
             IN  IF i = 0 THEN child' = Waited(n) /\ UNCHANGED <<table, kout>>
                 ELSE DeadClone(i, Waited(n), WaitStatus(n))
    BY <1>2 DEF HarvestDeath
  <2>2. n <= launched /\ HoldsPid(child, n) /\ n \in 1..launched
    BY <2>1, WaitableCounts, Parts DEF Rank
  <2> DEFINE q == WaitedProc(n)
             i == FindIdent(child[n].pid)
             P == [child EXCEPT ![n] = q]
  <2>3. Waited(n) = P /\ q \in Child
    BY <2>1, WaitKeeps
  <2>4. P \in [Rank -> Child] /\ \A m \in Rank : m # n => P[m] = child[m]
    BY <2>3, Parts DEF Typed
  <2>5. IsEnded(n)
    BY <2>1 DEF IsEnded, Waitable
  <2>6. /\ i # 0 => clone_ctx[i] = n
        /\ i # 0 <=> reported[n] = "no"
    BY <2>2, FindIdentKnown
  <2> HIDE DEF i, q, P
  <2>7. CASE i = 0
    <3>1. child' = P /\ UNCHANGED table
      BY <2>1, <2>3, <2>7 DEF i
    <3>2. \A m \in Rank : IsEnded(m)' <=> IsEnded(m)
      BY <2>4, <2>6, <2>7, <3>1 DEF IsEnded, table
    <3> QED BY <3>1, <3>2 DEF Visible, Ended, Reported, table
  <2>8. CASE i # 0
    <3>1. DeadClone(i, P, WaitStatus(n))
      BY <2>1, <2>3, <2>8 DEF i
    <3>2. reported' = [reported EXCEPT ![n] = WaitStatus(n)]
      BY <2>6, <2>8, <3>1 DEF DeadClone
    <3>3. WaitStatus(n) # "no"
      BY <2>1, WaitKeeps
    <3>4. \A m \in Rank : (reported'[m] # "no") <=> m = n \/ reported[m] # "no"
      BY <3>2, <3>3, Parts DEF Typed
    <3>5. Reported' = Reported \cup {n} /\ n \notin Reported
      BY <2>6, <2>8, <3>4 DEF Reported
    <3>6. /\ launched' \in {launched, launched + 1}
          /\ \A m \in Rank : m # n => (IsEnded(m)' <=> IsEnded(m))
      <4>1. CASE child' = P /\ UNCHANGED launched
        BY <2>4, <3>4, <4>1 DEF IsEnded
      <4>2. CASE CanLaunch /\ launched' = launched + 1 /\ \E p \in FreePids(P) : child' = Launched(P, p)
        <5>1. launched + 1 \in Rank /\ launched + 1 > launched
          BY <4>2, Parts DEF CanLaunch, Rank
        <5>2. ~IsEnded(launched + 1)
          BY <5>1, LaterNotEnded
        <5>3. PICK p \in FreePids(P) : child' = Launched(P, p)
          BY <4>2
        <5>4. /\ child'[launched + 1].st = "running" /\ ~child'[launched + 1].event
              /\ ~child'[launched + 1].stopped
              /\ \A m \in Rank : m # launched + 1 => child'[m] = P[m]
          BY <2>4, <5>1, <5>3, NewNotEnded
        <5>5. \A m \in Rank : m # n => (IsEnded(m)' <=> IsEnded(m))
          BY <2>4, <3>4, <5>2, <5>4 DEF IsEnded
        <5> QED BY <4>2, <5>5
      <4> QED BY <3>1, <4>1, <4>2 DEF DeadClone
    <3>7. Ended' = Ended /\ n \in Ended
      <4>1. IsEnded(n)'
        BY <3>4 DEF IsEnded
      <4> QED BY <2>5, <3>6, <4>1 DEF Ended
    <3>8. Promise!Report(n)
      BY <3>5, <3>6, <3>7 DEF Promise!Report, Ended, IsEnded, Reported
    <3> QED BY <2>2, <3>8
  <2> QED BY <2>7, <2>8
<1> QED BY <1>1, <1>2

LEMMA ChildStepEnds ==
  ASSUME IInv, NEW n \in Rank, RxFromChild(n) \/ ChildStep(n)
  PROVE  (\E m \in 1..launched : Promise!End(m)) \/ UNCHANGED Visible
<1>1. /\ ~kout /\ UNCHANGED <<launched, reported>>
      /\ \A m \in Rank : m # n => child'[m] = child[m]
  <2>1. child \in [Rank -> Child]
    BY DEF IInv, TypeOK
  <2>2. ~kout /\ UNCHANGED table
    BY DEF RxFromChild, ChildStep, ChildMsg, ChildEnd, ChildLeaves, ChildExec, ChildNoServer,
       ChildKilled, ChildStop, ChildContinue, Exit, Runs, ServerIdle
  <2>3. \A m \in Rank : m # n => child'[m] = child[m]
    BY <2>1 DEF RxFromChild, ChildStep, ChildMsg, ChildEnd, ChildLeaves, ChildExec,
       ChildNoServer, ChildKilled, ChildStop, ChildContinue, Exit
  <2> QED BY <2>2, <2>3 DEF table
<1>2. child \in [Rank -> Child] /\ child[n] \in Child
  BY DEF IInv, TypeOK
<1>3. child[n].st # "none"
  <2>1. child[n].st # "none" \/ child[n].outbox # <<>> \/ child[n].stopped
    BY DEF RxFromChild, ChildStep, ChildMsg, ChildEnd, ChildLeaves, ChildExec, ChildNoServer,
       ChildKilled, ChildStop, ChildContinue, Runs
  <2>2. ~(n > launched)
    BY <1>1, <2>1, LaterNotEnded, NotLaunchedTyped
  <2>3. n <= launched
    BY <2>2, Parts DEF Rank
  <2> QED BY <1>1, <2>3 DEF IInv, Sound, OnePid
<1>4. IsEnded(n) => IsEnded(n)'
  <2>1. CASE RxFromChild(n)
    <3>1. /\ child'[n].st = child[n].st \/ child[n].st = "ended"
          /\ child'[n].event = child[n].event /\ child'[n].stopped = child[n].stopped
      BY <1>2, <2>1 DEF RxFromChild, Child
    <3> QED BY <1>1, <3>1, Zenon DEF IsEnded
  <2>2. CASE ChildMsg(n) \/ ChildEnd(n)
    <3>1. /\ child[n].st = "running"
          /\ child'[n].event = child[n].event /\ child'[n].stopped = child[n].stopped
      BY <1>2, <2>2 DEF ChildMsg, ChildEnd, Runs, Child
    <3> QED BY <1>1, <3>1, Zenon DEF IsEnded
  <2>3. CASE ChildLeaves(n) \/ ChildExec(n) \/ ChildNoServer(n) \/ ChildKilled(n)
    <3>1. child'[n].st = "zombie"
      BY <1>2, <2>3 DEF ChildLeaves, ChildExec, ChildNoServer, ChildKilled, Exit, Child
    <3> QED BY <3>1 DEF IsEnded
  <2>4. CASE ChildStop(n) \/ ChildContinue(n)
    <3>1. child'[n].event
      BY <1>2, <2>4 DEF ChildStop, ChildContinue, Child
    <3> QED BY <3>1 DEF IsEnded
  <2> QED BY <2>1, <2>2, <2>3, <2>4 DEF ChildStep
<1>5. Promise!End(n) \/ UNCHANGED Visible
  BY <1>1, <1>3, <1>4, EndStep
<1>6. n \in 1..launched
  <2>1. ~(n > launched)
    BY <1>1, <1>3, LaterNotEnded, NotLaunchedTyped
  <2> QED BY <2>1, Parts DEF Rank
<1> QED BY <1>5, <1>6

\* The death callback of a clone is called once, after its process has ended or was
\* stopped, and never for a process that has its pid later.
THEOREM DeathsReportedOnce == Spec => ImplementsDeaths
<1>1. Init => Promise!Init
  BY NotLaunchedTyped DEF Init, Promise!Init, Ended, IsEnded, Reported
<1>2. IInv /\ [Next]_vars => [Promise!Next]_<<launched, Ended, Reported>>
  <2> SUFFICES ASSUME IInv, [Next]_vars PROVE Promise!Next \/ UNCHANGED Visible
    BY DEF Visible
  <2>1. CASE PidCloneLaunch
    BY <2>1, LaunchStep DEF Promise!Next
  <2>2. CASE ChildDeathCatcherSignal \/ UNCHANGED vars
    <3>1. UNCHANGED <<launched, reported, child>>
      BY <2>2 DEF ChildDeathCatcherSignal, vars, table
    <3> QED BY <3>1 DEF Visible, Ended, Reported, IsEnded
  <2>3. CASE FctJobForSelect \/ TimerClonesCheck
    BY <2>3, HarvestStep DEF FctJobForSelect, TimerClonesCheck, Promise!Next
  <2>4. ASSUME NEW n \in Rank, RxFromChild(n) \/ ChildStep(n)
        PROVE  Promise!Next \/ UNCHANGED Visible
    BY <2>4, ChildStepEnds DEF Promise!Next
  <2> QED BY <2>1, <2>2, <2>3, <2>4 DEF Next
<1> QED BY <1>1, <1>2, ClonesInvariant, PTL DEF Spec, ImplementsDeaths, Promise!Spec
================================================================================
