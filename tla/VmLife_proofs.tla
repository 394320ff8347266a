----------------------------- MODULE VmLife_proofs -----------------------------
(***************************************************************************)
(* For any names, numbers, delays and bounds: no number and no directory   *)
(* is ever shared by two machines, a zombie has its reaper, and the client *)
(* of an add request is answered or owed its answer, whatever stale timers *)
(* and late deaths of clones find by name.                                 *)
(*                                                                         *)
(* The handlers are operators on the tables of the server, and so are the  *)
(* parts of the invariant: the lemmas about a handler need no next state.  *)
(***************************************************************************)
EXTENDS VmLife, FiniteSetTheorems, WellFoundedInduction, TLAPS

VmRec == [id : 0 .. MAX_VM - 1, inst : 0 .. MaxAdd,
          state : {"free", "idle", "launch", "connect"},
          abort : BOOLEAN, tbk : BOOLEAN]
TimerRec == [k : {"static", "launchend", "finish", "cutoff", "erase"},
             n : Name, ref : Nat, left : 0 .. D400]
CloneRec == [k : {"mkdir", "cdrom", "cp", "launch", "rmdir"},
             n : Name, inst : 0 .. MaxAdd, id : VmId]
TimerBag == UNION {[T -> Nat \ {0}] : T \in SUBSET TimerRec}
StRec == [vm : [Name -> VmRec], tab : SUBSET VmId, cursor : VmId,
          zombie : [Name -> 0 .. MAX_VM - 1], newborn : SUBSET Name,
          coherency : Int, qmp : SUBSET Name,
          timers : TimerBag, clones : SUBSET CloneRec,
          up : SUBSET [n : Name, id : VmId], pidfile : SUBSET VmId,
          ans : [Inst -> SUBSET {"ok", "ko"}],
          lost : SUBSET (Name \X Inst), leaked : SUBSET VmId,
          kout : BOOLEAN, hang : BOOLEAN]

\* Clones and timers that matter to the invariant.
Build(st) == {c \in st.clones : c.k = "mkdir"}
Rm(st) == {c \in st.clones : c.k = "rmdir"}
Erase(st) == {t \in DOMAIN st.timers : t.k = "erase"}
Cut(st) == {t.n : t \in {u \in DOMAIN st.timers : u.k = "cutoff"}}
BuildIds(st) == {c.id : c \in Build(st)}
VmIds(st) == {st.vm[n].id : n \in Name} \ {0}
Erased(st) == {t.n : t \in Erase(st)} \cup {c.n : c \in Rm(st)}
LostIn(st, n) == \E i \in Inst : <<n, i>> \in st.lost

\* The zombies that cfg_add_zombie has room for.
FewZombies(st) == Cardinality({n \in Name : st.zombie[n] # 0}) <= MAX_ZOMBIE

Count(st) == IsFiniteSet(Build(st)) /\ st.coherency = Cardinality(Build(st))

\* A number is held by one machine or creation, or was leaked; the cursor is at a
\* free one.
Numbers(st) ==
    /\ ~st.kout
    /\ ~st.hang =>
          /\ st.tab = st.leaked \cup BuildIds(st) \cup VmIds(st)
          /\ st.cursor \notin st.tab /\ \A n \in Name : st.zombie[n] # st.cursor
    /\ st.leaked \cap (BuildIds(st) \cup VmIds(st)) = {}
    /\ \A n, m \in Name :
          /\ st.vm[n].id # 0 /\ st.vm[n].id = st.vm[m].id => n = m
          /\ st.zombie[n] # 0 /\ st.zombie[n] = st.zombie[m] => n = m
          /\ st.zombie[n] # 0 /\ st.zombie[n] = st.vm[m].id => n = m
    /\ \A c \in Build(st) :
          /\ \A d \in Build(st) : c.id = d.id => c = d
          /\ \A n \in Name : st.vm[n].id # c.id /\ st.zombie[n] # c.id

\* A name whose directories are being made has no machine and no zombie.
Names(st) ==
    /\ \A c \in Build(st) :
          c.n \in st.newborn /\ \A d \in Build(st) : c.n = d.n => c = d
    /\ \A n \in Name : n \in st.newborn => ~Exists(st, n) /\ st.zombie[n] = 0

Shape(st) ==
    \A n \in Name :
        /\ ~Exists(st, n) => st.vm[n] = NoVm
        /\ st.vm[n].abort => Creating(st, n)

\* One erasure for a zombie at most, with its number; its machine is no longer
\* being created.
Erases(st) ==
    /\ \A t \in Erase(st) :
          /\ st.timers[t] = 1 /\ t.ref = st.zombie[t.n] /\ t.ref # 0
          /\ \A u \in Erase(st) : u.n = t.n => u = t
          /\ \A c \in Rm(st) : c.n # t.n
    /\ \A c \in Rm(st) : c.id = st.zombie[c.n] /\ c.inst = 0
    /\ \A n \in Erased(st) : Exists(st, n) => st.vm[n].tbk /\ ~Creating(st, n)

Reapers(st) ==
    \A n \in Name :
        st.zombie[n] # 0 /\ ~LostIn(st, n) => st.vm[n].abort \/ n \in Erased(st)

Safe(st) == /\ Count(st) /\ Numbers(st) /\ Names(st) /\ Shape(st)
            /\ Erases(st) /\ Reapers(st)

CutOff(st) == \A n \in Name : st.vm[n].tbk => n \in Cut(st)

\* Of the a requests so far, each without an answer has one creation that owes it.
Owed(st, a) ==
    /\ \A i \in Inst :
          /\ st.ans[i] \in {{}, {"ok"}, {"ko"}}
          /\ i > a => st.ans[i] = {}
    /\ \A c \in Build(st) :
          /\ c.inst \in 1 .. a /\ st.ans[c.inst] = {}
          /\ \A d \in Build(st) : c.inst = d.inst => c = d
          /\ \A n \in Name : Creating(st, n) => st.vm[n].inst # c.inst
    /\ \A n \in Name : Creating(st, n) =>
          /\ st.vm[n].inst \in 1 .. a /\ st.ans[st.vm[n].inst] = {}
          /\ \A m \in Name : Creating(st, m) /\ st.vm[m].inst = st.vm[n].inst => n = m
    /\ ~st.hang => \A i \in 1 .. a :
          \/ st.ans[i] # {}
          \/ \E c \in Build(st) : c.inst = i
          \/ \E n \in Name : st.vm[n].inst = i /\ Creating(st, n)
          \/ \E n \in Name : <<n, i>> \in st.lost
    /\ st.coherency <= a

Good(st, a) == st \in StRec /\ Safe(st) /\ CutOff(st) /\ Owed(st, a)

\* The inductive invariant; when the server hangs every number is in use.
IInv ==
    /\ nadd \in 0 .. MaxAdd /\ ndeath \in 0 .. MaxDeath /\ cpkout \in BOOLEAN
    /\ Good(s, nadd)
    /\ s.hang => VmId \subseteq s.tab \cup {s.zombie[n] : n \in Name}

-----------------------------------------------------------------------------
(* Timers: the bag, when one is armed, when one is taken, when a beat passes. *)

LEMMA Constants == /\ MAX_VM \in Nat /\ MAX_VM > 1 /\ MaxAdd \in Nat /\ MaxDeath \in Nat
                   /\ D10 \in 0 .. D400 /\ D200 \in 0 .. D400 /\ D400 \in Nat
                   /\ 0 \in 0 .. D400 /\ Later \in 0 .. D400 /\ Later \in Nat
                   /\ MAX_ZOMBIE \in Nat /\ IsFiniteSet(Name)
  BY VmAssumption DEF Later

LEMMA BagType ==
  /\ \A B \in TimerBag : /\ DOMAIN B \subseteq TimerRec
                         /\ B = [t \in DOMAIN B |-> B[t]]
                         /\ \A t \in DOMAIN B : B[t] \in Nat \ {0}
  /\ \A B : /\ DOMAIN B \subseteq TimerRec /\ B = [t \in DOMAIN B |-> B[t]]
            /\ \A t \in DOMAIN B : B[t] \in Nat \ {0}
            => B \in TimerBag
<1>1. ASSUME NEW B \in TimerBag
      PROVE  /\ DOMAIN B \subseteq TimerRec /\ B = [t \in DOMAIN B |-> B[t]]
             /\ \A t \in DOMAIN B : B[t] \in Nat \ {0}
  <2>1. PICK T \in SUBSET TimerRec : B \in [T -> Nat \ {0}]
    BY DEF TimerBag
  <2> QED BY <2>1
<1>2. ASSUME NEW B, DOMAIN B \subseteq TimerRec, B = [t \in DOMAIN B |-> B[t]],
             \A t \in DOMAIN B : B[t] \in Nat \ {0}
      PROVE  B \in TimerBag
  <2>1. B \in [DOMAIN B -> Nat \ {0}]
    BY <1>2
  <2> QED BY <1>2, <2>1 DEF TimerBag
<1> QED BY <1>1, <1>2

LEMMA ArmBag ==
  ASSUME NEW B \in TimerBag, NEW t \in TimerRec
  PROVE  LET A == B (+) SetToBag({t})
         IN  /\ A \in TimerBag
             /\ DOMAIN A = DOMAIN B \cup {t}
             /\ \A u \in DOMAIN B : u # t => A[u] = B[u]
             /\ t \notin DOMAIN B => A[t] = 1
<1> DEFINE A == B (+) SetToBag({t})
<1>1. A = [e \in DOMAIN B \cup {t} |->
              (IF e \in DOMAIN B THEN B[e] ELSE 0) + (IF e \in {t} THEN 1 ELSE 0)]
  BY DEF (+), SetToBag
<1>2. /\ DOMAIN B \subseteq TimerRec /\ \A u \in DOMAIN B : B[u] \in Nat \ {0}
  BY BagType
<1> HIDE DEF A
<1>3. DOMAIN A = DOMAIN B \cup {t}
  BY <1>1
<1>4. \A u \in DOMAIN A : A[u] = (IF u \in DOMAIN B THEN B[u] ELSE 0)
                                 + (IF u \in {t} THEN 1 ELSE 0)
  BY <1>1
<1>5. \A u \in DOMAIN A : A[u] \in Nat \ {0}
  BY <1>2, <1>3, <1>4
<1>6. A = [u \in DOMAIN A |-> A[u]]
  BY <1>1
<1>7. A \in TimerBag
  BY <1>2, <1>3, <1>5, <1>6, BagType
<1> QED BY <1>2, <1>3, <1>4, <1>7 DEF A

LEMMA DropBag ==
  ASSUME NEW B \in TimerBag, NEW t \in DOMAIN B
  PROVE  LET A == B (-) SetToBag({t})
         IN  /\ A \in TimerBag
             /\ DOMAIN A \subseteq DOMAIN B
             /\ \A u \in DOMAIN B : u # t => u \in DOMAIN A /\ A[u] = B[u]
             /\ B[t] = 1 => t \notin DOMAIN A
<1> DEFINE S == SetToBag({t})
           F == [e \in DOMAIN B |-> IF e \in DOMAIN S THEN B[e] - S[e] ELSE B[e]]
           A == B (-) S
<1>1. A = [e \in {d \in DOMAIN F : F[d] > 0} |-> F[e]]
  BY DEF (-)
<1>2. DOMAIN S = {t} /\ S[t] = 1
  BY DEF SetToBag
<1>3. /\ DOMAIN B \subseteq TimerRec /\ \A u \in DOMAIN B : B[u] \in Nat \ {0}
  BY BagType
<1> HIDE DEF S
<1>4. /\ DOMAIN F = DOMAIN B
      /\ \A u \in DOMAIN B : F[u] = IF u = t THEN B[u] - 1 ELSE B[u]
  BY <1>2
<1> HIDE DEF A, F
<1>5. DOMAIN A = {d \in DOMAIN F : F[d] > 0} /\ \A u \in DOMAIN A : A[u] = F[u]
  BY <1>1
<1>6. \A u \in DOMAIN A : A[u] \in Nat \ {0}
  BY <1>3, <1>4, <1>5
<1>7. A = [u \in DOMAIN A |-> A[u]]
  BY <1>1
<1>8. A \in TimerBag
  BY <1>3, <1>4, <1>5, <1>6, <1>7, BagType
<1>9. \A u \in DOMAIN B : u # t => u \in DOMAIN A /\ A[u] = B[u]
  BY <1>3, <1>4, <1>5
<1>10. B[t] = 1 => t \notin DOMAIN A
  BY <1>4, <1>5
<1> QED BY <1>4, <1>5, <1>8, <1>9, <1>10 DEF A, S

\* The timers after a beat: each with one beat less, and the ones that were due.
BeatBag(B) ==
    LET Still == {t \in DOMAIN B : t.left = 0}
        Nearer == {[t EXCEPT !.left = @ - 1] : t \in DOMAIN B \ Still}
    IN  [t \in Still |-> B[t]] (+) [t \in Nearer |-> B[[t EXCEPT !.left = @ + 1]]]

Sooner(t) == IF t.left = 0 THEN t ELSE [t EXCEPT !.left = @ - 1]

LEMMA BeatBagIs ==
  ASSUME NEW B \in TimerBag
  PROVE  LET A == BeatBag(B)
         IN  /\ A \in TimerBag
             /\ DOMAIN A = {Sooner(t) : t \in DOMAIN B}
             /\ \A t \in DOMAIN B :
                   (\A u \in DOMAIN B : u.n = t.n /\ u.k = t.k => u = t) =>
                      A[Sooner(t)] = B[t]
<1> DEFINE Still == {t \in DOMAIN B : t.left = 0}
           Nearer == {[t EXCEPT !.left = @ - 1] : t \in DOMAIN B \ Still}
           Up(t) == [t EXCEPT !.left = @ + 1]
           A == BeatBag(B)
<1>1. /\ DOMAIN B \subseteq TimerRec /\ \A u \in DOMAIN B : B[u] \in Nat \ {0}
  BY BagType
<1>2. A = [t \in Still \cup Nearer |->
              (IF t \in Still THEN B[t] ELSE 0) + (IF t \in Nearer THEN B[Up(t)] ELSE 0)]
  BY DEF BeatBag, (+)
<1>3. \A t \in DOMAIN B \ Still :
         /\ [t EXCEPT !.left = @ - 1] \in TimerRec
         /\ Up([t EXCEPT !.left = @ - 1]) = t
  <2> SUFFICES ASSUME NEW t \in DOMAIN B \ Still
               PROVE  /\ [t EXCEPT !.left = @ - 1] \in TimerRec
                      /\ Up([t EXCEPT !.left = @ - 1]) = t
    OBVIOUS
  <2>1. t \in TimerRec /\ t.left \in 1 .. D400
    <3>1. t \in TimerRec /\ t.left # 0
      BY <1>1
    <3> QED BY <3>1, Constants DEF TimerRec
  <2>2. t.left - 1 \in 0 .. D400 /\ t.left - 1 + 1 = t.left
    BY <2>1, Constants
  <2>3. [t EXCEPT !.left = @ - 1] \in TimerRec
    BY <2>1, <2>2 DEF TimerRec
  <2>4. Up([t EXCEPT !.left = @ - 1]) = t
    BY <2>1, <2>2 DEF TimerRec
  <2> QED BY <2>3, <2>4
<1>4. \A u \in Nearer : u \in TimerRec /\ Up(u) \in DOMAIN B \ Still
                        /\ u = [Up(u) EXCEPT !.left = @ - 1]
  <2> SUFFICES ASSUME NEW t \in DOMAIN B \ Still, NEW u, u = [t EXCEPT !.left = @ - 1]
               PROVE  /\ u \in TimerRec /\ Up(u) \in DOMAIN B \ Still
                      /\ u = [Up(u) EXCEPT !.left = @ - 1]
    OBVIOUS
  <2>1. u \in TimerRec /\ Up(u) = t
    BY <1>3
  <2> QED BY <2>1
<1>5. \A t \in DOMAIN B : Sooner(t) = IF t \in Still THEN t ELSE [t EXCEPT !.left = @ - 1]
  BY DEF Sooner
<1>6. DOMAIN A = Still \cup Nearer
  BY <1>2
<1>7. \A u \in DOMAIN A : A[u] = (IF u \in Still THEN B[u] ELSE 0)
                                 + (IF u \in Nearer THEN B[Up(u)] ELSE 0)
  BY <1>2, <1>6
<1>8. A = [u \in DOMAIN A |-> A[u]]
  BY <1>2, <1>6
<1> HIDE DEF A
<1>9. DOMAIN A = {Sooner(t) : t \in DOMAIN B}
  <2>1. ASSUME NEW t \in DOMAIN B PROVE Sooner(t) \in DOMAIN A
    BY <1>5, <1>6
  <2>2. ASSUME NEW u \in DOMAIN A PROVE \E t \in DOMAIN B : u = Sooner(t)
    <3>1. CASE u \in Still
      BY <1>5, <3>1
    <3>2. CASE u \in Nearer
      <4>1. Up(u) \in DOMAIN B \ Still /\ u = [Up(u) EXCEPT !.left = @ - 1]
        BY <1>4, <3>2
      <4>2. u = Sooner(Up(u))
        <5> HIDE DEF Up
        <5> QED BY <1>5, <4>1
      <4> QED BY <4>1, <4>2
    <3> QED BY <1>6, <2>2, <3>1, <3>2
  <2> QED BY <2>1, <2>2
<1>10. \A u \in DOMAIN A : A[u] \in Nat \ {0}
  <2> SUFFICES ASSUME NEW u \in DOMAIN A PROVE A[u] \in Nat \ {0}
    OBVIOUS
  <2>1. u \in Nearer => B[Up(u)] \in Nat \ {0}
    <3> HIDE DEF Up
    <3> QED BY <1>1, <1>4
  <2>2. u \in Still => B[u] \in Nat \ {0}
    BY <1>1
  <2> HIDE DEF Up, Still, Nearer
  <2> QED BY <1>6, <1>7, <2>1, <2>2
<1>11. A \in TimerBag
  <2>1. DOMAIN A \subseteq TimerRec
    BY <1>1, <1>4, <1>6
  <2> QED BY <1>8, <1>10, <2>1, BagType
<1>12. ASSUME NEW t \in DOMAIN B, \A u \in DOMAIN B : u.n = t.n /\ u.k = t.k => u = t
       PROVE  A[Sooner(t)] = B[t]
  <2>0. t \in TimerRec /\ B[t] \in Nat
    BY <1>1
  <2>1. CASE t \in Still
    <3>1. Sooner(t) = t /\ t \in DOMAIN A
      BY <1>5, <1>6, <2>1
    <3>2. t \notin Nearer
      <4> SUFFICES ASSUME t \in Nearer PROVE FALSE
        OBVIOUS
      <4>1. Up(t) \in DOMAIN B \ Still
        BY <1>4
      <4>2. Up(t).n = t.n /\ Up(t).k = t.k
        BY <2>0 DEF TimerRec
      <4>3. Up(t) = t
        <5> HIDE DEF Up
        <5> QED BY <1>12, <4>1, <4>2
      <4> QED BY <2>1, <4>1, <4>3
    <3> HIDE DEF Up, Still, Nearer
    <3> QED BY <1>7, <2>0, <2>1, <3>1, <3>2
  <2>2. CASE t \notin Still
    <3> DEFINE v == [t EXCEPT !.left = @ - 1]
    <3>1. Sooner(t) = v /\ v \in Nearer
      BY <1>5, <2>2
    <3>2. Up(v) = t /\ v \in DOMAIN A
      BY <1>3, <1>6, <2>2, <3>1
    <3>3. v \notin Still
      <4> SUFFICES ASSUME v \in Still PROVE FALSE
        OBVIOUS
      <4>1. v.n = t.n /\ v.k = t.k
        BY <2>0 DEF TimerRec
      <4>2. v = t
        <5> HIDE DEF v
        <5> QED BY <1>12, <4>1
      <4> QED BY <2>2, <4>2
    <3> HIDE DEF Up, Still, Nearer, v
    <3> QED BY <1>7, <2>0, <3>1, <3>2, <3>3
  <2> QED BY <2>1, <2>2
<1> QED BY <1>9, <1>11, <1>12 DEF A

-----------------------------------------------------------------------------
(* Steps that leave alone what the invariant is about.                       *)

SameTables(st, d) ==
    /\ d.tab = st.tab /\ d.cursor = st.cursor /\ d.zombie = st.zombie
    /\ d.newborn = st.newborn /\ d.coherency = st.coherency
    /\ d.lost = st.lost /\ d.leaked = st.leaked
    /\ d.kout = st.kout /\ d.hang = st.hang
    /\ Build(d) = Build(st)
    /\ \A n \in Name :
          /\ d.vm[n].id = st.vm[n].id /\ d.vm[n].inst = st.vm[n].inst
          /\ d.vm[n].abort = st.vm[n].abort /\ d.vm[n].tbk = st.vm[n].tbk
          /\ d.vm[n].state = "free" <=> st.vm[n].state = "free"
          /\ st.vm[n].id = 0 => d.vm[n] = st.vm[n]

SameErasures(st, d) ==
    /\ Rm(d) = Rm(st) /\ Erase(d) = Erase(st)
    /\ \A t \in Erase(st) : d.timers[t] = st.timers[t]

LEMMA TablesKept ==
  ASSUME NEW st, NEW d, SameTables(st, d)
  PROVE  /\ Count(st) => Count(d)
         /\ Numbers(st) => Numbers(d)
         /\ Names(st) => Names(d)
         /\ Shape(st) => Shape(d)
         /\ \A a : Owed(st, a) /\ d.ans = st.ans => Owed(d, a)
         /\ \A n \in Name : Creating(d, n) <=> Creating(st, n)
         /\ \A n \in Name : Exists(d, n) <=> Exists(st, n)
<1> USE DEF SameTables
<1>1. /\ \A n \in Name : Creating(d, n) <=> Creating(st, n)
      /\ \A n \in Name : Exists(d, n) <=> Exists(st, n)
  BY DEF Creating, Exists
<1>2. Count(st) => Count(d)
  BY DEF Count
<1>3. Numbers(st) => Numbers(d)
  <2>1. BuildIds(d) = BuildIds(st)
    BY DEF BuildIds
  <2>2. VmIds(d) = VmIds(st)
    BY DEF VmIds
  <2> QED BY <2>1, <2>2 DEF Numbers
<1>4. Names(st) => Names(d)
  BY <1>1 DEF Names
<1>5. Shape(st) => Shape(d)
  BY <1>1 DEF Shape, Exists
<1>6. ASSUME NEW a, Owed(st, a), d.ans = st.ans
      PROVE  Owed(d, a)
  BY <1>1, <1>6 DEF Owed
<1> QED BY <1>1, <1>2, <1>3, <1>4, <1>5, <1>6

LEMMA ErasuresKept ==
  ASSUME NEW st, NEW d, SameTables(st, d), SameErasures(st, d),
         DOMAIN st.timers \subseteq TimerRec, st.clones \subseteq CloneRec
  PROVE  /\ Safe(st) => Safe(d)
         /\ \A n \in Name : LostIn(d, n) <=> LostIn(st, n)
         /\ Erased(d) = Erased(st)
<1>1. Erased(d) = Erased(st)
  BY DEF Erased, SameErasures
<1>2. \A n \in Name : LostIn(d, n) <=> LostIn(st, n)
  BY DEF LostIn, SameTables
<1>3. Erased(st) \subseteq Name
  BY DEF Erased, Erase, Rm, TimerRec, CloneRec
<1>4. Erases(st) => Erases(d)
  <2> SUFFICES ASSUME Erases(st) PROVE Erases(d)
    OBVIOUS
  <2>1. \A n \in Erased(d) : Exists(d, n) => d.vm[n].tbk /\ ~Creating(d, n)
    <3>1. \A n \in Erased(st) : Exists(st, n) => st.vm[n].tbk /\ ~Creating(st, n)
      BY DEF Erases
    <3> QED BY <1>1, <1>3, <3>1, TablesKept DEF SameTables
  <2>2. \A t \in Erase(d) :
           /\ d.timers[t] = 1 /\ t.ref = d.zombie[t.n] /\ t.ref # 0
           /\ \A u \in Erase(d) : u.n = t.n => u = t
           /\ \A c \in Rm(d) : c.n # t.n
    BY DEF Erases, SameErasures, SameTables
  <2>3. \A c \in Rm(d) : c.id = d.zombie[c.n] /\ c.inst = 0
    BY DEF Erases, SameErasures, SameTables
  <2> QED BY <2>1, <2>2, <2>3 DEF Erases
<1>5. Reapers(st) => Reapers(d)
  BY <1>1, <1>2 DEF Reapers, SameTables
<1> QED BY <1>1, <1>2, <1>4, <1>5, TablesKept DEF Safe

\* The fields of the tables.
LEMMA Fields ==
  ASSUME NEW st \in StRec
  PROVE  /\ st.timers \in TimerBag /\ DOMAIN st.timers \subseteq TimerRec
         /\ st.clones \subseteq CloneRec /\ Build(st) \subseteq CloneRec
         /\ Rm(st) \subseteq CloneRec /\ Erase(st) \subseteq TimerRec
         /\ \A n \in Name : st.vm[n] \in VmRec /\ st.zombie[n] \in 0 .. MAX_VM - 1
<1>1. st.timers \in TimerBag /\ st.clones \subseteq CloneRec
      /\ st.vm \in [Name -> VmRec] /\ st.zombie \in [Name -> 0 .. MAX_VM - 1]
  BY DEF StRec
<1>2. DOMAIN st.timers \subseteq TimerRec
  BY <1>1, BagType
<1> QED BY <1>1, <1>2 DEF Build, Rm, Erase

\* What a step that only moves timers and clones of no account keeps.
Quiet(st, d) ==
    /\ d \in StRec
    /\ SameTables(st, d) /\ SameErasures(st, d)
    /\ d.ans = st.ans
    /\ Cut(st) \subseteq Cut(d)

LEMMA QuietKeeps ==
  ASSUME NEW st \in StRec, NEW d, Quiet(st, d), Safe(st)
  PROVE  /\ d \in StRec /\ Safe(d)
         /\ CutOff(st) => CutOff(d)
         /\ \A a : Owed(st, a) => Owed(d, a)
<1>1. d \in StRec /\ SameTables(st, d) /\ SameErasures(st, d)
      /\ d.ans = st.ans /\ Cut(st) \subseteq Cut(d)
  BY DEF Quiet
<1>2. Safe(d)
  BY <1>1, Fields, ErasuresKept
<1>3. CutOff(st) => CutOff(d)
  BY <1>1 DEF CutOff, SameTables
<1> QED BY <1>1, <1>2, <1>3, TablesKept

LEMMA QuietTransitive ==
  ASSUME NEW st, NEW d, NEW f, Quiet(st, d), Quiet(d, f)
  PROVE  Quiet(st, f)
<1>1. SameTables(st, f)
  BY DEF Quiet, SameTables
<1>2. SameErasures(st, f)
  BY DEF Quiet, SameErasures
<1> QED BY <1>1, <1>2 DEF Quiet

\* A timer is armed: the bag, then what that keeps.
OnlyTimers(st, d) == d = [st EXCEPT !.timers = d.timers]

LEMMA ArmGives ==
  ASSUME NEW st \in StRec, NEW k \in {"static", "launchend", "finish", "cutoff", "erase"},
         NEW n \in Name, NEW ref \in Nat, NEW left \in 0 .. D400, NEW d, NEW t,
         d = Arm(st, k, n, ref, left), t = Timer(k, n, ref, left)
  PROVE  /\ d \in StRec /\ t \in TimerRec /\ t.k = k /\ t.n = n
         /\ OnlyTimers(st, d)
         /\ DOMAIN d.timers = DOMAIN st.timers \cup {t}
         /\ \A u \in DOMAIN st.timers : u # t => d.timers[u] = st.timers[u]
         /\ t \notin DOMAIN st.timers => d.timers[t] = 1
<1> DEFINE B == st.timers (+) SetToBag({t})
<1>1. t \in TimerRec /\ t.k = k /\ t.n = n
  BY DEF Timer, TimerRec
<1>2. st.timers \in TimerBag
  BY Fields
<1>3. /\ B \in TimerBag /\ DOMAIN B = DOMAIN st.timers \cup {t}
      /\ \A u \in DOMAIN st.timers : u # t => B[u] = st.timers[u]
      /\ t \notin DOMAIN st.timers => B[t] = 1
  BY <1>1, <1>2, ArmBag
<1>4. d = [st EXCEPT !.timers = B]
  BY DEF Arm
<1> HIDE DEF B
<1>5. d \in StRec /\ d.timers = B
  BY <1>3, <1>4 DEF StRec
<1> QED BY <1>1, <1>3, <1>4, <1>5 DEF OnlyTimers

LEMMA ArmKeeps ==
  ASSUME NEW st \in StRec, NEW k \in {"static", "launchend", "finish", "cutoff", "erase"},
         NEW n \in Name, NEW ref \in Nat, NEW left \in 0 .. D400
  PROVE  LET d == Arm(st, k, n, ref, left)
         IN  /\ d \in StRec
             /\ OnlyTimers(st, d)
             /\ k # "erase" => Quiet(st, d)
             /\ k = "cutoff" => n \in Cut(d)
<1>1. PICK d, t : d = Arm(st, k, n, ref, left) /\ t = Timer(k, n, ref, left)
  OBVIOUS
<1>2. /\ d \in StRec /\ t \in TimerRec /\ t.k = k /\ t.n = n
      /\ OnlyTimers(st, d)
      /\ DOMAIN d.timers = DOMAIN st.timers \cup {t}
      /\ \A u \in DOMAIN st.timers : u # t => d.timers[u] = st.timers[u]
  BY <1>1, ArmGives
<1>3. SameTables(st, d) /\ Rm(d) = Rm(st) /\ d.ans = st.ans
  BY <1>2 DEF SameTables, Build, Rm, StRec, OnlyTimers
<1>4. k # "erase" => SameErasures(st, d)
  <2> SUFFICES ASSUME k # "erase" PROVE SameErasures(st, d)
    OBVIOUS
  <2>1. Erase(d) = Erase(st) /\ \A u \in Erase(st) : u # t /\ u \in DOMAIN st.timers
    BY <1>2 DEF Erase
  <2> QED BY <1>2, <1>3, <2>1 DEF SameErasures
<1>5. Cut(st) \subseteq Cut(d) /\ (k = "cutoff" => n \in Cut(d))
  BY <1>2 DEF Cut
<1>6. k # "erase" => Quiet(st, d)
  BY <1>2, <1>3, <1>4, <1>5 DEF Quiet
<1> QED BY <1>1, <1>2, <1>5, <1>6

\* A timer that is neither a cutoff nor an erasure is taken.
LEMMA TakeKeeps ==
  ASSUME NEW st \in StRec, NEW t \in DOMAIN st.timers
  PROVE  LET d == [st EXCEPT !.timers = @ (-) SetToBag({t})]
         IN  /\ d \in StRec /\ SameTables(st, d) /\ Rm(d) = Rm(st) /\ d.ans = st.ans
             /\ DOMAIN d.timers \subseteq DOMAIN st.timers
             /\ \A u \in DOMAIN st.timers :
                   u # t => u \in DOMAIN d.timers /\ d.timers[u] = st.timers[u]
             /\ st.timers[t] = 1 => t \notin DOMAIN d.timers
             /\ t.k # "erase" => SameErasures(st, d)
             /\ t.k \notin {"erase", "cutoff"} => Quiet(st, d)
<1> DEFINE B == st.timers (-) SetToBag({t})
           d == [st EXCEPT !.timers = @ (-) SetToBag({t})]
<1>1. st.timers \in TimerBag
  BY Fields
<1>2. /\ B \in TimerBag /\ DOMAIN B \subseteq DOMAIN st.timers
      /\ \A u \in DOMAIN st.timers : u # t => u \in DOMAIN B /\ B[u] = st.timers[u]
      /\ st.timers[t] = 1 => t \notin DOMAIN B
  BY <1>1, DropBag
<1>3. d = [st EXCEPT !.timers = B]
  BY DEF StRec
<1> HIDE DEF B, d
<1>4. d \in StRec /\ d.timers = B /\ d.ans = st.ans
  BY <1>2, <1>3 DEF StRec
<1>5. SameTables(st, d) /\ Rm(d) = Rm(st)
  BY <1>3 DEF SameTables, Build, Rm, StRec
<1>6. t.k # "erase" => SameErasures(st, d)
  <2> SUFFICES ASSUME t.k # "erase" PROVE SameErasures(st, d)
    OBVIOUS
  <2>1. Erase(d) = Erase(st) /\ \A u \in Erase(st) : u # t /\ u \in DOMAIN st.timers
    BY <1>2, <1>4 DEF Erase
  <2> QED BY <1>2, <1>4, <1>5, <2>1 DEF SameErasures
<1>7. t.k \notin {"erase", "cutoff"} => Quiet(st, d)
  <2> SUFFICES ASSUME t.k \notin {"erase", "cutoff"} PROVE Quiet(st, d)
    OBVIOUS
  <2>1. Cut(st) \subseteq Cut(d)
    BY <1>2, <1>4 DEF Cut
  <2> QED BY <1>4, <1>5, <1>6, <2>1 DEF Quiet
<1> QED BY <1>2, <1>4, <1>5, <1>6, <1>7 DEF d

\* A clone that is not of the directories is launched, or ends.
LEMMA CloneKeeps ==
  ASSUME NEW st \in StRec, NEW c \in CloneRec, c.k \notin {"mkdir", "rmdir"}
  PROVE  /\ Quiet(st, Launch(st, c))
         /\ Quiet(st, [st EXCEPT !.clones = @ \ {c}])
<1>1. ASSUME NEW C \in SUBSET CloneRec, NEW d, d = [st EXCEPT !.clones = C],
             \A x \in CloneRec : x # c => (x \in C <=> x \in st.clones)
      PROVE  Quiet(st, d)
  <2>1. d \in StRec /\ d.clones = C /\ d.timers = st.timers /\ d.ans = st.ans
    BY <1>1 DEF StRec
  <2>2. Build(d) = Build(st) /\ Rm(d) = Rm(st)
    BY <1>1, <2>1, Fields DEF Build, Rm
  <2>3. SameTables(st, d)
    BY <1>1, <2>2 DEF SameTables, StRec
  <2>4. SameErasures(st, d) /\ Cut(st) = Cut(d)
    BY <2>1, <2>2 DEF SameErasures, Erase, Cut
  <2> QED BY <2>1, <2>3, <2>4 DEF Quiet
<1>2. st.clones \subseteq CloneRec
  BY Fields
<1>3. Quiet(st, Launch(st, c))
  <2>1. PICK C \in SUBSET CloneRec : C = st.clones \cup {c}
    BY <1>2
  <2>2. Launch(st, c) = [st EXCEPT !.clones = C]
    BY <2>1 DEF Launch, StRec
  <2> QED BY <1>1, <2>1, <2>2
<1>4. Quiet(st, [st EXCEPT !.clones = @ \ {c}])
  <2>1. PICK C \in SUBSET CloneRec : C = st.clones \ {c}
    BY <1>2
  <2>2. [st EXCEPT !.clones = @ \ {c}] = [st EXCEPT !.clones = C]
    BY <2>1 DEF StRec
  <2> QED BY <1>1, <2>1, <2>2
<1> QED BY <1>3, <1>4

\* The qemu processes, their files and their records.
LEMMA ProcessesKeep ==
  ASSUME NEW st \in StRec, NEW Q \in SUBSET Name,
         NEW U \in SUBSET [n : Name, id : VmId], NEW P \in SUBSET VmId
  PROVE  Quiet(st, [st EXCEPT !.qmp = Q, !.up = U, !.pidfile = P])
<1>1. PICK d : d = [st EXCEPT !.qmp = Q, !.up = U, !.pidfile = P]
  OBVIOUS
<1>2. d \in StRec /\ d.clones = st.clones /\ d.timers = st.timers /\ d.ans = st.ans
  BY <1>1 DEF StRec
<1>3. SameTables(st, d)
  BY <1>1 DEF SameTables, Build, StRec
<1>4. SameErasures(st, d) /\ Cut(st) = Cut(d)
  BY <1>2 DEF SameErasures, Erase, Rm, Cut
<1> QED BY <1>1, <1>2, <1>3, <1>4 DEF Quiet

\* A machine that is being created exists, and its number and request are known.
LEMMA CreatingIs ==
  ASSUME NEW st \in StRec, Shape(st), NEW n \in Name, Creating(st, n)
  PROVE  /\ Exists(st, n) /\ st.vm[n] \in VmRec
         /\ st.vm[n].id \in VmId /\ st.vm[n].inst \in 0 .. MaxAdd
         /\ st.vm[n].state \in {"idle", "launch", "connect"}
<1>1. st.vm[n] \in VmRec
  BY Fields
<1>2. Exists(st, n)
  BY DEF Shape, Creating, NoVm
<1> QED BY <1>1, <1>2, Constants DEF VmRec, VmId, Exists, Creating

LEMMA StateKeeps ==
  ASSUME NEW st \in StRec, Shape(st), NEW n \in Name, Creating(st, n),
         NEW x \in {"idle", "launch", "connect"}
  PROVE  Quiet(st, [st EXCEPT !.vm[n].state = x])
<1>1. PICK d : d = [st EXCEPT !.vm[n].state = x]
  OBVIOUS
<1>2. st.vm[n] \in VmRec /\ Exists(st, n)
  BY CreatingIs
<1> DEFINE v == [st.vm[n] EXCEPT !.state = x]
<1>3. v \in VmRec /\ v.id = st.vm[n].id /\ v.inst = st.vm[n].inst
      /\ v.abort = st.vm[n].abort /\ v.tbk = st.vm[n].tbk /\ v.state = x
  BY <1>2 DEF VmRec
<1>4. d = [st EXCEPT !.vm = [st.vm EXCEPT ![n] = v]]
  BY <1>1 DEF StRec
<1> HIDE DEF v
<1>5. d \in StRec /\ d.clones = st.clones /\ d.timers = st.timers /\ d.ans = st.ans
      /\ d.vm = [st.vm EXCEPT ![n] = v] /\ st.vm \in [Name -> VmRec]
  BY <1>3, <1>4 DEF StRec
<1>6. /\ d.tab = st.tab /\ d.cursor = st.cursor /\ d.zombie = st.zombie
      /\ d.newborn = st.newborn /\ d.coherency = st.coherency
      /\ d.lost = st.lost /\ d.leaked = st.leaked
      /\ d.kout = st.kout /\ d.hang = st.hang
  BY <1>4 DEF StRec
<1>7. ASSUME NEW m \in Name
      PROVE  /\ d.vm[m].id = st.vm[m].id /\ d.vm[m].inst = st.vm[m].inst
             /\ d.vm[m].abort = st.vm[m].abort /\ d.vm[m].tbk = st.vm[m].tbk
             /\ d.vm[m].state = "free" <=> st.vm[m].state = "free"
             /\ st.vm[m].id = 0 => d.vm[m] = st.vm[m]
  <2>1. CASE m = n
    <3>1. d.vm[m] = v
      BY <1>5, <2>1
    <3>2. v.state # "free" /\ st.vm[m].state # "free" /\ st.vm[m].id # 0
      BY <1>2, <1>3, <2>1 DEF Creating, Exists
    <3> QED BY <1>3, <2>1, <3>1, <3>2
  <2>2. CASE m # n
    BY <1>5, <2>2
  <2> QED BY <2>1, <2>2
<1>8. SameTables(st, d)
  <2>1. Build(d) = Build(st)
    BY <1>5 DEF Build
  <2> QED BY <1>6, <1>7, <2>1 DEF SameTables
<1>9. SameErasures(st, d) /\ Cut(st) = Cut(d)
  BY <1>5 DEF SameErasures, Erase, Rm, Cut
<1> QED BY <1>1, <1>5, <1>8, <1>9 DEF Quiet

LEMMA ReflQuiet ==
  ASSUME NEW st \in StRec
  PROVE  Quiet(st, st)
BY DEF Quiet, SameTables, SameErasures

\* A step of the automaton.
LEMMA AutomatonQuiet ==
  ASSUME NEW st \in StRec, Shape(st), NEW n \in Name, NEW d \in QemuVmAutomaton(st, n)
  PROVE  Quiet(st, d)
<1> DEFINE v == st.vm[n]
           To(x) == [st EXCEPT !.vm[n].state = x]
<1>0. Later \in 0 .. D400 /\ 0 \in 0 .. D400
  BY Constants
<1>1. CASE v.state \in {"idle", "launch"}
  <2>1. Creating(st, n)
    BY <1>1 DEF Creating
  <2>2. v \in VmRec /\ v.id \in VmId /\ v.inst \in 0 .. MaxAdd
    BY <2>1, CreatingIs
  <2>3. /\ Clone("cp", n, v.inst, v.id) \in CloneRec
        /\ Clone("launch", n, v.inst, v.id) \in CloneRec
        /\ Clone("cp", n, v.inst, v.id).k = "cp"
        /\ Clone("launch", n, v.inst, v.id).k = "launch"
    BY <2>2 DEF Clone, CloneRec
  <2>4. ASSUME NEW x \in {"launch", "connect"}
        PROVE  /\ Quiet(st, To(x))
               /\ Quiet(st, Arm(To(x), "static", n, v.inst, Later))
    <3>1. Quiet(st, To(x)) /\ To(x) \in StRec
      BY <2>1, StateKeeps DEF Quiet
    <3>2. v.inst \in Nat
      BY <2>2, Constants
    <3> HIDE DEF To, v
    <3>3. Quiet(To(x), Arm(To(x), "static", n, v.inst, Later))
      BY <1>0, <3>1, <3>2, ArmKeeps
    <3> QED BY <3>1, <3>3, QuietTransitive
  <2>5. CASE v.state = "idle"
    <3>1. \/ d = Arm(To("launch"), "static", n, v.inst, Later)
          \/ d = Launch(To("launch"), Clone("cp", n, v.inst, v.id))
      BY <2>5 DEF QemuVmAutomaton
    <3>2. Quiet(To("launch"), Launch(To("launch"), Clone("cp", n, v.inst, v.id)))
      <4>1. To("launch") \in StRec
        BY <2>4 DEF Quiet
      <4> HIDE DEF To, v
      <4> QED BY <2>3, <4>1, CloneKeeps
    <3> HIDE DEF To, v
    <3> QED BY <2>4, <3>1, <3>2, QuietTransitive
  <2>6. CASE v.state = "launch"
    <3> DEFINE e == Arm(To("connect"), "static", n, v.inst, Later)
    <3>1. d = Launch(e, Clone("launch", n, v.inst, v.id))
      BY <2>6 DEF QemuVmAutomaton
    <3>2. Quiet(st, e) /\ e \in StRec
      BY <2>4 DEF Quiet
    <3> HIDE DEF e, v
    <3>3. Quiet(e, d)
      BY <2>3, <3>1, <3>2, CloneKeeps
    <3> QED BY <3>2, <3>3, QuietTransitive
  <2> QED BY <1>1, <2>5, <2>6
<1>2. CASE v.state = "connect"
  <2> DEFINE e == Arm(st, "finish", n, 0, 0)
  <2>1. d = [e EXCEPT !.qmp = @ \cup {n}]
    BY <1>2 DEF QemuVmAutomaton
  <2>2. Quiet(st, e) /\ e \in StRec
    BY <1>0, ArmKeeps DEF Quiet
  <2> HIDE DEF e
  <2>3. PICK Q \in SUBSET Name, U \in SUBSET [n : Name, id : VmId], P \in SUBSET VmId :
           Q = e.qmp \cup {n} /\ U = e.up /\ P = e.pidfile
    BY <2>2 DEF StRec
  <2>4. d = [e EXCEPT !.qmp = Q, !.up = U, !.pidfile = P]
    BY <2>1, <2>2, <2>3 DEF StRec
  <2>5. Quiet(e, d)
    BY <2>2, <2>4, ProcessesKeep
  <2> QED BY <2>2, <2>5, QuietTransitive
<1>3. CASE v.state \notin {"idle", "launch", "connect"}
  <2>1. d = st
    BY <1>3 DEF QemuVmAutomaton
  <2> QED BY <2>1, ReflQuiet
<1> QED BY <1>1, <1>2, <1>3

-----------------------------------------------------------------------------
(* Steps that change the record of one machine, or its zombie.               *)

OneName(e, d, n, w, z) ==
    /\ d.tab = e.tab /\ d.cursor = e.cursor /\ d.newborn = e.newborn
    /\ d.coherency = e.coherency /\ d.leaked = e.leaked /\ d.lost = e.lost
    /\ d.kout = e.kout /\ d.hang = e.hang /\ Build(d) = Build(e)
    /\ d.vm = [e.vm EXCEPT ![n] = w] /\ d.zombie = [e.zombie EXCEPT ![n] = z]

\* The number of the machine stays; its zombie stays, goes, or gets that number.
LEMMA OneNameKeeps ==
  ASSUME NEW e \in StRec, NEW d, NEW n \in Name, NEW w \in VmRec, NEW z \in 0 .. MAX_VM - 1,
         OneName(e, d, n, w, z),
         w.id = e.vm[n].id, w.inst = e.vm[n].inst,
         w.id = 0 => w = e.vm[n], w.abort => w.state # "free",
         z \in {0, e.zombie[n], e.vm[n].id}
  PROVE  /\ Count(e) => Count(d)
         /\ Numbers(e) => Numbers(d)
         /\ Names(e) => Names(d)
         /\ Shape(e) => Shape(d)
         /\ \A m \in Name : /\ Exists(d, m) <=> Exists(e, m)
                            /\ d.vm[m].id = e.vm[m].id /\ d.vm[m].inst = e.vm[m].inst
                            /\ m # n => d.vm[m] = e.vm[m] /\ d.zombie[m] = e.zombie[m]
                            /\ LostIn(d, m) <=> LostIn(e, m)
         /\ d.vm[n] = w /\ d.zombie[n] = z
<1> USE DEF OneName
<1>0. e.vm \in [Name -> VmRec] /\ e.zombie \in [Name -> 0 .. MAX_VM - 1]
  BY DEF StRec
<1>1. d.vm[n] = w /\ d.zombie[n] = z
  BY <1>0
<1>2. \A m \in Name : m # n => d.vm[m] = e.vm[m] /\ d.zombie[m] = e.zombie[m]
  BY <1>0
<1>3. \A m \in Name : d.vm[m].id = e.vm[m].id /\ d.vm[m].inst = e.vm[m].inst
  BY <1>1, <1>2
<1>4. \A m \in Name : Exists(d, m) <=> Exists(e, m)
  BY <1>3 DEF Exists
<1>5. Count(e) => Count(d)
  BY DEF Count
<1>6. Numbers(e) => Numbers(d)
  <2> SUFFICES ASSUME Numbers(e) PROVE Numbers(d)
    OBVIOUS
  <2>1. BuildIds(d) = BuildIds(e)
    BY DEF BuildIds
  <2>2. VmIds(d) = VmIds(e)
    BY <1>3 DEF VmIds
  <2>3. \A m \in Name : d.zombie[m] \in {0, e.zombie[m], e.vm[m].id}
    BY <1>1, <1>2
  <2>4. ~d.hang => \A m \in Name : d.zombie[m] # d.cursor
    <3> SUFFICES ASSUME ~d.hang, NEW m \in Name, d.zombie[m] = d.cursor PROVE FALSE
      OBVIOUS
    <3>1. e.cursor \notin e.tab /\ e.zombie[m] # e.cursor /\ VmIds(e) \subseteq e.tab
      BY DEF Numbers
    <3>2. e.cursor # 0
      BY DEF StRec, VmId
    <3>3. e.vm[m].id # e.cursor
      BY <3>1, <3>2 DEF VmIds
    <3> QED BY <2>3, <3>1, <3>2, <3>3
  <2>5. ASSUME NEW a \in Name, NEW b \in Name
        PROVE  /\ d.vm[a].id # 0 /\ d.vm[a].id = d.vm[b].id => a = b
               /\ d.zombie[a] # 0 /\ d.zombie[a] = d.vm[b].id => a = b
               /\ d.zombie[a] # 0 /\ d.zombie[a] = d.zombie[b] => a = b
    <3>1. /\ e.vm[a].id # 0 /\ e.vm[a].id = e.vm[b].id => a = b
          /\ e.zombie[a] # 0 /\ e.zombie[a] = e.vm[b].id => a = b
          /\ e.zombie[b] # 0 /\ e.zombie[b] = e.vm[a].id => a = b
          /\ e.zombie[a] # 0 /\ e.zombie[a] = e.zombie[b] => a = b
      BY DEF Numbers
    <3> QED BY <1>3, <2>3, <3>1
  <2>6. \A c \in Build(d) :
           /\ \A b \in Build(d) : c.id = b.id => c = b
           /\ \A m \in Name : d.vm[m].id # c.id /\ d.zombie[m] # c.id
    <3> SUFFICES ASSUME NEW c \in Build(e)
                 PROVE  /\ \A b \in Build(e) : c.id = b.id => c = b
                        /\ \A m \in Name : d.vm[m].id # c.id /\ d.zombie[m] # c.id
      OBVIOUS
    <3>1. /\ \A b \in Build(e) : c.id = b.id => c = b
          /\ \A m \in Name : e.vm[m].id # c.id /\ e.zombie[m] # c.id
      BY DEF Numbers
    <3>2. c.id # 0
      BY Fields DEF CloneRec, VmId
    <3> QED BY <1>3, <2>3, <3>1, <3>2
  <2>7. ~d.kout /\ d.leaked \cap (BuildIds(d) \cup VmIds(d)) = {}
    BY <2>1, <2>2 DEF Numbers
  <2>8. ~d.hang => d.tab = d.leaked \cup BuildIds(d) \cup VmIds(d) /\ d.cursor \notin d.tab
    BY <2>1, <2>2 DEF Numbers
  <2> QED BY <2>4, <2>5, <2>6, <2>7, <2>8 DEF Numbers
<1>7. Names(e) => Names(d)
  <2> SUFFICES ASSUME Names(e) PROVE Names(d)
    OBVIOUS
  <2>1. \A m \in Name : m \in d.newborn => ~Exists(d, m) /\ d.zombie[m] = 0
    <3> SUFFICES ASSUME NEW m \in Name, m \in e.newborn
                 PROVE  ~Exists(d, m) /\ d.zombie[m] = 0
      OBVIOUS
    <3>1. ~Exists(e, m) /\ e.zombie[m] = 0
      BY DEF Names
    <3> QED BY <1>1, <1>2, <1>4, <3>1 DEF Exists
  <2> QED BY <2>1 DEF Names
<1>8. Shape(e) => Shape(d)
  <2> SUFFICES ASSUME Shape(e), NEW m \in Name
               PROVE  /\ ~Exists(d, m) => d.vm[m] = NoVm
                      /\ d.vm[m].abort => Creating(d, m)
    BY DEF Shape
  <2>1. CASE m = n
    BY <1>1, <1>3, <2>1 DEF Shape, Exists, Creating
  <2>2. CASE m # n
    BY <1>2, <2>2 DEF Shape, Exists, Creating
  <2> QED BY <2>1, <2>2
<1> QED BY <1>1, <1>2, <1>3, <1>4, <1>5, <1>6, <1>7, <1>8 DEF LostIn

\* What the answers depend on.
SameOwing(st, d) ==
    /\ Build(d) = Build(st) /\ d.coherency = st.coherency
    /\ d.lost = st.lost /\ d.hang = st.hang
    /\ \A m \in Name : /\ d.vm[m].inst = st.vm[m].inst
                       /\ Creating(d, m) <=> Creating(st, m)

LEMMA OwingKept ==
  ASSUME NEW st, NEW d, NEW a, SameOwing(st, d), d.ans = st.ans, Owed(st, a)
  PROVE  Owed(d, a)
BY DEF SameOwing, Owed

\* The cutoff is armed, with or without a shutdown asked through qmp.
LEMMA CutoffArmed ==
  ASSUME NEW st \in StRec, NEW n \in Name, NEW e \in QmpEndAndCutoff(st, n)
  PROVE  Quiet(st, e) /\ n \in Cut(e) /\ e.vm = st.vm
<1>1. ASSUME NEW D \in {D10, D400}
      PROVE  LET a == Arm(st, "cutoff", n, 0, D)
             IN  Quiet(st, a) /\ n \in Cut(a) /\ a.vm = st.vm /\ a \in StRec
  <2>1. PICK k \in {"static", "launchend", "finish", "cutoff", "erase"} : k = "cutoff"
    OBVIOUS
  <2>2. PICK ref \in Nat : ref = 0
    OBVIOUS
  <2>3. D \in 0 .. D400
    BY Constants
  <2>4. PICK a : a = Arm(st, k, n, ref, D)
    OBVIOUS
  <2>5. /\ a \in StRec /\ OnlyTimers(st, a)
        /\ k # "erase" => Quiet(st, a)
        /\ k = "cutoff" => n \in Cut(a)
    BY <2>3, <2>4, ArmKeeps
  <2>6. a.vm = st.vm
    BY <2>5 DEF StRec, OnlyTimers
  <2>7. a = Arm(st, "cutoff", n, 0, D)
    BY <2>1, <2>2, <2>4
  <2> QED BY <2>1, <2>5, <2>6, <2>7
<1>2. CASE e = Arm(st, "cutoff", n, 0, D10)
  BY <1>1, <1>2
<1>3. CASE e = [Arm(st, "cutoff", n, 0, D400) EXCEPT !.qmp = @ \ {n}]
  <2>1. PICK a : a = Arm(st, "cutoff", n, 0, D400)
    OBVIOUS
  <2>2. Quiet(st, a) /\ n \in Cut(a) /\ a.vm = st.vm /\ a \in StRec
    BY <1>1, <2>1
  <2>3. PICK Q \in SUBSET Name, U \in SUBSET [n : Name, id : VmId], P \in SUBSET VmId :
           Q = a.qmp \ {n} /\ U = a.up /\ P = a.pidfile
    BY <2>2 DEF StRec
  <2>4. e = [a EXCEPT !.qmp = Q, !.up = U, !.pidfile = P]
    BY <1>3, <2>1, <2>2, <2>3 DEF StRec
  <2>5. Quiet(a, e)
    BY <2>2, <2>4, ProcessesKeep
  <2>6. n \in Cut(e) /\ e.vm = a.vm
    <3>1. n \in Cut(e)
      BY <2>2, <2>5 DEF Quiet
    <3>2. e.vm = a.vm
      BY <2>2, <2>4 DEF StRec
    <3> QED BY <3>1, <3>2
  <2> QED BY <2>2, <2>5, <2>6, QuietTransitive
<1> QED BY <1>2, <1>3 DEF QmpEndAndCutoff

-----------------------------------------------------------------------------
(* machine_death.                                                            *)

LEMMA ErasedAre ==
  ASSUME NEW st \in StRec, Erases(st), NEW n \in Erased(st)
  PROVE  n \in Name /\ st.zombie[n] # 0
<1>1. CASE \E t \in Erase(st) : t.n = n
  BY <1>1, Fields DEF Erases, TimerRec
<1>2. CASE \E c \in Rm(st) : c.n = n
  <2>1. PICK c \in Rm(st) : c.n = n
    BY <1>2
  <2>2. c.n \in Name /\ c.id \in VmId
    BY Fields DEF CloneRec
  <2> QED BY <2>1, <2>2 DEF Erases, VmId
<1> QED BY <1>1, <1>2 DEF Erased

\* The record and the zombie of one machine change, the erasures do not.
LEMMA OneRecordErases ==
  ASSUME NEW e \in StRec, NEW d, NEW n \in Name, NEW w \in VmRec, NEW z \in 0 .. MAX_VM - 1,
         d.vm = [e.vm EXCEPT ![n] = w], d.zombie = [e.zombie EXCEPT ![n] = z],
         Rm(d) = Rm(e), Erase(d) = Erase(e),
         \A t \in Erase(e) : d.timers[t] = e.timers[t],
         e.lost \subseteq d.lost,
         Erases(e), Reapers(e),
         n \in Erased(e) => /\ z = e.zombie[n]
                            /\ w.id # 0 => w.tbk /\ w.state = "free",
         z # 0 /\ ~LostIn(d, n) => w.abort \/ n \in Erased(e)
  PROVE  Erases(d) /\ Reapers(d) /\ Erased(d) = Erased(e)
<1>0. e.vm \in [Name -> VmRec] /\ e.zombie \in [Name -> 0 .. MAX_VM - 1]
  BY DEF StRec
<1>1. Erased(d) = Erased(e)
  BY DEF Erased
<1>2. \A m \in Name : m # n => d.vm[m] = e.vm[m] /\ d.zombie[m] = e.zombie[m]
  BY <1>0
<1>3. d.vm[n] = w /\ d.zombie[n] = z
  BY <1>0
<1>4. \A m \in Erased(e) : m \in Name /\ d.zombie[m] = e.zombie[m]
  BY <1>2, <1>3, ErasedAre
<1>5. \A m \in Erased(d) : Exists(d, m) => d.vm[m].tbk /\ ~Creating(d, m)
  <2> SUFFICES ASSUME NEW m \in Erased(e), Exists(d, m) PROVE d.vm[m].tbk /\ ~Creating(d, m)
    BY <1>1
  <2>1. CASE m = n
    BY <1>3, <2>1 DEF Exists, Creating
  <2>2. CASE m # n
    <3>1. m \in Name /\ d.vm[m] = e.vm[m]
      BY <1>2, <1>4, <2>2
    <3> QED BY <3>1 DEF Erases, Exists, Creating
  <2> QED BY <2>1, <2>2
<1>6. \A t \in Erase(d) :
         /\ d.timers[t] = 1 /\ t.ref = d.zombie[t.n] /\ t.ref # 0
         /\ \A u \in Erase(d) : u.n = t.n => u = t
         /\ \A c \in Rm(d) : c.n # t.n
  <2> SUFFICES ASSUME NEW t \in Erase(e)
               PROVE  /\ d.timers[t] = 1 /\ t.ref = d.zombie[t.n] /\ t.ref # 0
                      /\ \A u \in Erase(e) : u.n = t.n => u = t
                      /\ \A c \in Rm(e) : c.n # t.n
    OBVIOUS
  <2>1. t.n \in Erased(e)
    BY DEF Erased
  <2> QED BY <1>4, <2>1 DEF Erases
<1>7. \A c \in Rm(d) : c.id = d.zombie[c.n] /\ c.inst = 0
  <2> SUFFICES ASSUME NEW c \in Rm(e) PROVE c.id = d.zombie[c.n] /\ c.inst = 0
    OBVIOUS
  <2>1. c.n \in Erased(e)
    BY DEF Erased
  <2> QED BY <1>4, <2>1 DEF Erases
<1>8. Reapers(d)
  <2> SUFFICES ASSUME NEW m \in Name, d.zombie[m] # 0, ~LostIn(d, m)
               PROVE  d.vm[m].abort \/ m \in Erased(e)
    BY <1>1 DEF Reapers
  <2>1. CASE m = n
    BY <1>3, <2>1
  <2>2. CASE m # n
    <3>1. ~LostIn(e, m)
      BY DEF LostIn
    <3> QED BY <1>2, <2>2, <3>1 DEF Reapers
  <2> QED BY <2>1, <2>2
<1> QED BY <1>1, <1>5, <1>6, <1>7, <1>8 DEF Erases

\* The number of a machine that is no zombie is not that of one.
LEMMA AddZombieIs ==
  ASSUME NEW st \in StRec, Numbers(st), NEW n \in Name, Exists(st, n), st.zombie[n] = 0,
         Cardinality({m \in Name :
             [st EXCEPT !.zombie[n] = st.vm[n].id].zombie[m] # 0}) <= MAX_ZOMBIE
  PROVE  AddZombie(st, n) = [st EXCEPT !.zombie[n] = st.vm[n].id]
<1> DEFINE z == [st EXCEPT !.zombie[n] = st.vm[n].id]
           Z == {m \in Name : z.zombie[m] # 0}
<1>1. ~IsZombieId(st, st.vm[n].id)
  BY DEF IsZombieId, Numbers, Exists
<1>2. IsFiniteSet(Z)
  BY Constants, FS_Subset
<1>3. Cardinality(Z) \in Nat
  BY <1>2, FS_CardinalityType
<1> HIDE DEF Z
<1>4. ~(Cardinality(Z) > MAX_ZOMBIE)
  BY <1>3, Constants DEF Z
<1> QED BY <1>1, <1>4 DEF AddZombie, Z

\* The erasure of the directories is armed.
LEMMA EraseArmed ==
  ASSUME NEW st \in StRec, NEW n \in Name, NEW ref \in Nat, NEW d,
         d = Arm(st, "erase", n, ref, D200)
  PROVE  /\ d \in StRec /\ OnlyTimers(st, d)
         /\ \E t \in TimerRec :
               /\ t.k = "erase" /\ t.n = n /\ t.ref = ref
               /\ DOMAIN d.timers = DOMAIN st.timers \cup {t}
               /\ \A u \in DOMAIN st.timers : u # t => d.timers[u] = st.timers[u]
               /\ t \notin DOMAIN st.timers => d.timers[t] = 1
<1>1. PICK k \in {"static", "launchend", "finish", "cutoff", "erase"} : k = "erase"
  OBVIOUS
<1>2. PICK left \in 0 .. D400 : left = D200
  BY Constants
<1>3. PICK t : t = Timer(k, n, ref, left)
  OBVIOUS
<1>4. d = Arm(st, k, n, ref, left)
  BY <1>1, <1>2
<1>5. /\ d \in StRec /\ t \in TimerRec /\ OnlyTimers(st, d)
      /\ DOMAIN d.timers = DOMAIN st.timers \cup {t}
      /\ \A u \in DOMAIN st.timers : u # t => d.timers[u] = st.timers[u]
      /\ t \notin DOMAIN st.timers => d.timers[t] = 1
  <2>1. d \in StRec /\ t \in TimerRec
    BY <1>3, <1>4, ArmGives
  <2>2. OnlyTimers(st, d)
    BY <1>3, <1>4, ArmGives
  <2>3. DOMAIN d.timers = DOMAIN st.timers \cup {t}
    BY <1>3, <1>4, ArmGives
  <2>4. \A u \in DOMAIN st.timers : u # t => d.timers[u] = st.timers[u]
    BY <1>3, <1>4, ArmGives
  <2>5. t \notin DOMAIN st.timers => d.timers[t] = 1
    BY <1>3, <1>4, ArmGives
  <2> QED BY <2>1, <2>2, <2>3, <2>4, <2>5
<1>6. t.k = "erase" /\ t.n = n /\ t.ref = ref
  BY <1>1, <1>3 DEF Timer
<1> QED BY <1>5, <1>6

\* What machine_death keeps, as long as there is room for the zombies it makes.
LEMMA DeathKeeps ==
  ASSUME NEW st \in StRec, Safe(st), NEW n \in Name, NEW d \in MachineDeath(st, n),
         FewZombies(d)
  PROVE  /\ d \in StRec /\ Safe(d)
         /\ CutOff(st) => CutOff(d)
         /\ SameOwing(st, d) /\ d.ans = st.ans
         /\ \A m \in Name : m # n => d.vm[m] = st.vm[m] /\ d.zombie[m] = st.zombie[m]
         /\ d.tab = st.tab
<1>1. CASE ~Exists(st, n) \/ st.vm[n].tbk
  <2>1. d = st
    BY <1>1 DEF MachineDeath
  <2> QED BY <2>1 DEF SameOwing
<1>2. CASE Exists(st, n) /\ ~st.vm[n].tbk
  <2>1. PICK e \in QmpEndAndCutoff(st, n) :
           d = IF st.zombie[n] # 0 THEN [e EXCEPT !.vm[n].tbk = TRUE]
               ELSE IF Creating(st, n)
               THEN [AddZombie(e, n) EXCEPT !.vm[n].abort = TRUE]
               ELSE Arm([AddZombie(e, n) EXCEPT !.vm[n].tbk = TRUE],
                        "erase", n, st.vm[n].id, D200)
    BY <1>2 DEF MachineDeath
  <2>2. Quiet(st, e) /\ n \in Cut(e) /\ e.vm = st.vm
    BY CutoffArmed
  <2>3. e \in StRec /\ Safe(e) /\ (CutOff(st) => CutOff(e)) /\ e.ans = st.ans
    BY <2>2, QuietKeeps DEF Quiet
  <2>4. e.zombie = st.zombie /\ e.tab = st.tab /\ Build(e) = Build(st) /\ e.coherency = st.coherency
        /\ e.lost = st.lost /\ e.hang = st.hang
    BY <2>2 DEF Quiet, SameTables
  <2>5. e.vm \in [Name -> VmRec] /\ e.zombie \in [Name -> 0 .. MAX_VM - 1]
        /\ e.vm[n] \in VmRec
    BY <2>3 DEF StRec
  <2>6. Exists(e, n) /\ (Creating(e, n) <=> Creating(st, n))
    BY <1>2, <2>2 DEF Exists, Creating
  <2>7. Count(e) /\ Numbers(e) /\ Names(e) /\ Shape(e) /\ Erases(e) /\ Reapers(e)
    BY <2>3 DEF Safe
  \* The machine was a zombie before.
  <2>8. CASE st.zombie[n] # 0
    <3>1. PICK w \in VmRec : w = [e.vm[n] EXCEPT !.tbk = TRUE]
      BY <2>5 DEF VmRec
    <3>2. w.id = e.vm[n].id /\ w.inst = e.vm[n].inst /\ w.tbk = TRUE
          /\ w.state = e.vm[n].state /\ w.abort = e.vm[n].abort
      BY <2>5, <3>1 DEF VmRec
    <3>3. d = [e EXCEPT !.vm = [e.vm EXCEPT ![n] = w]]
      BY <2>1, <2>3, <2>8, <3>1 DEF StRec
    <3>4. d \in StRec /\ d.vm = [e.vm EXCEPT ![n] = w] /\ d.zombie = e.zombie
          /\ d.timers = e.timers /\ d.clones = e.clones /\ d.ans = e.ans
          /\ d.tab = e.tab /\ d.cursor = e.cursor /\ d.newborn = e.newborn
          /\ d.coherency = e.coherency /\ d.leaked = e.leaked /\ d.lost = e.lost
          /\ d.kout = e.kout /\ d.hang = e.hang
      BY <2>3, <2>5, <3>3 DEF StRec
    <3>5. Build(d) = Build(e) /\ Rm(d) = Rm(e) /\ Erase(d) = Erase(e) /\ Cut(d) = Cut(e)
      BY <3>4 DEF Build, Rm, Erase, Cut
    <3>6. PICK z \in 0 .. MAX_VM - 1 : z = e.zombie[n]
      BY <2>5
    <3>7. d.zombie = [e.zombie EXCEPT ![n] = z]
      BY <2>5, <3>4, <3>6
    <3>8. OneName(e, d, n, w, z)
      BY <3>4, <3>5, <3>7 DEF OneName
    <3>9. w.abort => w.state # "free"
      BY <2>7, <3>2 DEF Shape, Creating
    <3>10. w.id = 0 => w = e.vm[n]
      BY <2>6, <3>2 DEF Exists
    <3>11. /\ Count(d) /\ Numbers(d) /\ Names(d) /\ Shape(d)
           /\ \A m \in Name : m # n => d.vm[m] = e.vm[m] /\ d.zombie[m] = e.zombie[m]
           /\ d.vm[n] = w
      <4>1. e \in StRec /\ w.id = e.vm[n].id /\ w.inst = e.vm[n].inst
            /\ z \in {0, e.zombie[n], e.vm[n].id}
        BY <2>3, <3>2, <3>6
      <4>2. /\ Count(e) => Count(d)
            /\ Numbers(e) => Numbers(d)
            /\ Names(e) => Names(d)
            /\ Shape(e) => Shape(d)
            /\ \A m \in Name : m # n => d.vm[m] = e.vm[m] /\ d.zombie[m] = e.zombie[m]
            /\ d.vm[n] = w
        BY <3>8, <3>9, <3>10, <4>1, OneNameKeeps
      <4> QED BY <2>7, <4>2
    <3>12. Erases(d) /\ Reapers(d)
      <4>1. n \in Erased(e) => z = e.zombie[n] /\ (w.id # 0 => w.tbk /\ w.state = "free")
        BY <2>6, <2>7, <3>2, <3>6 DEF Erases, Creating, Exists
      <4>2. z # 0 /\ ~LostIn(d, n) => w.abort \/ n \in Erased(e)
        BY <2>7, <3>2, <3>4, <3>6 DEF Reapers, LostIn
      <4>3. \A t \in Erase(e) : d.timers[t] = e.timers[t]
        BY <3>4
      <4>4. e.lost \subseteq d.lost
        BY <3>4
      <4> QED BY <2>3, <2>7, <3>4, <3>5, <3>7, <4>1, <4>2, <4>3, <4>4, OneRecordErases
    <3>13. Safe(d)
      BY <3>11, <3>12 DEF Safe
    <3>14. CutOff(st) => CutOff(d)
      BY <2>2, <2>3, <3>5, <3>11 DEF CutOff
    <3>15. SameOwing(st, d)
      <4>1. \A m \in Name : d.vm[m].inst = st.vm[m].inst /\ d.vm[m].state = st.vm[m].state
        BY <2>2, <3>2, <3>11
      <4> QED BY <2>4, <3>4, <3>5, <4>1 DEF SameOwing, Creating
    <3> QED BY <2>2, <2>3, <2>4, <3>4, <3>11, <3>13, <3>14, <3>15
  \* The machine becomes a zombie.
  <2>9. CASE st.zombie[n] = 0
    <3>1. PICK z \in 0 .. MAX_VM - 1 : z = e.vm[n].id
      BY <2>5 DEF VmRec
    <3>2. PICK f : f = [e EXCEPT !.zombie[n] = e.vm[n].id]
      OBVIOUS
    <3>3. f = [e EXCEPT !.zombie = [e.zombie EXCEPT ![n] = z]]
      BY <2>3, <3>1, <3>2 DEF StRec
    <3>4. n \notin Erased(e)
      BY <2>3, <2>4, <2>7, <2>9, ErasedAre
    <3>5. PICK w \in VmRec : w = IF Creating(st, n) THEN [e.vm[n] EXCEPT !.abort = TRUE]
                                 ELSE [e.vm[n] EXCEPT !.tbk = TRUE]
      BY <2>5 DEF VmRec
    <3>6. /\ w.id = e.vm[n].id /\ w.inst = e.vm[n].inst /\ w.state = e.vm[n].state
          /\ Creating(st, n) => w.abort = TRUE /\ w.tbk = e.vm[n].tbk
          /\ ~Creating(st, n) => w.abort = e.vm[n].abort /\ w.tbk = TRUE
      BY <2>5, <3>5 DEF VmRec
    <3>7. PICK g : g = [e EXCEPT !.zombie = [e.zombie EXCEPT ![n] = z],
                                 !.vm = [e.vm EXCEPT ![n] = w]]
      OBVIOUS
    <3>8. g \in StRec /\ g.vm = [e.vm EXCEPT ![n] = w]
          /\ g.zombie = [e.zombie EXCEPT ![n] = z]
          /\ g.timers = e.timers /\ g.clones = e.clones /\ g.ans = e.ans
          /\ g.tab = e.tab /\ g.cursor = e.cursor /\ g.newborn = e.newborn
          /\ g.coherency = e.coherency /\ g.leaked = e.leaked /\ g.lost = e.lost
          /\ g.kout = e.kout /\ g.hang = e.hang
      BY <2>3, <2>5, <3>7 DEF StRec
    <3>9. Build(g) = Build(e) /\ Rm(g) = Rm(e) /\ Erase(g) = Erase(e) /\ Cut(g) = Cut(e)
      BY <3>8 DEF Build, Rm, Erase, Cut
    <3>10. OneName(e, g, n, w, z)
      BY <3>8, <3>9 DEF OneName
    <3>11. w.abort => w.state # "free"
      BY <2>6, <2>7, <3>6 DEF Shape, Creating
    <3>12. w.id = 0 => w = e.vm[n]
      BY <2>6, <3>6 DEF Exists
    <3>13. /\ Count(g) /\ Numbers(g) /\ Names(g) /\ Shape(g)
           /\ \A m \in Name : m # n => g.vm[m] = e.vm[m] /\ g.zombie[m] = e.zombie[m]
           /\ g.vm[n] = w /\ g.zombie[n] = z
      BY <2>3, <2>7, <3>1, <3>6, <3>10, <3>11, <3>12, OneNameKeeps
    <3>14. CutOff(st) => CutOff(g)
      BY <2>2, <2>3, <3>9, <3>13 DEF CutOff
    <3>15. SameOwing(st, g)
      <4>1. \A m \in Name : g.vm[m].inst = st.vm[m].inst /\ g.vm[m].state = st.vm[m].state
        BY <2>2, <3>6, <3>13
      <4> QED BY <2>4, <3>8, <3>9, <4>1 DEF SameOwing, Creating
    <3>16. d.zombie = g.zombie => AddZombie(e, n) = f
      <4> SUFFICES ASSUME d.zombie = g.zombie PROVE AddZombie(e, n) = f
        OBVIOUS
      <4>1. f.zombie = g.zombie
        BY <2>3, <3>3, <3>8 DEF StRec
      <4>2. e.zombie[n] = 0 /\ Numbers(e) /\ Exists(e, n)
        BY <2>4, <2>6, <2>7, <2>9
      <4>3. Cardinality({m \in Name : f.zombie[m] # 0}) <= MAX_ZOMBIE
        BY <4>1 DEF FewZombies
      <4> QED BY <2>3, <3>2, <4>2, <4>3, AddZombieIs
    <3>17. AddZombie(e, n).zombie = g.zombie
      BY <2>3, <2>5, <3>1, <3>8 DEF AddZombie, Kout, StRec
    \* It is being created: its abort will call again.
    <3>18. CASE Creating(st, n)
      <4>1. d = [AddZombie(e, n) EXCEPT !.vm[n].abort = TRUE]
        BY <2>1, <2>9, <3>18
      <4>2. d.zombie = g.zombie
        BY <2>3, <3>17, <4>1 DEF AddZombie, Kout, StRec
      <4>3. d = [f EXCEPT !.vm[n].abort = TRUE]
        BY <3>16, <4>1, <4>2
      <4>4. d = g
        BY <2>3, <2>5, <3>3, <3>5, <3>7, <3>18, <4>3 DEF StRec
      <4>5. Erases(g) /\ Reapers(g)
        <5>1. z # 0 /\ ~LostIn(g, n) => w.abort \/ n \in Erased(e)
          BY <3>6, <3>18
        <5>2. \A t \in Erase(e) : g.timers[t] = e.timers[t]
          BY <3>8
        <5>3. e.lost \subseteq g.lost
          BY <3>8
        <5> QED BY <2>3, <2>7, <3>4, <3>8, <3>9, <5>1, <5>2, <5>3, OneRecordErases
      <4>6. Safe(g)
        BY ONLY <3>13, <4>5 DEF Safe
      <4>7. \A m \in Name : m # n => g.vm[m] = st.vm[m] /\ g.zombie[m] = st.zombie[m]
        BY ONLY <2>2, <2>4, <3>13
      <4>8. g \in StRec /\ (CutOff(st) => CutOff(g)) /\ SameOwing(st, g)
            /\ g.ans = st.ans /\ g.tab = st.tab
        BY ONLY <2>3, <2>4, <3>8, <3>14, <3>15
      <4> QED BY ONLY <4>4, <4>6, <4>7, <4>8
    \* It runs: its directories will be erased.
    <3>19. CASE ~Creating(st, n)
      <4>1. PICK ref \in Nat : ref = st.vm[n].id
        BY <2>2, <2>5 DEF VmRec
      <4>2. d = Arm([AddZombie(e, n) EXCEPT !.vm[n].tbk = TRUE], "erase", n, ref, D200)
        BY <2>1, <2>9, <3>19, <4>1
      <4>3. d.zombie = g.zombie
        BY <2>3, <3>17, <4>2 DEF AddZombie, Kout, StRec, Arm
      <4>4. [f EXCEPT !.vm[n].tbk = TRUE] = g
        BY <2>3, <2>5, <3>3, <3>5, <3>7, <3>19 DEF StRec
      <4>5. d = Arm(g, "erase", n, ref, D200)
        BY <3>16, <4>2, <4>3, <4>4
      <4>6. g \in StRec
        BY <3>8
      <4>7. d \in StRec /\ OnlyTimers(g, d)
        BY <4>5, <4>6, EraseArmed
      <4>8. PICK t \in TimerRec :
               /\ t.k = "erase" /\ t.n = n /\ t.ref = ref
               /\ DOMAIN d.timers = DOMAIN g.timers \cup {t}
               /\ \A u \in DOMAIN g.timers : u # t => d.timers[u] = g.timers[u]
               /\ t \notin DOMAIN g.timers => d.timers[t] = 1
        BY <4>5, <4>6, EraseArmed
      <4>9. /\ d \in StRec /\ t \in TimerRec /\ OnlyTimers(g, d)
            /\ DOMAIN d.timers = DOMAIN g.timers \cup {t}
            /\ \A u \in DOMAIN g.timers : u # t => d.timers[u] = g.timers[u]
            /\ t \notin DOMAIN g.timers => d.timers[t] = 1
        BY <4>7, <4>8
      <4>10. t.k = "erase" /\ t.n = n /\ t.ref = z
        BY <2>2, <3>1, <4>1, <4>8
      <4>11. t \notin Erase(g) /\ t \notin DOMAIN g.timers
        <5>1. Erase(g) = Erase(e) /\ DOMAIN g.timers = DOMAIN e.timers
          BY <3>8, <3>9
        <5> QED BY <3>4, <4>10, <5>1 DEF Erased, Erase
      <4>12. d.vm = g.vm /\ d.zombie = g.zombie /\ d.clones = g.clones /\ d.lost = g.lost
             /\ d.tab = g.tab /\ d.cursor = g.cursor /\ d.newborn = g.newborn
             /\ d.coherency = g.coherency /\ d.leaked = g.leaked
             /\ d.kout = g.kout /\ d.hang = g.hang /\ d.ans = g.ans
        BY <3>8, <4>9 DEF StRec, OnlyTimers
      <4>13. Build(d) = Build(g) /\ Rm(d) = Rm(g) /\ Erase(d) = Erase(g) \cup {t}
             /\ Cut(g) \subseteq Cut(d)
        BY <4>9, <4>10, <4>12 DEF Build, Rm, Erase, Cut
      <4>14. SameTables(g, d)
        BY <4>12, <4>13 DEF SameTables
      <4>15. Count(d) /\ Numbers(d) /\ Names(d) /\ Shape(d)
        BY <3>13, <4>14, TablesKept
      <4>16. Erased(d) = Erased(e) \cup {n}
        BY <3>9, <4>10, <4>13 DEF Erased
      <4>17. z # 0
        BY <2>6, <3>1 DEF Exists
      <4>18. \A u \in Erase(e) : u.n # n /\ u.n \in Name
        BY <2>3, <3>4, Fields DEF Erased, TimerRec
      <4>19. \A c \in Rm(e) : c.n # n /\ c.n \in Name
        BY <2>3, <3>4, Fields DEF Erased, CloneRec
      <4>20. Erases(d)
        <5>1. \A u \in Erase(d) :
                 /\ d.timers[u] = 1 /\ u.ref = d.zombie[u.n] /\ u.ref # 0
                 /\ \A v \in Erase(d) : v.n = u.n => v = u
                 /\ \A c \in Rm(d) : c.n # u.n
          <6> SUFFICES ASSUME NEW u \in Erase(d)
                       PROVE  /\ d.timers[u] = 1 /\ u.ref = d.zombie[u.n] /\ u.ref # 0
                              /\ \A v \in Erase(d) : v.n = u.n => v = u
                              /\ \A c \in Rm(d) : c.n # u.n
            OBVIOUS
          <6>1. CASE u = t
            BY <3>9, <3>13, <4>9, <4>10, <4>11, <4>12, <4>13, <4>17, <4>18, <4>19, <6>1
          <6>2. CASE u \in Erase(e)
            <7>1. /\ e.timers[u] = 1 /\ u.ref = e.zombie[u.n] /\ u.ref # 0
                  /\ \A v \in Erase(e) : v.n = u.n => v = u
                  /\ \A c \in Rm(e) : c.n # u.n
              BY <2>7, <6>2 DEF Erases
            <7>2. u # t /\ u \in DOMAIN g.timers
              BY <3>8, <4>11, <3>9, <6>2 DEF Erase
            <7>3. d.timers[u] = e.timers[u] /\ d.zombie[u.n] = e.zombie[u.n]
              BY <3>8, <3>13, <4>9, <4>12, <4>18, <6>2, <7>2
            <7> QED BY <3>9, <4>10, <4>13, <4>18, <6>2, <7>1, <7>3
          <6> QED BY <3>9, <4>13, <6>1, <6>2
        <5>2. \A c \in Rm(d) : c.id = d.zombie[c.n] /\ c.inst = 0
          <6> SUFFICES ASSUME NEW c \in Rm(e) PROVE c.id = d.zombie[c.n] /\ c.inst = 0
            BY <3>9, <4>13
          <6>1. c.n # n /\ c.n \in Name
            BY <4>19
          <6> QED BY <2>7, <3>13, <4>12, <6>1 DEF Erases
        <5>3. \A m \in Erased(d) : Exists(d, m) => d.vm[m].tbk /\ ~Creating(d, m)
          <6> SUFFICES ASSUME NEW m \in Erased(d), Exists(d, m)
                       PROVE  d.vm[m].tbk /\ ~Creating(d, m)
            OBVIOUS
          <6>1. CASE m = n
            BY <2>6, <3>6, <3>13, <3>19, <4>12, <6>1 DEF Creating
          <6>2. CASE m # n
            <7>1. m \in Erased(e) /\ m \in Name
              BY <2>3, <2>7, <4>16, <6>2, ErasedAre
            <7>2. d.vm[m] = e.vm[m]
              BY <3>13, <4>12, <6>2, <7>1
            <7> QED BY <2>7, <7>1, <7>2 DEF Erases, Exists, Creating
          <6> QED BY <6>1, <6>2
        <5> QED BY <5>1, <5>2, <5>3 DEF Erases
      <4>21. Reapers(d)
        <5> SUFFICES ASSUME NEW m \in Name, d.zombie[m] # 0, ~LostIn(d, m)
                     PROVE  d.vm[m].abort \/ m \in Erased(d)
          BY DEF Reapers
        <5>1. CASE m = n
          BY <4>16, <5>1
        <5>2. CASE m # n
          BY <2>7, <3>8, <3>13, <4>12, <4>16, <5>2 DEF Reapers, LostIn
        <5> QED BY <5>1, <5>2
      <4>22. CutOff(st) => CutOff(d)
        BY <3>14, <4>12, <4>13 DEF CutOff
      <4>23. SameOwing(st, d)
        BY <3>15, <4>12, <4>13 DEF SameOwing, Creating
      <4> QED BY <2>2, <2>3, <2>4, <3>8, <3>13, <4>9, <4>12, <4>15, <4>20, <4>21, <4>22, <4>23
              DEF Safe
    <3> QED BY <3>18, <3>19
  <2> QED BY <2>8, <2>9
<1> QED BY <1>1, <1>2

-----------------------------------------------------------------------------
(* The end of a creation: vm_wake_up_eths is freed and the client is told.   *)

AnsType == [Inst -> SUBSET {"ok", "ko"}]

LEMMA AnswersKeep ==
  ASSUME NEW st \in StRec, NEW A \in AnsType, NEW d, d = [st EXCEPT !.ans = A]
  PROVE  /\ d \in StRec /\ d.ans = A
         /\ Safe(st) => Safe(d)
         /\ CutOff(st) => CutOff(d)
         /\ SameOwing(st, d)
         /\ d.vm = st.vm /\ d.zombie = st.zombie /\ d.up = st.up /\ d.tab = st.tab
<1>1. d \in StRec /\ d.ans = A /\ d.vm = st.vm /\ d.zombie = st.zombie /\ d.up = st.up
      /\ d.tab = st.tab /\ d.timers = st.timers /\ d.clones = st.clones
  BY DEF AnsType, StRec
<1>2. SameTables(st, d) /\ SameErasures(st, d) /\ Cut(d) = Cut(st)
  BY <1>1 DEF SameTables, SameErasures, Build, Rm, Erase, Cut, StRec
<1>3. Safe(st) => Safe(d)
  BY <1>2, Fields, ErasuresKept
<1>4. CutOff(st) => CutOff(d)
  BY <1>1, <1>2 DEF CutOff
<1>5. SameOwing(st, d)
  BY <1>1, <1>2 DEF SameOwing, SameTables, Creating
<1> QED BY <1>1, <1>3, <1>4, <1>5

\* vm_wake_up_eths is freed; the zombie of the first machine_death may go.
Release(st, n, z) ==
    [FreeWakeUpEths(st, n) EXCEPT !.zombie = [st.zombie EXCEPT ![n] = z]]

LEMMA ReleaseKeeps ==
  ASSUME NEW st \in StRec, Safe(st), NEW n \in Name, Creating(st, n),
         NEW z \in 0 .. MAX_VM - 1,
         z = 0 \/ (z = st.zombie[n] /\ ~st.vm[n].abort), NEW d,
         d = Release(st, n, z)
  PROVE  /\ d \in StRec /\ Safe(d) /\ (CutOff(st) => CutOff(d)) /\ d.ans = st.ans
         /\ Build(d) = Build(st) /\ d.coherency = st.coherency
         /\ d.lost = st.lost /\ d.hang = st.hang
         /\ \A m \in Name : /\ d.vm[m].inst = st.vm[m].inst
                            /\ Creating(d, m) <=> Creating(st, m) /\ m # n
<1>1. st.vm[n] \in VmRec /\ Exists(st, n)
  BY CreatingIs DEF Safe
<1>2. PICK w \in VmRec : w = [st.vm[n] EXCEPT !.state = "free", !.abort = FALSE]
  BY <1>1 DEF VmRec
<1>3. w.id = st.vm[n].id /\ w.inst = st.vm[n].inst /\ w.tbk = st.vm[n].tbk
      /\ w.state = "free" /\ w.abort = FALSE
  BY <1>1, <1>2 DEF VmRec
<1>4. st.vm \in [Name -> VmRec] /\ st.zombie \in [Name -> 0 .. MAX_VM - 1]
  BY DEF StRec
<1>5. FreeWakeUpEths(st, n) = [st EXCEPT !.vm = [st.vm EXCEPT ![n] = w]]
  BY <1>1, <1>2, <1>4 DEF FreeWakeUpEths, StRec
<1>6. d = [st EXCEPT !.vm = [st.vm EXCEPT ![n] = w], !.zombie = [st.zombie EXCEPT ![n] = z]]
  BY <1>5 DEF StRec, Release
<1>7. d \in StRec /\ d.vm = [st.vm EXCEPT ![n] = w]
      /\ d.zombie = [st.zombie EXCEPT ![n] = z]
      /\ d.timers = st.timers /\ d.clones = st.clones /\ d.ans = st.ans
      /\ d.tab = st.tab /\ d.cursor = st.cursor /\ d.newborn = st.newborn
      /\ d.coherency = st.coherency /\ d.leaked = st.leaked /\ d.lost = st.lost
      /\ d.kout = st.kout /\ d.hang = st.hang
  <2>1. PICK V \in [Name -> VmRec] : V = [st.vm EXCEPT ![n] = w]
    BY <1>4
  <2>2. PICK Z \in [Name -> 0 .. MAX_VM - 1] : Z = [st.zombie EXCEPT ![n] = z]
    BY <1>4
  <2>3. d = [st EXCEPT !.vm = V, !.zombie = Z]
    BY <1>6, <2>1, <2>2
  <2> QED BY ONLY <2>1, <2>2, <2>3, st \in StRec, V \in [Name -> VmRec],
                  Z \in [Name -> 0 .. MAX_VM - 1] DEF StRec
<1>8. Build(d) = Build(st) /\ Rm(d) = Rm(st) /\ Erase(d) = Erase(st) /\ Cut(d) = Cut(st)
  BY <1>7 DEF Build, Rm, Erase, Cut
<1>9. OneName(st, d, n, w, z)
  BY <1>7, <1>8 DEF OneName
<1>10. Count(st) /\ Numbers(st) /\ Names(st) /\ Shape(st) /\ Erases(st) /\ Reapers(st)
  BY DEF Safe
<1>11. /\ Count(d) /\ Numbers(d) /\ Names(d) /\ Shape(d)
       /\ \A m \in Name : m # n => d.vm[m] = st.vm[m] /\ d.zombie[m] = st.zombie[m]
       /\ d.vm[n] = w
  <2>1. w.id = 0 => w = st.vm[n]
    BY <1>1, <1>3 DEF Exists
  <2>2. w.abort => w.state # "free"
    BY <1>3
  <2>3. z \in {0, st.zombie[n], st.vm[n].id} /\ w.id = st.vm[n].id /\ w.inst = st.vm[n].inst
    BY <1>3
  <2>4. /\ Count(st) => Count(d)
        /\ Numbers(st) => Numbers(d)
        /\ Names(st) => Names(d)
        /\ Shape(st) => Shape(d)
        /\ \A m \in Name : m # n => d.vm[m] = st.vm[m] /\ d.zombie[m] = st.zombie[m]
        /\ d.vm[n] = w
    BY ONLY st \in StRec, n \in Name, w \in VmRec, z \in 0 .. MAX_VM - 1,
            <1>9, <2>1, <2>2, <2>3, OneNameKeeps
  <2> QED BY <1>10, <2>4
<1>12. Erases(d) /\ Reapers(d)
  <2>1. n \notin Erased(st)
    BY <1>1, <1>10 DEF Erases
  <2>2. z # 0 /\ ~LostIn(d, n) => w.abort \/ n \in Erased(st)
    BY <1>7, <1>10 DEF Reapers, LostIn
  <2>3. \A t \in Erase(st) : d.timers[t] = st.timers[t]
    BY <1>7
  <2>4. st.lost \subseteq d.lost
    BY <1>7
  <2> QED BY <1>7, <1>8, <1>10, <2>1, <2>2, <2>3, <2>4, OneRecordErases
<1>13. Safe(d)
  BY <1>11, <1>12 DEF Safe
<1>14. CutOff(st) => CutOff(d)
  BY <1>3, <1>8, <1>11 DEF CutOff
<1>15. \A m \in Name : /\ d.vm[m].inst = st.vm[m].inst
                       /\ Creating(d, m) <=> Creating(st, m) /\ m # n
  BY <1>3, <1>11 DEF Creating
<1> QED BY <1>7, <1>8, <1>13, <1>14, <1>15

\* What the answer x to the creation of n leaves to owe.
Released(st, d, n, x) ==
    /\ Build(d) = Build(st) /\ d.coherency = st.coherency
    /\ d.lost = st.lost /\ d.hang = st.hang
    /\ \A m \in Name : /\ d.vm[m].inst = st.vm[m].inst
                       /\ Creating(d, m) <=> Creating(st, m) /\ m # n
    /\ d.ans = [st.ans EXCEPT ![st.vm[n].inst] = @ \cup {x}]

LEMMA ReleasedOwed ==
  ASSUME NEW st \in StRec, NEW a \in 0 .. MaxAdd, Owed(st, a), NEW n \in Name, Creating(st, n),
         NEW d, NEW x \in {"ok", "ko"}, Released(st, d, n, x)
  PROVE  Owed(d, a)
<1> DEFINE j == st.vm[n].inst
<1>1. j \in 1 .. a /\ st.ans[j] = {} /\ j \in Inst
  BY Constants DEF Owed, Inst
<1>2. st.ans \in [Inst -> SUBSET {"ok", "ko"}]
  BY DEF StRec
<1>3. d.ans[j] = {x} /\ \A i \in Inst : i # j => d.ans[i] = st.ans[i]
  BY <1>1, <1>2 DEF Released
<1> HIDE DEF j
<1>4. ASSUME NEW i \in Inst
      PROVE  d.ans[i] \in {{}, {"ok"}, {"ko"}} /\ (i > a => d.ans[i] = {})
  <2>1. CASE i = j
    BY <1>1, <1>3, <2>1
  <2>2. CASE i # j
    BY <1>3, <2>2 DEF Owed
  <2> QED BY <2>1, <2>2
<1>5. \A c \in Build(d) :
          /\ c.inst \in 1 .. a /\ d.ans[c.inst] = {}
          /\ \A b \in Build(d) : c.inst = b.inst => c = b
          /\ \A m \in Name : Creating(d, m) => d.vm[m].inst # c.inst
  <2> SUFFICES ASSUME NEW c \in Build(st)
               PROVE  /\ c.inst \in 1 .. a /\ d.ans[c.inst] = {}
                      /\ \A b \in Build(st) : c.inst = b.inst => c = b
                      /\ \A m \in Name : Creating(d, m) => d.vm[m].inst # c.inst
    BY DEF Released
  <2>1. /\ c.inst \in 1 .. a /\ st.ans[c.inst] = {}
        /\ \A b \in Build(st) : c.inst = b.inst => c = b
        /\ \A m \in Name : Creating(st, m) => st.vm[m].inst # c.inst
    BY DEF Owed
  <2>2. c.inst # j /\ c.inst \in Inst
    BY <2>1, Constants DEF j, Inst
  <2> QED BY <1>3, <2>1, <2>2 DEF Released
<1>6. ASSUME NEW m \in Name, Creating(d, m)
      PROVE  /\ d.vm[m].inst \in 1 .. a /\ d.ans[d.vm[m].inst] = {}
             /\ \A k \in Name : Creating(d, k) /\ d.vm[k].inst = d.vm[m].inst => m = k
  <2>1. Creating(st, m) /\ m # n /\ d.vm[m].inst = st.vm[m].inst
    BY <1>6 DEF Released
  <2>2. /\ st.vm[m].inst \in 1 .. a /\ st.ans[st.vm[m].inst] = {}
        /\ \A k \in Name : Creating(st, k) /\ st.vm[k].inst = st.vm[m].inst => m = k
    BY <2>1 DEF Owed
  <2>3. st.vm[m].inst # j /\ st.vm[m].inst \in Inst
    BY <2>1, <2>2, Constants DEF j, Inst
  <2>4. \A k \in Name : Creating(d, k) => Creating(st, k) /\ d.vm[k].inst = st.vm[k].inst
    BY DEF Released
  <2> QED BY <1>3, <2>1, <2>2, <2>3, <2>4
<1>7. ASSUME ~d.hang, NEW i \in 1 .. a
      PROVE  \/ d.ans[i] # {}
             \/ \E c \in Build(d) : c.inst = i
             \/ \E m \in Name : d.vm[m].inst = i /\ Creating(d, m)
             \/ \E m \in Name : <<m, i>> \in d.lost
  <2>1. CASE i = j
    BY <1>3, <2>1
  <2>2. CASE i # j
    <3>1. \/ st.ans[i] # {}
          \/ \E c \in Build(st) : c.inst = i
          \/ \E m \in Name : st.vm[m].inst = i /\ Creating(st, m)
          \/ \E m \in Name : <<m, i>> \in st.lost
      BY <1>7 DEF Owed, Released
    <3>2. i \in Inst
      BY Constants DEF Inst
    <3>3. \A m \in Name : st.vm[m].inst = i => m # n
      BY <2>2 DEF j
    <3> QED BY <1>3, <2>2, <3>1, <3>2, <3>3 DEF Released
  <2> QED BY <2>1, <2>2
<1>8. d.coherency <= a
  BY DEF Owed, Released
<1> QED BY <1>4, <1>5, <1>6, <1>7, <1>8 DEF Owed

\* machine_death in any case: what it returns has the shape of the tables.
LEMMA DeathType ==
  ASSUME NEW st \in StRec, NEW n \in Name, NEW d \in MachineDeath(st, n)
  PROVE  d \in StRec
<1>1. CASE ~Exists(st, n) \/ st.vm[n].tbk
  BY <1>1 DEF MachineDeath
<1>2. CASE Exists(st, n) /\ ~st.vm[n].tbk
  <2>1. PICK e \in QmpEndAndCutoff(st, n) :
           d = IF st.zombie[n] # 0 THEN [e EXCEPT !.vm[n].tbk = TRUE]
               ELSE IF Creating(st, n)
               THEN [AddZombie(e, n) EXCEPT !.vm[n].abort = TRUE]
               ELSE Arm([AddZombie(e, n) EXCEPT !.vm[n].tbk = TRUE],
                        "erase", n, st.vm[n].id, D200)
    BY <1>2 DEF MachineDeath
  <2>2. e \in StRec
    BY CutoffArmed, <2>1 DEF Quiet
  <2>3. ASSUME NEW f \in StRec
        PROVE  [f EXCEPT !.vm[n].tbk = TRUE] \in StRec /\ [f EXCEPT !.vm[n].abort = TRUE] \in StRec
    <3>1. f.vm \in [Name -> VmRec] /\ f.vm[n] \in VmRec
      BY DEF StRec
    <3>2. [f.vm[n] EXCEPT !.tbk = TRUE] \in VmRec /\ [f.vm[n] EXCEPT !.abort = TRUE] \in VmRec
      BY <3>1 DEF VmRec
    <3>3. PICK V \in [Name -> VmRec] : V = [f.vm EXCEPT ![n].tbk = TRUE]
      BY <3>1, <3>2
    <3>4. PICK W \in [Name -> VmRec] : W = [f.vm EXCEPT ![n].abort = TRUE]
      BY <3>1, <3>2
    <3>5. [f EXCEPT !.vm[n].tbk = TRUE] = [f EXCEPT !.vm = V]
          /\ [f EXCEPT !.vm[n].abort = TRUE] = [f EXCEPT !.vm = W]
      BY <3>3, <3>4 DEF StRec
    <3> QED BY <3>5 DEF StRec
  <2>4. AddZombie(e, n) \in StRec
    <3>1. e.vm[n].id \in 0 .. MAX_VM - 1 /\ e.zombie \in [Name -> 0 .. MAX_VM - 1]
      BY <2>2 DEF StRec, VmRec
    <3>2. PICK Z \in [Name -> 0 .. MAX_VM - 1] : Z = [e.zombie EXCEPT ![n] = e.vm[n].id]
      BY <3>1
    <3>3. PICK z : z = [e EXCEPT !.zombie = Z]
      OBVIOUS
    <3>4. z \in StRec /\ Kout(z) \in StRec
      <4>1. z \in StRec
        BY ONLY <2>2, <3>3, Z \in [Name -> 0 .. MAX_VM - 1] DEF StRec
      <4> QED BY ONLY <4>1 DEF StRec, Kout
    <3>5. z = [e EXCEPT !.zombie[n] = e.vm[n].id]
      BY <2>2, <3>2, <3>3 DEF StRec
    <3> QED BY <3>4, <3>5 DEF AddZombie
  <2>5. st.vm[n].id \in Nat
    BY DEF StRec, VmRec
  <2>6. Arm([AddZombie(e, n) EXCEPT !.vm[n].tbk = TRUE], "erase", n, st.vm[n].id, D200) \in StRec
    <3>1. PICK g : g = [AddZombie(e, n) EXCEPT !.vm[n].tbk = TRUE]
      OBVIOUS
    <3>2. g \in StRec
      BY <2>3, <2>4, <3>1
    <3>3. PICK x : x = Arm(g, "erase", n, st.vm[n].id, D200)
      OBVIOUS
    <3>4. x \in StRec
      BY ONLY <2>5, <3>2, <3>3, n \in Name, EraseArmed
    <3> QED BY <3>1, <3>3, <3>4
  <2> QED BY <2>1, <2>2, <2>3, <2>4, <2>6
<1> QED BY <1>1, <1>2

\* The creation of n is over and fails: utils_launched_vm_death, the abort.
LEMMA FreeAndDeleteKeeps ==
  ASSUME NEW st \in StRec, Safe(st), CutOff(st), NEW n \in Name, Creating(st, n),
         st.vm[n].inst \in Inst, NEW d \in FreeAndDelete(st, n), FewZombies(d)
  PROVE  d \in StRec /\ Safe(d) /\ CutOff(d) /\ Released(st, d, n, "ko")
<1>1. PICK b : b = Release(st, n, 0)
  OBVIOUS
<1>2. b = FreeWakeUpEths(DelZombie(st, n), n)
  BY <1>1 DEF Release, FreeWakeUpEths, DelZombie, StRec
<1>3. /\ b \in StRec /\ Safe(b) /\ CutOff(b) /\ b.ans = st.ans
      /\ Build(b) = Build(st) /\ b.coherency = st.coherency
      /\ b.lost = st.lost /\ b.hang = st.hang
      /\ \A m \in Name : /\ b.vm[m].inst = st.vm[m].inst
                         /\ Creating(b, m) <=> Creating(st, m) /\ m # n
  <2>1. 0 \in 0 .. MAX_VM - 1
    BY Constants
  <2> QED BY <1>1, <2>1, ReleaseKeeps
<1>4. PICK g \in MachineDeath(b, n) : d = SendStatusKo(g, st.vm[n].inst)
  BY <1>2 DEF FreeAndDelete
<1>5. g \in StRec
  BY <1>3, DeathType
<1>6. PICK A \in AnsType : A = [g.ans EXCEPT ![st.vm[n].inst] = @ \cup {"ko"}]
  BY <1>5 DEF StRec, AnsType
<1>7. d = [g EXCEPT !.ans = A]
  BY <1>4, <1>5, <1>6 DEF SendStatusKo, StRec
<1>8. /\ d \in StRec /\ d.ans = A /\ (Safe(g) => Safe(d)) /\ (CutOff(g) => CutOff(d))
      /\ SameOwing(g, d) /\ d.zombie = g.zombie
  BY <1>5, <1>7, AnswersKeep
<1>9. FewZombies(g)
  BY <1>8 DEF FewZombies
<1>10. Safe(g) /\ CutOff(g) /\ SameOwing(b, g) /\ g.ans = b.ans
  BY <1>3, <1>9, DeathKeeps
<1>11. Released(st, d, n, "ko")
  BY <1>3, <1>6, <1>8, <1>10 DEF Released, SameOwing
<1> QED BY <1>8, <1>10, <1>11

\* A creation under way has a request.
LEMMA CreatingInst ==
  ASSUME NEW a \in 0 .. MaxAdd, NEW st, Good(st, a), NEW n \in Name, Creating(st, n)
  PROVE  st.vm[n].inst \in Inst
BY Constants DEF Good, Owed, Inst

LEMMA FreeAndDeleteGood ==
  ASSUME NEW a \in 0 .. MaxAdd, NEW st, Good(st, a), NEW n \in Name, Creating(st, n),
         NEW d \in FreeAndDelete(st, n), FewZombies(d)
  PROVE  Good(d, a) /\ d.hang = st.hang
<1>1. st \in StRec /\ Safe(st) /\ CutOff(st) /\ Owed(st, a) /\ st.vm[n].inst \in Inst
  BY CreatingInst DEF Good
<1>2. d \in StRec /\ Safe(d) /\ CutOff(d) /\ Released(st, d, n, "ko")
  BY <1>1, FreeAndDeleteKeeps
<1>3. Owed(d, a) /\ d.hang = st.hang
  BY <1>1, <1>2, ReleasedOwed DEF Released
<1> QED BY <1>2, <1>3 DEF Good

LEMMA CreationFailsGood ==
  ASSUME NEW a \in 0 .. MaxAdd, NEW st, Good(st, a), NEW n \in Name,
         NEW d \in CreationFails(st, n), FewZombies(d)
  PROVE  Good(d, a) /\ d.hang = st.hang
<1>1. CASE ~Creating(st, n)
  BY <1>1 DEF CreationFails
<1>2. CASE Creating(st, n)
  <2> DEFINE j == st.vm[n].inst
  <2>1. st \in StRec /\ Safe(st) /\ CutOff(st) /\ Owed(st, a) /\ j \in Inst
    BY <1>2, CreatingInst DEF Good
  <2>2. PICK A \in AnsType : A = [st.ans EXCEPT ![j] = @ \cup {"ko"}]
    BY <2>1 DEF StRec, AnsType
  <2>3. PICK e : e = [st EXCEPT !.ans = A]
    OBVIOUS
  <2>4. e = SendStatusKo(st, j)
    BY <2>1, <2>2, <2>3 DEF SendStatusKo, StRec
  <2>5. e \in StRec /\ e.ans = A /\ Safe(e) /\ CutOff(e) /\ SameOwing(st, e) /\ e.vm = st.vm
    BY <2>1, <2>3, AnswersKeep
  <2>6. Creating(e, n) /\ e.vm[n].inst = j /\ e.vm[n].inst \in Inst
    BY <1>2, <2>1, <2>5 DEF Creating
  <2>7. d \in FreeAndDelete(e, n)
    BY <1>2, <2>4 DEF CreationFails
  <2>8. d \in StRec /\ Safe(d) /\ CutOff(d) /\ Released(e, d, n, "ko")
    BY <2>5, <2>6, <2>7, FreeAndDeleteKeeps
  <2>9. d.ans = [st.ans EXCEPT ![j] = @ \cup {"ko"}]
    <3>1. st.ans \in [Inst -> SUBSET {"ok", "ko"}]
      BY <2>1 DEF StRec
    <3>2. d.ans = [A EXCEPT ![j] = @ \cup {"ko"}]
      BY <2>5, <2>6, <2>8 DEF Released
    <3> HIDE DEF j
    <3>3. A[j] = st.ans[j] \cup {"ko"} /\ A[j] \cup {"ko"} = A[j]
      BY <2>1, <2>2, <3>1
    <3> QED BY <2>1, <2>2, <3>1, <3>2, <3>3
  <2>10. Released(st, d, n, "ko")
    BY <2>5, <2>8, <2>9 DEF Released, SameOwing
  <2>11. Owed(d, a) /\ d.hang = st.hang
    BY <1>2, <2>1, <2>10, ReleasedOwed DEF Released
  <2> QED BY <2>8, <2>11 DEF Good
<1> QED BY <1>1, <1>2

\* utils_finish_vm_init, called when the agent answers or by its timer.
LEMMA FinishGood ==
  ASSUME NEW a \in 0 .. MaxAdd, NEW st, Good(st, a), NEW n \in Name,
         NEW d \in FinishVmInit(st, n), FewZombies(d)
  PROVE  Good(d, a) /\ d.hang = st.hang
<1>1. CASE ~Creating(st, n)
  BY <1>1 DEF FinishVmInit
<1>2. CASE Creating(st, n) /\ d \in FreeAndDelete(st, n)
  BY <1>2, FreeAndDeleteGood
<1>3. CASE Creating(st, n) /\ ~st.vm[n].abort /\ d = FreeAndOk(st, n)
  <2> DEFINE j == st.vm[n].inst
  <2>1. st \in StRec /\ Safe(st) /\ CutOff(st) /\ Owed(st, a) /\ j \in Inst
    BY <1>3, CreatingInst DEF Good
  <2>2. PICK z \in 0 .. MAX_VM - 1 : z = st.zombie[n]
    BY <2>1, Fields
  <2>3. PICK b : b = Release(st, n, z)
    OBVIOUS
  <2>4. b = FreeWakeUpEths(st, n)
    <3>1. st.zombie = [st.zombie EXCEPT ![n] = z]
      BY <2>1, <2>2 DEF StRec
    <3> QED BY <2>1, <2>3, <3>1 DEF Release, FreeWakeUpEths, StRec
  <2>5. /\ b \in StRec /\ Safe(b) /\ CutOff(b) /\ b.ans = st.ans
        /\ Build(b) = Build(st) /\ b.coherency = st.coherency
        /\ b.lost = st.lost /\ b.hang = st.hang
        /\ \A m \in Name : /\ b.vm[m].inst = st.vm[m].inst
                           /\ Creating(b, m) <=> Creating(st, m) /\ m # n
    BY <1>3, <2>1, <2>2, <2>3, ReleaseKeeps
  <2>6. PICK A \in AnsType : A = [b.ans EXCEPT ![j] = @ \cup {"ok"}]
    BY <2>1, <2>5 DEF StRec, AnsType
  <2>7. d = [b EXCEPT !.ans = A]
    BY <1>3, <2>4, <2>5, <2>6 DEF FreeAndOk, StRec
  <2>8. d \in StRec /\ d.ans = A /\ Safe(d) /\ CutOff(d) /\ SameOwing(b, d)
    BY <2>5, <2>7, AnswersKeep
  <2>9. Released(st, d, n, "ok")
    BY <2>5, <2>6, <2>8 DEF Released, SameOwing
  <2>10. Owed(d, a) /\ d.hang = st.hang
    BY <1>3, <2>1, <2>9, ReleasedOwed DEF Released
  <2> QED BY <2>8, <2>10 DEF Good
<1> QED BY <1>1, <1>2, <1>3 DEF FinishVmInit

-----------------------------------------------------------------------------
(* The cutoff: cfg_unset_vm and cfg_free_vm_id, whatever the machine does.   *)

LEMMA NoVmIs == /\ NoVm \in VmRec /\ NoVm.id = 0 /\ NoVm.inst = 0 /\ NoVm.state = "free"
                /\ NoVm.abort = FALSE /\ NoVm.tbk = FALSE
BY Constants DEF NoVm, VmRec

\* What is left of the tables st when n is unset.
Unset(st, d, n) ==
    /\ d.cursor = st.cursor /\ d.zombie = st.zombie /\ d.newborn = st.newborn
    /\ d.coherency = st.coherency /\ d.leaked = st.leaked /\ d.ans = st.ans
    /\ d.kout = st.kout /\ d.hang = st.hang
    /\ d.timers = st.timers /\ d.clones = st.clones
    /\ d.tab = st.tab \ {st.vm[n].id}
    /\ d.vm = [st.vm EXCEPT ![n] = NoVm]
    /\ d.lost = st.lost \cup (IF Creating(st, n) THEN {<<n, st.vm[n].inst>>} ELSE {})

LEMMA CutoffIs ==
  ASSUME NEW st \in StRec, NEW n \in Name, Exists(st, n), st.vm[n].id \in st.tab,
         Creating(st, n) => st.vm[n].inst \in Inst,
         NEW d, d = DelayedVmCutoff(st, n)
  PROVE  d \in StRec /\ Unset(st, d, n)
<1>1. PICK U \in SUBSET [n : Name, id : VmId] : U = {p \in st.up : p.id # st.vm[n].id}
  BY DEF StRec
<1>2. PICK L \in SUBSET (Name \X Inst) :
         L = st.lost \cup (IF Creating(st, n) THEN {<<n, st.vm[n].inst>>} ELSE {})
  <2>1. st.lost \in SUBSET (Name \X Inst)
    BY DEF StRec
  <2>2. (IF Creating(st, n) THEN {<<n, st.vm[n].inst>>} ELSE {}) \in SUBSET (Name \X Inst)
    <3>1. CASE Creating(st, n)
      <4>1. <<n, st.vm[n].inst>> \in Name \X Inst
        BY <3>1
      <4> QED BY <3>1, <4>1
    <3> QED BY <3>1
  <2> HIDE DEF Creating
  <2> QED BY <2>1, <2>2
<1>3. PICK T \in SUBSET VmId : T = st.tab \ {st.vm[n].id}
  BY DEF StRec
<1>4. PICK V \in [Name -> VmRec] : V = [st.vm EXCEPT ![n] = NoVm]
  BY NoVmIs DEF StRec
<1>5. PICK f : f = [st EXCEPT !.up = U]
  OBVIOUS
<1>6. f = [st EXCEPT !.up = {p \in @ : p.id # st.vm[n].id}]
  BY <1>1, <1>5 DEF StRec
<1>7. d = UnsetVm(f, n)
  BY <1>6 DEF DelayedVmCutoff
<1>8. f.vm = st.vm /\ f.tab = st.tab /\ f.lost = st.lost /\ (Creating(f, n) <=> Creating(st, n))
  BY <1>5 DEF StRec, Creating
<1>9. PICK g : g = [f EXCEPT !.vm = V, !.lost = L]
  OBVIOUS
<1>10. g.tab = st.tab /\ g = [st EXCEPT !.up = U, !.vm = V, !.lost = L]
  BY <1>5, <1>9 DEF StRec
<1>11. g = [f EXCEPT !.vm[n] = NoVm,
                     !.lost = @ \cup (IF Creating(f, n) THEN {<<n, f.vm[n].inst>>} ELSE {})]
  <2>1. f.vm = st.vm /\ f.lost = st.lost /\ f = [st EXCEPT !.up = U]
    BY <1>5, <1>8
  <2>2. V = [f.vm EXCEPT ![n] = NoVm]
    BY ONLY <1>4, <2>1
  <2>3. L = f.lost \cup (IF Creating(f, n) THEN {<<n, f.vm[n].inst>>} ELSE {})
    BY ONLY <1>2, <1>8, <2>1
  <2> QED BY ONLY <1>9, <2>2, <2>3
<1>12. d = FreeVmId(g, st.vm[n].id)
  BY <1>7, <1>8, <1>11 DEF UnsetVm
<1>13. d = [st EXCEPT !.up = U, !.vm = V, !.lost = L, !.tab = T]
  BY <1>3, <1>10, <1>12 DEF FreeVmId, StRec
<1>14. d \in StRec /\ d.vm = V /\ d.lost = L /\ d.tab = T
  BY ONLY <1>13, st \in StRec, V \in [Name -> VmRec], T \in SUBSET VmId,
          L \in SUBSET (Name \X Inst), U \in SUBSET [n : Name, id : VmId] DEF StRec
<1>15. Unset(st, d, n)
  BY <1>2, <1>3, <1>4, <1>13, <1>14 DEF Unset, StRec
<1> QED BY <1>14, <1>15

LEMMA UnsetSafe ==
  ASSUME NEW st \in StRec, Safe(st), ~st.hang, NEW n \in Name, Exists(st, n),
         Creating(st, n) => st.vm[n].inst \in Inst,
         NEW d \in StRec, Unset(st, d, n)
  PROVE  Safe(d)
<1> USE DEF Unset
<1>0. st.vm \in [Name -> VmRec] /\ st.zombie \in [Name -> 0 .. MAX_VM - 1]
  BY DEF StRec
<1>1. Build(d) = Build(st) /\ Rm(d) = Rm(st) /\ Erase(d) = Erase(st)
  BY DEF Build, Rm, Erase
<1>2. d.vm[n] = NoVm /\ \A m \in Name : m # n => d.vm[m] = st.vm[m]
  BY <1>0
<1>3. Count(st) /\ Numbers(st) /\ Names(st) /\ Shape(st) /\ Erases(st) /\ Reapers(st)
  BY DEF Safe
<1>4. Count(d)
  BY <1>1, <1>3 DEF Count
<1>5. Names(d)
  <2>1. \A m \in Name : m \in d.newborn => ~Exists(d, m) /\ d.zombie[m] = 0
    BY <1>2, <1>3, NoVmIs DEF Names, Exists
  <2> QED BY <1>1, <1>3, <2>1 DEF Names
<1>6. Shape(d)
  BY <1>2, <1>3, NoVmIs DEF Shape, Exists, Creating
<1>7. Numbers(d)
  <2> DEFINE id == st.vm[n].id
  <2>1. id # 0 /\ \A m \in Name : m # n => st.vm[m].id # id
    BY <1>3 DEF Exists, Numbers
  <2>2. VmIds(d) = VmIds(st) \ {id} /\ id \in VmIds(st)
    <3> HIDE DEF Unset
    <3>1. \A m \in Name : d.vm[m].id = IF m = n THEN 0 ELSE st.vm[m].id
      BY <1>2, NoVmIs
    <3> QED BY <2>1, <3>1 DEF VmIds
  <2>3. BuildIds(d) = BuildIds(st) /\ id \notin BuildIds(st) /\ id \notin st.leaked
    <3>1. id \notin BuildIds(st)
      BY <1>3 DEF BuildIds, Numbers
    <3>2. id \notin st.leaked
      BY <1>3, <2>2 DEF Numbers
    <3> QED BY <1>1, <3>1, <3>2 DEF BuildIds
  <2>4. st.tab = st.leaked \cup BuildIds(st) \cup VmIds(st)
        /\ st.cursor \notin st.tab /\ \A m \in Name : st.zombie[m] # st.cursor
    BY <1>3 DEF Numbers
  <2> HIDE DEF id
  <2>5. d.tab = d.leaked \cup BuildIds(d) \cup VmIds(d)
        /\ d.cursor \notin d.tab /\ \A m \in Name : d.zombie[m] # d.cursor
    BY <2>2, <2>3, <2>4 DEF id
  <2>6. d.leaked \cap (BuildIds(d) \cup VmIds(d)) = {}
    BY <1>3, <2>2, <2>3 DEF Numbers
  <2>7. \A m, k \in Name :
          /\ d.vm[m].id # 0 /\ d.vm[m].id = d.vm[k].id => m = k
          /\ d.zombie[m] # 0 /\ d.zombie[m] = d.zombie[k] => m = k
          /\ d.zombie[m] # 0 /\ d.zombie[m] = d.vm[k].id => m = k
    <3> SUFFICES ASSUME NEW m \in Name, NEW k \in Name
                 PROVE  /\ d.vm[m].id # 0 /\ d.vm[m].id = d.vm[k].id => m = k
                        /\ d.zombie[m] # 0 /\ d.zombie[m] = d.zombie[k] => m = k
                        /\ d.zombie[m] # 0 /\ d.zombie[m] = d.vm[k].id => m = k
      OBVIOUS
    <3>1. d.vm[m].id \in {0, st.vm[m].id} /\ d.vm[k].id \in {0, st.vm[k].id}
      BY <1>2, NoVmIs
    <3>2. /\ st.vm[m].id # 0 /\ st.vm[m].id = st.vm[k].id => m = k
          /\ st.zombie[m] # 0 /\ st.zombie[m] = st.zombie[k] => m = k
          /\ st.zombie[m] # 0 /\ st.zombie[m] = st.vm[k].id => m = k
      BY <1>3 DEF Numbers
    <3> QED BY <3>1, <3>2
  <2>8. \A c \in Build(d) :
           /\ \A b \in Build(d) : c.id = b.id => c = b
           /\ \A m \in Name : d.vm[m].id # c.id /\ d.zombie[m] # c.id
    <3> SUFFICES ASSUME NEW c \in Build(st)
                 PROVE  /\ \A b \in Build(st) : c.id = b.id => c = b
                        /\ \A m \in Name : d.vm[m].id # c.id /\ d.zombie[m] # c.id
      BY <1>1
    <3>1. /\ \A b \in Build(st) : c.id = b.id => c = b
          /\ \A m \in Name : st.vm[m].id # c.id /\ st.zombie[m] # c.id
      BY <1>3 DEF Numbers
    <3>2. c.id # 0
      BY Fields DEF CloneRec, VmId
    <3> QED BY <1>2, <3>1, <3>2, NoVmIs
  <2>9. ~d.kout
    BY <1>3 DEF Numbers
  <2> QED BY <2>5, <2>6, <2>7, <2>8, <2>9 DEF Numbers
<1>8. Erases(d) /\ Reapers(d)
  <2>1. PICK z \in 0 .. MAX_VM - 1 : z = st.zombie[n]
    BY <1>0
  <2>2. d.zombie = [st.zombie EXCEPT ![n] = z]
    BY <1>0, <2>1
  <2>3. z # 0 /\ ~LostIn(d, n) => NoVm.abort \/ n \in Erased(st)
    <3> SUFFICES ASSUME z # 0, ~LostIn(d, n) PROVE n \in Erased(st)
      OBVIOUS
    <3>1. ~Creating(st, n) /\ ~LostIn(st, n)
      BY DEF LostIn
    <3> QED BY <1>3, <2>1, <3>1 DEF Shape, Reapers
  <2>4. \A t \in Erase(st) : d.timers[t] = st.timers[t]
    OBVIOUS
  <2>5. st.lost \subseteq d.lost /\ d.vm = [st.vm EXCEPT ![n] = NoVm]
    OBVIOUS
  <2> HIDE DEF Unset
  <2> QED BY <1>1, <1>3, <2>1, <2>2, <2>3, <2>4, <2>5, NoVmIs, OneRecordErases
<1> QED BY <1>4, <1>5, <1>6, <1>7, <1>8 DEF Safe

LEMMA UnsetOwed ==
  ASSUME NEW st \in StRec, NEW a \in 0 .. MaxAdd, Owed(st, a), NEW n \in Name,
         NEW d, Unset(st, d, n)
  PROVE  Owed(d, a)
<1> USE DEF Unset
<1>0. st.vm \in [Name -> VmRec]
  BY DEF StRec
<1>1. Build(d) = Build(st)
  BY DEF Build
<1>2. d.vm[n] = NoVm /\ \A m \in Name : m # n => d.vm[m] = st.vm[m]
  BY <1>0
<1>3. \A m \in Name : Creating(d, m) => Creating(st, m) /\ d.vm[m].inst = st.vm[m].inst
  BY <1>2, NoVmIs DEF Creating
<1>4. \A c \in Build(d) :
          /\ c.inst \in 1 .. a /\ d.ans[c.inst] = {}
          /\ \A b \in Build(d) : c.inst = b.inst => c = b
          /\ \A m \in Name : Creating(d, m) => d.vm[m].inst # c.inst
  BY <1>1, <1>3 DEF Owed
<1>5. ASSUME NEW m \in Name, Creating(d, m)
      PROVE  /\ d.vm[m].inst \in 1 .. a /\ d.ans[d.vm[m].inst] = {}
             /\ \A k \in Name : Creating(d, k) /\ d.vm[k].inst = d.vm[m].inst => m = k
  BY <1>3, <1>5 DEF Owed
<1>6. ASSUME ~d.hang, NEW i \in 1 .. a
      PROVE  \/ d.ans[i] # {}
             \/ \E c \in Build(d) : c.inst = i
             \/ \E m \in Name : d.vm[m].inst = i /\ Creating(d, m)
             \/ \E m \in Name : <<m, i>> \in d.lost
  <2>1. \/ st.ans[i] # {}
        \/ \E c \in Build(st) : c.inst = i
        \/ \E m \in Name : st.vm[m].inst = i /\ Creating(st, m)
        \/ \E m \in Name : <<m, i>> \in st.lost
    BY <1>6 DEF Owed
  <2>2. ASSUME NEW m \in Name, st.vm[m].inst = i, Creating(st, m)
        PROVE  \/ \E k \in Name : d.vm[k].inst = i /\ Creating(d, k)
               \/ \E k \in Name : <<k, i>> \in d.lost
    <3>1. CASE m = n
      BY <2>2, <3>1
    <3>2. CASE m # n
      BY <1>2, <2>2, <3>2 DEF Creating
    <3> QED BY <3>1, <3>2
  <2> QED BY <1>1, <2>1, <2>2
<1>7. \A i \in Inst : d.ans[i] \in {{}, {"ok"}, {"ko"}} /\ (i > a => d.ans[i] = {})
  BY DEF Owed
<1>8. d.coherency <= a
  BY DEF Owed
<1> QED BY <1>4, <1>5, <1>6, <1>7, <1>8 DEF Owed

\* timer_delayed_vm_cutoff.
LEMMA CutoffGood ==
  ASSUME NEW a \in 0 .. MaxAdd, NEW st, Good(st, a), ~st.hang,
         NEW t \in DOMAIN st.timers, t.k = "cutoff",
         NEW d, d = DelayedVmCutoff([st EXCEPT !.timers = @ (-) SetToBag({t})], t.n)
  PROVE  Good(d, a) /\ ~d.hang
<1>1. PICK e : e = [st EXCEPT !.timers = @ (-) SetToBag({t})]
  OBVIOUS
<1>2. st \in StRec /\ Safe(st) /\ CutOff(st) /\ Owed(st, a)
  BY DEF Good
<1>3. /\ e \in StRec /\ SameTables(st, e) /\ e.ans = st.ans
      /\ DOMAIN e.timers \subseteq DOMAIN st.timers
      /\ \A u \in DOMAIN st.timers : u # t => u \in DOMAIN e.timers
      /\ t.k # "erase" => SameErasures(st, e)
  BY <1>1, <1>2, TakeKeeps
<1>4. SameErasures(st, e)
  BY <1>3
<1>5. Safe(e) /\ Owed(e, a) /\ ~e.hang
  <2>1. Safe(e)
    BY <1>2, <1>3, <1>4, Fields, ErasuresKept
  <2>2. Owed(e, a)
    BY <1>2, <1>3, TablesKept
  <2> QED BY <1>3, <2>1, <2>2 DEF SameTables
<1>6. PICK n \in Name : n = t.n
  BY <1>2, Fields DEF TimerRec
<1>7. \A m \in Name : m # n /\ e.vm[m].tbk => m \in Cut(e)
  <2> SUFFICES ASSUME NEW m \in Name, m # n, e.vm[m].tbk PROVE m \in Cut(e)
    OBVIOUS
  <2>1. m \in Cut(st)
    BY <1>2, <1>3 DEF CutOff, SameTables
  <2>2. PICK u \in DOMAIN st.timers : u.k = "cutoff" /\ u.n = m
    BY <2>1 DEF Cut
  <2> QED BY <1>3, <1>6, <2>2 DEF Cut
<1>8. d = DelayedVmCutoff(e, n)
  BY <1>1, <1>6
<1>9. CASE ~Exists(e, n)
  <2>1. d = e
    BY <1>8, <1>9 DEF DelayedVmCutoff
  <2>2. e.vm[n] = NoVm
    BY <1>5, <1>9 DEF Safe, Shape
  <2>3. CutOff(e)
    BY <1>7, <2>2, NoVmIs DEF CutOff
  <2> QED BY <1>3, <1>5, <2>1, <2>3 DEF Good
<1>10. CASE Exists(e, n)
  <2>1. e.vm[n].id \in e.tab
    <3>1. e.vm[n].id \in VmIds(e)
      BY <1>10 DEF VmIds, Exists
    <3> QED BY <1>5, <3>1 DEF Safe, Numbers
  <2>2. Creating(e, n) => e.vm[n].inst \in Inst
    BY <1>5, Constants DEF Owed, Inst
  <2>3. d \in StRec /\ Unset(e, d, n)
    BY <1>3, <1>8, <1>10, <2>1, <2>2, CutoffIs
  <2>4. Safe(d)
    BY <1>3, <1>5, <1>10, <2>2, <2>3, UnsetSafe
  <2>5. Owed(d, a)
    BY <1>3, <1>5, <2>3, UnsetOwed
  <2>6. CutOff(d)
    <3>1. d.vm[n] = NoVm /\ \A m \in Name : m # n => d.vm[m] = e.vm[m]
      BY <1>3, <2>3 DEF Unset, StRec
    <3>2. Cut(d) = Cut(e)
      BY <2>3 DEF Unset, Cut
    <3> QED BY <1>7, <3>1, <3>2, NoVmIs DEF CutOff
  <2>7. ~d.hang
    BY <1>5, <2>3 DEF Unset
  <2> QED BY <2>3, <2>4, <2>5, <2>6, <2>7 DEF Good
<1> QED BY <1>9, <1>10

-----------------------------------------------------------------------------
(* The directories of a zombie are erased.                                   *)

\* The timer starts the clone that erases them.
LEMMA EraseGood ==
  ASSUME NEW a \in 0 .. MaxAdd, NEW st, Good(st, a),
         NEW t \in DOMAIN st.timers, t.k = "erase",
         NEW d, d = Launch([st EXCEPT !.timers = @ (-) SetToBag({t})],
                           Clone("rmdir", t.n, 0, t.ref))
  PROVE  Good(d, a) /\ d.hang = st.hang
<1>1. PICK e : e = [st EXCEPT !.timers = @ (-) SetToBag({t})]
  OBVIOUS
<1>2. st \in StRec /\ Safe(st) /\ CutOff(st) /\ Owed(st, a)
  BY DEF Good
<1>3. t \in Erase(st) /\ t \in TimerRec /\ t.n \in Name
  BY <1>2, Fields DEF Erase, TimerRec
<1>4. st.timers[t] = 1 /\ t.ref = st.zombie[t.n] /\ t.ref # 0
      /\ (\A u \in Erase(st) : u.n = t.n => u = t) /\ (\A c \in Rm(st) : c.n # t.n)
  BY <1>2, <1>3 DEF Safe, Erases
<1>5. /\ e \in StRec /\ SameTables(st, e) /\ Rm(e) = Rm(st) /\ e.ans = st.ans
      /\ DOMAIN e.timers \subseteq DOMAIN st.timers
      /\ \A u \in DOMAIN st.timers :
            u # t => u \in DOMAIN e.timers /\ e.timers[u] = st.timers[u]
      /\ t \notin DOMAIN e.timers
  BY <1>1, <1>2, <1>4, TakeKeeps
<1>6. PICK c : c = Clone("rmdir", t.n, 0, t.ref)
  OBVIOUS
<1>7. c \in CloneRec /\ c.k = "rmdir" /\ c.n = t.n /\ c.inst = 0 /\ c.id = t.ref
  <2>1. t.ref \in VmId
    <3>1. st.zombie[t.n] \in 0 .. MAX_VM - 1
      BY <1>2, <1>3, Fields
    <3> QED BY <1>4, <3>1, Constants DEF VmId
  <2>2. 0 \in 0 .. MaxAdd
    BY Constants
  <2> QED BY <1>3, <1>6, <2>1, <2>2 DEF Clone, CloneRec
<1>8. PICK C \in SUBSET CloneRec : C = e.clones \cup {c}
  BY <1>5, <1>7, Fields
<1>9. d = [e EXCEPT !.clones = C]
  BY <1>1, <1>5, <1>6, <1>8 DEF Launch, StRec
<1>10. d \in StRec /\ d.clones = C /\ d.timers = e.timers /\ d.ans = e.ans
       /\ d.tab = e.tab /\ d.cursor = e.cursor /\ d.zombie = e.zombie
       /\ d.newborn = e.newborn /\ d.coherency = e.coherency
       /\ d.lost = e.lost /\ d.leaked = e.leaked
       /\ d.kout = e.kout /\ d.hang = e.hang /\ d.vm = e.vm
  BY <1>5, <1>9 DEF StRec
<1>11. Build(d) = Build(e) /\ Rm(d) = Rm(st) \cup {c}
  BY <1>5, <1>7, <1>8, <1>10 DEF Build, Rm
<1>12. Erase(d) = Erase(st) \ {t} /\ Cut(st) \subseteq Cut(d)
  BY <1>5, <1>10 DEF Erase, Cut
<1>13. SameTables(st, d)
  BY <1>5, <1>10, <1>11 DEF SameTables
<1>14. Erased(d) = Erased(st)
  <2>1. \A n : n \in Erased(d) => n \in Erased(st)
    BY <1>3, <1>7, <1>11, <1>12 DEF Erased
  <2>2. \A n : n \in Erased(st) => n \in Erased(d)
    BY <1>7, <1>11, <1>12 DEF Erased
  <2> QED BY <2>1, <2>2 DEF Erased
<1>15. Erases(st) /\ Reapers(st) /\ d.zombie = st.zombie
  BY <1>2, <1>13 DEF Safe, SameTables
<1>16. Erases(d)
  <2>1. ASSUME NEW u \in Erase(d)
        PROVE  /\ d.timers[u] = 1 /\ u.ref = d.zombie[u.n] /\ u.ref # 0
               /\ \A v \in Erase(d) : v.n = u.n => v = u
               /\ \A x \in Rm(d) : x.n # u.n
    <3>1. u \in Erase(st) /\ u # t /\ u \in DOMAIN st.timers
      BY <1>12 DEF Erase
    <3>2. /\ st.timers[u] = 1 /\ u.ref = st.zombie[u.n] /\ u.ref # 0
          /\ \A v \in Erase(st) : v.n = u.n => v = u
          /\ \A x \in Rm(st) : x.n # u.n
      BY <1>15, <3>1 DEF Erases
    <3>3. u.n # t.n
      BY <1>4, <3>1
    <3>4. d.timers[u] = st.timers[u]
      BY <1>5, <1>10, <3>1
    <3> QED BY <1>7, <1>11, <1>12, <1>15, <3>2, <3>3, <3>4
  <2>2. \A x \in Rm(d) : x.id = d.zombie[x.n] /\ x.inst = 0
    BY <1>4, <1>7, <1>11, <1>15 DEF Erases
  <2>3. \A n \in Erased(d) : Exists(d, n) => d.vm[n].tbk /\ ~Creating(d, n)
    <3>1. \A n \in Erased(st) : n \in Name /\ (Exists(st, n) => st.vm[n].tbk /\ ~Creating(st, n))
      BY <1>2, <1>15, ErasedAre DEF Erases
    <3> QED BY <1>13, <1>14, <3>1, TablesKept DEF SameTables
  <2> QED BY <2>1, <2>2, <2>3 DEF Erases
<1>17. Reapers(d)
  BY <1>13, <1>14, <1>15 DEF Reapers, LostIn, SameTables
<1>18. Count(d) /\ Numbers(d) /\ Names(d) /\ Shape(d) /\ Owed(d, a)
  <2>1. d.ans = st.ans
    BY <1>5, <1>10
  <2>2. Count(st) /\ Numbers(st) /\ Names(st) /\ Shape(st)
    BY <1>2 DEF Safe
  <2> QED BY <1>2, <1>13, <2>1, <2>2, TablesKept
<1>19. CutOff(d)
  BY <1>2, <1>12, <1>13 DEF CutOff, SameTables
<1> QED BY <1>10, <1>13, <1>16, <1>17, <1>18, <1>19 DEF Good, Safe, SameTables

\* The clone ends: it finds the zombie it was launched for.
Reaped(st, c) == DelZombie([st EXCEPT !.clones = @ \ {c}], c.n)
Emptied(e, c) == [e EXCEPT !.pidfile = @ \ {c.id}]

LEMMA RmdirGood ==
  ASSUME NEW a \in 0 .. MaxAdd, NEW st, Good(st, a), NEW c \in st.clones, c.k = "rmdir",
         NEW e, e = Reaped(st, c), NEW d \in {e, Emptied(e, c)}
  PROVE  st.zombie[c.n] # 0 /\ Good(d, a) /\ d.hang = st.hang
<1>1. st \in StRec /\ Safe(st) /\ CutOff(st) /\ Owed(st, a)
  BY DEF Good
<1>2. c \in Rm(st) /\ c \in CloneRec /\ c.n \in Name /\ c.id # 0
  BY <1>1, Fields DEF Rm, CloneRec, VmId
<1>3. Erases(st) /\ Reapers(st) /\ Count(st) /\ Numbers(st) /\ Names(st) /\ Shape(st)
  BY <1>1 DEF Safe
<1>4. c.id = st.zombie[c.n] /\ c.inst = 0 /\ st.zombie[c.n] # 0
  BY <1>2, <1>3 DEF Erases
<1>5. PICK n \in Name : n = c.n
  BY <1>2
<1>6. PICK C \in SUBSET CloneRec : C = st.clones \ {c}
  BY <1>1, Fields
<1>7. PICK Z \in [Name -> 0 .. MAX_VM - 1] : Z = [st.zombie EXCEPT ![n] = 0]
  <2>1. st.zombie \in [Name -> 0 .. MAX_VM - 1]
    BY <1>1 DEF StRec
  <2>2. 0 \in 0 .. MAX_VM - 1
    BY Constants
  <2> QED BY <2>1, <2>2
<1>8. PICK P \in SUBSET VmId : d = [st EXCEPT !.clones = C, !.zombie = Z, !.pidfile = P]
  <2>1. e = [st EXCEPT !.clones = C, !.zombie = Z]
    BY <1>1, <1>5, <1>6, <1>7 DEF DelZombie, Reaped, StRec
  <2>2. CASE d = e
    <3>1. PICK P \in SUBSET VmId : P = st.pidfile
      BY <1>1 DEF StRec
    <3>2. d = [st EXCEPT !.clones = C, !.zombie = Z, !.pidfile = P]
      BY <1>1, <2>1, <2>2, <3>1 DEF StRec
    <3> QED BY <3>2
  <2>3. CASE d = Emptied(e, c)
    <3>1. PICK P \in SUBSET VmId : P = st.pidfile \ {c.id}
      BY <1>1 DEF StRec
    <3>2. d = [st EXCEPT !.clones = C, !.zombie = Z, !.pidfile = P]
      BY <1>1, <2>1, <2>3, <3>1 DEF StRec, Emptied
    <3> QED BY <3>2
  <2> QED BY <2>2, <2>3
<1>9. d \in StRec /\ d.clones = C /\ d.timers = st.timers /\ d.ans = st.ans
      /\ d.tab = st.tab /\ d.cursor = st.cursor /\ d.zombie = [st.zombie EXCEPT ![n] = 0]
      /\ d.newborn = st.newborn /\ d.coherency = st.coherency
      /\ d.lost = st.lost /\ d.leaked = st.leaked
      /\ d.kout = st.kout /\ d.hang = st.hang /\ d.vm = st.vm
  BY <1>1, <1>7, <1>8 DEF StRec
<1>10. Build(d) = Build(st) /\ Rm(d) = Rm(st) \ {c} /\ Erase(d) = Erase(st) /\ Cut(d) = Cut(st)
  BY <1>2, <1>6, <1>9 DEF Build, Rm, Erase, Cut
<1>11. /\ Count(d) /\ Numbers(d) /\ Names(d) /\ Shape(d)
       /\ \A m \in Name : m # n => d.zombie[m] = st.zombie[m]
       /\ d.zombie[n] = 0
  <2>1. PICK w \in VmRec : w = st.vm[n]
    BY <1>1, Fields
  <2>2. PICK z \in 0 .. MAX_VM - 1 : z = 0
    BY Constants
  <2>3. d.vm = [st.vm EXCEPT ![n] = w] /\ d.zombie = [st.zombie EXCEPT ![n] = z]
    BY <1>1, <1>9, <2>1, <2>2 DEF StRec
  <2>4. OneName(st, d, n, w, z)
    BY <1>9, <1>10, <2>3 DEF OneName
  <2>5. w.abort => w.state # "free"
    BY <1>3, <2>1 DEF Shape, Creating
  <2>6. st \in StRec /\ w.id = st.vm[n].id /\ w.inst = st.vm[n].inst
    BY <1>1, <2>1
  <2>8. w.id = 0 => w = st.vm[n]
    BY <2>1
  <2>9. z \in {0, st.zombie[n], st.vm[n].id}
    BY <2>2
  <2>7. /\ Count(st) => Count(d)
        /\ Numbers(st) => Numbers(d)
        /\ Names(st) => Names(d)
        /\ Shape(st) => Shape(d)
        /\ \A m \in Name : /\ Exists(d, m) <=> Exists(st, m)
                           /\ d.vm[m].id = st.vm[m].id /\ d.vm[m].inst = st.vm[m].inst
                           /\ m # n => d.vm[m] = st.vm[m] /\ d.zombie[m] = st.zombie[m]
                           /\ LostIn(d, m) <=> LostIn(st, m)
        /\ d.vm[n] = w /\ d.zombie[n] = z
    BY ONLY n \in Name, w \in VmRec, z \in 0 .. MAX_VM - 1,
            <2>4, <2>5, <2>6, <2>8, <2>9, OneNameKeeps
  <2> QED BY <1>3, <2>2, <2>7
<1>12. \A x \in Rm(d) : x.n # n /\ x.n \in Name
  <2> SUFFICES ASSUME NEW x \in Rm(st), x # c PROVE x.n # n /\ x.n \in Name
    BY <1>10
  <2>1. x \in CloneRec /\ x.k = "rmdir" /\ x.n \in Name
    BY <1>1, Fields DEF Rm, CloneRec
  <2>2. x.id = st.zombie[x.n] /\ x.inst = 0
    BY <1>3 DEF Erases
  <2>3. x.n # n
    <3> SUFFICES ASSUME x.n = n PROVE x = c
      OBVIOUS
    <3>1. x.k = c.k /\ x.n = c.n /\ x.inst = c.inst /\ x.id = c.id
      BY <1>4, <1>5, <2>1, <2>2
    <3> QED BY <1>2, <2>1, <3>1 DEF CloneRec
  <2> QED BY <2>1, <2>3
<1>13. \A u \in Erase(d) : u.n # n /\ u.n \in Name
  <2>1. \A u \in Erase(st) : u.n \in Name
    BY <1>1, Fields DEF TimerRec
  <2> QED BY <1>2, <1>3, <1>5, <1>10, <2>1 DEF Erases
<1>14. Erased(d) \subseteq Erased(st) /\ \A m \in Erased(st) : m # n => m \in Erased(d)
  BY <1>5, <1>10 DEF Erased
<1>15. Erases(d)
  <2>1. \A u \in Erase(d) :
           /\ d.timers[u] = 1 /\ u.ref = d.zombie[u.n] /\ u.ref # 0
           /\ \A v \in Erase(d) : v.n = u.n => v = u
           /\ \A x \in Rm(d) : x.n # u.n
    <3> SUFFICES ASSUME NEW u \in Erase(d)
                 PROVE  /\ d.timers[u] = 1 /\ u.ref = d.zombie[u.n] /\ u.ref # 0
                        /\ \A v \in Erase(d) : v.n = u.n => v = u
                        /\ \A x \in Rm(d) : x.n # u.n
      OBVIOUS
    <3>1. /\ st.timers[u] = 1 /\ u.ref = st.zombie[u.n] /\ u.ref # 0
          /\ \A v \in Erase(st) : v.n = u.n => v = u
          /\ \A x \in Rm(st) : x.n # u.n
      BY <1>3, <1>10 DEF Erases
    <3>2. d.zombie[u.n] = st.zombie[u.n] /\ d.timers[u] = st.timers[u]
      BY <1>9, <1>11, <1>13
    <3> QED BY <1>10, <3>1, <3>2
  <2>2. \A x \in Rm(d) : x.id = d.zombie[x.n] /\ x.inst = 0
    BY <1>3, <1>10, <1>11, <1>12 DEF Erases
  <2>3. \A m \in Erased(d) : Exists(d, m) => d.vm[m].tbk /\ ~Creating(d, m)
    BY <1>3, <1>9, <1>14 DEF Erases, Exists, Creating
  <2> QED BY <2>1, <2>2, <2>3 DEF Erases
<1>16. Reapers(d)
  <2> SUFFICES ASSUME NEW m \in Name, d.zombie[m] # 0, ~LostIn(d, m)
               PROVE  d.vm[m].abort \/ m \in Erased(d)
    BY DEF Reapers
  <2>1. m # n /\ st.zombie[m] # 0 /\ ~LostIn(st, m)
    BY <1>9, <1>11 DEF LostIn
  <2> QED BY <1>3, <1>9, <1>14, <2>1 DEF Reapers
<1>17. CutOff(d)
  BY <1>1, <1>9, <1>10 DEF CutOff
<1>18. Owed(d, a)
  <2>1. SameOwing(st, d) /\ d.ans = st.ans
    BY <1>9, <1>10 DEF SameOwing, Creating
  <2> QED BY <1>1, <2>1, OwingKept
<1> QED BY <1>4, <1>9, <1>11, <1>15, <1>16, <1>17, <1>18 DEF Good, Safe

-----------------------------------------------------------------------------
(* A beat passes.                                                            *)

LEMMA SoonerIs ==
  ASSUME NEW t \in TimerRec
  PROVE  Sooner(t).k = t.k /\ Sooner(t).n = t.n /\ Sooner(t).ref = t.ref
<1>1. CASE t.left = 0
  BY <1>1 DEF Sooner
<1>2. CASE t.left # 0
  <2>1. Sooner(t) = [t EXCEPT !.left = @ - 1]
    BY <1>2 DEF Sooner
  <2> QED BY <2>1 DEF TimerRec
<1> QED BY <1>1, <1>2

LEMMA BeatGood ==
  ASSUME NEW a \in 0 .. MaxAdd, NEW st, Good(st, a),
         NEW d, d = [st EXCEPT !.timers = BeatBag(st.timers)]
  PROVE  Good(d, a) /\ d.hang = st.hang
<1>1. st \in StRec /\ Safe(st) /\ CutOff(st) /\ Owed(st, a)
  BY DEF Good
<1>2. st.timers \in TimerBag /\ Erase(st) \subseteq TimerRec /\ DOMAIN st.timers \subseteq TimerRec
  BY <1>1, Fields
<1>3. PICK A : A = BeatBag(st.timers)
  OBVIOUS
<1>4. /\ A \in TimerBag
      /\ DOMAIN A = {Sooner(t) : t \in DOMAIN st.timers}
      /\ \A t \in DOMAIN st.timers :
            (\A u \in DOMAIN st.timers : u.n = t.n /\ u.k = t.k => u = t) =>
                A[Sooner(t)] = st.timers[t]
  BY <1>2, <1>3, BeatBagIs
<1>5. d = [st EXCEPT !.timers = A]
  BY <1>3
<1>6. d \in StRec /\ d.timers = A /\ d.ans = st.ans /\ d.clones = st.clones /\ d.vm = st.vm
      /\ d.zombie = st.zombie /\ d.lost = st.lost
  BY <1>1, <1>4, <1>5 DEF StRec
<1>7. SameTables(st, d) /\ Rm(d) = Rm(st)
  BY <1>1, <1>5 DEF SameTables, Build, Rm, StRec
<1>8. Erase(d) = {Sooner(t) : t \in Erase(st)}
  <2>1. \A t \in DOMAIN st.timers : Sooner(t).k = t.k
    BY <1>2, SoonerIs
  <2> QED BY <1>4, <1>6, <2>1 DEF Erase
<1>9. Cut(st) \subseteq Cut(d)
  <2>1. \A t \in DOMAIN st.timers : Sooner(t).k = t.k /\ Sooner(t).n = t.n
    BY <1>2, SoonerIs
  <2> SUFFICES ASSUME NEW t \in DOMAIN st.timers, t.k = "cutoff" PROVE t.n \in Cut(d)
    BY DEF Cut
  <2>2. Sooner(t) \in DOMAIN d.timers /\ Sooner(t).k = "cutoff" /\ Sooner(t).n = t.n
    BY <1>4, <1>6, <2>1
  <2> QED BY <2>2 DEF Cut
<1>10. \A t \in Erase(st) : Sooner(t).n = t.n /\ Sooner(t).ref = t.ref
  BY <1>2, SoonerIs
<1>11. Erased(d) = Erased(st)
  <2>1. \A n : n \in Erased(d) => n \in Erased(st)
    BY <1>7, <1>8, <1>10 DEF Erased
  <2>2. \A n : n \in Erased(st) => n \in Erased(d)
    BY <1>7, <1>8, <1>10 DEF Erased
  <2> QED BY <2>1, <2>2 DEF Erased
<1>12. Erases(st) /\ Reapers(st)
  BY <1>1 DEF Safe
<1>13. Erases(d)
  <2>1. ASSUME NEW t \in Erase(st)
        PROVE  /\ d.timers[Sooner(t)] = 1 /\ t.ref = st.zombie[t.n] /\ t.ref # 0
               /\ \A v \in Erase(st) : v.n = t.n => v = t
               /\ \A x \in Rm(st) : x.n # t.n
    <3>1. /\ st.timers[t] = 1 /\ t.ref = st.zombie[t.n] /\ t.ref # 0
          /\ \A v \in Erase(st) : v.n = t.n => v = t
          /\ \A x \in Rm(st) : x.n # t.n
      BY <1>12 DEF Erases
    <3>2. t \in DOMAIN st.timers
          /\ \A u \in DOMAIN st.timers : u.n = t.n /\ u.k = t.k => u = t
      BY <3>1 DEF Erase
    <3> QED BY <1>4, <1>6, <3>1, <3>2
  <2>2. \A u \in Erase(d) :
           /\ d.timers[u] = 1 /\ u.ref = d.zombie[u.n] /\ u.ref # 0
           /\ \A v \in Erase(d) : v.n = u.n => v = u
           /\ \A x \in Rm(d) : x.n # u.n
    BY <1>6, <1>7, <1>8, <1>10, <2>1
  <2>3. \A x \in Rm(d) : x.id = d.zombie[x.n] /\ x.inst = 0
    BY <1>6, <1>7, <1>12 DEF Erases
  <2>4. \A n \in Erased(d) : Exists(d, n) => d.vm[n].tbk /\ ~Creating(d, n)
    BY <1>6, <1>11, <1>12 DEF Erases, Exists, Creating
  <2> QED BY <2>2, <2>3, <2>4 DEF Erases
<1>14. Reapers(d)
  BY <1>6, <1>11, <1>12 DEF Reapers, LostIn
<1>15. CutOff(d)
  BY <1>1, <1>6, <1>9 DEF CutOff
<1>16. Count(d) /\ Numbers(d) /\ Names(d) /\ Shape(d) /\ Owed(d, a)
  <2>1. Count(st) /\ Numbers(st) /\ Names(st) /\ Shape(st) /\ d.ans = st.ans
    BY <1>1, <1>6 DEF Safe
  <2> QED BY <1>1, <1>7, <2>1, TablesKept
<1> QED BY <1>6, <1>7, <1>13, <1>14, <1>15, <1>16 DEF Good, Safe, SameTables

-----------------------------------------------------------------------------
(* cfg_alloc_vm_id: the number the cursor is at, and the next free one.      *)

LEMMA LeastExists ==
  ASSUME NEW T \in SUBSET Nat, T # {}
  PROVE  \E x \in T : \A y \in T : x <= y
<1> DEFINE R == OpToRel(<, Nat)
<1>1. IsWellFoundedOn(R, Nat)
  BY NatLessThanWellFounded
<1>2. PICK x \in T : \A y \in T : <<y, x>> \notin R
  <2> HIDE DEF R
  <2> QED BY <1>1, WFMin
<1>3. \A y \in T : <<y, x>> \in R <=> y < x
  BY DEF OpToRel
<1> HIDE DEF R
<1>4. \A y \in T : x \in Nat /\ y \in Nat /\ ~(y < x)
  BY <1>2, <1>3
<1> QED BY <1>4

LEMMA NextIsFree ==
  ASSUME NEW st, NEW c, FreeIds(st) # {}
  PROVE  NextId(st, c) \in FreeIds(st)
<1> DEFINE after == {i \in FreeIds(st) : i > c}
           cand == IF after # {} THEN after ELSE FreeIds(st)
<1>1. cand \subseteq FreeIds(st) /\ cand # {}
  OBVIOUS
<1>2. cand \in SUBSET Nat
  BY <1>1, Constants DEF FreeIds, VmId
<1>3. NextId(st, c) = CHOOSE i \in cand : \A j \in cand : i <= j
  BY DEF NextId
<1> HIDE DEF cand
<1>4. \E i \in cand : \A j \in cand : i <= j
  BY <1>1, <1>2, LeastExists
<1> QED BY <1>1, <1>3, <1>4

Numbered(st, d, h, x, T) ==
    /\ T = st.tab \cup {st.cursor}
    /\ d = [st EXCEPT !.tab = T, !.cursor = x, !.hang = h]
    /\ h => VmId \subseteq T \cup {st.zombie[n] : n \in Name}
    /\ ~h => x \notin T /\ \A n \in Name : st.zombie[n] # x

\* It never meets a KOUT, and hangs when no number is left.
LEMMA AllocIs ==
  ASSUME NEW st \in StRec, Numbers(st), ~st.hang,
         NEW d, d = AllocId(st)
  PROVE  \E h \in BOOLEAN, x \in VmId, T \in SUBSET VmId : Numbered(st, d, h, x, T)
<1>1. PICK T \in SUBSET VmId : T = st.tab \cup {st.cursor}
  BY DEF StRec
<1>2. PICK f : f = [st EXCEPT !.tab = T]
  OBVIOUS
<1>3. f = [st EXCEPT !.tab = @ \cup {st.cursor}] /\ f.tab = T /\ f.zombie = st.zombie
  BY <1>1, <1>2 DEF StRec
<1>4. st.cursor \notin st.tab /\ st.cursor \in VmId /\ st.tab \subseteq VmId
      /\ \A n \in Name : st.zombie[n] # st.cursor
  BY DEF Numbers, StRec
<1>5. \A n \in Name : st.vm[n].id # 0 => st.vm[n].id \in st.tab
  BY DEF Numbers, VmIds
<1>6. ~IsZombieId(st, st.cursor) /\ ~\E n \in Name : st.vm[n].id = st.cursor
  BY <1>4, <1>5 DEF IsZombieId, VmId
<1>7. CASE FreeIds(f) = {}
  <2>1. d = [f EXCEPT !.hang = TRUE]
    BY <1>3, <1>4, <1>7 DEF AllocId
  <2>2. d = [st EXCEPT !.tab = T, !.cursor = st.cursor, !.hang = TRUE]
    BY <1>2, <2>1 DEF StRec
  <2>3. VmId \subseteq T \cup {st.zombie[n] : n \in Name}
    BY <1>3, <1>7 DEF FreeIds, IsZombieId
  <2> QED BY <1>1, <1>4, <2>2, <2>3 DEF Numbered
<1>8. CASE FreeIds(f) # {}
  <2>1. PICK x : x = NextId(f, st.cursor)
    OBVIOUS
  <2>2. x \in VmId /\ x \notin T /\ \A n \in Name : st.zombie[n] # x
    <3>1. x \in FreeIds(f)
      BY <1>8, <2>1, NextIsFree
    <3> QED BY <1>3, <3>1 DEF FreeIds, IsZombieId
  <2>3. ~\E n \in Name : st.vm[n].id = x
    BY <1>1, <1>5, <2>2 DEF VmId
  <2>4. d = [f EXCEPT !.cursor = x]
    BY <1>3, <1>4, <1>6, <1>8, <2>1, <2>3 DEF AllocId
  <2>5. d = [st EXCEPT !.tab = T, !.cursor = x, !.hang = FALSE]
    BY <1>2, <2>4 DEF StRec
  <2> QED BY <1>1, <2>2, <2>5 DEF Numbered
<1> QED BY <1>7, <1>8

-----------------------------------------------------------------------------
(* recv_add_vm.                                                              *)

\* Every number is in use: the server hangs in cfg_alloc_vm_id.
LEMMA AddHangs ==
  ASSUME NEW a \in 0 .. MaxAdd, NEW st, Good(st, a), ~st.hang,
         NEW d, d = AllocId(st), d.kout \/ d.hang
  PROVE  Good(d, a + 1) /\ VmId \subseteq d.tab \cup {d.zombie[n] : n \in Name}
<1>1. st \in StRec /\ Safe(st) /\ CutOff(st) /\ Owed(st, a) /\ Numbers(st)
  BY DEF Good, Safe
<1>0. PICK h \in BOOLEAN, x \in VmId, T \in SUBSET VmId : Numbered(st, d, h, x, T)
  BY <1>1, AllocIs
<1>2. /\ T = st.tab \cup {st.cursor}
      /\ d = [st EXCEPT !.tab = T, !.cursor = x, !.hang = h]
      /\ h => VmId \subseteq T \cup {st.zombie[n] : n \in Name}
  BY <1>0 DEF Numbered
<1>3. d \in StRec /\ d.tab = T /\ d.hang = h /\ d.kout = st.kout
      /\ d.vm = st.vm /\ d.zombie = st.zombie /\ d.timers = st.timers /\ d.clones = st.clones
      /\ d.newborn = st.newborn /\ d.coherency = st.coherency
      /\ d.lost = st.lost /\ d.leaked = st.leaked /\ d.ans = st.ans
  <2>1. st \in StRec
    BY <1>1
  <2> QED BY ONLY <1>2, <2>1, h \in BOOLEAN, x \in VmId, T \in SUBSET VmId DEF StRec
<1>4. ~st.kout /\ d.hang
  BY <1>1, <1>3 DEF Numbers
<1>5. Build(d) = Build(st) /\ Rm(d) = Rm(st) /\ Erase(d) = Erase(st) /\ Cut(d) = Cut(st)
  BY <1>3 DEF Build, Rm, Erase, Cut
<1>6. Numbers(d)
  <2>1. BuildIds(d) = BuildIds(st) /\ VmIds(d) = VmIds(st)
    BY <1>3, <1>5 DEF BuildIds, VmIds
  <2> QED BY <1>1, <1>3, <1>4, <1>5, <2>1 DEF Numbers
<1>7. Count(d) /\ Names(d) /\ Shape(d)
  <2>1. Count(st) /\ Names(st) /\ Shape(st)
    BY <1>1 DEF Safe
  <2>2. Count(d)
    BY <1>3, <1>5, <2>1 DEF Count
  <2>3. Names(d)
    BY <1>3, <1>5, <2>1 DEF Names, Exists
  <2>4. Shape(d)
    BY <1>3, <2>1 DEF Shape, Exists, Creating
  <2> QED BY <2>2, <2>3, <2>4
<1>8. Erases(d) /\ Reapers(d)
  <2>1. Erases(st) /\ Reapers(st) /\ Erased(d) = Erased(st)
    BY <1>1, <1>5 DEF Safe, Erased
  <2>2. Erases(d)
    BY <1>3, <1>5, <2>1 DEF Erases, Exists, Creating
  <2>3. Reapers(d)
    BY <1>3, <2>1 DEF Reapers, LostIn
  <2> QED BY <2>2, <2>3
<1>9. CutOff(d)
  BY <1>1, <1>3, <1>5 DEF CutOff
<1>10. Owed(d, a + 1)
  <2>1. a \in Nat /\ \A i \in Inst : i \in Int
    BY Constants DEF Inst
  <2>2. \A i \in Inst : d.ans[i] \in {{}, {"ok"}, {"ko"}} /\ (i > a + 1 => d.ans[i] = {})
    BY <1>1, <1>3, <2>1 DEF Owed
  <2>3. \A i \in 1 .. a : i \in 1 .. a + 1
    BY <2>1
  <2>4. d.coherency <= a + 1
    <3>1. st.coherency <= a /\ st.coherency \in Int
      BY <1>1 DEF Owed, StRec
    <3> QED BY <1>3, <2>1, <3>1
  <2>5. \A c \in Build(d) :
          /\ c.inst \in 1 .. a + 1 /\ d.ans[c.inst] = {}
          /\ \A b \in Build(d) : c.inst = b.inst => c = b
          /\ \A n \in Name : Creating(d, n) => d.vm[n].inst # c.inst
    BY <1>1, <1>3, <1>5, <2>3 DEF Owed, Creating
  <2>6. \A n \in Name : Creating(d, n) =>
          /\ d.vm[n].inst \in 1 .. a + 1 /\ d.ans[d.vm[n].inst] = {}
          /\ \A m \in Name : Creating(d, m) /\ d.vm[m].inst = d.vm[n].inst => n = m
    BY <1>1, <1>3, <2>3 DEF Owed, Creating
  <2> QED BY <1>4, <2>2, <2>4, <2>5, <2>6 DEF Owed
<1>11. VmId \subseteq d.tab \cup {d.zombie[n] : n \in Name}
  BY <1>2, <1>3, <1>4
<1> QED BY <1>3, <1>6, <1>7, <1>8, <1>9, <1>10, <1>11 DEF Good, Safe

\* The request fails its tests: its number leaks.
Refused(st, f, i) == [SendStatusKo(f, i) EXCEPT !.leaked = @ \cup {st.cursor}]

LEMMA AddRefused ==
  ASSUME NEW a \in 0 .. MaxAdd, a + 1 \in Inst, NEW st, Good(st, a), ~st.hang,
         NEW f, f = AllocId(st), ~f.kout /\ ~f.hang,
         NEW d, d = Refused(st, f, a + 1)
  PROVE  Good(d, a + 1) /\ ~d.hang
<1>1. st \in StRec /\ Safe(st) /\ CutOff(st) /\ Owed(st, a) /\ Numbers(st)
  BY DEF Good, Safe
<1>0. PICK h \in BOOLEAN, x \in VmId, T \in SUBSET VmId : Numbered(st, f, h, x, T)
  BY <1>1, AllocIs
<1>2. /\ T = st.tab \cup {st.cursor}
      /\ f = [st EXCEPT !.tab = T, !.cursor = x, !.hang = h]
      /\ ~h => x \notin T /\ \A n \in Name : st.zombie[n] # x
  BY <1>0 DEF Numbered
<1>3. h = FALSE
  BY <1>1, <1>2 DEF StRec
<1>4. PICK id \in VmId : id = st.cursor
  BY <1>1 DEF StRec
<1>5. PICK A \in AnsType : A = [st.ans EXCEPT ![a + 1] = @ \cup {"ko"}]
  BY <1>1 DEF StRec, AnsType
<1>6. PICK L \in SUBSET VmId : L = st.leaked \cup {id}
  BY <1>1 DEF StRec
<1>7. d = [st EXCEPT !.tab = T, !.cursor = x, !.hang = h, !.ans = A, !.leaked = L]
  BY <1>1, <1>2, <1>4, <1>5, <1>6 DEF Refused, SendStatusKo, StRec
<1>8. d \in StRec /\ d.tab = T /\ d.cursor = x /\ d.hang = FALSE /\ d.kout = st.kout
      /\ d.vm = st.vm /\ d.zombie = st.zombie /\ d.timers = st.timers /\ d.clones = st.clones
      /\ d.newborn = st.newborn /\ d.coherency = st.coherency
      /\ d.lost = st.lost /\ d.leaked = L /\ d.ans = A
  <2>1. st \in StRec /\ A \in AnsType /\ h \in BOOLEAN
    BY <1>1, <1>3
  <2> QED BY ONLY <1>3, <1>7, <2>1, x \in VmId, T \in SUBSET VmId, L \in SUBSET VmId
          DEF StRec, AnsType
<1>9. Build(d) = Build(st) /\ Rm(d) = Rm(st) /\ Erase(d) = Erase(st) /\ Cut(d) = Cut(st)
  BY <1>8 DEF Build, Rm, Erase, Cut
<1>10. Numbers(d)
  <2>1. BuildIds(d) = BuildIds(st) /\ VmIds(d) = VmIds(st)
    BY <1>8, <1>9 DEF BuildIds, VmIds
  <2>2. st.tab = st.leaked \cup BuildIds(st) \cup VmIds(st) /\ id \notin st.tab
    BY <1>1, <1>4 DEF Numbers
  <2>3. d.tab = d.leaked \cup BuildIds(d) \cup VmIds(d)
    BY <1>2, <1>4, <1>6, <1>8, <2>1, <2>2
  <2>4. d.cursor \notin d.tab /\ \A n \in Name : d.zombie[n] # d.cursor
    BY <1>2, <1>3, <1>8
  <2>5. d.leaked \cap (BuildIds(d) \cup VmIds(d)) = {}
    BY <1>1, <1>6, <1>8, <2>1, <2>2 DEF Numbers
  <2> QED BY <1>1, <1>8, <1>9, <2>3, <2>4, <2>5 DEF Numbers
<1>11. Count(d) /\ Names(d) /\ Shape(d)
  <2>1. Count(st) /\ Names(st) /\ Shape(st)
    BY <1>1 DEF Safe
  <2>2. Count(d)
    BY <1>8, <1>9, <2>1 DEF Count
  <2>3. Names(d)
    BY <1>8, <1>9, <2>1 DEF Names, Exists
  <2>4. Shape(d)
    BY <1>8, <2>1 DEF Shape, Exists, Creating
  <2> QED BY <2>2, <2>3, <2>4
<1>12. Erases(d) /\ Reapers(d)
  <2>1. Erases(st) /\ Reapers(st) /\ Erased(d) = Erased(st)
    BY <1>1, <1>9 DEF Safe, Erased
  <2>2. Erases(d)
    BY <1>8, <1>9, <2>1 DEF Erases, Exists, Creating
  <2>3. Reapers(d)
    BY <1>8, <2>1 DEF Reapers, LostIn
  <2> QED BY <2>2, <2>3
<1>13. CutOff(d)
  BY <1>1, <1>8, <1>9 DEF CutOff
<1>14. Owed(d, a + 1)
  <2>1. a \in Nat /\ \A i \in Inst : i \in Int
    BY Constants DEF Inst
  <2>2. st.ans[a + 1] = {} /\ st.ans \in [Inst -> SUBSET {"ok", "ko"}]
    BY <1>1, <2>1 DEF Owed, StRec
  <2>3. d.ans[a + 1] = {"ko"} /\ \A i \in Inst : i # a + 1 => d.ans[i] = st.ans[i]
    BY <1>5, <1>8, <2>2
  <2>4. \A i \in 1 .. a : i \in 1 .. a + 1 /\ i # a + 1 /\ i \in Inst
    BY <2>1, Constants DEF Inst
  <2>5. ASSUME NEW i \in Inst
        PROVE  d.ans[i] \in {{}, {"ok"}, {"ko"}} /\ (i > a + 1 => d.ans[i] = {})
    <3>1. CASE i = a + 1
      BY <2>1, <2>3, <3>1
    <3>2. CASE i # a + 1
      <4>1. d.ans[i] = st.ans[i]
        BY <2>3, <3>2
      <4> QED BY <1>1, <2>1, <4>1 DEF Owed
    <3> QED BY <3>1, <3>2
  <2>6. d.coherency <= a + 1
    <3>1. st.coherency <= a /\ st.coherency \in Int
      BY <1>1 DEF Owed, StRec
    <3> QED BY <1>8, <2>1, <3>1
  <2>7. \A c \in Build(d) :
          /\ c.inst \in 1 .. a + 1 /\ d.ans[c.inst] = {}
          /\ \A b \in Build(d) : c.inst = b.inst => c = b
          /\ \A n \in Name : Creating(d, n) => d.vm[n].inst # c.inst
    <3> SUFFICES ASSUME NEW c \in Build(st)
                 PROVE  /\ c.inst \in 1 .. a + 1 /\ d.ans[c.inst] = {}
                        /\ \A b \in Build(st) : c.inst = b.inst => c = b
                        /\ \A n \in Name : Creating(d, n) => d.vm[n].inst # c.inst
      BY <1>9
    <3>1. /\ c.inst \in 1 .. a /\ st.ans[c.inst] = {}
          /\ \A b \in Build(st) : c.inst = b.inst => c = b
          /\ \A n \in Name : Creating(st, n) => st.vm[n].inst # c.inst
      BY <1>1 DEF Owed
    <3>2. d.ans[c.inst] = st.ans[c.inst]
      BY <2>3, <2>4, <3>1
    <3>3. \A n \in Name : Creating(d, n) <=> Creating(st, n)
      BY <1>8 DEF Creating
    <3> QED BY <1>8, <2>4, <3>1, <3>2, <3>3
  <2>8. \A n \in Name : Creating(d, n) =>
          /\ d.vm[n].inst \in 1 .. a + 1 /\ d.ans[d.vm[n].inst] = {}
          /\ \A m \in Name : Creating(d, m) /\ d.vm[m].inst = d.vm[n].inst => n = m
    <3> SUFFICES ASSUME NEW n \in Name, Creating(d, n)
                 PROVE  /\ d.vm[n].inst \in 1 .. a + 1 /\ d.ans[d.vm[n].inst] = {}
                        /\ \A m \in Name : Creating(d, m) /\ d.vm[m].inst = d.vm[n].inst => n = m
      OBVIOUS
    <3>1. d.vm = st.vm /\ \A m \in Name : Creating(d, m) <=> Creating(st, m)
      BY <1>8 DEF Creating
    <3>2. /\ st.vm[n].inst \in 1 .. a /\ st.ans[st.vm[n].inst] = {}
          /\ \A m \in Name : Creating(st, m) /\ st.vm[m].inst = st.vm[n].inst => n = m
      BY <1>1, <3>1 DEF Owed
    <3>3. d.ans[st.vm[n].inst] = st.ans[st.vm[n].inst]
      BY <2>3, <2>4, <3>2
    <3> QED BY <2>4, <3>1, <3>2, <3>3
  <2>9. ASSUME NEW i \in 1 .. a + 1
        PROVE  \/ d.ans[i] # {}
               \/ \E c \in Build(d) : c.inst = i
               \/ \E n \in Name : d.vm[n].inst = i /\ Creating(d, n)
               \/ \E n \in Name : <<n, i>> \in d.lost
    <3>1. CASE i = a + 1
      BY <2>3, <3>1
    <3>2. CASE i # a + 1
      <4>1. i \in 1 .. a
        BY <2>1, <3>2
      <4>2. \/ st.ans[i] # {}
            \/ \E c \in Build(st) : c.inst = i
            \/ \E n \in Name : st.vm[n].inst = i /\ Creating(st, n)
            \/ \E n \in Name : <<n, i>> \in st.lost
        BY <1>1, <4>1 DEF Owed
      <4> QED BY <1>8, <1>9, <2>3, <2>4, <4>1, <4>2 DEF Creating
    <3> QED BY <3>1, <3>2
  <2> QED BY <2>5, <2>6, <2>7, <2>8, <2>9 DEF Owed
<1> QED BY <1>8, <1>10, <1>11, <1>12, <1>13, <1>14 DEF Good, Safe

\* The clone that makes the directories is launched.
Begun(f, n, i, id) == Launch([f EXCEPT !.newborn = @ \cup {n}, !.coherency = @ + 1],
                             Clone("mkdir", n, i, id))

LEMMA AddBuilds ==
  ASSUME NEW a \in 0 .. MaxAdd, a + 1 \in Inst, NEW st, Good(st, a), ~st.hang,
         NEW n \in Name, st.zombie[n] = 0, n \notin st.newborn, ~Exists(st, n),
         NEW f, f = AllocId(st), ~f.kout /\ ~f.hang,
         NEW d, d = Begun(f, n, a + 1, st.cursor)
  PROVE  Good(d, a + 1) /\ ~d.hang
<1>1. st \in StRec /\ Safe(st) /\ CutOff(st) /\ Owed(st, a) /\ Numbers(st)
  BY DEF Good, Safe
<1>0. PICK h \in BOOLEAN, x \in VmId, T \in SUBSET VmId : Numbered(st, f, h, x, T)
  BY <1>1, AllocIs
<1>2. /\ T = st.tab \cup {st.cursor}
      /\ f = [st EXCEPT !.tab = T, !.cursor = x, !.hang = h]
      /\ ~h => x \notin T /\ \A m \in Name : st.zombie[m] # x
  BY <1>0 DEF Numbered
<1>3. h = FALSE
  BY <1>1, <1>2 DEF StRec
<1>4. PICK id \in VmId : id = st.cursor
  BY <1>1 DEF StRec
<1>5. PICK c : c = Clone("mkdir", n, a + 1, id)
  OBVIOUS
<1>6. c \in CloneRec /\ c.k = "mkdir" /\ c.n = n /\ c.inst = a + 1 /\ c.id = id
  <2>1. a + 1 \in 0 .. MaxAdd
    BY Constants DEF Inst
  <2> QED BY <1>5, <2>1 DEF Clone, CloneRec
<1>7. PICK C \in SUBSET CloneRec : C = st.clones \cup {c}
  BY <1>1, <1>6, Fields
<1>8. PICK B \in SUBSET Name : B = st.newborn \cup {n}
  BY <1>1 DEF StRec
<1>9. PICK q \in Int : q = st.coherency + 1
  BY <1>1 DEF StRec
<1>10. d = [st EXCEPT !.tab = T, !.cursor = x, !.hang = h, !.newborn = B,
                      !.coherency = q, !.clones = C]
  BY <1>1, <1>2, <1>4, <1>5, <1>7, <1>8, <1>9 DEF Begun, Launch, StRec
<1>11. d \in StRec /\ d.tab = T /\ d.cursor = x /\ d.hang = FALSE /\ d.kout = st.kout
       /\ d.vm = st.vm /\ d.zombie = st.zombie /\ d.timers = st.timers /\ d.clones = C
       /\ d.newborn = B /\ d.coherency = q
       /\ d.lost = st.lost /\ d.leaked = st.leaked /\ d.ans = st.ans
  <2>1. st \in StRec /\ h \in BOOLEAN
    BY <1>1, <1>3
  <2> QED BY ONLY <1>3, <1>10, <2>1, x \in VmId, T \in SUBSET VmId, B \in SUBSET Name,
                  q \in Int, C \in SUBSET CloneRec DEF StRec
<1>12. Build(d) = Build(st) \cup {c} /\ Rm(d) = Rm(st) /\ Erase(d) = Erase(st) /\ Cut(d) = Cut(st)
  BY <1>6, <1>7, <1>11 DEF Build, Rm, Erase, Cut
<1>13. st.tab = st.leaked \cup BuildIds(st) \cup VmIds(st) /\ id \notin st.tab
       /\ \A m \in Name : st.zombie[m] # id
  BY <1>1, <1>4 DEF Numbers
<1>14. \A b \in Build(st) : b.id # id /\ b.inst # a + 1 /\ b.n # n /\ b # c
  <2>1. \A b \in Build(st) : b.id # id
    BY <1>13 DEF BuildIds
  <2>2. \A b \in Build(st) : b.inst \in 1 .. a
    BY <1>1 DEF Owed
  <2>3. \A b \in Build(st) : b.n # n
    BY <1>1 DEF Safe, Names
  <2>4. \A i \in 1 .. a : i # a + 1
    OBVIOUS
  <2> QED BY <1>6, <2>1, <2>2, <2>3, <2>4
<1>15. \A m \in Name : st.vm[m].id # id
  BY <1>13 DEF VmIds, VmId
<1>16. Numbers(d)
  <2>1. BuildIds(d) = BuildIds(st) \cup {id} /\ VmIds(d) = VmIds(st)
    BY <1>6, <1>11, <1>12 DEF BuildIds, VmIds
  <2>2. d.tab = d.leaked \cup BuildIds(d) \cup VmIds(d)
    BY <1>2, <1>4, <1>11, <1>13, <2>1
  <2>3. d.cursor \notin d.tab /\ \A m \in Name : d.zombie[m] # d.cursor
    BY <1>2, <1>3, <1>11
  <2>4. d.leaked \cap (BuildIds(d) \cup VmIds(d)) = {}
    BY <1>1, <1>11, <1>13, <2>1 DEF Numbers
  <2>5. \A b \in Build(d) :
           /\ \A e \in Build(d) : b.id = e.id => b = e
           /\ \A m \in Name : d.vm[m].id # b.id /\ d.zombie[m] # b.id
    <3>1. \A b \in Build(st) :
             /\ \A e \in Build(st) : b.id = e.id => b = e
             /\ \A m \in Name : st.vm[m].id # b.id /\ st.zombie[m] # b.id
      BY <1>1 DEF Numbers
    <3> QED BY <1>6, <1>11, <1>12, <1>13, <1>14, <1>15, <3>1
  <2> QED BY <1>1, <1>11, <2>2, <2>3, <2>4, <2>5 DEF Numbers
<1>17. Count(d) /\ Names(d) /\ Shape(d)
  <2>1. Count(st) /\ Names(st) /\ Shape(st)
    BY <1>1 DEF Safe
  <2>2. Count(d)
    <3>1. IsFiniteSet(Build(st)) /\ st.coherency = Cardinality(Build(st)) /\ c \notin Build(st)
      BY <1>14, <2>1 DEF Count
    <3>2. IsFiniteSet(Build(st) \cup {c})
          /\ Cardinality(Build(st) \cup {c}) = Cardinality(Build(st)) + 1
      BY <3>1, FS_AddElement
    <3> QED BY <1>9, <1>11, <1>12, <3>1, <3>2 DEF Count
  <2>3. Names(d)
    <3>1. \A b \in Build(d) :
            b.n \in d.newborn /\ \A e \in Build(d) : b.n = e.n => b = e
      BY <1>6, <1>8, <1>11, <1>12, <1>14, <2>1 DEF Names
    <3>2. \A m \in Name : m \in d.newborn => ~Exists(d, m) /\ d.zombie[m] = 0
      BY <1>8, <1>11, <2>1 DEF Names, Exists
    <3> QED BY <3>1, <3>2 DEF Names
  <2>4. Shape(d)
    BY <1>11, <2>1 DEF Shape, Exists, Creating
  <2> QED BY <2>2, <2>3, <2>4
<1>18. Erases(d) /\ Reapers(d)
  <2>1. Erases(st) /\ Reapers(st) /\ Erased(d) = Erased(st)
    BY <1>1, <1>12 DEF Safe, Erased
  <2>2. Erases(d)
    BY <1>11, <1>12, <2>1 DEF Erases, Exists, Creating
  <2>3. Reapers(d)
    BY <1>11, <2>1 DEF Reapers, LostIn
  <2> QED BY <2>2, <2>3
<1>19. CutOff(d)
  BY <1>1, <1>11, <1>12 DEF CutOff
<1>20. Owed(d, a + 1)
  <2>1. a \in Nat /\ \A i \in Inst : i \in Int
    BY Constants DEF Inst
  <2>2. \A i \in 1 .. a : i \in 1 .. a + 1 /\ i # a + 1
    BY <2>1
  <2>3. a + 1 \in 1 .. a + 1 /\ st.ans[a + 1] = {}
    BY <1>1, <2>1 DEF Owed
  <2>4. \A i \in Inst : d.ans[i] \in {{}, {"ok"}, {"ko"}} /\ (i > a + 1 => d.ans[i] = {})
    BY <1>1, <1>11, <2>1 DEF Owed
  <2>5. d.coherency <= a + 1
    <3>1. st.coherency <= a /\ st.coherency \in Int
      BY <1>1 DEF Owed, StRec
    <3> QED BY <1>9, <1>11, <2>1, <3>1
  <2>6. \A m \in Name : Creating(d, m) =>
          /\ d.vm[m].inst \in 1 .. a + 1 /\ d.ans[d.vm[m].inst] = {} /\ d.vm[m].inst # a + 1
          /\ \A k \in Name : Creating(d, k) /\ d.vm[k].inst = d.vm[m].inst => m = k
    BY <1>1, <1>11, <2>2 DEF Owed, Creating
  <2>7. ASSUME NEW b \in Build(d)
        PROVE  /\ b.inst \in 1 .. a + 1 /\ d.ans[b.inst] = {}
               /\ \A e \in Build(d) : b.inst = e.inst => b = e
               /\ \A m \in Name : Creating(d, m) => d.vm[m].inst # b.inst
    <3>1. CASE b = c
      BY <1>6, <1>11, <1>12, <1>14, <2>3, <2>6, <3>1
    <3>2. CASE b \in Build(st)
      <4>1. /\ b.inst \in 1 .. a /\ st.ans[b.inst] = {}
            /\ \A e \in Build(st) : b.inst = e.inst => b = e
            /\ \A m \in Name : Creating(st, m) => st.vm[m].inst # b.inst
        BY <1>1, <3>2 DEF Owed
      <4> QED BY <1>6, <1>11, <1>12, <1>14, <2>2, <3>2, <4>1 DEF Creating
    <3> QED BY <1>12, <3>1, <3>2
  <2>8. ASSUME NEW i \in 1 .. a + 1
        PROVE  \/ d.ans[i] # {}
               \/ \E b \in Build(d) : b.inst = i
               \/ \E m \in Name : d.vm[m].inst = i /\ Creating(d, m)
               \/ \E m \in Name : <<m, i>> \in d.lost
    <3>1. CASE i = a + 1
      BY <1>6, <1>12, <3>1
    <3>2. CASE i # a + 1
      <4>1. i \in 1 .. a
        BY <2>1, <3>2
      <4>2. \/ st.ans[i] # {}
            \/ \E b \in Build(st) : b.inst = i
            \/ \E m \in Name : st.vm[m].inst = i /\ Creating(st, m)
            \/ \E m \in Name : <<m, i>> \in st.lost
        BY <1>1, <4>1 DEF Owed
      <4> QED BY <1>11, <1>12, <4>2 DEF Creating
    <3> QED BY <3>1, <3>2
  <2> QED BY <2>4, <2>5, <2>6, <2>7, <2>8 DEF Owed
<1> QED BY <1>11, <1>16, <1>17, <1>18, <1>19, <1>20 DEF Good, Safe

-----------------------------------------------------------------------------
(* death_of_mkdir_clone.                                                     *)

\* The clone c ended, nothing more is done yet.
Over(st, c) ==
    [[st EXCEPT !.clones = @ \ {c}] EXCEPT !.newborn = @ \ {c.n}, !.coherency = @ - 1]

IsOver(st, d, c) ==
    /\ d.newborn = st.newborn \ {c.n} /\ d.coherency = st.coherency - 1
    /\ d.tab = st.tab /\ d.cursor = st.cursor /\ d.zombie = st.zombie
    /\ d.lost = st.lost /\ d.timers = st.timers
    /\ d.kout = st.kout /\ d.hang = st.hang
    /\ Build(d) = Build(st) \ {c} /\ Rm(d) = Rm(st)

LEMMA OverIs ==
  ASSUME NEW st \in StRec, NEW c \in Build(st), NEW d, d = Over(st, c)
  PROVE  /\ d \in StRec /\ IsOver(st, d, c) /\ d.vm = st.vm /\ d.ans = st.ans
         /\ d.leaked = st.leaked /\ d.pidfile = st.pidfile /\ d.clones = st.clones \ {c}
<1>1. PICK C \in SUBSET CloneRec : C = st.clones \ {c}
  BY Fields
<1>2. PICK B \in SUBSET Name : B = st.newborn \ {c.n}
  BY DEF StRec
<1>3. PICK q \in Int : q = st.coherency - 1
  BY DEF StRec
<1>4. d = [st EXCEPT !.clones = C, !.newborn = B, !.coherency = q]
  BY <1>1, <1>2, <1>3 DEF Over, StRec
<1>5. d \in StRec /\ d.clones = C /\ d.newborn = B /\ d.coherency = q
      /\ d.tab = st.tab /\ d.cursor = st.cursor /\ d.zombie = st.zombie
      /\ d.lost = st.lost /\ d.timers = st.timers
      /\ d.kout = st.kout /\ d.hang = st.hang /\ d.vm = st.vm /\ d.ans = st.ans
      /\ d.leaked = st.leaked /\ d.pidfile = st.pidfile
  BY ONLY <1>4, st \in StRec, C \in SUBSET CloneRec, B \in SUBSET Name, q \in Int DEF StRec
<1>6. Build(d) = Build(st) \ {c} /\ Rm(d) = Rm(st)
  BY <1>1, <1>5 DEF Build, Rm
<1> QED BY <1>1, <1>2, <1>3, <1>5, <1>6 DEF IsOver

LEMMA OverCount ==
  ASSUME NEW st \in StRec, Count(st), NEW c \in Build(st), NEW d, IsOver(st, d, c)
  PROVE  Count(d)
<1>1. IsFiniteSet(Build(st)) /\ st.coherency = Cardinality(Build(st))
  BY DEF Count
<1>2. IsFiniteSet(Build(st) \ {c})
      /\ Cardinality(Build(st) \ {c}) = Cardinality(Build(st)) - 1
  BY <1>1, FS_RemoveElement
<1> QED BY <1>1, <1>2 DEF Count, IsOver

LEMMA OverNames ==
  ASSUME NEW st \in StRec, Names(st), NEW c \in Build(st), NEW d, IsOver(st, d, c),
         \A m \in Name : m # c.n => (Exists(d, m) <=> Exists(st, m))
  PROVE  Names(d)
<1>1. \A b \in Build(d) :
        b.n \in d.newborn /\ \A e \in Build(d) : b.n = e.n => b = e
  BY DEF Names, IsOver
<1>2. \A m \in Name : m \in d.newborn => ~Exists(d, m) /\ d.zombie[m] = 0
  BY DEF Names, IsOver
<1> QED BY <1>1, <1>2 DEF Names

\* The creation of c fails and its client is told.
LEMMA OverAnswered ==
  ASSUME NEW a \in 0 .. MaxAdd, NEW st \in StRec, Owed(st, a), NEW c \in Build(st),
         NEW d \in StRec, IsOver(st, d, c),
         \A m \in Name : /\ Creating(d, m) <=> Creating(st, m)
                         /\ Creating(st, m) => d.vm[m].inst = st.vm[m].inst,
         d.ans = [st.ans EXCEPT ![c.inst] = @ \cup {"ko"}]
  PROVE  Owed(d, a)
<1>1. c.inst \in 1 .. a /\ c.inst \in Inst /\ st.ans[c.inst] = {}
  BY Constants DEF Owed, Inst
<1>2. st.ans \in [Inst -> SUBSET {"ok", "ko"}]
  BY DEF StRec
<1>3. d.ans[c.inst] = {"ko"} /\ \A i \in Inst : i # c.inst => d.ans[i] = st.ans[i]
  BY <1>1, <1>2
<1>4. \A i \in 1 .. a : i \in Inst
  BY Constants DEF Inst
<1>5. ASSUME NEW i \in Inst
      PROVE  d.ans[i] \in {{}, {"ok"}, {"ko"}} /\ (i > a => d.ans[i] = {})
  <2>1. CASE i = c.inst
    BY <1>1, <1>3, <2>1
  <2>2. CASE i # c.inst
    <3>1. d.ans[i] = st.ans[i]
      BY <1>3, <2>2
    <3> QED BY <3>1 DEF Owed
  <2> QED BY <2>1, <2>2
<1>6. ASSUME NEW b \in Build(d)
      PROVE  /\ b.inst \in 1 .. a /\ d.ans[b.inst] = {}
             /\ \A e \in Build(d) : b.inst = e.inst => b = e
             /\ \A m \in Name : Creating(d, m) => d.vm[m].inst # b.inst
  <2>1. b \in Build(st) /\ b # c
    BY DEF IsOver
  <2>2. /\ b.inst \in 1 .. a /\ st.ans[b.inst] = {}
        /\ \A e \in Build(st) : b.inst = e.inst => b = e
        /\ \A m \in Name : Creating(st, m) => st.vm[m].inst # b.inst
    BY <2>1 DEF Owed
  <2>3. b.inst # c.inst
    BY <2>1, <2>2
  <2> QED BY <1>3, <1>4, <2>2, <2>3 DEF IsOver
<1>7. ASSUME NEW m \in Name, Creating(d, m)
      PROVE  /\ d.vm[m].inst \in 1 .. a /\ d.ans[d.vm[m].inst] = {}
             /\ \A k \in Name : Creating(d, k) /\ d.vm[k].inst = d.vm[m].inst => m = k
  <2>1. /\ st.vm[m].inst \in 1 .. a /\ st.ans[st.vm[m].inst] = {}
        /\ \A k \in Name : Creating(st, k) /\ st.vm[k].inst = st.vm[m].inst => m = k
    BY <1>7 DEF Owed
  <2>2. st.vm[m].inst # c.inst
    BY <1>7 DEF Owed
  <2> QED BY <1>3, <1>4, <1>7, <2>1, <2>2
<1>8. ASSUME ~d.hang, NEW i \in 1 .. a
      PROVE  \/ d.ans[i] # {}
             \/ \E b \in Build(d) : b.inst = i
             \/ \E m \in Name : d.vm[m].inst = i /\ Creating(d, m)
             \/ \E m \in Name : <<m, i>> \in d.lost
  <2>1. CASE i = c.inst
    BY <1>3, <2>1
  <2>2. CASE i # c.inst
    <3>1. \/ st.ans[i] # {}
          \/ \E b \in Build(st) : b.inst = i
          \/ \E m \in Name : st.vm[m].inst = i /\ Creating(st, m)
          \/ \E m \in Name : <<m, i>> \in st.lost
      BY <1>8 DEF Owed, IsOver
    <3> QED BY <1>3, <1>4, <2>2, <3>1 DEF IsOver
  <2> QED BY <2>1, <2>2
<1>9. d.coherency <= a
  <2>1. st.coherency <= a /\ st.coherency \in Int /\ a \in Int
    BY DEF Owed, StRec
  <2> QED BY <2>1 DEF IsOver
<1> QED BY <1>5, <1>6, <1>7, <1>8, <1>9 DEF Owed

\* The directories could not be made: the number leaks.
Failed(st, c) == [SendStatusKo(Over(st, c), c.inst) EXCEPT !.leaked = @ \cup {c.id}]

LEMMA MkdirFails ==
  ASSUME NEW a \in 0 .. MaxAdd, NEW st, Good(st, a), NEW c \in Build(st),
         NEW d, d = Failed(st, c)
  PROVE  Good(d, a) /\ d.hang = st.hang
<1>1. st \in StRec /\ Safe(st) /\ CutOff(st) /\ Owed(st, a)
  BY DEF Good
<1>2. PICK e : e = Over(st, c)
  OBVIOUS
<1>3. e \in StRec /\ IsOver(st, e, c) /\ e.vm = st.vm /\ e.ans = st.ans /\ e.leaked = st.leaked
  BY <1>1, <1>2, OverIs
<1>4. c.inst \in Inst /\ c.id \in VmId
  <2>1. c.inst \in 1 .. a
    BY <1>1 DEF Owed
  <2>2. c.id \in VmId
    BY <1>1, Fields DEF CloneRec
  <2> QED BY <2>1, <2>2, Constants DEF Inst
<1>5. PICK A \in AnsType : A = [st.ans EXCEPT ![c.inst] = @ \cup {"ko"}]
  BY <1>1, <1>4 DEF StRec, AnsType
<1>6. PICK L \in SUBSET VmId : L = st.leaked \cup {c.id}
  BY <1>1, <1>4 DEF StRec
<1>7. d = [e EXCEPT !.ans = A, !.leaked = L]
  BY <1>2, <1>3, <1>5, <1>6 DEF Failed, SendStatusKo, StRec
<1>8. d \in StRec /\ d.ans = A /\ d.leaked = L /\ d.vm = st.vm
      /\ d.newborn = e.newborn /\ d.coherency = e.coherency
      /\ d.tab = e.tab /\ d.cursor = e.cursor /\ d.zombie = e.zombie
      /\ d.lost = e.lost /\ d.timers = e.timers
      /\ d.kout = e.kout /\ d.hang = e.hang /\ d.clones = e.clones
  BY ONLY <1>3, <1>7, A \in AnsType, L \in SUBSET VmId DEF StRec, AnsType
<1>9. IsOver(st, d, c)
  <2>1. Build(d) = Build(e) /\ Rm(d) = Rm(e)
    BY <1>8 DEF Build, Rm
  <2> QED BY <1>3, <1>8, <2>1 DEF IsOver
<1>10. Count(st) /\ Numbers(st) /\ Names(st) /\ Shape(st) /\ Erases(st) /\ Reapers(st)
  BY <1>1 DEF Safe
<1>11. Count(d) /\ Names(d) /\ Shape(d)
  <2>1. Count(d)
    BY <1>1, <1>9, <1>10, OverCount
  <2>2. \A m \in Name : Exists(d, m) <=> Exists(st, m)
    BY <1>8 DEF Exists
  <2>3. Names(d)
    BY <1>1, <1>9, <1>10, <2>2, OverNames
  <2>4. Shape(d)
    BY <1>8, <1>10 DEF Shape, Exists, Creating
  <2> QED BY <2>1, <2>3, <2>4
<1>12. Numbers(d)
  <2>1. \A b \in Build(st) : b.id = c.id => b = c
    BY <1>10 DEF Numbers
  <2>2. BuildIds(d) = BuildIds(st) \ {c.id} /\ c.id \in BuildIds(st) /\ VmIds(d) = VmIds(st)
    <3>1. Build(d) = Build(st) \ {c}
      BY <1>9 DEF IsOver
    <3>2. VmIds(d) = VmIds(st)
      BY <1>8 DEF VmIds
    <3> QED BY <2>1, <3>1, <3>2 DEF BuildIds
  <2>3. ~d.hang =>
          /\ d.tab = d.leaked \cup BuildIds(d) \cup VmIds(d)
          /\ d.cursor \notin d.tab /\ \A n \in Name : d.zombie[n] # d.cursor
    <3> SUFFICES ASSUME ~d.hang
                 PROVE  /\ d.tab = d.leaked \cup BuildIds(d) \cup VmIds(d)
                        /\ d.cursor \notin d.tab /\ \A n \in Name : d.zombie[n] # d.cursor
      OBVIOUS
    <3>1. /\ st.tab = st.leaked \cup BuildIds(st) \cup VmIds(st)
          /\ st.cursor \notin st.tab /\ \A n \in Name : st.zombie[n] # st.cursor
      BY <1>9, <1>10 DEF Numbers, IsOver
    <3> QED BY <1>6, <1>8, <1>9, <2>2, <3>1 DEF IsOver
  <2>4. d.leaked \cap (BuildIds(d) \cup VmIds(d)) = {}
    <3>1. c.id \notin VmIds(st)
      BY <1>10 DEF VmIds, Numbers
    <3>2. st.leaked \cap (BuildIds(st) \cup VmIds(st)) = {}
      BY <1>10 DEF Numbers
    <3> QED BY <1>6, <1>8, <2>2, <3>1, <3>2
  <2>5. ~d.kout
    BY <1>9, <1>10 DEF Numbers, IsOver
  <2>6. \A n, m \in Name :
          /\ d.vm[n].id # 0 /\ d.vm[n].id = d.vm[m].id => n = m
          /\ d.zombie[n] # 0 /\ d.zombie[n] = d.zombie[m] => n = m
          /\ d.zombie[n] # 0 /\ d.zombie[n] = d.vm[m].id => n = m
    BY <1>8, <1>9, <1>10 DEF Numbers, IsOver
  <2>7. \A b \in Build(d) :
          /\ \A k \in Build(d) : b.id = k.id => b = k
          /\ \A n \in Name : d.vm[n].id # b.id /\ d.zombie[n] # b.id
    BY <1>8, <1>9, <1>10 DEF Numbers, IsOver
  <2> QED BY <2>3, <2>4, <2>5, <2>6, <2>7 DEF Numbers
<1>13. Erase(d) = Erase(st) /\ Cut(d) = Cut(st) /\ Erased(d) = Erased(st)
  BY <1>9 DEF IsOver, Erase, Cut, Erased
<1>14. Erases(d)
  BY <1>8, <1>9, <1>10, <1>13 DEF Erases, IsOver, Exists, Creating
<1>15. Reapers(d)
  BY <1>8, <1>9, <1>10, <1>13 DEF Reapers, LostIn, IsOver
<1>16. CutOff(d)
  BY <1>1, <1>8, <1>13 DEF CutOff
<1>17. Owed(d, a)
  <2>1. \A m \in Name : /\ Creating(d, m) <=> Creating(st, m)
                        /\ Creating(st, m) => d.vm[m].inst = st.vm[m].inst
    BY <1>8 DEF Creating
  <2>2. d \in StRec /\ d.ans = [st.ans EXCEPT ![c.inst] = @ \cup {"ko"}]
    BY <1>5, <1>8
  <2> QED BY <1>1, <1>9, <2>1, <2>2, OverAnswered
<1>18. d.hang = st.hang
  BY <1>9 DEF IsOver
<1> QED BY <1>8, <1>11, <1>12, <1>14, <1>15, <1>16, <1>17, <1>18 DEF Good, Safe

\* The machine w is made, with the number and the request of the clone.
LEMMA BornSafe ==
  ASSUME NEW st \in StRec, Safe(st), CutOff(st), NEW c \in Build(st), NEW w \in VmRec,
         w.id = c.id, w.abort = FALSE, w.tbk = FALSE,
         NEW d, IsOver(st, d, c), d.leaked = st.leaked,
         d.vm = [st.vm EXCEPT ![c.n] = w]
  PROVE  Safe(d) /\ CutOff(d)
<1>1. Count(st) /\ Numbers(st) /\ Names(st) /\ Shape(st) /\ Erases(st) /\ Reapers(st)
  BY DEF Safe
<1>2. PICK n \in Name : n = c.n
  BY Fields DEF CloneRec
<1>3. c.id \in VmId /\ c.id # 0
  BY Fields DEF CloneRec, VmId
<1>4. st.vm \in [Name -> VmRec] /\ st.zombie \in [Name -> 0 .. MAX_VM - 1]
  BY DEF StRec
<1>5. d.vm[n] = w /\ \A m \in Name : m # n => d.vm[m] = st.vm[m]
  BY <1>2, <1>4
<1>6. st.zombie[n] = 0 /\ d.zombie = st.zombie /\ ~Exists(st, n) /\ st.vm[n].id = 0
  BY <1>1, <1>2 DEF Names, IsOver, Exists
<1>7. Count(d)
  BY <1>1, OverCount
<1>8. Names(d)
  <2>1. \A m \in Name : m # c.n => (Exists(d, m) <=> Exists(st, m))
    BY <1>2, <1>5 DEF Exists
  <2> QED BY <1>1, <2>1, OverNames
<1>9. Shape(d)
  <2> SUFFICES ASSUME NEW m \in Name
               PROVE  /\ ~Exists(d, m) => d.vm[m] = NoVm
                      /\ d.vm[m].abort => Creating(d, m)
    BY DEF Shape
  <2>1. CASE m = n
    BY <1>3, <1>5, <2>1 DEF Exists
  <2>2. CASE m # n
    BY <1>1, <1>5, <2>2 DEF Shape, Exists, Creating
  <2> QED BY <2>1, <2>2
<1>10. Numbers(d)
  <2>1. \A b \in Build(st) : b.id = c.id => b = c
    BY <1>1 DEF Numbers
  <2>2. Build(d) = Build(st) \ {c} /\ BuildIds(d) = BuildIds(st) \ {c.id} /\ c.id \in BuildIds(st)
    BY <2>1 DEF BuildIds, IsOver
  <2>3. VmIds(d) = VmIds(st) \cup {c.id}
    <3>1. \A m \in Name : d.vm[m].id = IF m = n THEN c.id ELSE st.vm[m].id
      BY <1>5
    <3>2. \A x : x \in VmIds(d) => x \in VmIds(st) \cup {c.id}
      BY <3>1 DEF VmIds
    <3>3. c.id \in VmIds(d)
      BY <1>3, <3>1 DEF VmIds
    <3>4. \A x : x \in VmIds(st) => x \in VmIds(d)
      <4> SUFFICES ASSUME NEW m \in Name, st.vm[m].id # 0 PROVE st.vm[m].id \in VmIds(d)
        BY DEF VmIds
      <4>1. m # n /\ d.vm[m].id = st.vm[m].id
        BY <1>6, <3>1
      <4> QED BY <4>1 DEF VmIds
    <3> QED BY <3>2, <3>3, <3>4
  <2>4. ~d.hang =>
          /\ d.tab = d.leaked \cup BuildIds(d) \cup VmIds(d)
          /\ d.cursor \notin d.tab /\ \A m \in Name : d.zombie[m] # d.cursor
    <3> SUFFICES ASSUME ~d.hang
                 PROVE  /\ d.tab = d.leaked \cup BuildIds(d) \cup VmIds(d)
                        /\ d.cursor \notin d.tab /\ \A m \in Name : d.zombie[m] # d.cursor
      OBVIOUS
    <3>1. /\ st.tab = st.leaked \cup BuildIds(st) \cup VmIds(st)
          /\ st.cursor \notin st.tab /\ \A m \in Name : st.zombie[m] # st.cursor
      BY <1>1 DEF Numbers, IsOver
    <3>2. d.tab = st.tab /\ d.cursor = st.cursor
      BY DEF IsOver
    <3> QED BY <1>6, <2>2, <2>3, <3>1, <3>2
  <2>5. d.leaked \cap (BuildIds(d) \cup VmIds(d)) = {}
    <3>1. st.leaked \cap (BuildIds(st) \cup VmIds(st)) = {}
      BY <1>1 DEF Numbers
    <3> QED BY <2>2, <2>3, <3>1
  <2>6. ~d.kout
    BY <1>1 DEF Numbers, IsOver
  <2>7. ASSUME NEW m \in Name, NEW k \in Name
        PROVE  /\ d.vm[m].id # 0 /\ d.vm[m].id = d.vm[k].id => m = k
               /\ d.zombie[m] # 0 /\ d.zombie[m] = d.zombie[k] => m = k
               /\ d.zombie[m] # 0 /\ d.zombie[m] = d.vm[k].id => m = k
    <3>1. /\ st.vm[m].id # 0 /\ st.vm[m].id = st.vm[k].id => m = k
          /\ st.zombie[m] # 0 /\ st.zombie[m] = st.zombie[k] => m = k
          /\ st.zombie[m] # 0 /\ st.zombie[m] = st.vm[k].id => m = k
      BY <1>1 DEF Numbers
    <3>2. \A x \in Name : st.vm[x].id # c.id /\ st.zombie[x] # c.id
      BY <1>1 DEF Numbers
    <3>3. \A x \in Name : d.vm[x].id = IF x = n THEN c.id ELSE st.vm[x].id
      BY <1>5
    <3> QED BY <1>6, <3>1, <3>2, <3>3
  <2>8. \A b \in Build(d) :
          /\ \A k \in Build(d) : b.id = k.id => b = k
          /\ \A m \in Name : d.vm[m].id # b.id /\ d.zombie[m] # b.id
    <3> SUFFICES ASSUME NEW b \in Build(st), b # c
                 PROVE  /\ \A k \in Build(st) : b.id = k.id => b = k
                        /\ \A m \in Name : d.vm[m].id # b.id /\ d.zombie[m] # b.id
      BY <2>2
    <3>1. /\ \A k \in Build(st) : b.id = k.id => b = k
          /\ \A m \in Name : st.vm[m].id # b.id /\ st.zombie[m] # b.id
      BY <1>1 DEF Numbers
    <3>2. b.id # c.id
      BY <2>1
    <3> QED BY <1>5, <1>6, <3>1, <3>2
  <2> QED BY <2>4, <2>5, <2>6, <2>7, <2>8 DEF Numbers
<1>11. Erases(d) /\ Reapers(d)
  <2>1. n \notin Erased(st)
    BY <1>1, <1>6, ErasedAre
  <2>2. PICK z \in 0 .. MAX_VM - 1 : z = 0
    BY Constants
  <2>3. d.zombie = [st.zombie EXCEPT ![n] = z] /\ d.vm = [st.vm EXCEPT ![n] = w]
    BY <1>2, <1>4, <1>6, <2>2
  <2>4. Rm(d) = Rm(st) /\ Erase(d) = Erase(st) /\ st.lost \subseteq d.lost
        /\ \A t \in Erase(st) : d.timers[t] = st.timers[t]
    BY DEF IsOver, Erase
  <2>5. z # 0 /\ ~LostIn(d, n) => w.abort \/ n \in Erased(st)
    BY <2>2
  <2>6. Erases(st) /\ Reapers(st)
    BY <1>1
  <2> QED BY <2>1, <2>3, <2>4, <2>5, <2>6, OneRecordErases
<1>12. CutOff(d)
  <2>1. Cut(d) = Cut(st)
    BY DEF IsOver, Cut
  <2>2. ~w.tbk
    OBVIOUS
  <2> QED BY <1>5, <2>1, <2>2 DEF CutOff
<1> QED BY <1>7, <1>8, <1>9, <1>10, <1>11, <1>12 DEF Safe

\* The creation goes on: the cdrom is made next.
Starts(st, c) ==
    Launch([Over(st, c) EXCEPT
               !.vm[c.n] = [[NoVm EXCEPT !.id = c.id, !.inst = c.inst] EXCEPT !.state = "idle"]],
           [c EXCEPT !.k = "cdrom"])

LEMMA MkdirStarts ==
  ASSUME NEW a \in 0 .. MaxAdd, NEW st, Good(st, a), NEW c \in Build(st),
         NEW d, d = Starts(st, c)
  PROVE  Good(d, a) /\ d.hang = st.hang
<1>1. st \in StRec /\ Safe(st) /\ CutOff(st) /\ Owed(st, a)
  BY DEF Good
<1>2. PICK e : e = Over(st, c)
  OBVIOUS
<1>3. e \in StRec /\ IsOver(st, e, c) /\ e.vm = st.vm /\ e.ans = st.ans /\ e.leaked = st.leaked
      /\ e.clones = st.clones \ {c}
  BY <1>1, <1>2, OverIs
<1>4. c \in CloneRec /\ c.n \in Name /\ c.id \in VmId /\ c.inst \in 0 .. MaxAdd /\ c \in st.clones
  BY <1>1, Fields DEF CloneRec, Build
<1>5. PICK w \in VmRec :
         w = [[NoVm EXCEPT !.id = c.id, !.inst = c.inst] EXCEPT !.state = "idle"]
  <2>1. c.id \in 0 .. MAX_VM - 1
    BY <1>4, Constants DEF VmId
  <2>2. PICK v \in VmRec : v = NoVm
    BY NoVmIs
  <2>3. [[v EXCEPT !.id = c.id, !.inst = c.inst] EXCEPT !.state = "idle"] \in VmRec
    BY <1>4, <2>1 DEF VmRec
  <2> QED BY <2>2, <2>3
<1>6. w.id = c.id /\ w.inst = c.inst /\ w.state = "idle" /\ w.abort = FALSE /\ w.tbk = FALSE
  <2>1. PICK v \in VmRec : v = NoVm
    BY NoVmIs
  <2>2. w = [[v EXCEPT !.id = c.id, !.inst = c.inst] EXCEPT !.state = "idle"] /\ v.abort = FALSE /\ v.tbk = FALSE
    BY <1>5, <2>1, NoVmIs
  <2> QED BY <2>2 DEF VmRec
<1>7. PICK x : x = [c EXCEPT !.k = "cdrom"]
  OBVIOUS
<1>8. x \in CloneRec /\ x.k = "cdrom"
  BY <1>4, <1>7 DEF CloneRec
<1>9. PICK C \in SUBSET CloneRec : C = e.clones \cup {x}
  BY <1>3, <1>8, Fields
<1>10. PICK V \in [Name -> VmRec] : V = [st.vm EXCEPT ![c.n] = w]
  BY <1>1, <1>4 DEF StRec
<1>11. d = [e EXCEPT !.vm = V, !.clones = C]
  BY <1>2, <1>3, <1>5, <1>7, <1>9, <1>10 DEF Starts, Launch, StRec
<1>12. d \in StRec /\ d.vm = V /\ d.clones = C /\ d.ans = st.ans /\ d.leaked = st.leaked
       /\ d.newborn = e.newborn /\ d.coherency = e.coherency
       /\ d.tab = e.tab /\ d.cursor = e.cursor /\ d.zombie = e.zombie
       /\ d.lost = e.lost /\ d.timers = e.timers
       /\ d.kout = e.kout /\ d.hang = e.hang
  BY ONLY <1>3, <1>11, V \in [Name -> VmRec], C \in SUBSET CloneRec DEF StRec
<1>13. IsOver(st, d, c)
  <2>1. Build(d) = Build(e) /\ Rm(d) = Rm(e)
    BY <1>8, <1>9, <1>12 DEF Build, Rm
  <2> QED BY <1>3, <1>12, <2>1 DEF IsOver
<1>14. Safe(d) /\ CutOff(d)
  BY <1>1, <1>6, <1>10, <1>12, <1>13, BornSafe
<1>15. PICK n \in Name : n = c.n
  BY <1>4
<1>16. d.vm[n] = w /\ \A m \in Name : m # n => d.vm[m] = st.vm[m]
  BY <1>1, <1>10, <1>12, <1>15 DEF StRec
<1>17. c.inst \in 1 .. a /\ st.ans[c.inst] = {}
       /\ (\A b \in Build(st) : c.inst = b.inst => c = b)
       /\ \A m \in Name : Creating(st, m) => st.vm[m].inst # c.inst
  BY <1>1 DEF Owed
<1>18. \A m \in Name : Creating(d, m) => m = n \/ (m # n /\ Creating(st, m))
  BY <1>16 DEF Creating
<1>19. Owed(d, a)
  <2>1. \A i \in Inst : d.ans[i] \in {{}, {"ok"}, {"ko"}} /\ (i > a => d.ans[i] = {})
    BY <1>1, <1>12 DEF Owed
  <2>2. ASSUME NEW b \in Build(d)
        PROVE  /\ b.inst \in 1 .. a /\ d.ans[b.inst] = {}
               /\ \A k \in Build(d) : b.inst = k.inst => b = k
               /\ \A m \in Name : Creating(d, m) => d.vm[m].inst # b.inst
    <3>1. b \in Build(st) /\ b # c /\ Build(d) \subseteq Build(st)
      BY <1>13 DEF IsOver
    <3>2. /\ b.inst \in 1 .. a /\ st.ans[b.inst] = {}
          /\ \A k \in Build(st) : b.inst = k.inst => b = k
          /\ \A m \in Name : Creating(st, m) => st.vm[m].inst # b.inst
      BY <1>1, <3>1 DEF Owed
    <3>3. b.inst # c.inst
      BY <1>17, <3>1
    <3> QED BY <1>6, <1>12, <1>16, <1>18, <3>1, <3>2, <3>3
  <2>3. ASSUME NEW m \in Name, Creating(d, m)
        PROVE  /\ d.vm[m].inst \in 1 .. a /\ d.ans[d.vm[m].inst] = {}
               /\ \A k \in Name : Creating(d, k) /\ d.vm[k].inst = d.vm[m].inst => m = k
    <3>1. CASE m = n
      BY <1>6, <1>12, <1>16, <1>17, <1>18, <3>1
    <3>2. CASE m # n
      <4>1. Creating(st, m) /\ d.vm[m] = st.vm[m]
        BY <1>16, <1>18, <2>3, <3>2
      <4>2. /\ st.vm[m].inst \in 1 .. a /\ st.ans[st.vm[m].inst] = {}
            /\ \A k \in Name : Creating(st, k) /\ st.vm[k].inst = st.vm[m].inst => m = k
            /\ st.vm[m].inst # c.inst
        BY <1>1, <1>17, <4>1 DEF Owed
      <4> QED BY <1>6, <1>12, <1>16, <1>18, <4>1, <4>2
    <3> QED BY <3>1, <3>2
  <2>4. ASSUME ~d.hang, NEW i \in 1 .. a
        PROVE  \/ d.ans[i] # {}
               \/ \E b \in Build(d) : b.inst = i
               \/ \E m \in Name : d.vm[m].inst = i /\ Creating(d, m)
               \/ \E m \in Name : <<m, i>> \in d.lost
    <3>1. Creating(d, n) /\ d.vm[n].inst = c.inst
      BY <1>6, <1>16 DEF Creating
    <3>2. ~Creating(st, n)
      <4>1. st.vm[n] = NoVm
        BY <1>1, <1>15 DEF Safe, Names, Shape
      <4> QED BY <4>1, NoVmIs DEF Creating
    <3>3. \/ st.ans[i] # {}
          \/ \E b \in Build(st) : b.inst = i
          \/ \E m \in Name : st.vm[m].inst = i /\ Creating(st, m)
          \/ \E m \in Name : <<m, i>> \in st.lost
      BY <1>1, <1>13, <2>4 DEF Owed, IsOver
    <3>4. \A m \in Name : Creating(st, m) => m # n /\ Creating(d, m) /\ d.vm[m].inst = st.vm[m].inst
      BY <1>16, <3>2 DEF Creating
    <3> QED BY <1>12, <1>13, <3>1, <3>3, <3>4 DEF IsOver
  <2>5. d.coherency <= a
    <3>1. st.coherency <= a /\ st.coherency \in Int /\ a \in Int
      BY <1>1 DEF Owed, StRec
    <3> QED BY <1>13, <3>1 DEF IsOver
  <2> QED BY <2>1, <2>2, <2>3, <2>4, <2>5 DEF Owed
<1>20. d.hang = st.hang
  BY <1>13 DEF IsOver
<1> QED BY <1>12, <1>14, <1>19, <1>20 DEF Good

\* A qemu of that number already runs: the new machine is killed at once.
Refound(st, c) ==
    SendStatusKo([Over(st, c) EXCEPT !.vm[c.n] = [NoVm EXCEPT !.id = c.id, !.inst = c.inst]],
                 c.inst)

LEMMA MkdirRefinds ==
  ASSUME NEW a \in 0 .. MaxAdd, NEW st, Good(st, a), NEW c \in Build(st),
         NEW d \in MachineDeath(Refound(st, c), c.n), FewZombies(d)
  PROVE  Good(d, a) /\ d.hang = st.hang
<1>1. st \in StRec /\ Safe(st) /\ CutOff(st) /\ Owed(st, a)
  BY DEF Good
<1>2. PICK e : e = Over(st, c)
  OBVIOUS
<1>3. e \in StRec /\ IsOver(st, e, c) /\ e.vm = st.vm /\ e.ans = st.ans /\ e.leaked = st.leaked
  BY <1>1, <1>2, OverIs
<1>4. c.n \in Name /\ c.id \in VmId /\ c.inst \in 0 .. MaxAdd
  BY <1>1, Fields DEF CloneRec
<1>5. c.inst \in Inst
  <2>1. c.inst \in 1 .. a
    BY <1>1 DEF Owed
  <2> QED BY <2>1, Constants DEF Inst
<1>6. PICK w \in VmRec : w = [NoVm EXCEPT !.id = c.id, !.inst = c.inst]
  <2>1. c.id \in 0 .. MAX_VM - 1
    BY <1>4, Constants DEF VmId
  <2>2. PICK v \in VmRec : v = NoVm
    BY NoVmIs
  <2>3. [v EXCEPT !.id = c.id, !.inst = c.inst] \in VmRec
    BY <1>4, <2>1 DEF VmRec
  <2> QED BY <2>2, <2>3
<1>7. w.id = c.id /\ w.inst = c.inst /\ w.state = "free" /\ w.abort = FALSE /\ w.tbk = FALSE
  <2>1. PICK v \in VmRec : v = NoVm
    BY NoVmIs
  <2>2. w = [v EXCEPT !.id = c.id, !.inst = c.inst] /\ v.abort = FALSE /\ v.tbk = FALSE /\ v.state = "free"
    BY <1>6, <2>1, NoVmIs
  <2> QED BY <2>2 DEF VmRec
<1>8. PICK V \in [Name -> VmRec] : V = [st.vm EXCEPT ![c.n] = w]
  BY <1>1, <1>4 DEF StRec
<1>9. PICK A \in AnsType : A = [st.ans EXCEPT ![c.inst] = @ \cup {"ko"}]
  BY <1>1, <1>5 DEF StRec, AnsType
<1>10. PICK x : x = Refound(st, c)
  OBVIOUS
<1>11. x = [e EXCEPT !.vm = V, !.ans = A]
  BY <1>2, <1>3, <1>6, <1>8, <1>9, <1>10 DEF Refound, SendStatusKo, StRec
<1>12. x \in StRec /\ x.vm = V /\ x.ans = A /\ x.leaked = st.leaked /\ x.clones = e.clones
       /\ x.newborn = e.newborn /\ x.coherency = e.coherency
       /\ x.tab = e.tab /\ x.cursor = e.cursor /\ x.zombie = e.zombie
       /\ x.lost = e.lost /\ x.timers = e.timers
       /\ x.kout = e.kout /\ x.hang = e.hang
  BY <1>3, <1>11 DEF StRec, AnsType
<1>13. IsOver(st, x, c)
  <2>1. Build(x) = Build(e) /\ Rm(x) = Rm(e)
    BY <1>12 DEF Build, Rm
  <2> QED BY <1>3, <1>12, <2>1 DEF IsOver
<1>14. Safe(x) /\ CutOff(x)
  BY <1>1, <1>7, <1>8, <1>12, <1>13, BornSafe
<1>15. Owed(x, a)
  <2>1. PICK n \in Name : n = c.n
    BY <1>4
  <2>2. x.vm[n] = w /\ \A m \in Name : m # n => x.vm[m] = st.vm[m]
    BY <1>1, <1>8, <1>12, <2>1 DEF StRec
  <2>3. ~Creating(st, n) /\ ~Creating(x, n)
    <3>1. st.vm[n] = NoVm
      BY <1>1, <2>1 DEF Safe, Names, Shape
    <3> QED BY <1>7, <2>2, <3>1, NoVmIs DEF Creating
  <2>4. \A m \in Name : /\ Creating(x, m) <=> Creating(st, m)
                        /\ Creating(st, m) => x.vm[m].inst = st.vm[m].inst
    BY <2>2, <2>3 DEF Creating
  <2>5. x.ans = [st.ans EXCEPT ![c.inst] = @ \cup {"ko"}]
    BY <1>9, <1>12
  <2> QED BY <1>1, <1>12, <1>13, <2>4, <2>5, OverAnswered
<1>16. d \in StRec /\ Safe(d) /\ CutOff(d) /\ SameOwing(x, d) /\ d.ans = x.ans
  BY <1>4, <1>10, <1>12, <1>14, DeathKeeps
<1>17. Owed(d, a) /\ d.hang = st.hang
  <2>1. Owed(d, a)
    BY <1>15, <1>16, OwingKept
  <2>2. d.hang = st.hang
    BY <1>13, <1>16 DEF SameOwing, IsOver
  <2> QED BY <2>1, <2>2
<1> QED BY <1>16, <1>17 DEF Good

-----------------------------------------------------------------------------
(* The timers and the clones that fire and end.                              *)

LEMMA QuietGood ==
  ASSUME NEW a, NEW st, Good(st, a), NEW d, Quiet(st, d)
  PROVE  Good(d, a) /\ d.hang = st.hang
<1>1. st \in StRec /\ Safe(st) /\ CutOff(st) /\ Owed(st, a)
  BY DEF Good
<1>2. d \in StRec /\ Safe(d) /\ (CutOff(st) => CutOff(d)) /\ (\A b : Owed(st, b) => Owed(d, b))
  BY <1>1, QuietKeeps
<1> QED BY <1>1, <1>2 DEF Good, Quiet, SameTables

LEMMA AutomatonGood ==
  ASSUME NEW a, NEW st, Good(st, a), NEW n \in Name, NEW d \in QemuVmAutomaton(st, n)
  PROVE  Good(d, a) /\ d.hang = st.hang
<1>1. st \in StRec /\ Shape(st)
  BY DEF Good, Safe
<1>2. Quiet(st, d)
  BY <1>1, AutomatonQuiet
<1> QED BY <1>2, QuietGood

LEMMA DeathGood ==
  ASSUME NEW a, NEW st, Good(st, a), NEW n \in Name, NEW d \in MachineDeath(st, n), FewZombies(d)
  PROVE  Good(d, a) /\ d.hang = st.hang
<1>1. st \in StRec /\ Safe(st) /\ CutOff(st) /\ Owed(st, a)
  BY DEF Good
<1>2. d \in StRec /\ Safe(d) /\ (CutOff(st) => CutOff(d)) /\ SameOwing(st, d) /\ d.ans = st.ans
  BY <1>1, DeathKeeps
<1>3. Owed(d, a)
  BY <1>1, <1>2, OwingKept
<1> QED BY <1>1, <1>2, <1>3 DEF Good, SameOwing

Taken(st, t) == [st EXCEPT !.timers = @ (-) SetToBag({t})]

LEMMA TakenQuiet ==
  ASSUME NEW st \in StRec, NEW t \in DOMAIN st.timers, t.k \notin {"erase", "cutoff"}
  PROVE  Quiet(st, Taken(st, t)) /\ t.n \in Name
<1>1. Quiet(st, Taken(st, t))
  BY TakeKeeps DEF Taken
<1>2. t \in TimerRec
  BY Fields
<1> QED BY <1>1, <1>2 DEF TimerRec

\* The timer of static_vm_timeout, whatever it finds.
LEMMA StaticGood ==
  ASSUME NEW a, NEW st, Good(st, a), NEW t, t.n \in Name, NEW d \in StaticVmTimeout(st, t)
  PROVE  Good(d, a) /\ d.hang = st.hang
<1>1. \/ \E n \in Name : d \in QemuVmAutomaton(st, n)
      \/ d = st
  BY DEF StaticVmTimeout
<1> QED BY <1>1, AutomatonGood

LEMMA TimerGood ==
  ASSUME NEW a \in 0 .. MaxAdd, NEW st, Good(st, a), ~st.hang,
         NEW t \in DOMAIN st.timers, NEW d, FewZombies(d),
         \/ t.k = "static" /\ d \in StaticVmTimeout(Taken(st, t), t)
         \/ t.k = "launchend" /\ d \in TimerLaunchEnd(Taken(st, t), t.n)
         \/ t.k = "finish" /\ d \in FinishVmInit(Taken(st, t), t.n)
         \/ t.k = "cutoff" /\ d = DelayedVmCutoff(Taken(st, t), t.n)
         \/ t.k = "erase" /\ d = Launch(Taken(st, t), Clone("rmdir", t.n, 0, t.ref))
  PROVE  Good(d, a) /\ ~d.hang
<1>1. CASE t.k = "cutoff" /\ d = DelayedVmCutoff(Taken(st, t), t.n)
  BY <1>1, CutoffGood DEF Taken
<1>2. CASE t.k = "erase" /\ d = Launch(Taken(st, t), Clone("rmdir", t.n, 0, t.ref))
  BY <1>2, EraseGood DEF Taken
<1>3. CASE t.k \notin {"erase", "cutoff"}
  <2>1. PICK e : e = Taken(st, t)
    OBVIOUS
  <2>2. Good(e, a) /\ e.hang = st.hang /\ t.n \in Name
    <3>1. st \in StRec
      BY DEF Good
    <3>2. Quiet(st, e) /\ t.n \in Name
      BY <1>3, <2>1, <3>1, TakenQuiet
    <3> QED BY <3>2, QuietGood
  <2>3. CASE d \in StaticVmTimeout(e, t)
    BY <2>2, <2>3, StaticGood
  <2>4. CASE d \in TimerLaunchEnd(e, t.n)
    <3>1. d = e \/ d \in CreationFails(e, t.n)
      BY <2>4 DEF TimerLaunchEnd
    <3> QED BY <2>2, <3>1, CreationFailsGood
  <2>5. CASE d \in FinishVmInit(e, t.n)
    BY <2>2, <2>5, FinishGood
  <2> QED BY <1>3, <2>1, <2>3, <2>4, <2>5
<1> QED BY <1>1, <1>2, <1>3

Without(st, c) == [st EXCEPT !.clones = @ \ {c}]

\* The clones of the creation, but for the one that makes the directories.
LEMMA CloneGood ==
  ASSUME NEW a \in 0 .. MaxAdd, NEW st, Good(st, a), NEW c \in st.clones,
         c.k \in {"cdrom", "cp"}, NEW d, FewZombies(d),
         d \in QemuVmAutomaton(Without(st, c), c.n) \cup CreationFails(Without(st, c), c.n)
  PROVE  Good(d, a) /\ d.hang = st.hang
<1>1. st \in StRec
  BY DEF Good
<1>2. c \in CloneRec /\ c.n \in Name
  BY <1>1, Fields DEF CloneRec
<1>3. PICK e : e = Without(st, c)
  OBVIOUS
<1>4. Quiet(st, e)
  BY <1>1, <1>2, <1>3, CloneKeeps DEF Without
<1>5. Good(e, a) /\ e.hang = st.hang
  BY <1>4, QuietGood
<1>6. d \in QemuVmAutomaton(e, c.n) \/ d \in CreationFails(e, c.n)
  BY <1>3
<1> QED BY <1>2, <1>5, <1>6, AutomatonGood, CreationFailsGood

\* A qemu and its pid file.
Launched(e, c) == [e EXCEPT !.pidfile = @ \cup {c.id},
                            !.up = @ \cup {[n |-> c.n, id |-> c.id]}]

LEMMA LauncherGood ==
  ASSUME NEW a \in 0 .. MaxAdd, NEW st, Good(st, a), NEW c \in st.clones, c.k = "launch",
         NEW e, e = Arm(Without(st, c), "launchend", c.n, 0, 0),
         NEW d \in {e, Launched(e, c)}
  PROVE  Good(d, a) /\ d.hang = st.hang
<1>1. st \in StRec
  BY DEF Good
<1>2. c \in CloneRec /\ c.n \in Name /\ c.id \in VmId
  BY <1>1, Fields DEF CloneRec
<1>3. PICK f : f = Without(st, c)
  OBVIOUS
<1>4. Quiet(st, f) /\ f \in StRec
  BY <1>1, <1>2, <1>3, CloneKeeps DEF Without, Quiet
<1>5. Quiet(f, e) /\ e \in StRec
  <2>1. PICK k \in {"static", "launchend", "finish", "cutoff", "erase"} : k = "launchend"
    OBVIOUS
  <2>2. PICK n \in Name : n = c.n
    BY <1>2
  <2>3. PICK ref \in Nat : ref = 0
    OBVIOUS
  <2>4. PICK left \in 0 .. D400 : left = 0
    BY Constants
  <2>5. e = Arm(f, k, n, ref, left)
    BY <1>3, <2>1, <2>2, <2>3, <2>4
  <2>6. e \in StRec /\ (k # "erase" => Quiet(f, e))
    BY ONLY <1>4, <2>5, ArmKeeps, k \in {"static", "launchend", "finish", "cutoff", "erase"},
            n \in Name, ref \in Nat, left \in 0 .. D400
  <2> QED BY <2>1, <2>6
<1>6. Quiet(e, d)
  <2>1. CASE d = e
    BY <1>5, <2>1, ReflQuiet
  <2>2. CASE d = Launched(e, c)
    <3>1. [n |-> c.n, id |-> c.id] \in [n : Name, id : VmId]
      BY <1>2
    <3>2. PICK Q \in SUBSET Name : Q = e.qmp
      BY <1>5 DEF StRec
    <3>3. PICK U \in SUBSET [n : Name, id : VmId] : U = e.up \cup {[n |-> c.n, id |-> c.id]}
      BY <1>5, <3>1 DEF StRec
    <3>4. PICK P \in SUBSET VmId : P = e.pidfile \cup {c.id}
      <4>1. e.pidfile \in SUBSET VmId
        BY ONLY <1>5 DEF StRec
      <4> QED BY ONLY <1>2, <4>1
    <3>5. d = [e EXCEPT !.qmp = Q, !.up = U, !.pidfile = P]
      BY <1>5, <2>2, <3>2, <3>3, <3>4 DEF StRec, Launched
    <3> QED BY <1>5, <3>5, ProcessesKeep
  <2> QED BY <2>1, <2>2
<1> QED BY <1>4, <1>5, <1>6, QuietTransitive, QuietGood


-----------------------------------------------------------------------------
(* The invariant.                                                            *)

LEMMA InitGood == Init => IInv
<1> SUFFICES ASSUME Init PROVE IInv
  OBVIOUS
<1>1. s \in StRec
  <2>1. [n \in Name |-> NoVm] \in [Name -> VmRec]
    BY NoVmIs
  <2>2. [n \in Name |-> 0] \in [Name -> 0 .. MAX_VM - 1]
    BY Constants
  <2>3. EmptyBag \in TimerBag
    <3>1. EmptyBag \in [{} -> Nat \ {0}]
      BY DEF EmptyBag, SetToBag
    <3> QED BY <3>1 DEF TimerBag
  <2>4. [i \in Inst |-> {}] \in [Inst -> SUBSET {"ok", "ko"}]
    OBVIOUS
  <2>5. 1 \in VmId
    BY Constants DEF VmId
  <2> QED BY <2>1, <2>2, <2>3, <2>4, <2>5 DEF Init, StRec
<1>2. /\ s.vm = [n \in Name |-> NoVm] /\ s.tab = {} /\ s.cursor = 1
      /\ s.zombie = [n \in Name |-> 0] /\ s.newborn = {} /\ s.coherency = 0
      /\ s.timers = EmptyBag /\ s.clones = {} /\ s.ans = [i \in Inst |-> {}]
      /\ s.lost = {} /\ s.leaked = {} /\ s.kout = FALSE /\ s.hang = FALSE
  BY DEF Init
<1>3. /\ nadd = 0 /\ ndeath = 0 /\ nadd \in 0 .. MaxAdd /\ ndeath \in 0 .. MaxDeath
  BY Constants DEF Init
<1>4. DOMAIN s.timers = {}
  BY <1>2 DEF EmptyBag, SetToBag
<1>5. Build(s) = {} /\ Rm(s) = {} /\ Erase(s) = {} /\ Erased(s) = {} /\ VmIds(s) = {}
      /\ BuildIds(s) = {}
  BY <1>2, <1>4, NoVmIs DEF Build, Rm, Erase, Erased, VmIds, BuildIds
<1>6. \A n \in Name : s.vm[n] = NoVm /\ s.zombie[n] = 0 /\ ~Exists(s, n) /\ ~Creating(s, n)
  BY <1>2, NoVmIs DEF Exists, Creating
<1>7. Safe(s)
  <2>1. Count(s)
    BY <1>2, <1>5, FS_EmptySet DEF Count
  <2>2. Numbers(s)
    BY <1>2, <1>5, <1>6, NoVmIs DEF Numbers
  <2>3. Names(s) /\ Shape(s)
    BY <1>2, <1>5, <1>6, NoVmIs DEF Names, Shape
  <2>4. Erases(s) /\ Reapers(s)
    BY <1>5, <1>6 DEF Erases, Reapers
  <2> QED BY <2>1, <2>2, <2>3, <2>4 DEF Safe
<1>8. CutOff(s)
  BY <1>6, NoVmIs DEF CutOff
<1>9. Owed(s, nadd)
  BY <1>2, <1>3, <1>5, <1>6 DEF Owed
<1>10. cpkout \in BOOLEAN
  BY DEF Init
<1> QED BY <1>1, <1>2, <1>3, <1>7, <1>8, <1>9, <1>10 DEF IInv, Good

\* A timer fires, whatever it finds.
LEMMA FireStep ==
  ASSUME IInv, ~s.hang, FireTimer, FewZombies(s')
  PROVE  Good(s', nadd) /\ ~s'.hang
<1>1. PICK t \in DOMAIN s.timers : Fire(t, Taken(s, t))
  <2>1. BagToSet(s.timers) = DOMAIN s.timers /\ Due \subseteq DOMAIN s.timers
    BY DEF BagToSet, Due
  <2> QED BY <2>1 DEF FireTimer, Taken
<1>2. nadd \in 0 .. MaxAdd /\ Good(s, nadd)
  BY DEF IInv
<1>3. PICK d : d = s'
  OBVIOUS
<1>4. t.k \in {"static", "launchend", "finish", "cutoff", "erase"}
  <2>1. s \in StRec
    BY <1>2 DEF Good
  <2> QED BY <2>1, Fields DEF TimerRec
<1>5. \/ t.k = "static" /\ d \in StaticVmTimeout(Taken(s, t), t)
      \/ t.k = "launchend" /\ d \in TimerLaunchEnd(Taken(s, t), t.n)
      \/ t.k = "finish" /\ d \in FinishVmInit(Taken(s, t), t.n)
      \/ t.k = "cutoff" /\ d = DelayedVmCutoff(Taken(s, t), t.n)
      \/ t.k = "erase" /\ d = Launch(Taken(s, t), Clone("rmdir", t.n, 0, t.ref))
  BY <1>1, <1>3, <1>4 DEF Fire
<1>6. FewZombies(d)
  BY <1>3
<1> QED BY <1>2, <1>3, <1>5, <1>6, TimerGood

\* A request to add a machine: refused, accepted, or the last the server reads.
LEMMA AddStep ==
  ASSUME IInv, ~s.hang, NEW n \in Name, RecvAddVm(n)
  PROVE  /\ nadd' \in 0 .. MaxAdd /\ Good(s', nadd')
         /\ s'.hang => VmId \subseteq s'.tab \cup {s'.zombie[m] : m \in Name}
<1>1. nadd \in 0 .. MaxAdd /\ Good(s, nadd)
  BY DEF IInv
<1>2. nadd' = nadd + 1 /\ nadd + 1 \in Inst /\ nadd' \in 0 .. MaxAdd
  BY <1>1, Constants DEF RecvAddVm, Inst
<1>3. s.zombie[n] = 0 /\ n \notin s.newborn /\ ~Exists(s, n)
  BY DEF RecvAddVm
<1>4. PICK f : f = AllocId(s)
  OBVIOUS
<1>5. PICK d : d = s'
  OBVIOUS
<1>6. \/ (f.kout \/ f.hang) /\ d = f
      \/ ~f.kout /\ ~f.hang /\ d = Refused(s, f, nadd + 1)
      \/ /\ ~f.kout /\ ~f.hang
         /\ d = Begun(f, n, nadd + 1, s.cursor)
  BY <1>2, <1>4, <1>5 DEF RecvAddVm, Refused, Begun
<1>7. CASE (f.kout \/ f.hang) /\ d = f
  BY <1>1, <1>2, <1>4, <1>5, <1>7, AddHangs
<1>8. CASE ~f.kout /\ ~f.hang /\ d = Refused(s, f, nadd + 1)
  BY <1>1, <1>2, <1>4, <1>5, <1>8, AddRefused
<1>9. CASE /\ ~f.kout /\ ~f.hang
           /\ d = Begun(f, n, nadd + 1, s.cursor)
  BY <1>1, <1>2, <1>3, <1>4, <1>5, <1>9, AddBuilds
<1> QED BY <1>6, <1>7, <1>8, <1>9


\* The clone that made the directories: the machine starts, is refound, or failed.
LEMMA MkdirStep ==
  ASSUME IInv, NEW c \in s.clones, MkdirDeath(c), FewZombies(s')
  PROVE  Good(s', nadd) /\ s'.hang = s.hang
<1>1. nadd \in 0 .. MaxAdd /\ Good(s, nadd) /\ c \in Build(s)
  BY DEF IInv, MkdirDeath, Build
<1>2. PICK d : d = s'
  OBVIOUS
<1>3. FewZombies(d)
  BY <1>2
<1>4. d = Failed(s, c) \/ d \in MachineDeath(Refound(s, c), c.n) \/ d = Starts(s, c)
  BY <1>2 DEF MkdirDeath, Ended, Failed, Refound, Starts, Over
<1>5. CASE d = Failed(s, c)
  BY <1>1, <1>2, <1>5, MkdirFails
<1>6. CASE d \in MachineDeath(Refound(s, c), c.n)
  BY <1>1, <1>2, <1>3, <1>6, MkdirRefinds
<1>7. CASE d = Starts(s, c)
  BY <1>1, <1>2, <1>7, MkdirStarts
<1> QED BY <1>4, <1>5, <1>6, <1>7

\* The death of a clone, whatever machine its name is now that of.
LEMMA CloneStep ==
  ASSUME IInv, CloneDeath, FewZombies(s')
  PROVE  Good(s', nadd) /\ s'.hang = s.hang
<1>1. PICK c \in s.clones : \/ MkdirDeath(c) \/ CdromDeath(c) \/ CpDeath(c)
                            \/ LauncherDeath(c) \/ RmdirDeath(c) \/ UNCHANGED s
  BY DEF CloneDeath, CpKout
<1>2. nadd \in 0 .. MaxAdd /\ Good(s, nadd)
  BY DEF IInv
<1>3. PICK d : d = s'
  OBVIOUS
<1>4. FewZombies(d)
  BY <1>3
<1>5. CASE MkdirDeath(c)
  BY <1>5, MkdirStep
<1>6. CASE CdromDeath(c) \/ CpDeath(c)
  <2>1. /\ c.k \in {"cdrom", "cp"}
        /\ d \in QemuVmAutomaton(Without(s, c), c.n) \cup CreationFails(Without(s, c), c.n)
    BY <1>3, <1>6 DEF CdromDeath, CpDeath, Ended, Without
  <2> QED BY <1>2, <1>3, <1>4, <2>1, CloneGood
<1>7. CASE LauncherDeath(c)
  <2>1. PICK e : e = Arm(Without(s, c), "launchend", c.n, 0, 0)
    OBVIOUS
  <2>2. c.k = "launch" /\ d \in {e, Launched(e, c)}
    BY <1>3, <1>7, <2>1 DEF LauncherDeath, Ended, Without, Launched
  <2> QED BY <1>2, <1>3, <2>1, <2>2, LauncherGood
<1>8. CASE RmdirDeath(c)
  <2>1. PICK e : e = Reaped(s, c)
    OBVIOUS
  <2>2. c.k = "rmdir"
    BY <1>8 DEF RmdirDeath
  <2>3. s.zombie[c.n] # 0
    <3>1. PICK g : g \in {e, Emptied(e, c)}
      OBVIOUS
    <3> QED BY <1>2, <2>1, <2>2, <3>1, RmdirGood
  <2>4. d \in {e, Emptied(e, c)}
    BY <1>3, <1>8, <2>1, <2>3 DEF RmdirDeath, Ended, Reaped, Emptied
  <2> QED BY <1>2, <1>3, <2>1, <2>2, <2>4, RmdirGood
<1>9. CASE UNCHANGED s
  BY <1>2, <1>9
<1> QED BY <1>1, <1>5, <1>6, <1>7, <1>8, <1>9

\* A beat, the end of a qemu, the answer of an agent, an abort.
LEMMA OtherStep ==
  ASSUME IInv, ~s.hang, FewZombies(s'), VmCreateAbort \/ Beat \/ QemuEnds \/ PingOk
  PROVE  Good(s', nadd) /\ ~s'.hang
<1>1. nadd \in 0 .. MaxAdd /\ Good(s, nadd) /\ s \in StRec
  BY DEF IInv, Good
<1>2. PICK d : d = s'
  OBVIOUS
<1>3. FewZombies(d)
  BY <1>2
<1>4. CASE VmCreateAbort
  <2>1. PICK n \in Name : s.vm[n].abort /\ d \in FreeAndDelete(s, n)
    BY <1>2, <1>4 DEF VmCreateAbort
  <2>2. Creating(s, n)
    BY <1>1, <2>1 DEF Good, Safe, Shape
  <2> QED BY <1>1, <1>2, <1>3, <2>1, <2>2, FreeAndDeleteGood
<1>5. CASE Beat
  <2>1. d = [s EXCEPT !.timers = BeatBag(s.timers)]
    BY <1>2, <1>5 DEF Beat, BeatBag
  <2> QED BY <1>1, <1>2, <2>1, BeatGood
<1>6. CASE QemuEnds
  <2>1. PICK p \in s.up : d = [s EXCEPT !.up = @ \ {p}]
    BY <1>2, <1>6 DEF QemuEnds
  <2>2. PICK Q \in SUBSET Name, U \in SUBSET [n : Name, id : VmId], P \in SUBSET VmId :
            Q = s.qmp /\ U = s.up \ {p} /\ P = s.pidfile
    BY <1>1 DEF StRec
  <2>3. d = [s EXCEPT !.qmp = Q, !.up = U, !.pidfile = P]
    BY <1>1, <2>1, <2>2 DEF StRec
  <2>4. Quiet(s, d)
    BY <1>1, <2>3, ProcessesKeep
  <2> QED BY <1>1, <1>2, <2>4, QuietGood
<1>7. CASE PingOk
  <2>1. PICK p \in s.up : d \in FinishVmInit(s, p.n)
    BY <1>2, <1>7 DEF PingOk
  <2>2. p.n \in Name
    BY <1>1, <2>1 DEF StRec
  <2> QED BY <1>1, <1>2, <1>3, <2>1, <2>2, FinishGood
<1> QED BY <1>4, <1>5, <1>6, <1>7

LEMMA StepGood ==
  ASSUME IInv, [Next]_vars, FewZombies(s)'
  PROVE  IInv'
<1>1. nadd \in 0 .. MaxAdd /\ ndeath \in 0 .. MaxDeath /\ Good(s, nadd)
  BY DEF IInv
<1>4. cpkout' \in BOOLEAN
  BY DEF IInv, vars, Next, FireTimer, Fire, RecvAddVm, CallMachineDeath, CloneDeath, CpKout,
         VmCreateAbort, Beat, QemuEnds, PingOk
<1>2. CASE UNCHANGED vars
  BY <1>2 DEF vars, IInv
<1>3. CASE Next
  <2>1. ~s.hang /\ FewZombies(s')
    BY <1>3 DEF Next, ServerUp
  <2>2. CASE FireTimer
    <3>1. Good(s', nadd) /\ ~s'.hang
      BY <2>1, <2>2, FireStep
    <3>2. nadd' = nadd /\ ndeath' = ndeath
      BY <2>2 DEF FireTimer
    <3> QED BY <1>1, <1>4, <3>1, <3>2 DEF IInv
  <2>3. CASE \E n \in Name : RecvAddVm(n)
    <3>1. PICK n \in Name : RecvAddVm(n)
      BY <2>3
    <3>2. /\ nadd' \in 0 .. MaxAdd /\ Good(s', nadd')
          /\ s'.hang => VmId \subseteq s'.tab \cup {s'.zombie[m] : m \in Name}
      BY <2>1, <3>1, AddStep
    <3>3. ndeath' = ndeath
      BY <3>1 DEF RecvAddVm
    <3> QED BY <1>1, <1>4, <3>2, <3>3 DEF IInv
  <2>4. CASE \E n \in Name : CallMachineDeath(n)
    <3>1. PICK n \in Name : CallMachineDeath(n)
      BY <2>4
    <3>2. PICK d : d = s'
      OBVIOUS
    <3>3. Good(d, nadd) /\ d.hang = s.hang
      <4>1. d \in MachineDeath(s, n) /\ FewZombies(d)
        BY <2>1, <3>1, <3>2 DEF CallMachineDeath
      <4> QED BY <1>1, <4>1, DeathGood
    <3>4. nadd' = nadd /\ ndeath' \in 0 .. MaxDeath
      BY <1>1, <3>1, Constants DEF CallMachineDeath
    <3> QED BY <1>1, <1>4, <2>1, <3>2, <3>3, <3>4 DEF IInv
  <2>5. CASE CloneDeath
    <3>1. Good(s', nadd) /\ s'.hang = s.hang
      BY <2>1, <2>5, CloneStep
    <3>2. nadd' = nadd /\ ndeath' = ndeath
      BY <2>5 DEF CloneDeath
    <3> QED BY <1>1, <1>4, <2>1, <3>1, <3>2 DEF IInv
  <2>6. CASE VmCreateAbort \/ Beat \/ QemuEnds \/ PingOk
    <3>1. Good(s', nadd) /\ ~s'.hang
      BY <2>1, <2>6, OtherStep
    <3>2. nadd' = nadd /\ ndeath' = ndeath
      BY <2>6 DEF VmCreateAbort, Beat, QemuEnds, PingOk
    <3> QED BY <1>1, <1>4, <3>1, <3>2 DEF IInv
  <2> QED BY <1>3, <2>2, <2>3, <2>4, <2>5, <2>6 DEF Next
<1> QED BY <1>2, <1>3


\* A directory that is about to be erased is that of a zombie, by name and number.
LEMMA ErasingIs ==
  ASSUME IInv
  PROVE  /\ BagToSet(s.timers) = DOMAIN s.timers /\ Building = Build(s)
         /\ \A e \in Erasing : /\ e[1] \in Erased(s) /\ e[1] \in Name
                               /\ e[2] = s.zombie[e[1]] /\ e[2] # 0
         /\ \A n \in Erased(s) : <<n, s.zombie[n]>> \in Erasing
<1>1. s \in StRec /\ Erases(s)
  BY DEF IInv, Good, Safe
<1>2. BagToSet(s.timers) = DOMAIN s.timers /\ Building = Build(s)
  BY DEF BagToSet, Building, Build
<1>3. Erasing = {<<t.n, t.ref>> : t \in Erase(s)} \cup {<<c.n, c.id>> : c \in Rm(s)}
  BY <1>2 DEF Erasing, Erase, Rm
<1>4. \A t \in Erase(s) : /\ t.n \in Name /\ t.n \in Erased(s)
                          /\ t.ref = s.zombie[t.n] /\ t.ref # 0
  BY <1>1, Fields DEF Erases, Erase, Erased, TimerRec
<1>5. \A c \in Rm(s) : /\ c.n \in Name /\ c.n \in Erased(s)
                       /\ c.id = s.zombie[c.n] /\ c.id # 0
  <2>1. \A c \in Rm(s) : c.n \in Name /\ c.id \in VmId
    BY <1>1, Fields DEF Rm, CloneRec
  <2>2. 0 \notin VmId
    BY DEF VmId
  <2> QED BY <1>1, <2>1, <2>2 DEF Erases, Erased
<1>6. ASSUME NEW e \in Erasing
      PROVE  /\ e[1] \in Erased(s) /\ e[1] \in Name
             /\ e[2] = s.zombie[e[1]] /\ e[2] # 0
  BY <1>3, <1>4, <1>5
<1>7. ASSUME NEW n \in Erased(s)
      PROVE  <<n, s.zombie[n]>> \in Erasing
  BY <1>3, <1>4, <1>5 DEF Erased
<1> QED BY <1>2, <1>6, <1>7

LEMMA InvDirs == IInv => DirsApart
<1> SUFFICES ASSUME IInv PROVE DirsApart
  OBVIOUS
<1>1. s \in StRec /\ Numbers(s) /\ Count(s) /\ Owed(s, nadd) /\ Erases(s)
      /\ nadd \in 0 .. MaxAdd /\ ndeath \in 0 .. MaxDeath /\ cpkout \in BOOLEAN
  BY DEF IInv, Good, Safe
<1>2. TypeOK
  <2>1. s.coherency \in 0 .. MaxAdd
    <3>1. s.coherency \in Nat
      BY <1>1, FS_CardinalityType DEF Count
    <3>2. s.coherency <= nadd
      BY <1>1 DEF Owed
    <3> QED BY <1>1, <3>1, <3>2, Constants
  <2>2. \A t \in BagToSet(s.timers) : t.n \in Name /\ t.left \in 0 .. D400
    BY <1>1, ErasingIs, Fields DEF TimerRec
  <2>3. /\ s.vm \in [Name -> VmRec] /\ s.tab \subseteq VmId /\ s.cursor \in VmId
        /\ s.zombie \in [Name -> 0 .. MAX_VM - 1] /\ s.newborn \subseteq Name
        /\ s.qmp \subseteq Name
    BY <1>1 DEF StRec
  <2> QED BY <1>1, <2>1, <2>2, <2>3 DEF TypeOK, VmRec
<1>3. NumbersAccounted
  <2>1. BuildIds(s) = {c.id : c \in Building}
    BY ErasingIs DEF BuildIds
  <2>2. s.hang => VmId \subseteq (s.tab \cup {s.zombie[n] : n \in Name})
    BY DEF IInv
  <2>3. ~s.kout /\ (~s.hang => s.tab = s.leaked \cup {c.id : c \in Building}
                                       \cup ({s.vm[n].id : n \in Name} \ {0}))
    BY <1>1, <2>1 DEF Numbers, VmIds
  <2> QED BY <1>2, <2>2, <2>3 DEF NumbersAccounted
<1>4. \A n, m \in Name : n # m /\ Exists(s, n) => s.vm[n].id # s.vm[m].id
  BY <1>1 DEF Numbers, Exists
<1>5. \A c \in Building : \A n \in Name : s.vm[n].id # c.id
  BY <1>1, ErasingIs DEF Numbers
<1>6. ASSUME NEW e \in Erasing
      PROVE  /\ \A c \in Building : c.id # e[2]
             /\ \A n \in Name : s.vm[n].id = e[2] => n = e[1] /\ s.vm[n].tbk
  <2>1. PICK m \in Name : /\ m = e[1] /\ m \in Erased(s)
                          /\ e[2] = s.zombie[m] /\ e[2] # 0
    BY ErasingIs
  <2>2. \A c \in Building : c.id # e[2]
    BY <1>1, <2>1, ErasingIs DEF Numbers
  <2>3. ASSUME NEW n \in Name, s.vm[n].id = e[2]
        PROVE  n = e[1] /\ s.vm[n].tbk
    <3>1. n = m
      BY <1>1, <2>1, <2>3 DEF Numbers
    <3>2. Exists(s, n)
      BY <2>1, <2>3 DEF Exists
    <3>3. s.vm[n].tbk
      BY <1>1, <2>1, <3>1, <3>2, Zenon DEF Erases
    <3> QED BY <2>1, <3>1, <3>3
  <2> QED BY <2>2, <2>3
<1> QED BY <1>3, <1>4, <1>5, <1>6 DEF DirsApart

LEMMA InvReaper == IInv => ZombieHasReaper
<1> SUFFICES ASSUME IInv PROVE ZombieHasReaper
  OBVIOUS
<1>1. s \in StRec /\ CutOff(s) /\ Shape(s) /\ Erases(s) /\ Reapers(s)
  BY DEF IInv, Good, Safe
<1>2. DyingIsCutOff
  <2>1. ASSUME NEW n \in Name, s.vm[n].tbk
        PROVE  \E t \in BagToSet(s.timers) : t.k = "cutoff" /\ t.n = n
    <3>1. n \in Cut(s)
      BY <1>1, <2>1 DEF CutOff
    <3> QED BY <3>1, ErasingIs DEF Cut
  <2> QED BY <2>1 DEF DyingIsCutOff
<1>3. ASSUME NEW n \in Name, s.zombie[n] # 0, ~LostName(n)
      PROVE  s.vm[n].abort # (<<n, s.zombie[n]>> \in Erasing)
  <2>1. s.vm[n].abort \in BOOLEAN
    BY <1>1, Fields DEF VmRec
  <2>2. s.vm[n].abort \/ n \in Erased(s)
    BY <1>1, <1>3 DEF Reapers, LostIn, LostName
  <2>3. <<n, s.zombie[n]>> \in Erasing <=> n \in Erased(s)
    <3>1. n \in Erased(s) => <<n, s.zombie[n]>> \in Erasing
      BY ErasingIs
    <3>2. ASSUME <<n, s.zombie[n]>> \in Erasing PROVE n \in Erased(s)
      <4>1. <<n, s.zombie[n]>>[1] \in Erased(s)
        BY <3>2, ErasingIs
      <4> QED BY <4>1
    <3> QED BY <3>1, <3>2
  <2>4. n \in Erased(s) => ~s.vm[n].abort
    <3>1. s.vm[n].abort => Creating(s, n)
      BY <1>1 DEF Shape
    <3>2. Creating(s, n) => Exists(s, n)
      BY <1>1, NoVmIs DEF Shape, Creating
    <3>3. n \in Erased(s) /\ Exists(s, n) => ~Creating(s, n)
      BY <1>1, Zenon DEF Erases
    <3> QED BY <3>1, <3>2, <3>3
  <2> QED BY <2>1, <2>2, <2>3, <2>4
<1>4. \A n \in Name : \A e \in Erasing : e[1] = n => s.zombie[n] = e[2]
  BY ErasingIs
<1> QED BY <1>2, <1>3, <1>4 DEF ZombieHasReaper

LEMMA InvAnswer == IInv => AnswerOwed
<1> SUFFICES ASSUME IInv PROVE AnswerOwed
  OBVIOUS
<1>1. Count(s) /\ Owed(s, nadd) /\ nadd \in 0 .. MaxAdd
  BY DEF IInv, Good, Safe
<1>2. CoherencyExact
  BY <1>1, ErasingIs DEF CoherencyExact, Count
<1>3. ASSUME NEW i \in Inst PROVE Cardinality(s.ans[i]) <= 1
  <2>1. s.ans[i] \in {{}, {"ok"}, {"ko"}}
    BY <1>1 DEF Owed
  <2>2. Cardinality({}) = 0 /\ Cardinality({"ok"}) = 1 /\ Cardinality({"ko"}) = 1
    BY FS_EmptySet, FS_Singleton
  <2> QED BY <2>1, <2>2
<1>4. ASSUME NEW i \in 1 .. nadd, s.ans[i] = {}, ~s.hang
      PROVE  \/ \E c \in Building : c.inst = i
             \/ \E n \in Name : s.vm[n].inst = i /\ Creating(s, n)
             \/ \E n \in Name : <<n, i>> \in s.lost
  BY <1>1, <1>4, ErasingIs DEF Owed
<1> QED BY <1>2, <1>3, <1>4 DEF AnswerOwed


-----------------------------------------------------------------------------
(* The theorems.                                                             *)

\* cfg_add_zombie leaves the server when there are too many zombies at once; the
\* theorems are about the servers that have not met that limit.
ZombiesFit == FewZombies(s)

\* No server whose names are fewer than the limit ever meets it.
LEMMA FewNames == Cardinality(Name) <= MAX_ZOMBIE => ZombiesFit
<1>1. {n \in Name : s.zombie[n] # 0} \in SUBSET Name
  OBVIOUS
<1>2. /\ Cardinality({n \in Name : s.zombie[n] # 0}) \in Nat
      /\ Cardinality(Name) \in Nat
      /\ Cardinality({n \in Name : s.zombie[n] # 0}) <= Cardinality(Name)
  BY <1>1, Constants, FS_Subset, FS_CardinalityType
<1> QED BY <1>2, Constants DEF ZombiesFit, FewZombies

\* What links the tables of the server, its timers and its clones after every
\* step of machine_death, of the creation and of their late timers and clones.
THEOREM VmInvariant == Spec /\ []ZombiesFit => []IInv
<1>1. Init => IInv
  BY InitGood
<1>2. IInv /\ [Next]_vars /\ ZombiesFit' => IInv'
  BY StepGood DEF ZombiesFit
<1> QED BY <1>1, <1>2, PTL DEF Spec

\* No two machines ever have the same number, mkdir_clone never builds in the
\* directories of another machine, rmdir_clone never erases those of a machine
\* that lives or is being built, and no KOUT about numbers or zombies is met, though
\* timers and clones of dead machines act on names that are in use again.
THEOREM DirsNeverShared == Spec /\ []ZombiesFit => []DirsApart
<1>1. IInv => DirsApart
  BY InvDirs
<1> QED BY <1>1, VmInvariant, PTL

\* A machine that is to be killed always has the timer that cuts it off, and a
\* zombie has one reaper, so that its name can be given again; only a machine
\* unset in the middle of its creation (the BUG of cfg_unset_vm) has none.
THEOREM ZombiesAreReaped == Spec /\ []ZombiesFit => []ZombieHasReaper
<1>1. IInv => ZombieHasReaper
  BY InvReaper
<1> QED BY <1>1, VmInvariant, PTL

\* The lock of recv_coherency_lock is held by the creations under way only, no
\* client is told both "ok" and "ko", and one without an answer is owed it.
THEOREM AnswersAreOwed == Spec /\ []ZombiesFit => []AnswerOwed
<1>1. IInv => AnswerOwed
  BY InvAnswer
<1> QED BY <1>1, VmInvariant, PTL

\* The same without a hypothesis on the behaviour, for a server whose names are
\* fewer than the zombies cfg_store.c has room for.
THEOREM VmSafety ==
  Cardinality(Name) <= MAX_ZOMBIE
  => (Spec => [](DirsApart /\ ZombieHasReaper /\ AnswerOwed))
<1> SUFFICES ASSUME Cardinality(Name) <= MAX_ZOMBIE
             PROVE  Spec => [](DirsApart /\ ZombieHasReaper /\ AnswerOwed)
  OBVIOUS
<1>1. ZombiesFit
  BY FewNames
<1> QED BY <1>1, DirsNeverShared, ZombiesAreReaped, AnswersAreOwed, PTL

=============================================================================
