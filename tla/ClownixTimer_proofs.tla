------------------------- MODULE ClownixTimer_proofs -------------------------
(***************************************************************************)
(* Proofs about the timer wheel: its inductive invariant IInv, and from it *)
(* that a callback runs at exactly the beat its caller was given.          *)
(***************************************************************************)
EXTENDS ClownixTimer, WellFoundedInduction, TLAPS

USE DEF Slots, Elem

\* A nonempty set of naturals has a least element.
LEMMA LeastExists ==
  ASSUME NEW T \in SUBSET Nat, T # {}
  PROVE  \E x \in T : \A y \in T : x <= y
<1>1. \E x \in T : \A y \in T : ~ (y < x)
  <2> DEFINE R == OpToRel(<, Nat)
  <2>1. IsWellFoundedOn(R, Nat)
    BY NatLessThanWellFounded
  <2>2. PICK x \in T : \A y \in T : ~ (<<y, x>> \in R)
    <3> HIDE DEF R
    <3> QED BY <2>1, WFMin
  <2>3. \A y \in T : <<y, x>> \in R <=> y < x
    BY DEF OpToRel
  <2> HIDE DEF R
  <2>4. \A y \in T : ~ (y < x)
    BY <2>2, <2>3
  <2> QED BY <2>4
<1> QED BY <1>1

\* Two beats less than a turn of the wheel apart that share a slot are equal:
\* this is why keeping beat % MAX_TIMEOUT_BEATS loses nothing.
LEMMA SlotInjective ==
  ASSUME NEW a \in Nat, NEW b \in Nat, SlotOf(a) = SlotOf(b),
         a <= b, b < a + MAX_TIMEOUT_BEATS
  PROVE  a = b
<1> DEFINE M == MAX_TIMEOUT_BEATS
<1>0. M \in Nat /\ M >= 2
  BY TimerAssumption
<1>m. a % M = b % M
  BY DEF SlotOf
<1>d. b < a + M
  OBVIOUS
<1> HIDE DEF M
<1>1. a = M * (a \div M) + (a % M)
  BY <1>0
<1>2. b = M * (b \div M) + (b % M)
  BY <1>0
<1>3. b - a = M * ((b \div M) - (a \div M))
  BY <1>0, <1>1, <1>2, <1>m
<1>4. (b \div M) - (a \div M) = 0
  BY <1>0, <1>3, <1>d
<1> QED BY <1>0, <1>3, <1>4

LEMMA SlotType == \A beat \in Nat : SlotOf(beat) \in Slots
BY TimerAssumption DEF SlotOf

\* What After returns: 0 when nothing follows r in the list, and else the
\* nearest element that does.
LEMMA AfterIsNearest ==
  ASSUME TypeOK, NEW slot, NEW r \in Nat
  PROVE  /\ After(slot, r) \in Nat
         /\ \A e \in grape : e.slot = slot /\ e.ref > r =>
               After(slot, r) # 0 /\ After(slot, r) <= e.ref
         /\ After(slot, r) # 0 =>
               /\ After(slot, r) > r
               /\ \E e \in grape : e.slot = slot /\ e.ref = After(slot, r)
<1> DEFINE L == LaterRefs(slot, r)
<1>1. L \in SUBSET Nat
  BY DEF LaterRefs, TypeOK
<1>2. \A e \in grape : e.slot = slot /\ e.ref > r => e.ref \in L
  BY DEF LaterRefs
<1>3. \A n \in L : n > r /\ \E e \in grape : e.slot = slot /\ e.ref = n
  BY DEF LaterRefs
<1>4. CASE L = {}
  <2>1. After(slot, r) = 0
    BY <1>4 DEF After
  <2> QED BY <1>2, <1>4, <2>1
<1>5. CASE L # {}
  <2>1. \E n \in L : \A k \in L : n <= k
    BY <1>1, <1>5, LeastExists
  <2>2. After(slot, r) = CHOOSE n \in L : \A k \in L : n <= k
    BY <1>5 DEF After
  <2> HIDE DEF L
  <2>3. After(slot, r) \in L /\ \A k \in L : After(slot, r) <= k
    BY <2>1, <2>2
  <2>4. After(slot, r) \in Nat /\ After(slot, r) > r
    BY <1>1, <1>3, <2>3
  <2> QED BY <1>2, <1>3, <2>3, <2>4
<1> QED BY <1>4, <1>5

\* Marking elements as inhibited keeps every slot, ref and due beat.
LEMMA InhibitKeeps ==
  ASSUME TypeOK, NEW S, grape' = Inhibit(S)
  PROVE  /\ grape' \in SUBSET Elem
         /\ \A g \in grape' : \E e \in grape :
               g.slot = e.slot /\ g.ref = e.ref /\ g.due = e.due
         /\ \A e \in grape : \E g \in grape' : g.slot = e.slot /\ g.ref = e.ref
         /\ \A e, f \in grape' : RefsUnique /\ e.ref = f.ref => e = f
<1> DEFINE mark(e) == IF e \in S THEN [e EXCEPT !.inhibited = TRUE] ELSE e
<1>1. grape' = {mark(e) : e \in grape}
  BY DEF Inhibit
<1>2. \A e \in grape : /\ mark(e) \in Elem
                       /\ mark(e).slot = e.slot
                       /\ mark(e).ref = e.ref
                       /\ mark(e).due = e.due
  BY DEF TypeOK
<1> HIDE DEF mark
<1>3. \A e, f \in grape' : RefsUnique /\ e.ref = f.ref => e = f
  BY <1>1, <1>2 DEF RefsUnique
<1> QED BY <1>1, <1>2, <1>3

\* Marking preserves the inductive invariant, whatever set is marked.
LEMMA InhibitStep ==
  ASSUME IInv, NEW S, grape' = Inhibit(S), kout' \in BOOLEAN,
         UNCHANGED <<current_ref, current_beat, plugged_elem, phase, cur, next>>
  PROVE  IInv'
<1> USE DEF IInv
<1>1. TypeOK'
  BY InhibitKeeps DEF TypeOK
<1>2. NoneLate'
  BY InhibitKeeps DEF NoneLate, SlotOf
<1>3. RefsUnique'
  BY InhibitKeeps DEF RefsUnique
<1>4. WalkCoversSlot'
  BY InhibitKeeps DEF WalkCoversSlot, SlotOf
<1>5. SavedNextIsLive'
  <2>1. After(SlotOf(current_beat), cur)' = After(SlotOf(current_beat), cur)
    <3>1. /\ \A g \in grape' : \E e \in grape : g.slot = e.slot /\ g.ref = e.ref
          /\ \A e \in grape : \E g \in grape' : g.slot = e.slot /\ g.ref = e.ref
      BY InhibitKeeps
    <3>2. LaterRefs(SlotOf(current_beat), cur)' = LaterRefs(SlotOf(current_beat), cur)
      BY <3>1 DEF LaterRefs, SlotOf
    <3> QED BY <3>2 DEF After
  <2> QED BY <2>1 DEF SavedNextIsLive
<1> QED BY <1>1, <1>2, <1>3, <1>4, <1>5

LEMMA AddStep ==
  ASSUME IInv, NEW nb_beats \in 0..MAX_TIMEOUT_BEATS, TimeoutAdd(nb_beats)
  PROVE  IInv'
<1> USE DEF IInv
<1>1. CASE BadNbBeats(nb_beats)
  <2>1. /\ kout' = TRUE
        /\ UNCHANGED <<grape, current_ref, plugged_elem, current_beat, phase, cur, next>>
    BY <1>1 DEF TimeoutAdd
  <2>2. LaterRefs(SlotOf(current_beat), cur)' = LaterRefs(SlotOf(current_beat), cur)
    BY <2>1 DEF LaterRefs, SlotOf
  <2>3. SavedNextIsLive'
    BY <2>1, <2>2 DEF SavedNextIsLive, After
  <2>4. TypeOK'
    BY <2>1 DEF TypeOK
  <2>5. NoneLate'
    BY <2>1 DEF NoneLate, SlotOf
  <2>6. RefsUnique'
    BY <2>1 DEF RefsUnique
  <2>7. WalkCoversSlot'
    BY <2>1 DEF WalkCoversSlot, SlotOf
  <2> QED BY <2>3, <2>4, <2>5, <2>6, <2>7
<1>2. CASE ~BadNbBeats(nb_beats)
  <2> DEFINE due == current_beat + nb_beats
             new == [slot |-> SlotOf(due), ref |-> current_ref + 1,
                     inhibited |-> FALSE, due |-> due]
  <2>1. /\ grape' = grape \cup {new}
        /\ current_ref' = current_ref + 1
        /\ plugged_elem' = plugged_elem + 1
        /\ UNCHANGED <<kout, current_beat, phase, cur, next>>
    BY <1>2 DEF TimeoutAdd, NextRef
  <2>2. nb_beats \in Nat /\ 1 <= nb_beats /\ nb_beats < MAX_TIMEOUT_BEATS
    BY <1>2, TimerAssumption DEF BadNbBeats
  <2>3. due \in Nat /\ current_beat \in Nat
    BY <2>2 DEF TypeOK
  <2>4. SlotOf(due) \in Slots /\ SlotOf(due) # SlotOf(current_beat)
    BY <2>2, <2>3, SlotType, SlotInjective, TimerAssumption
  <2>5. /\ new \in Elem /\ new.slot = SlotOf(due)
        /\ new.ref = current_ref + 1 /\ new.due = due
    BY <2>3, <2>4 DEF TypeOK
  <2> HIDE DEF new
  <2>6. TypeOK'
    BY <2>1, <2>5 DEF TypeOK
  <2>7. NoneLate'
    BY <2>1, <2>2, <2>3, <2>5, TimerAssumption DEF NoneLate, SlotOf, TypeOK
  <2>8. RefsUnique'
    BY <2>1, <2>5 DEF RefsUnique, TypeOK
  <2>9. WalkCoversSlot'
    BY <2>1, <2>4, <2>5 DEF WalkCoversSlot, SlotOf, TypeOK
  <2>10. SavedNextIsLive'
    <3>1. LaterRefs(SlotOf(current_beat), cur)' = LaterRefs(SlotOf(current_beat), cur)
      BY <2>1, <2>4, <2>5 DEF LaterRefs, SlotOf
    <3> QED BY <2>1, <3>1 DEF SavedNextIsLive, After
  <2> QED BY <2>6, <2>7, <2>8, <2>9, <2>10
<1> QED BY <1>1, <1>2

LEMMA BeatStep ==
  ASSUME IInv, TimerBeat
  PROVE  IInv'
<1> USE DEF IInv
<1> DEFINE slot == SlotOf(current_beat + 1)
<1>1. /\ phase = "idle" /\ phase' = "walk"
      /\ current_beat \in Nat /\ current_beat' = current_beat + 1
      /\ cur' = After(slot, 0)
      /\ UNCHANGED <<grape, current_ref, plugged_elem, next, kout>>
  BY DEF TimerBeat, TypeOK
<1>2. SlotOf(current_beat)' = slot
  BY <1>1 DEF SlotOf
<1>3. TypeOK'
  BY <1>1, AfterIsNearest DEF TypeOK
<1>4. NoneLate'
  BY <1>1, TimerAssumption DEF NoneLate, SlotOf, TypeOK
<1>5. RefsUnique'
  BY <1>1 DEF RefsUnique
<1>6. WalkCoversSlot'
  <2>1. \A e \in grape : e.ref > 0
    BY DEF RefsUnique, TypeOK
  <2> QED BY <1>1, <1>2, <2>1, AfterIsNearest DEF WalkCoversSlot
<1>7. SavedNextIsLive'
  BY <1>1 DEF SavedNextIsLive
<1> QED BY <1>3, <1>4, <1>5, <1>6, <1>7

\* Taking the element under the walk out and going on with the one that follows.
LEMMA AdvanceStep ==
  ASSUME IInv, phase # "idle",
         \E e \in grape : e.slot = SlotOf(current_beat) /\ e.ref = cur,
         grape' = Unplug(cur),
         cur' = After(SlotOf(current_beat), cur),
         phase' = "walk", next' \in Nat, kout' \in BOOLEAN,
         plugged_elem' = plugged_elem - 1,
         UNCHANGED <<current_ref, current_beat>>
  PROVE  IInv'
<1> USE DEF IInv
<1>0. cur \in Nat /\ grape' \in SUBSET grape /\ \A e \in grape' : e.ref # cur
  BY DEF TypeOK, Unplug
<1>1. TypeOK'
  BY <1>0, AfterIsNearest DEF TypeOK
<1>2. NoneLate'
  BY <1>0 DEF NoneLate, SlotOf
<1>3. RefsUnique'
  BY <1>0 DEF RefsUnique
<1>4. WalkCoversSlot'
  <2> DEFINE nxt == After(SlotOf(current_beat), cur)
  <2>1. SlotOf(current_beat)' = SlotOf(current_beat)
    BY DEF SlotOf
  <2>2. \A e \in grape' : e.slot = SlotOf(current_beat) => e.ref > cur
    BY <1>0 DEF WalkCoversSlot, TypeOK
  <2>3. \A e \in grape' : e.slot = SlotOf(current_beat) => nxt # 0 /\ nxt <= e.ref
    BY <1>0, <2>2, AfterIsNearest
  <2>4. nxt # 0 => \E e \in grape' : e.slot = SlotOf(current_beat) /\ e.ref = nxt
    <3>1. nxt # 0 => nxt > cur /\ \E e \in grape : e.slot = SlotOf(current_beat) /\ e.ref = nxt
      BY <1>0, AfterIsNearest
    <3> QED BY <1>0, <3>1 DEF Unplug
  <2> QED BY <2>1, <2>3, <2>4 DEF WalkCoversSlot
<1>5. SavedNextIsLive'
  BY DEF SavedNextIsLive
<1> QED BY <1>1, <1>2, <1>3, <1>4, <1>5

LEMMA CallbackStep ==
  ASSUME IInv, RunCallback
  PROVE  IInv'
<1> USE DEF IInv
<1>1. /\ phase = "walk" /\ phase' = "cb"
      /\ \E e \in grape : e.ref = cur
      /\ next' = After(SlotOf(current_beat), cur)
      /\ UNCHANGED <<grape, current_ref, current_beat, plugged_elem, cur, kout>>
  BY DEF RunCallback
<1>2. TypeOK'
  BY <1>1, AfterIsNearest DEF TypeOK
<1>3. NoneLate'
  BY <1>1 DEF NoneLate, SlotOf
<1>4. RefsUnique'
  BY <1>1 DEF RefsUnique
<1>5. WalkCoversSlot'
  <2>1. cur # 0
    BY <1>1 DEF RefsUnique, TypeOK
  <2> QED BY <1>1, <2>1 DEF WalkCoversSlot, SlotOf
<1>6. SavedNextIsLive'
  <2>1. LaterRefs(SlotOf(current_beat), cur)' = LaterRefs(SlotOf(current_beat), cur)
    BY <1>1 DEF LaterRefs, SlotOf
  <2> QED BY <1>1, <2>1 DEF SavedNextIsLive, After
<1> QED BY <1>2, <1>3, <1>4, <1>5, <1>6

\* When the walk is over nothing is left in the slot of this beat.
LEMMA EndStep ==
  ASSUME IInv, WalkEnd
  PROVE  IInv'
<1> USE DEF IInv
<1>1. /\ phase = "walk" /\ phase' = "idle" /\ cur = 0
      /\ UNCHANGED <<grape, current_ref, current_beat, plugged_elem, cur, next, kout>>
  BY DEF WalkEnd
<1>2. TypeOK'
  BY <1>1 DEF TypeOK
<1>3. NoneLate'
  <2>1. \A e \in grape : e.due # current_beat
    BY <1>1 DEF WalkCoversSlot, NoneLate
  <2> QED BY <1>1, <2>1 DEF NoneLate, SlotOf, TypeOK
<1>4. RefsUnique' /\ WalkCoversSlot' /\ SavedNextIsLive'
  BY <1>1 DEF RefsUnique, WalkCoversSlot, SavedNextIsLive
<1> QED BY <1>2, <1>3, <1>4

\* The inductive invariant of the wheel: initially true, kept by every action.
THEOREM WheelInvariant == Spec => []IInv
<1>1. Init => IInv
  <2> SUFFICES ASSUME Init
               PROVE  IInv
    OBVIOUS
  <2>1. TypeOK
    <3>1. grape \in SUBSET Elem
      BY Zenon DEF Init
    <3>2. kout \in BOOLEAN
      BY Zenon DEF Init
    <3>3. /\ current_ref \in Nat /\ current_beat \in Nat /\ plugged_elem \in Int
          /\ cur \in Nat /\ next \in Nat /\ phase \in {"idle", "walk", "cb"}
      <4>1. /\ current_ref = 0 /\ current_beat = 0 /\ plugged_elem = 0
            /\ cur = 0 /\ next = 0 /\ phase = "idle"
        BY DEF Init
      <4> QED BY <4>1
    <3> QED BY <3>1, <3>2, <3>3, Zenon DEF TypeOK
  <2>2. NoneLate /\ RefsUnique
    BY DEF Init, NoneLate, RefsUnique
  <2>3. WalkCoversSlot /\ SavedNextIsLive
    BY DEF Init, WalkCoversSlot, SavedNextIsLive
  <2> QED BY <2>1, <2>2, <2>3 DEF IInv
<1>2. IInv /\ [Next]_vars => IInv'
  <2> SUFFICES ASSUME IInv, [Next]_vars
               PROVE  IInv'
    OBVIOUS
  <2>1. CASE \E n \in 0..MAX_TIMEOUT_BEATS : TimeoutAdd(n)
    BY <2>1, AddStep
  <2>2. CASE DelPlugged \/ DelStale
    <3>1. PICK S : /\ grape' = Inhibit(S) /\ kout' \in BOOLEAN
                   /\ UNCHANGED <<current_ref, current_beat, plugged_elem, phase, cur, next>>
      BY <2>2 DEF DelPlugged, DelStale, TimeoutDel
    <3> QED BY <3>1, InhibitStep
  <2>3. CASE TimeoutDelAll
    BY <2>3, InhibitStep DEF TimeoutDelAll, IInv, TypeOK
  <2>4. CASE TimerBeat
    BY <2>4, BeatStep
  <2>5. CASE SkipInhibited
    <3>1. cur # 0
      BY <2>5 DEF SkipInhibited, IInv, RefsUnique, TypeOK
    <3>2. \E e \in grape : e.slot = SlotOf(current_beat) /\ e.ref = cur
      BY <2>5, <3>1 DEF SkipInhibited, IInv, WalkCoversSlot
    <3> QED BY <2>5, <3>2, AdvanceStep DEF SkipInhibited, IInv, TypeOK
  <2>6. CASE RunCallback
    BY <2>6, CallbackStep
  <2>7. CASE CallbackReturns
    <3>1. \E e \in grape : e.slot = SlotOf(current_beat) /\ e.ref = cur
      BY <2>7 DEF CallbackReturns, IInv, WalkCoversSlot
    <3>2. cur' = After(SlotOf(current_beat), cur)
      BY <2>7 DEF CallbackReturns, IInv, SavedNextIsLive
    <3> QED BY <2>7, <3>1, <3>2, AdvanceStep DEF CallbackReturns, IInv, TypeOK
  <2>8. CASE WalkEnd
    BY <2>8, EndStep
  <2>9. CASE UNCHANGED vars
    <3>1. LaterRefs(SlotOf(current_beat), cur)' = LaterRefs(SlotOf(current_beat), cur)
      BY <2>9 DEF LaterRefs, SlotOf, vars
    <3>2. SavedNextIsLive'
      BY <2>9, <3>1 DEF IInv, SavedNextIsLive, After, vars
    <3> QED BY <2>9, <3>2 DEF IInv, TypeOK, NoneLate, RefsUnique, WalkCoversSlot, SlotOf, vars
  <2> QED BY <2>1, <2>2, <2>3, <2>4, <2>5, <2>6, <2>7, <2>8, <2>9 DEF Next, Walk
<1> QED BY <1>1, <1>2, PTL DEF Spec

\* Type correctness of the wheel.
THEOREM WheelTypes == Spec => []TypeOK
<1>1. IInv => TypeOK
  BY DEF IInv
<1> QED BY <1>1, WheelInvariant, PTL

\* For every size of the wheel and every number of timeouts, a callback runs at
\* the beat clownix_timeout_add computed for it.
THEOREM CallbackOnTime == Spec => []FiresAtDueBeat
<1>1. IInv => FiresAtDueBeat
  <2> SUFFICES ASSUME IInv, phase = "cb", NEW e \in grape, e.ref = cur
               PROVE  e.due = current_beat
    BY DEF FiresAtDueBeat
  <2>1. e.slot = SlotOf(current_beat)
    BY DEF IInv, WalkCoversSlot, RefsUnique
  <2>2. /\ e.due \in Nat /\ current_beat \in Nat
        /\ SlotOf(current_beat) = SlotOf(e.due)
        /\ current_beat <= e.due /\ e.due < current_beat + MAX_TIMEOUT_BEATS
    BY <2>1 DEF IInv, TypeOK, NoneLate
  <2> QED BY <2>2, SlotInjective
<1> QED BY <1>1, WheelInvariant, PTL

\* No element is ever late, and none is a full turn of the wheel away.
THEOREM NothingLate == Spec => []NoneLate
<1>1. IInv => NoneLate
  BY DEF IInv
<1> QED BY <1>1, WheelInvariant, PTL

\* The saved next pointer of the walk survives whatever a callback does.
THEOREM NextSurvivesCallback == Spec => []SavedNextIsLive
<1>1. IInv => SavedNextIsLive
  BY DEF IInv
<1> QED BY <1>1, WheelInvariant, PTL

\* The pair handed out by clownix_timeout_add finds its own element and no other.
THEOREM ExactLookup == Spec => []LookupIsExact
<1>1. IInv => LookupIsExact
  BY DEF IInv, LookupIsExact, Found, NoneLate, RefsUnique
<1> QED BY <1>1, WheelInvariant, PTL


-----------------------------------------------------------------------------
(* The wheel keeps the promise of the timer service, step by step.           *)

\* What an abstract caller waits for, by the elements of the wheel.
LEMMA ArmedIs ==
  \A t : t \in Armed <=> \E e \in grape : /\ ~e.inhibited /\ ~(phase = "cb" /\ e.ref = cur)
                                          /\ t = [ref |-> e.ref, due |-> e.due]
BY DEF Armed

\* Adding a timeout arms one, or ends the process and changes nothing else.
LEMMA AddArms ==
  ASSUME IInv, NEW n \in 0 .. MAX_TIMEOUT_BEATS, TimeoutAdd(n)
  PROVE  [Promise!PNext]_(Promise!promiseVars)
<1>1. /\ current_ref \in Nat /\ current_beat \in Nat /\ MaxBeat \in Nat
      /\ n \in Nat /\ MAX_TIMEOUT_BEATS \in Nat
  BY TimerAssumption DEF IInv, TypeOK
<1>2. CASE BadNbBeats(n)
  <2>1. UNCHANGED <<grape, current_ref, current_beat, phase, cur>>
    BY <1>2 DEF TimeoutAdd
  <2>2. Armed' = Armed
    BY <2>1 DEF Armed
  <2> QED BY <2>1, <2>2 DEF Promise!promiseVars
<1>3. CASE ~BadNbBeats(n)
  <2>1. PICK e : e = [slot |-> SlotOf(current_beat + n), ref |-> current_ref + 1,
                      inhibited |-> FALSE, due |-> current_beat + n]
    OBVIOUS
  <2>2. /\ grape' = grape \cup {e} /\ current_ref' = current_ref + 1
        /\ UNCHANGED <<current_beat, phase, cur>> /\ current_beat + n <= MaxBeat
    BY <1>3, <2>1 DEF TimeoutAdd, NextRef
  <2>3. ~e.inhibited /\ [ref |-> e.ref, due |-> e.due]
                        = [ref |-> current_ref + 1, due |-> current_beat + n]
    BY <2>1
  <2>4. ~(phase = "cb" /\ e.ref = cur)
    <3>1. phase = "cb" => cur \in 1 .. current_ref
      BY DEF IInv, WalkCoversSlot, RefsUnique
    <3> QED BY <1>1, <2>1, <3>1
  <2>5. Armed' = Armed \cup {[ref |-> current_ref + 1, due |-> current_beat + n]}
    BY <2>2, <2>3, <2>4 DEF Armed
  <2>6. current_beat + n \in (current_beat + 1) .. MaxBeat
    BY <1>1, <1>3, <2>2 DEF BadNbBeats
  <2>7. Promise!Arm
    BY <2>2, <2>5, <2>6 DEF Promise!Arm
  <2> QED BY <2>7 DEF Promise!PNext
<1> QED BY <1>2, <1>3

\* Marking elements cancels what they stand for and nothing else.
LEMMA InhibitCancels ==
  ASSUME IInv, NEW S, grape' = Inhibit(S),
         UNCHANGED <<current_ref, current_beat, phase, cur>>
  PROVE  Promise!Cancel
<1> DEFINE mark(e) == IF e \in S THEN [e EXCEPT !.inhibited = TRUE] ELSE e
<1>1. grape' = {mark(e) : e \in grape} /\ grape \in SUBSET Elem
  BY DEF Inhibit, IInv, TypeOK
<1>2. \A e \in grape : /\ mark(e).ref = e.ref /\ mark(e).due = e.due
                       /\ ~mark(e).inhibited => ~e.inhibited
  BY <1>1
<1> HIDE DEF mark
<1>3. Armed' \subseteq Armed
  <2> SUFFICES ASSUME NEW t \in Armed' PROVE t \in Armed
    OBVIOUS
  <2>1. PICK g \in grape' : /\ ~g.inhibited /\ ~(phase = "cb" /\ g.ref = cur)
                            /\ t = [ref |-> g.ref, due |-> g.due]
    BY DEF Armed
  <2>2. PICK e \in grape : g = mark(e)
    BY <1>1, <2>1
  <2>3. ~e.inhibited /\ e.ref = g.ref /\ e.due = g.due
    BY <1>2, <2>1, <2>2
  <2> QED BY <2>1, <2>3, ArmedIs
<1>4. Armed' = Armed \ (Armed \ Armed') /\ Armed \ Armed' \in SUBSET Armed
  BY <1>3
<1> QED BY <1>4 DEF Promise!Cancel

\* A beat passes only when nothing that was due is left.
LEMMA BeatTicks ==
  ASSUME IInv, TimerBeat
  PROVE  Promise!Tick
<1>1. phase = "idle" /\ phase' = "walk" /\ current_beat' = current_beat + 1
      /\ UNCHANGED <<grape, current_ref>>
  BY DEF TimerBeat
<1>2. Armed' = Armed
  BY <1>1 DEF Armed
<1>3. \A t \in Armed : t.due > current_beat
  BY <1>1 DEF Armed, IInv, NoneLate
<1> QED BY <1>1, <1>2, <1>3 DEF Promise!Tick

\* The callback that runs is that of the oldest timeout due at this beat.
LEMMA CallbackFires ==
  ASSUME IInv, RunCallback
  PROVE  Promise!Fire
<1>1. PICK e \in grape : e.ref = cur /\ ~e.inhibited
  BY DEF RunCallback
<1>2. phase = "walk" /\ phase' = "cb"
      /\ UNCHANGED <<grape, current_ref, current_beat, cur>>
  BY DEF RunCallback
<1>3. \A f \in grape : f.ref = cur => f = e
  BY <1>1 DEF IInv, RefsUnique
<1>4. /\ current_beat \in Nat /\ \A f \in grape : f.due \in Nat /\ f.ref \in Nat
      /\ cur # 0
  BY <1>1 DEF IInv, TypeOK, RefsUnique
<1>5. e.due = current_beat
  <2>1. e.slot = SlotOf(current_beat)
    BY <1>2, <1>3, <1>4 DEF IInv, WalkCoversSlot
  <2>2. SlotOf(e.due) = SlotOf(current_beat) /\ current_beat <= e.due
        /\ e.due < current_beat + MAX_TIMEOUT_BEATS
    BY <2>1 DEF IInv, NoneLate
  <2> QED BY <1>4, <2>2, SlotInjective
<1>6. PICK t : t = [ref |-> e.ref, due |-> e.due]
  OBVIOUS
<1>7. t \in Armed /\ t.ref = cur /\ t.due = current_beat
  BY <1>1, <1>2, <1>5, <1>6, ArmedIs
<1>8. ASSUME NEW u \in Armed, u.due = current_beat
      PROVE  t.ref <= u.ref
  <2>1. PICK f \in grape : u = [ref |-> f.ref, due |-> f.due]
    BY ArmedIs
  <2>2. f.slot = SlotOf(current_beat)
    BY <1>8, <2>1 DEF IInv, NoneLate
  <2>3. cur <= f.ref
    BY <1>2, <2>2 DEF IInv, WalkCoversSlot
  <2> QED BY <1>7, <2>1, <2>3
<1>9. Armed' = Armed \ {t}
  <2>1. ASSUME NEW u \in Armed'
        PROVE  u \in Armed \ {t}
    <3>1. PICK f \in grape : /\ ~f.inhibited /\ f.ref # cur
                             /\ u = [ref |-> f.ref, due |-> f.due]
      BY <1>2 DEF Armed
    <3>2. u \in Armed
      BY <1>2, <3>1, ArmedIs
    <3> QED BY <1>7, <3>1, <3>2
  <2>2. ASSUME NEW u \in Armed, u # t
        PROVE  u \in Armed'
    <3>1. PICK f \in grape : ~f.inhibited /\ u = [ref |-> f.ref, due |-> f.due]
      BY ArmedIs
    <3>2. f.ref # cur
      BY <1>3, <1>6, <2>2, <3>1
    <3> QED BY <1>2, <3>1, <3>2 DEF Armed
  <2> QED BY <2>1, <2>2
<1> QED BY <1>2, <1>4, <1>7, <1>8, <1>9 DEF Promise!Fire

LEMMA WalkPromise ==
  ASSUME IInv, Walk
  PROVE  [Promise!PNext]_(Promise!promiseVars)
<1>1. CASE SkipInhibited
  <2>1. /\ phase = "walk" /\ grape' = Unplug(cur)
        /\ UNCHANGED <<current_ref, current_beat, phase>>
        /\ \E e \in grape : e.ref = cur /\ e.inhibited
    BY <1>1 DEF SkipInhibited
  <2>2. \A e \in grape : ~e.inhibited => e.ref # cur
    BY <2>1 DEF IInv, RefsUnique
  <2>3. Armed' = Armed
    BY <2>1, <2>2 DEF Armed, Unplug
  <2> QED BY <2>1, <2>3 DEF Promise!promiseVars
<1>2. CASE RunCallback
  BY <1>2, CallbackFires DEF Promise!PNext
<1>3. CASE CallbackReturns
  <2>1. /\ phase = "cb" /\ phase' = "walk" /\ grape' = Unplug(cur)
        /\ UNCHANGED <<current_ref, current_beat>>
    BY <1>3 DEF CallbackReturns
  <2>2. Armed' = Armed
    BY <2>1 DEF Armed, Unplug
  <2>3. cur # 0
    BY <2>1 DEF IInv, WalkCoversSlot, RefsUnique
  <2>4. Promise!Return
    BY <2>1, <2>2, <2>3 DEF Promise!Return
  <2> QED BY <2>4 DEF Promise!PNext
<1>4. CASE WalkEnd
  <2>1. /\ phase = "walk" /\ phase' = "idle"
        /\ UNCHANGED <<grape, current_ref, current_beat, cur>>
    BY <1>4 DEF WalkEnd
  <2>2. Armed' = Armed
    BY <2>1 DEF Armed
  <2> QED BY <2>1, <2>2 DEF Promise!promiseVars
<1> QED BY <1>1, <1>2, <1>3, <1>4 DEF Walk

\* clownix_timer.c implements TimerPromise: a timeout runs at its beat, once, in
\* arming order, unless it was cancelled, whatever callbacks add and delete.
THEOREM WheelImplementsPromise == Spec => ImplementsPromise
<1>1. Init => Promise!PInit
  BY DEF Init, Promise!PInit, Armed
<1>2. IInv /\ [Next]_vars => [Promise!PNext]_(Promise!promiseVars)
  <2> SUFFICES ASSUME IInv, [Next]_vars
               PROVE  [Promise!PNext]_(Promise!promiseVars)
    OBVIOUS
  <2>1. CASE \E n \in 0 .. MAX_TIMEOUT_BEATS : TimeoutAdd(n)
    BY <2>1, AddArms
  <2>2. CASE DelPlugged \/ DelStale \/ TimeoutDelAll
    <3>1. PICK S : /\ grape' = Inhibit(S)
                   /\ UNCHANGED <<current_ref, current_beat, phase, cur>>
      BY <2>2 DEF DelPlugged, DelStale, TimeoutDel, TimeoutDelAll
    <3>2. Promise!Cancel
      BY <3>1, InhibitCancels
    <3> QED BY <3>2 DEF Promise!PNext
  <2>3. CASE TimerBeat
    BY <2>3, BeatTicks DEF Promise!PNext
  <2>4. CASE Walk
    BY <2>4, WalkPromise
  <2>5. CASE UNCHANGED vars
    <3>1. UNCHANGED <<current_beat, current_ref, phase, cur>> /\ Armed' = Armed
      BY <2>5 DEF vars, Armed
    <3> QED BY <3>1 DEF Promise!promiseVars
  <2> QED BY <2>1, <2>2, <2>3, <2>4, <2>5 DEF Next
<1> QED BY <1>1, <1>2, WheelInvariant, PTL DEF Spec, ImplementsPromise, Promise!PSpec

=============================================================================
