------------------------------ MODULE ClownixTimer ------------------------------
(***************************************************************************)
(* The timer wheel of common/lib_io_clownix/src/clownix_timer.c; the copy  *)
(* in server/muswitch/lib_ioc/src/clownix_timer.c has the same code.       *)
(*                                                                         *)
(* grape[] is an array of MAX_TIMEOUT_BEATS lists.  A list is appended to  *)
(* at its tail with an ever larger ref, so its order is the order of ref,  *)
(* and the wheel is kept as one set of elements that carry their slot.     *)
(* The field "due" is a history value: the absolute beat the caller was    *)
(* given.  The code never stores it in the element, it only keeps the slot.*)
(*                                                                         *)
(* The walk of process_all_current_grape_idx runs user callbacks, and a    *)
(* callback may call clownix_timeout_add and clownix_timeout_del: these    *)
(* two are enabled while the walk stands in phase "cb" as well as outside. *)
(***************************************************************************)
EXTENDS Integers, FiniteSets

CONSTANTS MAX_TIMEOUT_BEATS,      \* number of slots of the wheel
          MaxBeat,                \* bound: last beat ever asked for
          MaxRef                  \* bound: number of timeouts ever added

ASSUME TimerAssumption == /\ MAX_TIMEOUT_BEATS \in Nat
                          /\ MAX_TIMEOUT_BEATS >= 2
                          /\ MaxBeat \in Nat
                          /\ MaxRef \in Nat

VARIABLES grape,                  \* the elements plugged in the wheel
          current_ref,
          current_beat,
          plugged_elem,
          phase,                  \* "idle", "walk" (at the loop head), "cb"
          cur,                    \* ref of the element the walk stands on, or 0
          next,                   \* ref saved from cur->next, or 0
          kout                    \* a KOUT has ended the process

vars == <<grape, current_ref, current_beat, plugged_elem, phase, cur, next, kout>>

Slots == 0..(MAX_TIMEOUT_BEATS - 1)
Elem == [slot : Slots, ref : Nat, inhibited : BOOLEAN, due : Nat]

TypeOK == /\ grape \in SUBSET Elem
          /\ current_ref \in Nat
          /\ current_beat \in Nat
          /\ plugged_elem \in Int
          /\ phase \in {"idle", "walk", "cb"}
          /\ cur \in Nat
          /\ next \in Nat
          /\ kout \in BOOLEAN

SlotOf(beat) == beat % MAX_TIMEOUT_BEATS

\* Mutant of the range check of clownix_timeout_add: one beat too many.
BadNbBeats_OffByOne(nb_beats) == nb_beats < 1 \/ nb_beats > MAX_TIMEOUT_BEATS

\* The range check of clownix_timeout_add (MIN_TIMEOUT_BEATS is 1).
BadNbBeats(nb_beats) == nb_beats < 1 \/ nb_beats >= MAX_TIMEOUT_BEATS

\* Mutant: the reference wraps far too early.
NextRef_WrapsEarly == IF current_ref = 2 THEN 1 ELSE current_ref + 1

\* The reference plug_elem hands out.  Its wrap at 0xFFFFFFFF lies beyond MaxRef.
NextRef == current_ref + 1

\* The refs behind position r in the list of a slot, and the first of them: what
\* cur->next leads to, or 0 (NULL).
LaterRefs(slot, r) == {e.ref : e \in {f \in grape : f.slot = slot /\ f.ref > r}}
After(slot, r) ==
  IF LaterRefs(slot, r) = {} THEN 0
  ELSE CHOOSE n \in LaterRefs(slot, r) : \A m \in LaterRefs(slot, r) : n <= m

\* clownix_timer_init
Init == /\ grape = {}
        /\ current_ref = 0
        /\ current_beat = 0
        /\ plugged_elem = 0
        /\ phase = "idle"
        /\ cur = 0
        /\ next = 0
        /\ kout = FALSE

\* The loop head of the walk is not a point where other code runs.
UserCodeRuns == phase \in {"idle", "cb"} /\ ~kout

\* clownix_timeout_add with plug_elem: the element goes to the slot of the
\* absolute beat; nb_beats outside 1..MAX-1 ends the process.
TimeoutAdd(nb_beats) ==
  /\ UserCodeRuns
  /\ current_ref < MaxRef
  /\ current_beat + nb_beats <= MaxBeat
  /\ IF BadNbBeats(nb_beats)
       THEN /\ kout' = TRUE
            /\ UNCHANGED <<grape, current_ref, plugged_elem>>
       ELSE /\ current_ref' = NextRef
            /\ grape' = grape \cup
                 {[slot |-> SlotOf(current_beat + nb_beats), ref |-> NextRef,
                   inhibited |-> FALSE, due |-> current_beat + nb_beats]}
            /\ plugged_elem' = plugged_elem + 1
            /\ UNCHANGED kout
  /\ UNCHANGED <<current_beat, phase, cur, next>>

\* Mutant: the elements are freed at once instead of being marked.
Inhibit_Frees(S) == grape \ S

Inhibit(S) == {IF e \in S THEN [e EXCEPT !.inhibited = TRUE] ELSE e : e \in grape}

\* The search of clownix_timeout_del and clownix_timeout_exists: the slot of the
\* absolute beat is scanned for the reference.
Found(abs_beat, ref) == {e \in grape : e.slot = SlotOf(abs_beat) /\ e.ref = ref}

\* clownix_timeout_del: looks in the slot of abs_beat for ref; when it is not
\* there and abs_beat is not 0 the process ends.
TimeoutDel(abs_beat, ref) ==
  /\ UserCodeRuns
  /\ grape' = Inhibit(Found(abs_beat, ref))
  /\ kout' = (abs_beat # 0 /\ Found(abs_beat, ref) = {})
  /\ UNCHANGED <<current_ref, current_beat, plugged_elem, phase, cur, next>>

\* clownix_timeout_del_all
TimeoutDelAll ==
  /\ UserCodeRuns
  /\ grape' = Inhibit(grape)
  /\ UNCHANGED <<current_ref, current_beat, plugged_elem, phase, cur, next, kout>>

\* clownix_timer_beat: the clock advances and the walk of its slot begins.
TimerBeat ==
  /\ phase = "idle" /\ ~kout
  /\ current_beat < MaxBeat
  /\ current_beat' = current_beat + 1
  /\ phase' = "walk"
  /\ cur' = After(SlotOf(current_beat + 1), 0)
  /\ UNCHANGED <<grape, current_ref, plugged_elem, next, kout>>

Unplug(ref) == {e \in grape : e.ref # ref}

\* Mutant: the inhibited element is passed but stays in the list.
SkipInhibited_NoUnplug ==
  /\ phase = "walk" /\ ~kout
  /\ \E e \in grape : e.ref = cur /\ e.inhibited
  /\ cur' = After(SlotOf(current_beat), cur)
  /\ UNCHANGED <<grape, plugged_elem, kout, current_ref, current_beat, phase, next>>

\* The loop body for an inhibited element: unplug_elem without a callback.
SkipInhibited ==
  /\ phase = "walk" /\ ~kout
  /\ \E e \in grape : e.ref = cur /\ e.inhibited
  /\ cur' = After(SlotOf(current_beat), cur)
  /\ grape' = Unplug(cur)
  /\ plugged_elem' = plugged_elem - 1
  /\ kout' = (plugged_elem' < 0)
  /\ UNCHANGED <<current_ref, current_beat, phase, next>>

\* Mutant: the inhibited mark is not looked at.
RunCallback_EvenInhibited ==
  /\ phase = "walk" /\ ~kout
  /\ \E e \in grape : e.ref = cur
  /\ next' = After(SlotOf(current_beat), cur)
  /\ phase' = "cb"
  /\ UNCHANGED <<grape, current_ref, current_beat, plugged_elem, cur, kout>>

\* The loop body up to the callback: next is saved, then the callback is called.
RunCallback ==
  /\ phase = "walk" /\ ~kout
  /\ \E e \in grape : e.ref = cur /\ ~e.inhibited
  /\ next' = After(SlotOf(current_beat), cur)
  /\ phase' = "cb"
  /\ UNCHANGED <<grape, current_ref, current_beat, plugged_elem, cur, kout>>

\* The callback returns: unplug_elem(head, cur); cur = next.
CallbackReturns ==
  /\ phase = "cb" /\ ~kout
  /\ grape' = Unplug(cur)
  /\ plugged_elem' = plugged_elem - 1
  /\ kout' = (plugged_elem' < 0)
  /\ cur' = next
  /\ next' = 0
  /\ phase' = "walk"
  /\ UNCHANGED <<current_ref, current_beat>>

\* while(cur) ends.
WalkEnd ==
  /\ phase = "walk" /\ cur = 0 /\ ~kout
  /\ phase' = "idle"
  /\ UNCHANGED <<grape, current_ref, current_beat, plugged_elem, cur, next, kout>>

\* A caller may delete a timeout that is still plugged, with the pair it was
\* given, or one that has already gone.
DelPlugged == \E e \in grape : TimeoutDel(e.due, e.ref)
DelStale == \E abs_beat \in 0..current_beat, ref \in 1..current_ref :
               /\ \A e \in grape : e.ref # ref
               /\ TimeoutDel(abs_beat, ref)

Walk == SkipInhibited \/ RunCallback \/ CallbackReturns \/ WalkEnd

Next == \/ \E n \in 0..MAX_TIMEOUT_BEATS : TimeoutAdd(n)
        \/ DelPlugged \/ DelStale
        \/ TimeoutDelAll
        \/ TimerBeat
        \/ Walk

Spec == Init /\ [][Next]_vars
-----------------------------------------------------------------------------
\* A callback runs at the very beat its caller was given, although the wheel
\* keeps only beat % MAX_TIMEOUT_BEATS.
FiresAtDueBeat ==
  phase = "cb" => \A e \in grape : e.ref = cur => e.due = current_beat

\* Nothing plugged is late: once the walk of a beat is over every element left
\* is due later, and never a full turn of the wheel away.
NoneLate == \A e \in grape :
  /\ e.due >= current_beat
  /\ phase = "idle" => e.due > current_beat
  /\ e.due < current_beat + MAX_TIMEOUT_BEATS
  /\ e.slot = SlotOf(e.due)

\* next, read before the callback and used after it, is never dangling:
\* whatever the callback adds or deletes, the element it names stays plugged,
\* and it is still the one that follows cur.
SavedNextIsLive ==
  phase = "cb" => next = After(SlotOf(current_beat), cur)

\* A pair given to a caller leads clownix_timeout_del to its own element only.
LookupIsExact == \A e \in grape : Found(e.due, e.ref) = {e}

\* References identify elements: the search by ref can only meet one.
RefsUnique == \A e \in grape :
  /\ e.ref \in 1..current_ref
  /\ \A f \in grape : e.ref = f.ref => e = f

\* The walk stands on a plugged element of the slot of this beat, and has only
\* this element and later ones of that slot before it.
WalkCoversSlot == phase # "idle" =>
  /\ \A e \in grape : e.slot = SlotOf(current_beat) => cur # 0 /\ cur <= e.ref
  /\ phase = "cb" \/ cur # 0 =>
        \E e \in grape : e.slot = SlotOf(current_beat) /\ e.ref = cur

\* The inductive invariant behind FiresAtDueBeat.
IInv == TypeOK /\ NoneLate /\ RefsUnique /\ WalkCoversSlot /\ SavedNextIsLive

\* The elements an abstract caller still waits for: plugged, not inhibited, and
\* not the one whose callback is already running.
Armed == {[ref |-> e.ref, due |-> e.due] :
            e \in {f \in grape : ~f.inhibited /\ ~(phase = "cb" /\ f.ref = cur)}}

Promise == INSTANCE TimerPromise
             WITH now <- current_beat, armed <- Armed, lastRef <- current_ref,
                  running <- IF phase = "cb" THEN cur ELSE 0

\* The wheel keeps the promise of the timer service.
ImplementsPromise == Promise!PSpec
=================================================================================
