------------------------------ MODULE EndpLan_proofs ------------------------------
(***************************************************************************)
(* For any endpoints, LANs and number of slots: the two halves of the      *)
(* server agree on who is attached to what, lan_to_name.c counts the users *)
(* of every LAN exactly, and muendp_free never reaches its KOUT.  An add   *)
(* lan request is answered once, unless the answer to a slot that waits    *)
(* for nothing has reached it, and a LAN lives as long as a slot that is   *)
(* attached to it, where no two slots of an endpoint want the same LAN.    *)
(***************************************************************************)
EXTENDS EndpLan, LanNames, FiniteSetTheorems, SequenceTheorems, WellFoundedInduction, TLAPS

\* The inductive invariant.
Inv == TypeOK /\ AttachConsistent /\ NbUsersExact /\ FreeFindsNoLan
-----------------------------------------------------------------------------
(* What the helpers return.                                                  *)

\* There are finitely many slots.
LEMMA SlotsFinite == IsFiniteSet(Slot)
  BY EndpLanAssumption, FS_Product DEF Slot

\* The helpers on a slot return a slot.
LEMMA SlotHelpers ==
  ASSUME NEW r \in SlotRec, NEW l \in LanOrNo
  PROVE  /\ DelLanSlot(r) \in SlotRec
         /\ NotWaiting(r) \in SlotRec
         /\ Attached(r, l) \in SlotRec
         /\ QuickDeathSlot(r) \in SlotRec
         /\ EmptySlot \in SlotRec
<1>1. /\ DelLanSlot(r) \in SlotRec
      /\ NotWaiting(r) \in SlotRec
      /\ EmptySlot \in SlotRec
  BY DEF SlotRec, LanOrNo, DelLanSlot, NotWaiting, EmptySlot
<1>2. Attached(r, l) \in SlotRec
  BY DEF SlotRec, LanOrNo, NotWaiting, Attached
<1>3. QuickDeathSlot(r) \in SlotRec
  BY <1>1 DEF SlotRec, LanOrNo, QuickDeathSlot, EmptySlot
<1>4. QED BY <1>1, <1>2, <1>3

\* The helpers on a process and its connections return their types.
LEMMA ProcHelpers ==
  ASSUME TypeOK, NEW e \in Endp, NEW p \in ProcRec
  PROVE  /\ ProcessGone(p) \in ProcRec
         /\ [ProcessGone(p) EXCEPT !.outbox = <<>>] \in ProcRec
         /\ NoLinks(e) \in [Slot -> LinkRec]
         /\ NoLink \in LinkRec
<1>1. NoLink \in LinkRec
  BY DEF NoLink, LinkRec, LanOrNo
<1>2. NoLinks(e) \in [Slot -> LinkRec]
  BY <1>1 DEF NoLinks, TypeOK
<1>3. ProcessGone(p) \in ProcRec
  <2>1. CASE p.alive
    BY <2>1 DEF ProcRec, ProcessGone
  <2>2. CASE ~p.alive
    BY <2>2 DEF ProcRec, ProcessGone
  <2>3. QED BY <2>1, <2>2
<1>4. [ProcessGone(p) EXCEPT !.outbox = <<>>] \in ProcRec
  <2>1. <<>> \in Seq(Answer)
    BY EmptySeq
  <2>2. QED BY <1>3, <2>1 DEF ProcRec
<1>5. QED BY <1>1, <1>2, <1>3, <1>4

\* What the actions do to the record of an endpoint.
LEMMA EndpFields ==
  ASSUME NEW r \in EndpRec
  PROVE  /\ \A x \in {"", "unix_sock", "disconnect", "quit"} :
              /\ [r EXCEPT !.resp = x] \in EndpRec
              /\ [r EXCEPT !.resp = x].born = r.born
              /\ [r EXCEPT !.resp = x].stage = r.stage
         /\ \A x \in {"connected", "named"} :
              /\ [r EXCEPT !.stage = x] \in EndpRec
              /\ [r EXCEPT !.stage = x].born = r.born
              /\ [r EXCEPT !.stage = x].stage = x
         /\ [r EXCEPT !.stage = "open", !.born = TRUE, !.resp = ""] \in EndpRec
         /\ [r EXCEPT !.stage = "open", !.resp = ""] \in EndpRec
         /\ [r EXCEPT !.resp = "quit", !.born = FALSE] \in EndpRec
         /\ [NoEndp EXCEPT !.stage = "launched", !.starts = r.starts + 1] \in EndpRec
<1>1. ASSUME NEW x \in {"", "unix_sock", "disconnect", "quit"}
      PROVE  /\ [r EXCEPT !.resp = x] \in EndpRec
             /\ [r EXCEPT !.resp = x].born = r.born
             /\ [r EXCEPT !.resp = x].stage = r.stage
  BY DEF EndpRec
<1>2. ASSUME NEW x \in {"connected", "named"}
      PROVE  /\ [r EXCEPT !.stage = x] \in EndpRec
             /\ [r EXCEPT !.stage = x].born = r.born
             /\ [r EXCEPT !.stage = x].stage = x
  BY DEF EndpRec
<1>3. [r EXCEPT !.stage = "open", !.born = TRUE, !.resp = ""] \in EndpRec
  BY DEF EndpRec
<1>4. [r EXCEPT !.stage = "open", !.resp = ""] \in EndpRec
  BY DEF EndpRec
<1>5. [r EXCEPT !.resp = "quit", !.born = FALSE] \in EndpRec
  BY DEF EndpRec
<1>6. [NoEndp EXCEPT !.stage = "launched", !.starts = r.starts + 1] \in EndpRec
  <2>1. r.starts \in Nat
    BY DEF EndpRec
  <2>2. r.starts + 1 \in Nat
    BY <2>1
  <2>3. \A n \in Nat : [NoEndp EXCEPT !.stage = "launched", !.starts = n] \in EndpRec
    BY DEF EndpRec, NoEndp
  <2>4. QED BY <2>2, <2>3
<1>7. QED BY <1>1, <1>2, <1>3, <1>4, <1>5, <1>6

\* Timers are armed and expire.
LEMMA TimerFields ==
  ASSUME et \in [Endp -> TimerRec], NEW e \in Endp
  PROVE  /\ [et EXCEPT ![e].watchdog = @ + 1] \in [Endp -> TimerRec]
         /\ [et EXCEPT ![e].death = @ + 1] \in [Endp -> TimerRec]
         /\ [et EXCEPT ![e].free = @ + 1] \in [Endp -> TimerRec]
         /\ et[e].watchdog > 0 => [et EXCEPT ![e].watchdog = @ - 1] \in [Endp -> TimerRec]
         /\ et[e].free > 0 => [et EXCEPT ![e].free = @ - 1] \in [Endp -> TimerRec]
         /\ et[e].death > 0 =>
              /\ [et EXCEPT ![e].death = @ - 1] \in [Endp -> TimerRec]
              /\ [et EXCEPT ![e].death = @ - 1, ![e].free = @ + 1] \in [Endp -> TimerRec]
<1>1. [et EXCEPT ![e].watchdog = @ + 1] \in [Endp -> TimerRec]
  BY DEF TimerRec
<1>2. [et EXCEPT ![e].death = @ + 1] \in [Endp -> TimerRec]
  BY DEF TimerRec
<1>3. [et EXCEPT ![e].free = @ + 1] \in [Endp -> TimerRec]
  BY DEF TimerRec
<1>4. et[e].watchdog > 0 => [et EXCEPT ![e].watchdog = @ - 1] \in [Endp -> TimerRec]
  BY DEF TimerRec
<1>5. et[e].free > 0 => [et EXCEPT ![e].free = @ - 1] \in [Endp -> TimerRec]
  BY DEF TimerRec
<1>6. et[e].death > 0 => [et EXCEPT ![e].death = @ - 1] \in [Endp -> TimerRec]
  BY DEF TimerRec
<1>7. et[e].death > 0 =>
        [et EXCEPT ![e].death = @ - 1, ![e].free = @ + 1] \in [Endp -> TimerRec]
  <2> DEFINE q == [et EXCEPT ![e].death = @ - 1]
  <2>1. HAVE et[e].death > 0
  <2>2. q \in [Endp -> TimerRec]
    BY <1>6, <2>1
  <2> HIDE DEF q
  <2>3. [q EXCEPT ![e].free = @ + 1] \in [Endp -> TimerRec]
    BY <2>2 DEF TimerRec
  <2>4. QED BY <2>3 DEF q
<1>8. QED BY <1>1, <1>2, <1>3, <1>4, <1>5, <1>6, <1>7

\* What the actions do to the record of a LAN.
LEMMA LanFields ==
  ASSUME NEW r \in LanRec
  PROVE  /\ NoMulan \in LanRec
         /\ [NoMulan EXCEPT !.st = "start", !.proc = "up"] \in LanRec
         /\ \A z \in -1..(ZombieRetimes + 1) :
              /\ [NoMulan EXCEPT !.zombie = z] \in LanRec
              /\ [r EXCEPT !.zombie = z] \in LanRec
              /\ \A b \in BOOLEAN, p \in {"up", "quitting", "dead", "none"} :
                   /\ [r EXCEPT !.llid = b, !.zombie = z, !.proc = p] \in LanRec
                   /\ [r EXCEPT !.zombie = z, !.proc = p] \in LanRec
         /\ \A b \in BOOLEAN : [r EXCEPT !.llid = b] \in LanRec
         /\ \A x \in {"pid", "wait", "done"} : [r EXCEPT !.st = x] \in LanRec
         /\ [r EXCEPT !.proc = "dead"] \in LanRec
<1>1. -1 \in -1..(ZombieRetimes + 1)
  BY EndpLanAssumption
<1>2. NoMulan \in LanRec
  BY <1>1 DEF NoMulan, LanRec
<1>3. \A q \in LanRec :
        /\ [q EXCEPT !.st = "start", !.proc = "up"] \in LanRec
        /\ \A z \in -1..(ZombieRetimes + 1) :
             /\ [q EXCEPT !.zombie = z] \in LanRec
             /\ \A b \in BOOLEAN, p \in {"up", "quitting", "dead", "none"} :
                  /\ [q EXCEPT !.llid = b, !.zombie = z, !.proc = p] \in LanRec
                  /\ [q EXCEPT !.zombie = z, !.proc = p] \in LanRec
        /\ \A b \in BOOLEAN : [q EXCEPT !.llid = b] \in LanRec
        /\ \A x \in {"pid", "wait", "done"} : [q EXCEPT !.st = x] \in LanRec
        /\ [q EXCEPT !.proc = "dead"] \in LanRec
  BY ZenonT(40) DEF LanRec
<1>4. QED BY <1>2, <1>3

\* What is told to the processes keeps the types and the births.
LEMMA ToldHelpers ==
  ASSUME TypeOK, NEW S \in SUBSET Slot
  PROVE  /\ MuTold(S) \in [Endp -> EndpRec]
         /\ \A e \in Endp : /\ MuTold(S)[e].born = mu[e].born
                            /\ MuTold(S)[e].stage = mu[e].stage
         /\ PrTold(S) \in [Endp -> ProcRec]
         /\ PsTold(S) \in [Slot -> LinkRec]
<1>1. /\ MuTold(S) \in [Endp -> EndpRec]
      /\ \A e \in Endp : /\ MuTold(S)[e].born = mu[e].born
                         /\ MuTold(S)[e].stage = mu[e].stage
  BY ZenonT(40) DEF TypeOK, MuTold, EndpRec
<1>2. PrTold(S) \in [Endp -> ProcRec]
  <2> SUFFICES ASSUME NEW e \in Endp PROVE PrTold(S)[e] \in ProcRec
    BY DEF PrTold
  <2>1. CASE pr[e].alive /\ \E s \in Told(S) : s[1] = e
    <3> DEFINE t == (CHOOSE s \in Told(S) : s[1] = e)[2]
               a == [kind |-> "disconnect_ok", lan |-> NoLan, tidx |-> t]
    <3>1. \E s \in Told(S) : s[1] = e
      BY <2>1
    <3>2. (CHOOSE s \in Told(S) : s[1] = e) \in Slot
      BY <3>1 DEF Told, FirstOf
    <3>3. t \in Tidx
      BY <3>2 DEF Slot
    <3>4. a \in Answer
      BY <3>3 DEF Answer
    <3>5. pr[e].outbox \in Seq(Answer) /\ pr[e] \in ProcRec
      BY DEF TypeOK, ProcRec
    <3>6. Append(pr[e].outbox, a) \in Seq(Answer)
      BY <3>4, <3>5, AppendProperties
    <3>7. PrTold(S)[e] = [pr[e] EXCEPT !.outbox = Append(pr[e].outbox, a)]
      BY <2>1 DEF PrTold, Reply
    <3>8. QED BY <3>5, <3>6, <3>7 DEF ProcRec
  <2>2. CASE ~(pr[e].alive /\ \E s \in Told(S) : s[1] = e)
    BY <2>2 DEF PrTold, TypeOK
  <2>3. QED BY <2>1, <2>2
<1>3. PsTold(S) \in [Slot -> LinkRec]
  BY DEF TypeOK, PsTold, LinkRec, LanOrNo
<1>4. QED BY <1>1, <1>2, <1>3

\* Answers join and leave an outbox.
LEMMA OutboxHelpers ==
  ASSUME TypeOK, NEW e \in Endp
  PROVE  /\ \A k \in {"connect_ok", "connect_ko"}, l \in Lan, t \in Tidx :
              Reply(e, k, l, t) \in Seq(Answer)
         /\ \A k \in {"type_ok", "type_ko"}, t \in Tidx :
              Reply(e, k, NoLan, t) \in Seq(Answer)
         /\ pr[e].outbox # <<>> => /\ Tail(pr[e].outbox) \in Seq(Answer)
                                   /\ Head(pr[e].outbox) \in Answer
<1>1. pr[e].outbox \in Seq(Answer)
  BY DEF TypeOK, ProcRec
<1>2. \A k \in {"connect_ok", "connect_ko"}, l \in Lan, t \in Tidx :
        [kind |-> k, lan |-> l, tidx |-> t] \in Answer
  BY DEF Answer
<1>3. \A k \in {"type_ok", "type_ko"}, t \in Tidx :
        [kind |-> k, lan |-> NoLan, tidx |-> t] \in Answer
  BY DEF Answer
<1>4. \A a \in Answer : Append(pr[e].outbox, a) \in Seq(Answer)
  BY <1>1, AppendProperties
<1>5. pr[e].outbox # <<>> => /\ Tail(pr[e].outbox) \in Seq(Answer)
                             /\ Head(pr[e].outbox) \in Answer
  BY <1>1, HeadTailProperties
<1>6. QED BY <1>2, <1>3, <1>4, <1>5 DEF Reply
-----------------------------------------------------------------------------
(* Slots lose their LAN.                                                     *)

\* An attached slot has a LAN that lan_to_name.c knows, so that
\* endp_evt_del_lan really empties it.
LEMMA DelLanEmpties ==
  ASSUME Inv, NEW s \in Slot, sl[s].attached # NoLan
  PROVE  /\ sl[s].attached \in Lan
         /\ nb_users[sl[s].attached] # 0
         /\ DelLanSlot(sl[s]).lan_num = NoLan
         /\ DelLanSlot(sl[s]).attached = NoLan
         /\ DelLanSlot(sl[s]).waiting = NoLan
<1> DEFINE l == sl[s].attached
<1>1. sl[s] \in SlotRec
  BY DEF Inv, TypeOK
<1>2. l \in Lan /\ sl[s].lan_num = l
  BY <1>1 DEF Inv, AttachConsistent, SlotRec, LanOrNo
<1>3. s \in UsersOf(l)
  BY <1>2 DEF UsersOf
<1>4. IsFiniteSet(UsersOf(l))
  BY SlotsFinite, FS_Subset DEF UsersOf
<1>5. Cardinality(UsersOf(l)) # 0
  BY <1>3, <1>4, FS_EmptySet
<1>6. nb_users[l] # 0
  BY <1>2, <1>5 DEF Inv, NbUsersExact
<1>7. DelLanSlot(sl[s]) = [sl[s] EXCEPT !.lan_num = NoLan, !.attached = NoLan,
                                        !.waiting = NoLan, !.asker = NoClient]
  BY <1>2, <1>6 DEF DelLanSlot
<1>8. QED BY <1>1, <1>2, <1>6, <1>7 DEF SlotRec

\* lan_del_name, called for the slots S, leaves the number of the others.
LEMMA NbDelExact ==
  ASSUME Inv, NEW S \in SUBSET Slot, \A s \in S : sl[s].attached # NoLan
  PROVE  /\ NbDel(S) \in [Lan -> Nat]
         /\ \A l \in Lan : NbDel(S)[l] = Cardinality(UsersOf(l) \ S)
<1> SUFFICES ASSUME NEW l \in Lan
             PROVE  /\ NbDel(S)[l] \in Nat
                    /\ NbDel(S)[l] = Cardinality(UsersOf(l) \ S)
  BY DEF NbDel
<1> DEFINE U == UsersOf(l)
           D == {s \in S : sl[s].attached = l /\ sl[s].lan_num # NoLan}
<1>1. IsFiniteSet(U)
  BY SlotsFinite, FS_Subset DEF UsersOf
<1>2. D = U \cap S
  BY EndpLanAssumption DEF UsersOf, Inv, AttachConsistent
<1>3. /\ Cardinality(U \ S) = Cardinality(U) - Cardinality(D)
      /\ IsFiniteSet(U \ S)
  BY <1>1, <1>2, FS_Difference
<1>4. nb_users[l] = Cardinality(U)
  BY DEF Inv, NbUsersExact
<1>5. Cardinality(U \ S) \in Nat
  BY <1>3, FS_CardinalityType
<1>6. CASE nb_users[l] = 0
  <2>1. U = {}
    BY <1>1, <1>4, <1>6, FS_EmptySet
  <2>2. Cardinality(U \ S) = 0
    BY <2>1, FS_EmptySet
  <2>3. QED BY <1>6, <2>2 DEF NbDel
<1>7. CASE nb_users[l] # 0
  BY <1>3, <1>4, <1>5, <1>7 DEF NbDel
<1>8. QED BY <1>6, <1>7

\* The slots S are emptied, the others keep their LAN or stop waiting: the
\* invariant's facts about slots are kept.
LEMMA SlotsEmptied ==
  ASSUME Inv, NEW S \in SUBSET Slot,
         \A s \in S : sl[s].attached # NoLan,
         nb_users' = NbDel(S),
         \A s \in S : /\ sl'[s].lan_num = NoLan
                      /\ sl'[s].attached = NoLan
                      /\ sl'[s].waiting = NoLan,
         \A s \in Slot \ S : /\ sl'[s].lan_num = sl[s].lan_num
                             /\ sl'[s].attached = sl[s].attached
                             /\ sl'[s].waiting \in {sl[s].waiting, NoLan},
         \A s \in Slot : ~mu'[s[1]].born => ~mu[s[1]].born \/ s \in S \/
                                            (sl'[s].attached = NoLan /\ sl'[s].waiting = NoLan),
         \A e \in Endp : mu'[e].born => mu'[e].stage # "none"
  PROVE  nb_users' \in [Lan -> Nat] /\ AttachConsistent' /\ NbUsersExact'
<1>1. nb_users' \in [Lan -> Nat]
  BY NbDelExact
<1>2. AttachConsistent'
  BY DEF AttachConsistent, Inv
<1>3. NbUsersExact'
  <2> SUFFICES ASSUME NEW l \in Lan PROVE nb_users'[l] = Cardinality(UsersOf(l)')
    BY DEF NbUsersExact
  <2>1. UsersOf(l)' = UsersOf(l) \ S
    BY EndpLanAssumption DEF UsersOf
  <2>2. QED BY <2>1, NbDelExact
<1>4. QED BY <1>1, <1>2, <1>3

\* A step that leaves the slots alone and forgets no birth.
LEMMA SlotsKept ==
  ASSUME Inv, UNCHANGED <<sl, nb_users>>,
         \A e \in Endp : /\ mu'[e].born => mu'[e].stage # "none"
                         /\ mu[e].born => mu'[e].born
  PROVE  nb_users' \in [Lan -> Nat] /\ AttachConsistent' /\ NbUsersExact'
<1>1. AttachConsistent'
  BY DEF AttachConsistent, Inv, Slot
<1>2. NbUsersExact'
  BY DEF NbUsersExact, UsersOf, Inv
<1>3. QED BY <1>1, <1>2 DEF Inv, TypeOK

\* endp_evt_quick_death empties the slots of the endpoint, and no others.
LEMMA QuickDeathEmpties ==
  ASSUME Inv, NEW e \in Endp, QuickDeath(e)
  PROVE  /\ sl' \in [Slot -> SlotRec]
         /\ \A s \in Slot : s[1] = e => /\ sl'[s].lan_num = NoLan
                                        /\ sl'[s].attached = NoLan
                                        /\ sl'[s].waiting = NoLan
         /\ \A s \in Slot : s[1] # e => sl'[s] = sl[s]
<1>1. sl' \in [Slot -> SlotRec]
  BY SlotHelpers DEF QuickDeath, Inv, TypeOK, LanOrNo
<1>2. ASSUME NEW s \in Slot, s[1] = e
      PROVE  sl'[s].lan_num = NoLan /\ sl'[s].attached = NoLan /\ sl'[s].waiting = NoLan
  <2>1. CASE mu[e].born
    <3>1. sl'[s] = QuickDeathSlot(sl[s])
      BY <1>2, <2>1 DEF QuickDeath
    <3>2. sl[s].lan_num = sl[s].attached
      BY DEF Inv, AttachConsistent
    <3>3. QuickDeathSlot(sl[s]).lan_num = NoLan
      BY <3>2, DelLanEmpties DEF QuickDeathSlot, EmptySlot
    <3>4. QED BY <3>1, <3>3 DEF QuickDeathSlot, EmptySlot
  <2>2. CASE ~mu[e].born
    BY <1>2, <2>2 DEF QuickDeath, Inv, AttachConsistent
  <2>3. QED BY <2>1, <2>2
<1>3. \A s \in Slot : s[1] # e => sl'[s] = sl[s]
  BY DEF QuickDeath
<1>4. QED BY <1>1, <1>2, <1>3
\* endp_evt_quick_death of an endpoint that is, or will be, without t_evendp.
LEMMA QuickDeathStep ==
  ASSUME Inv, NEW e \in Endp, QuickDeath(e), ~mu'[e].born,
         \A d \in Endp : d # e => mu'[d] = mu[d]
  PROVE  /\ sl' \in [Slot -> SlotRec]
         /\ nb_users' \in [Lan -> Nat]
         /\ AttachConsistent'
         /\ NbUsersExact'
<1> DEFINE S == {s \in SlotsOf(e) : sl[s].attached # NoLan}
<1>1. S \in SUBSET Slot /\ \A s \in S : sl[s].attached # NoLan
  BY DEF SlotsOf
<1>2. nb_users' = NbDel(S)
  BY DEF QuickDeath
<1>3. \A s \in S : /\ sl'[s].lan_num = NoLan
                   /\ sl'[s].attached = NoLan
                   /\ sl'[s].waiting = NoLan
  BY QuickDeathEmpties DEF SlotsOf
<1>4. \A s \in Slot \ S : /\ sl'[s].lan_num = sl[s].lan_num
                          /\ sl'[s].attached = sl[s].attached
                          /\ sl'[s].waiting \in {sl[s].waiting, NoLan}
  <2> SUFFICES ASSUME NEW s \in Slot \ S
               PROVE  /\ sl'[s].lan_num = sl[s].lan_num
                      /\ sl'[s].attached = sl[s].attached
                      /\ sl'[s].waiting \in {sl[s].waiting, NoLan}
    OBVIOUS
  <2>1. CASE s[1] = e
    <3>1. sl[s].attached = NoLan /\ sl[s].lan_num = NoLan
      BY <2>1 DEF SlotsOf, Inv, AttachConsistent
    <3>2. QED BY <2>1, <3>1, QuickDeathEmpties
  <2>2. CASE s[1] # e
    BY <2>2, QuickDeathEmpties
  <2>3. QED BY <2>1, <2>2
<1>5. \A s \in Slot : ~mu'[s[1]].born => ~mu[s[1]].born \/ s \in S \/
                                         (sl'[s].attached = NoLan /\ sl'[s].waiting = NoLan)
  BY QuickDeathEmpties DEF Slot
<1>6. \A d \in Endp : mu'[d].born => mu'[d].stage # "none"
  BY DEF Inv, AttachConsistent
<1>7. sl' \in [Slot -> SlotRec]
  BY QuickDeathEmpties
<1> HIDE DEF S
<1>8. nb_users' \in [Lan -> Nat] /\ AttachConsistent' /\ NbUsersExact'
  BY <1>1, <1>2, <1>3, <1>4, <1>5, <1>6, SlotsEmptied
<1>9. QED BY <1>7, <1>8

\* The end of an endpoint: every slot was emptied, so muendp_free goes through.
LEMMA EndpGoneStep ==
  ASSUME Inv, NEW e \in Endp, NEW p \in ProcRec, EndpGone(e, p)
  PROVE  /\ mu' \in [Endp -> EndpRec]
         /\ sl' \in [Slot -> SlotRec]
         /\ nb_users' \in [Lan -> Nat]
         /\ pr' \in [Endp -> ProcRec]
         /\ ps' \in [Slot -> LinkRec]
         /\ fault' = fault
         /\ AttachConsistent'
         /\ NbUsersExact'
<1>1. QuickDeath(e)
  BY DEF EndpGone
<1>2. ~\E s \in SlotsOf(e) : sl'[s].lan_num # NoLan
  BY <1>1, QuickDeathEmpties DEF SlotsOf
<1>3. /\ mu' = [mu EXCEPT ![e] = [NoEndp EXCEPT !.starts = mu[e].starts]]
      /\ pr' = [pr EXCEPT ![e] = [ProcessGone(p) EXCEPT !.outbox = <<>>]]
      /\ ps' = NoLinks(e)
      /\ fault' = fault
  BY <1>2 DEF EndpGone
<1>4. TypeOK
  BY DEF Inv
<1>5. mu' \in [Endp -> EndpRec]
  BY <1>3, <1>4 DEF TypeOK, EndpRec, NoEndp
<1>6. pr' \in [Endp -> ProcRec] /\ ps' \in [Slot -> LinkRec]
  BY <1>3, <1>4, ProcHelpers DEF TypeOK
<1>7. ~mu'[e].born /\ \A d \in Endp : d # e => mu'[d] = mu[d]
  BY <1>3, <1>4 DEF TypeOK, NoEndp
<1>8. QED BY <1>1, <1>3, <1>5, <1>6, <1>7, QuickDeathStep

\* endp_mngt_send_quit keeps the types.
LEMMA SendQuitStep ==
  ASSUME TypeOK, NEW e \in Endp, NEW m \in EndpRec, NEW box \in Seq(Answer),
         SendQuit(e, m, box)
  PROVE  /\ mu' \in [Endp -> EndpRec]
         /\ mu'[e] = m /\ \A d \in Endp : d # e => mu'[d] = mu[d]
         /\ pr' \in [Endp -> ProcRec]
         /\ ps' \in [Slot -> LinkRec]
<1>1. pr[e] \in ProcRec
  BY DEF TypeOK
<1>2. ProcessGone(pr[e]) \in ProcRec /\ NoLinks(e) \in [Slot -> LinkRec]
  BY <1>1, ProcHelpers
<1>3. \A q \in ProcRec : [q EXCEPT !.outbox = box] \in ProcRec
  BY DEF ProcRec
<1>4. pr' \in [Endp -> ProcRec]
  BY <1>1, <1>2, <1>3 DEF SendQuit, TypeOK
<1>5. ps' \in [Slot -> LinkRec]
  BY <1>2 DEF SendQuit, TypeOK
<1>6. QED BY <1>4, <1>5 DEF SendQuit, TypeOK

\* endp_evt_mulan_death
LEMMA MulanDeathEventStep ==
  ASSUME Inv, NEW l \in Lan, MulanDeathEvent(l)
  PROVE  /\ mu' \in [Endp -> EndpRec]
         /\ sl' \in [Slot -> SlotRec]
         /\ asking' \subseteq Client
         /\ nb_users' \in [Lan -> Nat]
         /\ pr' \in [Endp -> ProcRec]
         /\ ps' \in [Slot -> LinkRec]
         /\ AttachConsistent'
         /\ NbUsersExact'
<1> DEFINE W == FirstOf({s \in Slot : sl[s].waiting = l})
           A == FirstOf({s \in Slot : sl[s].attached = l})
<1>1. A \in SUBSET Slot /\ \A s \in A : sl[s].attached = l
  BY DEF FirstOf
<1>2. \A s \in A : sl[s].attached # NoLan
  BY <1>1, EndpLanAssumption
<1>3. /\ sl' = [s \in Slot |-> IF s \in A THEN DelLanSlot(sl[s])
                               ELSE IF s \in W THEN NotWaiting(sl[s]) ELSE sl[s]]
      /\ nb_users' = NbDel(A)
      /\ mu' = MuTold(A)
      /\ pr' = PrTold(A)
      /\ ps' = PsTold(A)
  BY DEF MulanDeathEvent
<1>4. asking' \subseteq Client
  BY DEF MulanDeathEvent, Inv, TypeOK
<1> HIDE DEF A, W
<1>5. sl' \in [Slot -> SlotRec]
  BY <1>3, SlotHelpers DEF Inv, TypeOK, LanOrNo
<1>6. /\ mu' \in [Endp -> EndpRec]
      /\ pr' \in [Endp -> ProcRec]
      /\ ps' \in [Slot -> LinkRec]
      /\ \A e \in Endp : mu'[e].born = mu[e].born /\ mu'[e].stage = mu[e].stage
  BY <1>1, <1>3, ToldHelpers DEF Inv
<1>7. \A s \in A : /\ sl'[s].lan_num = NoLan
                   /\ sl'[s].attached = NoLan
                   /\ sl'[s].waiting = NoLan
  BY <1>1, <1>2, <1>3, DelLanEmpties
<1>8. \A s \in Slot \ A : /\ sl'[s].lan_num = sl[s].lan_num
                          /\ sl'[s].attached = sl[s].attached
                          /\ sl'[s].waiting \in {sl[s].waiting, NoLan}
  BY <1>3 DEF NotWaiting, Inv, TypeOK, SlotRec
<1>9. \A s \in Slot : ~mu'[s[1]].born => ~mu[s[1]].born
  BY <1>6 DEF Slot
<1>10. \A e \in Endp : mu'[e].born => mu'[e].stage # "none"
  BY <1>6 DEF Inv, AttachConsistent
<1>11. nb_users' \in [Lan -> Nat] /\ AttachConsistent' /\ NbUsersExact'
  BY <1>1, <1>2, <1>3, <1>7, <1>8, <1>9, <1>10, SlotsEmptied
<1>12. QED BY <1>4, <1>5, <1>6, <1>11

-----------------------------------------------------------------------------
(* The requests of the clients.                                              *)

\* A step that leaves the slots alone, forgets no birth and frees nothing.
LEMMA QuietStep ==
  ASSUME Inv, TypeOK', UNCHANGED <<sl, nb_users>>, fault' # "free_attached",
         \A e \in Endp : /\ mu'[e].born => mu'[e].stage # "none"
                         /\ mu[e].born => mu'[e].born
  PROVE  Inv'
  BY SlotsKept DEF Inv, FreeFindsNoLan

\* A slot of the endpoint that has no LAN starts to wait for one.
LEMMA DoAddLanStep ==
  ASSUME Inv, NEW c \in Client, NEW s \in Slot, NEW l \in Lan,
         mu[s[1]].born, s \in FreeSlots(s[1]), DoAddLan(c, s, l),
         UNCHANGED nb_users
  PROVE  /\ mu' \in [Endp -> EndpRec]
         /\ sl' \in [Slot -> SlotRec]
         /\ lan' \in [Lan -> LanRec]
         /\ lan_connect' \in [Slot \X Lan -> Nat]
         /\ ko_timer' \subseteq Slot \X Lan \X Nat
         /\ AttachConsistent'
         /\ NbUsersExact'
<1>1. TypeOK
  BY DEF Inv
<1>2. PICK seq \in Nat :
        /\ sl' = [sl EXCEPT ![s] = [@ EXCEPT !.waiting = l, !.asker = c, !.seq = seq]]
        /\ \/ ko_timer' = ko_timer
           \/ ko_timer' = ko_timer \cup {<<s, l, seq>>}
  <2>1. sl[s].seq \in Nat
    BY <1>1 DEF TypeOK, SlotRec
  <2>2. CASE lan[l].st = "none"
    <3>1. sl[s].seq + 1 \in Nat
      BY <2>1
    <3>2. QED BY <2>2, <3>1 DEF DoAddLan
  <2>3. CASE lan[l].st # "none"
    BY <2>1, <2>3 DEF DoAddLan
  <2>4. QED BY <2>2, <2>3
<1>3. sl' \in [Slot -> SlotRec]
  BY <1>1, <1>2, ZenonT(40) DEF TypeOK, SlotRec, LanOrNo
<1>4. lan' \in [Lan -> LanRec]
  <2>1. [NoMulan EXCEPT !.st = "start", !.proc = "up"] \in LanRec
    BY <1>1, LanFields DEF TypeOK
  <2>2. QED BY <1>1, <2>1 DEF DoAddLan, TypeOK
<1>5. lan_connect' \in [Slot \X Lan -> Nat]
  BY <1>1 DEF DoAddLan, TypeOK
<1>6. ko_timer' \subseteq Slot \X Lan \X Nat
  BY <1>1, <1>2 DEF TypeOK
<1>7. /\ mu' \in [Endp -> EndpRec]
      /\ \A e \in Endp : mu'[e].born = mu[e].born /\ mu'[e].stage = mu[e].stage
  <2>1. s[1] \in Endp /\ mu \in [Endp -> EndpRec]
    BY <1>1 DEF TypeOK, Slot
  <2>2. \/ mu' = mu
        \/ mu' = [mu EXCEPT ![s[1]] = [mu[s[1]] EXCEPT !.resp = "unix_sock"]]
    BY DEF DoAddLan
  <2>3. /\ [mu[s[1]] EXCEPT !.resp = "unix_sock"] \in EndpRec
        /\ [mu[s[1]] EXCEPT !.resp = "unix_sock"].born = mu[s[1]].born
        /\ [mu[s[1]] EXCEPT !.resp = "unix_sock"].stage = mu[s[1]].stage
    BY <2>1, EndpFields
  <2>4. QED BY <2>1, <2>2, <2>3
<1>8. /\ \A u \in Slot : /\ sl'[u].lan_num = sl[u].lan_num
                         /\ sl'[u].attached = sl[u].attached
                         /\ u # s => sl'[u].waiting = sl[u].waiting
      /\ sl[s].attached = NoLan
  BY <1>1, <1>2 DEF TypeOK, SlotRec, FreeSlots
<1>9. AttachConsistent'
  BY <1>7, <1>8 DEF AttachConsistent, Inv, Slot
<1>10. NbUsersExact'
  BY <1>8 DEF NbUsersExact, UsersOf, Inv
<1>11. QED BY <1>3, <1>4, <1>5, <1>6, <1>7, <1>9, <1>10

\* local_add_lan, whether it accepts or refuses.
LEMMA LocalAddLanStep ==
  ASSUME Inv, NEW c \in Client, NEW e \in Endp, NEW l \in Lan,
         LocalAddLan(c, e, l), UNCHANGED nb_users
  PROVE  /\ mu' \in [Endp -> EndpRec]
         /\ sl' \in [Slot -> SlotRec]
         /\ lan' \in [Lan -> LanRec]
         /\ asking' \subseteq Client
         /\ lan_connect' \in [Slot \X Lan -> Nat]
         /\ ko_timer' \subseteq Slot \X Lan \X Nat
         /\ AttachConsistent'
         /\ NbUsersExact'
<1>1. asking' \subseteq Client
  BY DEF LocalAddLan, Inv, TypeOK
<1>2. CASE Accepts(e, l)
  <2>1. PICK s \in FirstOf(FreeSlots(e)) : DoAddLan(c, s, l)
    BY <1>2 DEF LocalAddLan
  <2>2. s \in Slot /\ s[1] = e /\ s \in FreeSlots(s[1])
    BY <2>1 DEF FirstOf, FreeSlots, SlotsOf
  <2>3. mu[s[1]].born
    BY <1>2, <2>2 DEF Accepts
  <2>4. QED BY <1>1, <2>1, <2>2, <2>3, DoAddLanStep
<1>3. CASE ~Accepts(e, l)
  <2>1. UNCHANGED <<sl, lan, ko_timer, lan_connect, mu>>
    BY <1>3 DEF LocalAddLan
  <2>2. AttachConsistent' /\ NbUsersExact'
    BY <2>1, SlotsKept DEF Inv, AttachConsistent
  <2>3. QED BY <1>1, <2>1, <2>2 DEF Inv, TypeOK
<1>4. QED BY <1>2, <1>3

\* add_lan_endp: the request is served, put aside or refused.
LEMMA AddLanEndpStep ==
  ASSUME Inv, NEW c \in Client, NEW e \in Endp, NEW l \in Lan, AddLanEndp(c, e, l),
         chain' \subseteq Delayed, strays' \subseteq Client,
         UNCHANGED <<nb_users, pr, ps, fault>>
  PROVE  Inv'
<1>1. CASE mu[e].born
  <2>1. LocalAddLan(c, e, l) /\ UNCHANGED et
    BY <1>1 DEF AddLanEndp
  <2>2. QED BY <2>1, LocalAddLanStep DEF Inv, TypeOK, FreeFindsNoLan
<1>2. CASE ~mu[e].born
  <2>1. UNCHANGED <<sl, lan, ko_timer, lan_connect, mu>>
    BY <1>2 DEF AddLanEndp
  <2>2. asking' \subseteq Client
    BY <1>2 DEF AddLanEndp, Inv, TypeOK
  <2>3. et' \in [Endp -> TimerRec]
    <3>1. [client |-> c, lan |-> l] \in Request
      BY DEF Request
    <3>2. [et[e] EXCEPT !.early = [client |-> c, lan |-> l]] \in TimerRec
      BY <3>1 DEF Inv, TypeOK, TimerRec
    <3>3. QED BY <1>2, <3>2 DEF AddLanEndp, Inv, TypeOK
  <2>4. TypeOK'
    BY <2>1, <2>2, <2>3 DEF Inv, TypeOK
  <2>5. QED
    BY <2>1, <2>4, QuietStep DEF Inv, AttachConsistent, FreeFindsNoLan
<1>3. QED BY <1>1, <1>2

\* recv_add_lan_endp: refused, taken, or put in the chain.
LEMMA AddLanInv ==
  ASSUME Inv, NEW c \in Client, NEW e \in Endp, NEW l \in Lan, AddLan(c, e, l)
  PROVE  Inv'
<1>1. /\ UNCHANGED <<nb_users, pr, ps, fault>>
      /\ strays' \subseteq Client
  BY DEF AddLan, Inv, TypeOK
<1>2. CASE AddLanEndp(c, e, l) /\ UNCHANGED chain
  BY <1>1, <1>2, AddLanEndpStep DEF Inv, TypeOK
<1>3. CASE /\ UNCHANGED <<sl, lan, ko_timer, lan_connect, mu, et>>
           /\ asking' \in {asking, asking \cup {c}}
           /\ chain' \in {chain, chain \cup {[client |-> c, endp |-> e, lan |-> l]}}
  <2>1. chain' \subseteq Delayed /\ asking' \subseteq Client
    BY <1>3 DEF Inv, TypeOK, Delayed
  <2>2. TypeOK'
    BY <1>1, <1>3, <2>1 DEF Inv, TypeOK
  <2>3. QED
    BY <1>1, <1>3, <2>2, QuietStep DEF Inv, AttachConsistent, FreeFindsNoLan
<1>4. QED BY <1>2, <1>3 DEF AddLan

\* delayed_coherency_cmd_timeout
LEMMA DelayedInv ==
  ASSUME Inv, NEW x \in chain, DelayedCoherency(x)
  PROVE  Inv'
<1>1. x.client \in Client /\ x.endp \in Endp /\ x.lan \in Lan
  BY DEF Inv, TypeOK, Delayed
<1>2. /\ AddLanEndp(x.client, x.endp, x.lan)
      /\ chain' \subseteq Delayed /\ strays' \subseteq Client
      /\ UNCHANGED <<nb_users, pr, ps, fault>>
  BY DEF DelayedCoherency, Inv, TypeOK
<1>3. QED BY <1>1, <1>2, AddLanEndpStep

\* timer_endp: the request that was put aside is served or refused.
LEMMA TimerEndpInv ==
  ASSUME Inv, NEW e \in Endp, TimerEndp(e)
  PROVE  Inv'
<1> DEFINE r == et[e].early
<1>1. UNCHANGED <<nb_users, chain, strays, pr, ps, fault>>
  BY DEF TimerEndp
<1>2. r.client \in Client /\ r.lan \in Lan
  BY DEF TimerEndp, Inv, TypeOK, TimerRec, Request
<1>3. et' \in [Endp -> TimerRec]
  BY DEF TimerEndp, Inv, TypeOK, TimerRec
<1>4. CASE mu[e].born
  <2>1. LocalAddLan(r.client, e, r.lan)
    BY <1>4 DEF TimerEndp
  <2> HIDE DEF r
  <2>2. QED BY <1>1, <1>2, <1>3, <2>1, LocalAddLanStep DEF Inv, TypeOK, FreeFindsNoLan
<1>5. CASE ~mu[e].born
  <2>1. UNCHANGED <<sl, lan, ko_timer, lan_connect, mu>> /\ asking' \subseteq Client
    BY <1>5 DEF TimerEndp, Inv, TypeOK
  <2>2. TypeOK'
    BY <1>1, <1>3, <2>1 DEF Inv, TypeOK
  <2>3. QED
    BY <1>1, <2>1, <2>2, QuietStep DEF Inv, AttachConsistent, FreeFindsNoLan
<1>6. QED BY <1>4, <1>5

\* recv_del_lan_endp: the slot is emptied and nb_users counts one user less.
LEMMA DelLanInv ==
  ASSUME Inv, NEW e \in Endp, NEW l \in Lan, DelLan(e, l)
  PROVE  Inv'
<1>1. PICK s \in FirstOf({u \in SlotsOf(e) : sl[u].attached = l}) :
        /\ sl' = [sl EXCEPT ![s] = DelLanSlot(@)]
        /\ nb_users' = NbDel({s})
        /\ mu' = MuTold({s})
        /\ pr' = PrTold({s})
        /\ ps' = PsTold({s})
  BY DEF DelLan
<1>2. UNCHANGED <<lan, asking, chain, strays, et, lan_connect, ko_timer, fault>>
  BY DEF DelLan
<1>3. s \in Slot /\ sl[s].attached # NoLan
  BY <1>1, EndpLanAssumption DEF FirstOf, SlotsOf
<1>4. sl' \in [Slot -> SlotRec]
  BY <1>1, <1>3, SlotHelpers DEF Inv, TypeOK, LanOrNo
<1>5. {s} \in SUBSET Slot /\ TypeOK
  BY <1>3 DEF Inv
<1>6. /\ mu' \in [Endp -> EndpRec]
      /\ pr' \in [Endp -> ProcRec]
      /\ ps' \in [Slot -> LinkRec]
      /\ \A d \in Endp : mu'[d].born = mu[d].born /\ mu'[d].stage = mu[d].stage
  BY <1>1, <1>5, ToldHelpers
<1>7. /\ \A u \in {s} : /\ sl[u].attached # NoLan
                        /\ sl'[u].lan_num = NoLan
                        /\ sl'[u].attached = NoLan
                        /\ sl'[u].waiting = NoLan
      /\ \A u \in Slot \ {s} : sl'[u] = sl[u]
  BY <1>1, <1>3, <1>5, DelLanEmpties DEF TypeOK
<1>8. /\ \A u \in Slot : ~mu'[u[1]].born => ~mu[u[1]].born
      /\ \A d \in Endp : mu'[d].born => mu'[d].stage # "none"
  BY <1>6 DEF Inv, AttachConsistent, Slot
<1>9. nb_users' \in [Lan -> Nat] /\ AttachConsistent' /\ NbUsersExact'
  BY <1>1, <1>5, <1>7, <1>8, SlotsEmptied
<1>10. QED BY <1>2, <1>4, <1>6, <1>9 DEF Inv, TypeOK, FreeFindsNoLan

\* endp_mngt_start: a new record has no t_evendp, hence no LAN.
LEMMA EndpStartInv ==
  ASSUME Inv, NEW e \in Endp, EndpStart(e)
  PROVE  Inv'
<1>1. mu' \in [Endp -> EndpRec]
  BY EndpFields DEF EndpStart, Inv, TypeOK
<1>2. pr' \in [Endp -> ProcRec]
  <2>1. [pr[e] EXCEPT !.alive = TRUE, !.outbox = <<>>] \in ProcRec
    BY EmptySeq DEF Inv, TypeOK, ProcRec
  <2>2. QED BY <2>1 DEF EndpStart, Inv, TypeOK
<1>3. et' \in [Endp -> TimerRec]
  BY TimerFields DEF EndpStart, Inv, TypeOK
<1>4. TypeOK'
  BY <1>1, <1>2, <1>3 DEF EndpStart, Inv, TypeOK
<1>5. ~mu[e].born
  BY DEF EndpStart, Inv, AttachConsistent
<1>6. \A d \in Endp : /\ mu'[d].born => mu'[d].stage # "none"
                      /\ mu[d].born => mu'[d].born
  BY <1>5 DEF EndpStart, Inv, TypeOK, AttachConsistent, NoEndp
<1>7. QED BY <1>4, <1>6, QuietStep DEF EndpStart, Running

\* endp_mngt_stop: the slots stay until timer_endp_death, or are freed at once.
LEMMA EndpStopInv ==
  ASSUME Inv, NEW e \in Endp, EndpStop(e)
  PROVE  Inv'
<1>1. UNCHANGED <<lan, asking, chain, strays, lan_connect, ko_timer>> /\ fault = "none"
  BY DEF EndpStop, Running
<1>2. CASE mu[e].born
  <2> DEFINE S == {s \in SlotsOf(e) : sl[s].attached # NoLan \/ sl[s].waiting # NoLan}
  <2>1. S \in SUBSET Slot
    BY DEF SlotsOf
  <2>2. /\ mu' = [MuTold(S) EXCEPT ![e] = [@ EXCEPT !.stop_done = TRUE]]
        /\ pr' = PrTold(S)
        /\ ps' = PsTold(S)
        /\ et' = [et EXCEPT ![e].death = @ + 1]
        /\ UNCHANGED <<sl, nb_users, fault>>
    BY <1>2 DEF EndpStop
  <2> HIDE DEF S
  <2>3. /\ MuTold(S) \in [Endp -> EndpRec]
        /\ \A d \in Endp : /\ MuTold(S)[d].born = mu[d].born
                           /\ MuTold(S)[d].stage = mu[d].stage
        /\ pr' \in [Endp -> ProcRec]
        /\ ps' \in [Slot -> LinkRec]
    BY <2>1, <2>2, ToldHelpers DEF Inv
  <2>4. /\ mu' \in [Endp -> EndpRec]
        /\ \A d \in Endp : mu'[d].born = mu[d].born /\ mu'[d].stage = mu[d].stage
    BY <2>2, <2>3, ZenonT(40) DEF EndpRec
  <2>5. et' \in [Endp -> TimerRec]
    <3>1. et \in [Endp -> TimerRec]
      BY DEF Inv, TypeOK
    <3>2. QED BY <2>2, <3>1, TimerFields
  <2>6. TypeOK'
    BY <1>1, <2>2, <2>3, <2>4, <2>5 DEF Inv, TypeOK
  <2>7. QED
    BY <1>1, <2>2, <2>4, <2>6, QuietStep DEF Inv, AttachConsistent
<1>3. CASE ~mu[e].born
  <2>1. EndpGone(e, pr[e]) /\ UNCHANGED et
    BY <1>3 DEF EndpStop
  <2>2. pr[e] \in ProcRec
    BY DEF Inv, TypeOK
  <2>3. QED BY <1>1, <2>1, <2>2, EndpGoneStep DEF Inv, TypeOK, FreeFindsNoLan
<1>4. QED BY <1>2, <1>3

-----------------------------------------------------------------------------
(* The steps of a LAN.                                                       *)

\* trigger_zombie_kill
LEMMA ZombieKillStep ==
  ASSUME Inv, NEW l \in Lan, NEW b \in BOOLEAN, ZombieKill(l, b),
         UNCHANGED <<chain, strays, et, lan_connect, ko_timer, fault>>
  PROVE  Inv'
<1>1. /\ lan \in [Lan -> LanRec]
      /\ lan[l] \in LanRec
      /\ lan[l].proc \in {"up", "quitting", "dead", "none"}
      /\ 0 \in -1..(ZombieRetimes + 1)
  BY EndpLanAssumption DEF Inv, TypeOK, LanRec
<1>2. CASE IsZombie(l)
  <2>1. [lan[l] EXCEPT !.llid = b] \in LanRec
    BY <1>1, LanFields
  <2>2. lan' \in [Lan -> LanRec] /\ UNCHANGED <<sl, nb_users, asking, mu, pr, ps>>
    BY <1>1, <1>2, <2>1 DEF ZombieKill
  <2>3. TypeOK'
    BY <2>2 DEF Inv, TypeOK
  <2>4. QED
    BY <2>2, <2>3, QuietStep DEF Inv, AttachConsistent, FreeFindsNoLan
<1>3. CASE ~IsZombie(l)
  <2> DEFINE p == IF b /\ lan[l].proc = "up" THEN "quitting" ELSE lan[l].proc
  <2>1. MulanDeathEvent(l)
        /\ lan' = [lan EXCEPT ![l] = [lan[l] EXCEPT !.llid = b, !.zombie = 0, !.proc = p]]
    BY <1>3 DEF ZombieKill
  <2>2. p \in {"up", "quitting", "dead", "none"}
    BY <1>1
  <2> HIDE DEF p
  <2>3. [lan[l] EXCEPT !.llid = b, !.zombie = 0, !.proc = p] \in LanRec
    BY <1>1, <2>2, LanFields
  <2>4. lan' \in [Lan -> LanRec]
    BY <1>1, <2>1, <2>3
  <2>5. QED
    BY <2>1, <2>4, MulanDeathEventStep DEF Inv, TypeOK, FreeFindsNoLan
<1>4. QED BY <1>2, <1>3

\* The connections to a LAN whose process has ended.
LEMMA UnlinkedTyped ==
  ASSUME TypeOK, NEW l \in Lan
  PROVE  Unlinked(l) \in [Slot -> LinkRec]
  BY DEF TypeOK, Unlinked, LinkRec, LanOrNo

\* Every step of a LAN: only the two death reports touch the slots.
LEMMA LanStepInv ==
  ASSUME Inv, NEW l \in Lan, LanStep(l)
  PROVE  Inv'
<1> DEFINE quiet == UNCHANGED <<mu, sl, nb_users, asking, chain, strays, et, ko_timer, pr, fault>>
<1>1. /\ lan \in [Lan -> LanRec]
      /\ lan[l] \in LanRec
      /\ lan[l].llid \in BOOLEAN
      /\ lan[l].zombie \in -1..(ZombieRetimes + 1)
      /\ lan[l].proc \in {"up", "quitting", "dead", "none"}
      /\ TypeOK
  BY DEF Inv, TypeOK, LanRec
<1>2. ASSUME NEW r \in LanRec, lan' = [lan EXCEPT ![l] = r], quiet, UNCHANGED lan_connect,
             ps' \in [Slot -> LinkRec]
      PROVE  Inv'
  <2>1. TypeOK'
    BY <1>1, <1>2 DEF TypeOK
  <2>2. QED BY <1>2, <2>1, QuietStep DEF Inv, AttachConsistent, FreeFindsNoLan
<1> HIDE DEF quiet
<1>3. CASE MulanRequestQuit(l)
  BY <1>1, <1>3, ZombieKillStep DEF MulanRequestQuit
<1>4. CASE MulanConnect(l)
  <2>1. [lan[l] EXCEPT !.llid = TRUE] \in LanRec
    BY <1>1, LanFields
  <2>2. QED BY <1>1, <1>2, <1>4, <2>1 DEF MulanConnect, quiet, TypeOK
<1>5. CASE MulanPid(l)
  <2>1. [lan[l] EXCEPT !.st = "pid"] \in LanRec
    BY <1>1, LanFields
  <2>2. QED BY <1>1, <1>2, <1>5, <2>1 DEF MulanPid, quiet, TypeOK
<1>6. CASE MulanListen(l)
  <2>1. [lan[l] EXCEPT !.st = "wait"] \in LanRec
    BY <1>1, LanFields
  <2>2. QED BY <1>1, <1>2, <1>6, <2>1 DEF MulanListen, quiet, TypeOK
<1>7. CASE MulanListenOk(l)
  <2> DEFINE C == {s \in FirstOf({u \in Slot : sl[u].waiting = l}) : mu[s[1]].resp = ""}
  <2>1. /\ lan' = [lan EXCEPT ![l] = [lan[l] EXCEPT !.st = "done"]]
        /\ lan_connect' = [x \in Slot \X Lan |->
             IF x[1] \in C /\ x[2] = l THEN lan_connect[x] + 1 ELSE lan_connect[x]]
        /\ mu' = [e \in Endp |-> IF \E s \in C : s[1] = e
                                 THEN [mu[e] EXCEPT !.resp = "unix_sock"] ELSE mu[e]]
        /\ UNCHANGED <<sl, nb_users, asking, chain, strays, et, ko_timer, pr, ps, fault>>
    BY <1>7 DEF MulanListenOk
  <2> HIDE DEF C
  <2>2. [lan[l] EXCEPT !.st = "done"] \in LanRec
    BY <1>1, LanFields
  <2>3. lan' \in [Lan -> LanRec]
    BY <1>1, <2>1, <2>2
  <2>4. lan_connect' \in [Slot \X Lan -> Nat]
    BY <1>1, <2>1 DEF TypeOK
  <2>5. \A e \in Endp : mu[e] \in EndpRec
    BY <1>1 DEF TypeOK
  <2>6. /\ mu' \in [Endp -> EndpRec]
        /\ \A e \in Endp : mu'[e].born = mu[e].born /\ mu'[e].stage = mu[e].stage
    BY <2>1, <2>5, EndpFields
  <2>7. TypeOK'
    BY <1>1, <2>1, <2>3, <2>4, <2>6 DEF TypeOK
  <2>8. QED BY <2>1, <2>6, <2>7, QuietStep DEF Inv, AttachConsistent, FreeFindsNoLan
<1>8. CASE MulanErrCb(l)
  BY <1>8, ZombieKillStep DEF MulanErrCb
<1>9. CASE MulanDeath(l)
  <2>1. [NoMulan EXCEPT !.zombie = lan[l].zombie] \in LanRec
    BY <1>1, LanFields
  <2>2. /\ MulanDeathEvent(l)
        /\ lan' \in [Lan -> LanRec]
        /\ UNCHANGED <<chain, strays, et, lan_connect, ko_timer, fault>>
    BY <1>1, <1>9, <2>1 DEF MulanDeath
  <2>3. QED BY <2>2, MulanDeathEventStep DEF Inv, TypeOK, FreeFindsNoLan
<1>10. CASE MulanExit(l)
  <2>1. [lan[l] EXCEPT !.proc = "dead"] \in LanRec
    BY <1>1, LanFields
  <2>2. QED BY <1>1, <1>2, <1>10, <2>1, UnlinkedTyped DEF MulanExit, quiet
<1>11. CASE TimerZombieKill(l)
  <2> DEFINE count == IF lan[l].zombie > ZombieRetimes THEN lan[l].zombie
                      ELSE lan[l].zombie + 1
             killed == count > ZombieRetimes /\ lan[l].proc \in {"up", "quitting"}
             p == IF killed THEN "dead" ELSE lan[l].proc
  <2>1. count \in -1..(ZombieRetimes + 1) /\ -1 \in -1..(ZombieRetimes + 1)
    BY <1>1, EndpLanAssumption
  <2>2. p \in {"up", "quitting", "dead", "none"}
    BY <1>1
  <2>3. /\ \/ lan' = [lan EXCEPT ![l] = [lan[l] EXCEPT !.zombie = count, !.proc = p]]
           \/ lan' = [lan EXCEPT ![l] = [lan[l] EXCEPT !.zombie = -1]]
        /\ ps' \in {ps, Unlinked(l)}
        /\ quiet /\ UNCHANGED lan_connect
    BY <1>11 DEF TimerZombieKill, quiet
  <2> HIDE DEF count, p
  <2>4. /\ [lan[l] EXCEPT !.zombie = count, !.proc = p] \in LanRec
        /\ [lan[l] EXCEPT !.zombie = -1] \in LanRec
    BY <1>1, <2>1, <2>2, LanFields
  <2>5. ps' \in [Slot -> LinkRec]
    BY <1>1, <2>3, UnlinkedTyped DEF TypeOK
  <2>6. QED BY <1>2, <2>3, <2>4, <2>5
<1>12. QED
  BY <1>3, <1>4, <1>5, <1>6, <1>7, <1>8, <1>9, <1>10, <1>11 DEF LanStep

-----------------------------------------------------------------------------
(* The steps of an endpoint.                                                 *)

\* The record of one endpoint changes, and the births are kept.
LEMMA OneEndpStep ==
  ASSUME Inv, NEW e \in Endp, NEW r \in EndpRec, mu' = [mu EXCEPT ![e] = r],
         r.born => r.stage # "none",
         mu[e].born => r.born,
         et' \in [Endp -> TimerRec], pr' \in [Endp -> ProcRec], ps' \in [Slot -> LinkRec],
         UNCHANGED <<sl, nb_users, lan, asking, chain, strays, lan_connect, ko_timer, fault>>
  PROVE  Inv'
<1>1. mu \in [Endp -> EndpRec]
  BY DEF Inv, TypeOK
<1>2. mu' \in [Endp -> EndpRec]
  BY <1>1
<1>3. TypeOK'
  BY <1>2 DEF Inv, TypeOK
<1>4. \A d \in Endp : mu'[d] = IF d = e THEN r ELSE mu[d]
  BY <1>1
<1>5. \A d \in Endp : /\ mu'[d].born => mu'[d].stage # "none"
                      /\ mu[d].born => mu'[d].born
  BY <1>4 DEF Inv, AttachConsistent
<1>6. QED BY <1>3, <1>5, QuietStep DEF Inv, FreeFindsNoLan

\* timer_endp_beat, endp_mngt_pid_resp and the crash of a process.
LEMMA BeatInv ==
  ASSUME Inv, NEW e \in Endp,
         EndpConnect(e) \/ EndpPid(e) \/ EndpTypeReq(e) \/ EndpBeatQuit(e) \/ ProcExit(e)
  PROVE  Inv'
<1>1. /\ TypeOK
      /\ mu \in [Endp -> EndpRec] /\ mu[e] \in EndpRec
      /\ et \in [Endp -> TimerRec]
      /\ pr \in [Endp -> ProcRec] /\ pr[e] \in ProcRec
      /\ ps \in [Slot -> LinkRec]
      /\ mu[e].born => mu[e].stage # "none"
  BY DEF Inv, TypeOK, AttachConsistent
<1>2. CASE EndpConnect(e)
  <2>1. /\ mu' = [mu EXCEPT ![e] = [mu[e] EXCEPT !.stage = "connected"]]
        /\ UNCHANGED <<sl, nb_users, lan, asking, chain, strays, et, lan_connect, ko_timer, pr, ps, fault>>
    BY <1>2 DEF EndpConnect
  <2>2. /\ [mu[e] EXCEPT !.stage = "connected"] \in EndpRec
        /\ [mu[e] EXCEPT !.stage = "connected"].born = mu[e].born
        /\ [mu[e] EXCEPT !.stage = "connected"].stage # "none"
    BY <1>1, EndpFields
  <2>3. QED BY <1>1, <2>1, <2>2, OneEndpStep
<1>3. CASE EndpPid(e)
  <2>1. /\ mu' = [mu EXCEPT ![e] = [mu[e] EXCEPT !.stage = "named"]]
        /\ UNCHANGED <<sl, nb_users, lan, asking, chain, strays, et, lan_connect, ko_timer, pr, ps, fault>>
    BY <1>3 DEF EndpPid
  <2>2. /\ [mu[e] EXCEPT !.stage = "named"] \in EndpRec
        /\ [mu[e] EXCEPT !.stage = "named"].born = mu[e].born
        /\ [mu[e] EXCEPT !.stage = "named"].stage # "none"
    BY <1>1, EndpFields
  <2>3. QED BY <1>1, <2>1, <2>2, OneEndpStep
<1>4. CASE EndpTypeReq(e)
  <2>1. PICK kind \in {"type_ok", "type_ko"}, t \in Tidx :
          pr' = [pr EXCEPT ![e] = [pr[e] EXCEPT !.outbox = Reply(e, kind, NoLan, t)]]
    BY <1>4 DEF EndpTypeReq
  <2>2. Reply(e, kind, NoLan, t) \in Seq(Answer)
    BY <1>1, OutboxHelpers
  <2>3. [pr[e] EXCEPT !.outbox = Reply(e, kind, NoLan, t)] \in ProcRec
    BY <1>1, <2>2 DEF ProcRec
  <2>4. pr' \in [Endp -> ProcRec]
    BY <1>1, <2>1, <2>3
  <2>5. UNCHANGED <<mu, sl, nb_users, lan, asking, chain, strays, et, lan_connect, ko_timer, ps, fault>>
    BY <1>4 DEF EndpTypeReq
  <2>6. mu' = [mu EXCEPT ![e] = mu[e]]
    BY <1>1, <2>5
  <2>7. QED BY <1>1, <2>4, <2>5, <2>6, OneEndpStep
<1>5. CASE EndpBeatQuit(e)
  <2> DEFINE m == [mu[e] EXCEPT !.resp = "quit"]
  <2>1. SendQuit(e, m, pr[e].outbox) /\ et' = [et EXCEPT ![e].free = @ + 1]
        /\ UNCHANGED <<sl, nb_users, lan, asking, chain, strays, lan_connect, ko_timer, fault>>
    BY <1>5 DEF EndpBeatQuit
  <2>2. m \in EndpRec /\ m.born = mu[e].born /\ m.stage = mu[e].stage
    BY <1>1, EndpFields
  <2> HIDE DEF m
  <2>3. pr[e].outbox \in Seq(Answer)
    BY <1>1 DEF ProcRec
  <2>4. pr' \in [Endp -> ProcRec] /\ ps' \in [Slot -> LinkRec]
    BY <1>1, <2>1, <2>2, <2>3, SendQuitStep
  <2>5. et' \in [Endp -> TimerRec]
    BY <1>1, <2>1, TimerFields
  <2>6. mu' = [mu EXCEPT ![e] = m]
    BY <2>1 DEF SendQuit
  <2>7. QED BY <1>1, <2>1, <2>2, <2>4, <2>5, <2>6, OneEndpStep
<1>6. CASE ProcExit(e)
  <2>1. /\ pr' = [pr EXCEPT ![e] = ProcessGone(pr[e])]
        /\ ps' = NoLinks(e)
        /\ UNCHANGED <<mu, sl, nb_users, lan, asking, chain, strays, et, lan_connect, ko_timer, fault>>
    BY <1>6 DEF ProcExit
  <2>2. pr' \in [Endp -> ProcRec] /\ ps' \in [Slot -> LinkRec]
    BY <1>1, <2>1, ProcHelpers
  <2>3. mu' = [mu EXCEPT ![e] = mu[e]]
    BY <1>1, <2>1
  <2>4. QED BY <1>1, <2>1, <2>2, <2>3, OneEndpStep
<1>7. QED BY <1>2, <1>3, <1>4, <1>5, <1>6

\* What ends an endpoint: the watchdog, the loss of the channel, the report
\* that a process of this name has ended, the timers of a stop.
LEMMA EndInv ==
  ASSUME Inv, NEW e \in Endp,
         \/ MuendpWatchdog(e) \/ EndpErrCb(e) \/ MuendpDeath(e)
         \/ TimerEndpDeath(e) \/ TimerEndpFree(e)
  PROVE  Inv'
<1>1. /\ TypeOK
      /\ mu \in [Endp -> EndpRec] /\ mu[e] \in EndpRec
      /\ et \in [Endp -> TimerRec]
      /\ pr \in [Endp -> ProcRec] /\ pr[e] \in ProcRec
      /\ ps \in [Slot -> LinkRec]
      /\ mu[e].born => mu[e].stage # "none"
  BY DEF Inv, TypeOK, AttachConsistent
<1>2. ASSUME NEW p \in ProcRec, EndpGone(e, p), et' \in [Endp -> TimerRec],
             UNCHANGED <<lan, asking, chain, strays, lan_connect, ko_timer>>
      PROVE  Inv'
  BY <1>1, <1>2, EndpGoneStep DEF Inv, TypeOK, FreeFindsNoLan
<1>3. ASSUME et' \in [Endp -> TimerRec], pr' \in [Endp -> ProcRec],
             UNCHANGED <<mu, sl, nb_users, lan, asking, chain, strays, lan_connect, ko_timer, ps, fault>>
      PROVE  Inv'
  <2>1. mu' = [mu EXCEPT ![e] = mu[e]]
    BY <1>1, <1>3
  <2>2. QED BY <1>1, <1>3, <2>1, OneEndpStep
<1>4. CASE MuendpWatchdog(e)
  <2>1. et' \in [Endp -> TimerRec]
    BY <1>1, <1>4, TimerFields DEF MuendpWatchdog
  <2>2. UNCHANGED <<lan, asking, chain, strays, lan_connect, ko_timer>>
    BY <1>4 DEF MuendpWatchdog
  <2>3. EndpGone(e, pr[e]) \/ UNCHANGED <<mu, sl, nb_users, pr, ps, fault>>
    BY <1>4 DEF MuendpWatchdog
  <2>4. QED BY <1>1, <1>2, <1>3, <2>1, <2>2, <2>3
<1>5. CASE EndpErrCb(e)
  BY <1>1, <1>2, <1>5 DEF EndpErrCb
<1>6. CASE MuendpDeath(e)
  <2> DEFINE p == [pr[e] EXCEPT !.obituary = @ - 1]
  <2>1. p \in ProcRec
    <3>1. pr[e].obituary \in Nat /\ pr[e].obituary > 0
      BY <1>1, <1>6 DEF MuendpDeath, ProcRec
    <3>2. pr[e].obituary - 1 \in Nat
      BY <3>1
    <3>3. QED BY <1>1, <3>2 DEF ProcRec
  <2>2. UNCHANGED <<lan, asking, chain, strays, et, lan_connect, ko_timer>>
    BY <1>6 DEF MuendpDeath
  <2>3. \/ EndpGone(e, p)
        \/ pr' = [pr EXCEPT ![e] = p] /\ UNCHANGED <<mu, sl, nb_users, ps, fault>>
    BY <1>6 DEF MuendpDeath
  <2> HIDE DEF p
  <2>4. QED BY <1>1, <1>2, <1>3, <2>1, <2>2, <2>3
<1>7. CASE TimerEndpDeath(e)
  <2>1. UNCHANGED <<lan, asking, chain, strays, lan_connect, ko_timer, fault>>
    BY <1>7 DEF TimerEndpDeath
  <2>2. et' \in [Endp -> TimerRec]
    <3>1. et[e].death > 0
      BY <1>7 DEF TimerEndpDeath
    <3>2. \/ et' = [et EXCEPT ![e].death = @ - 1, ![e].free = @ + 1]
          \/ et' = [et EXCEPT ![e].death = @ - 1]
      BY <1>7, Zenon DEF TimerEndpDeath
    <3>3. /\ [et EXCEPT ![e].death = @ - 1] \in [Endp -> TimerRec]
          /\ [et EXCEPT ![e].death = @ - 1, ![e].free = @ + 1] \in [Endp -> TimerRec]
      BY <1>1, <3>1, TimerFields, Zenon
    <3>4. QED BY <3>2, <3>3, Zenon
  <2>3. CASE mu[e].stage # "none"
    <3> DEFINE m == [mu[e] EXCEPT !.resp = "quit", !.born = FALSE]
    <3>1. SendQuit(e, m, pr[e].outbox) /\ QuickDeath(e)
      BY <1>7, <2>3 DEF TimerEndpDeath
    <3>2. m \in EndpRec /\ ~m.born
      <4>1. m \in EndpRec
        BY <1>1, EndpFields
      <4>2. m.born = FALSE
        BY <1>1 DEF EndpRec
      <4>3. QED BY <4>1, <4>2
    <3> HIDE DEF m
    <3>3. pr[e].outbox \in Seq(Answer)
      BY <1>1 DEF ProcRec
    <3>4. /\ mu' \in [Endp -> EndpRec]
          /\ mu'[e] = m /\ \A d \in Endp : d # e => mu'[d] = mu[d]
          /\ pr' \in [Endp -> ProcRec]
          /\ ps' \in [Slot -> LinkRec]
      BY <1>1, <3>1, <3>2, <3>3, SendQuitStep
    <3>5. /\ sl' \in [Slot -> SlotRec]
          /\ nb_users' \in [Lan -> Nat]
          /\ AttachConsistent'
          /\ NbUsersExact'
      BY <3>1, <3>2, <3>4, QuickDeathStep
    <3>6. QED BY <2>1, <2>2, <3>4, <3>5 DEF Inv, TypeOK, FreeFindsNoLan
  <2>4. CASE mu[e].stage = "none"
    <3>1. UNCHANGED <<mu, pr, ps, sl, nb_users>>
      BY <1>7, <2>4 DEF TimerEndpDeath
    <3>2. QED BY <1>1, <1>3, <2>1, <2>2, <3>1
  <2>5. QED BY <2>3, <2>4
<1>8. CASE TimerEndpFree(e)
  <2>1. et' \in [Endp -> TimerRec]
    BY <1>1, <1>8, TimerFields DEF TimerEndpFree
  <2>2. UNCHANGED <<lan, asking, chain, strays, lan_connect, ko_timer>>
    BY <1>8 DEF TimerEndpFree
  <2>3. EndpGone(e, pr[e]) \/ UNCHANGED <<mu, sl, nb_users, pr, ps, fault>>
    BY <1>8 DEF TimerEndpFree
  <2>4. QED BY <1>1, <1>2, <1>3, <2>1, <2>2, <2>3
<1>9. QED BY <1>4, <1>5, <1>6, <1>7, <1>8

-----------------------------------------------------------------------------
(* The answers of an endpoint process.                                       *)

\* An answer is taken from the channel.
LEMMA TakenTyped ==
  ASSUME TypeOK, NEW e \in Endp, NEW K, Received(e, K)
  PROVE  /\ Taken(e) \in [Endp -> ProcRec]
         /\ Tail(pr[e].outbox) \in Seq(Answer)
         /\ Head(pr[e].outbox) \in Answer
         /\ Head(pr[e].outbox).kind \in K
<1>1. pr[e].outbox # <<>> /\ Head(pr[e].outbox).kind \in K
  BY DEF Received
<1>2. Tail(pr[e].outbox) \in Seq(Answer) /\ Head(pr[e].outbox) \in Answer
  BY <1>1, OutboxHelpers
<1>3. pr \in [Endp -> ProcRec]
  BY DEF TypeOK
<1>4. Taken(e) \in [Endp -> ProcRec]
  BY <1>2, <1>3 DEF Taken, ProcRec
<1>5. QED BY <1>1, <1>2, <1>4

\* type_ok, type_ko and disconnect_ok
LEMMA RecvTypeInv ==
  ASSUME Inv, NEW e \in Endp, RecvTypeOk(e) \/ RecvTypeKo(e) \/ RecvDisconnectOk(e)
  PROVE  Inv'
<1>1. /\ TypeOK
      /\ mu \in [Endp -> EndpRec] /\ mu[e] \in EndpRec
      /\ et \in [Endp -> TimerRec]
      /\ ps \in [Slot -> LinkRec]
      /\ mu[e].born => mu[e].stage # "none"
  BY DEF Inv, TypeOK, AttachConsistent
<1>2. CASE RecvTypeOk(e)
  <2> DEFINE m == [mu[e] EXCEPT !.stage = "open", !.born = TRUE, !.resp = ""]
  <2>1. /\ mu' = [mu EXCEPT ![e] = m]
        /\ Received(e, {"type_ok"}) /\ pr' = Taken(e)
        /\ UNCHANGED <<sl, nb_users, lan, asking, chain, strays, et, lan_connect, ko_timer, ps, fault>>
    BY <1>2 DEF RecvTypeOk
  <2>2. m \in EndpRec
    BY <1>1, EndpFields
  <2>3. m.born = TRUE /\ m.stage = "open"
    BY <1>1 DEF EndpRec
  <2> HIDE DEF m
  <2>4. pr' \in [Endp -> ProcRec]
    BY <1>1, <2>1, TakenTyped
  <2>5. QED BY <1>1, <2>1, <2>2, <2>3, <2>4, OneEndpStep
<1>3. CASE RecvTypeKo(e)
  <2> DEFINE m == [mu[e] EXCEPT !.stage = "open", !.resp = ""]
  <2>1. /\ SendQuit(e, m, Tail(pr[e].outbox))
        /\ Received(e, {"type_ko"})
        /\ et' = [et EXCEPT ![e].free = @ + 1]
        /\ UNCHANGED <<sl, nb_users, lan, asking, chain, strays, lan_connect, ko_timer, fault>>
    BY <1>3 DEF RecvTypeKo
  <2>2. m \in EndpRec
    BY <1>1, EndpFields
  <2>3. m.born = mu[e].born /\ m.stage = "open"
    BY <1>1 DEF EndpRec
  <2> HIDE DEF m
  <2>4. Tail(pr[e].outbox) \in Seq(Answer)
    BY <1>1, <2>1, TakenTyped
  <2>5. pr' \in [Endp -> ProcRec] /\ ps' \in [Slot -> LinkRec]
    BY <1>1, <2>1, <2>2, <2>4, SendQuitStep
  <2>6. et' \in [Endp -> TimerRec]
    BY <1>1, <2>1, TimerFields
  <2>7. mu' = [mu EXCEPT ![e] = m]
    BY <2>1 DEF SendQuit
  <2>8. QED BY <1>1, <2>1, <2>2, <2>3, <2>5, <2>6, <2>7, OneEndpStep
<1>4. CASE RecvDisconnectOk(e)
  <2> DEFINE m == [mu[e] EXCEPT !.resp = ""]
  <2>1. /\ mu' = [mu EXCEPT ![e] = m]
        /\ Received(e, {"disconnect_ok"}) /\ pr' = Taken(e)
        /\ UNCHANGED <<sl, nb_users, lan, asking, chain, strays, et, lan_connect, ko_timer, ps, fault>>
    BY <1>4 DEF RecvDisconnectOk
  <2>2. m \in EndpRec /\ m.born = mu[e].born /\ m.stage = mu[e].stage
    BY <1>1, EndpFields
  <2> HIDE DEF m
  <2>3. pr' \in [Endp -> ProcRec]
    BY <1>1, <2>1, TakenTyped
  <2>4. QED BY <1>1, <2>1, <2>2, <2>3, OneEndpStep
<1>5. QED BY <1>2, <1>3, <1>4

\* endp_evt_connect_OK attaches a slot that had no LAN, and lan_add_name counts it.
LEMMA AttachStep ==
  ASSUME Inv, NEW s \in Slot, NEW l \in Lan, mu[s[1]].born, sl[s].waiting = l,
         sl' = [sl EXCEPT ![s] = Attached(sl[s], l)], nb_users' = NbAdd(s, l),
         \A e \in Endp : mu'[e].born = mu[e].born /\ mu'[e].stage = mu[e].stage
  PROVE  /\ sl' \in [Slot -> SlotRec]
         /\ nb_users' \in [Lan -> Nat]
         /\ AttachConsistent'
         /\ NbUsersExact'
<1>1. /\ sl \in [Slot -> SlotRec] /\ sl[s] \in SlotRec
      /\ nb_users \in [Lan -> Nat]
      /\ l # NoLan /\ l \in LanOrNo
  BY EndpLanAssumption DEF Inv, TypeOK, LanOrNo
<1>2. sl[s].attached = NoLan /\ sl[s].lan_num = NoLan
  BY <1>1 DEF Inv, AttachConsistent
<1>3. sl' \in [Slot -> SlotRec]
  BY <1>1, SlotHelpers
<1>4. /\ Attached(sl[s], l).lan_num = l
      /\ Attached(sl[s], l).attached = l
      /\ Attached(sl[s], l).waiting = NoLan
  BY <1>1, <1>2 DEF Attached, NotWaiting, SlotRec
<1>5. /\ sl'[s].lan_num = l /\ sl'[s].attached = l /\ sl'[s].waiting = NoLan
      /\ \A u \in Slot : u # s => sl'[u] = sl[u]
  BY <1>1, <1>4
<1>6. nb_users' = [nb_users EXCEPT ![l] = nb_users[l] + 1]
  BY <1>2 DEF NbAdd
<1>7. nb_users' \in [Lan -> Nat]
  BY <1>1, <1>6
<1>8. AttachConsistent'
  BY <1>5 DEF AttachConsistent, Inv, Slot
<1>9. NbUsersExact'
  <2> SUFFICES ASSUME NEW k \in Lan PROVE nb_users'[k] = Cardinality(UsersOf(k)')
    BY DEF NbUsersExact
  <2>1. nb_users[k] = Cardinality(UsersOf(k)) /\ IsFiniteSet(UsersOf(k))
    BY SlotsFinite, FS_Subset DEF Inv, NbUsersExact, UsersOf
  <2>2. CASE k = l
    <3>1. UsersOf(k)' = UsersOf(k) \cup {s} /\ s \notin UsersOf(k)
      BY <1>1, <1>2, <1>5, <2>2 DEF UsersOf
    <3>2. Cardinality(UsersOf(k) \cup {s}) = Cardinality(UsersOf(k)) + 1
      BY <2>1, <3>1, FS_AddElement
    <3>3. QED BY <1>1, <1>6, <2>1, <2>2, <3>1, <3>2
  <2>3. CASE k # l
    <3>1. UsersOf(k)' = UsersOf(k)
      BY <1>2, <1>5, <2>3, EndpLanAssumption DEF UsersOf
    <3>2. QED BY <1>1, <1>6, <2>1, <2>3, <3>1
  <2>4. QED BY <2>2, <2>3
<1>10. QED BY <1>3, <1>7, <1>8, <1>9

\* connect_ok and connect_ko
LEMMA RecvConnectInv ==
  ASSUME Inv, NEW e \in Endp, RecvConnectOk(e) \/ RecvConnectKo(e)
  PROVE  Inv'
<1> DEFINE a == Head(pr[e].outbox)
           s == <<e, a.tidx>>
           m == [mu[e] EXCEPT !.resp = ""]
<1>1. /\ TypeOK
      /\ mu \in [Endp -> EndpRec] /\ mu[e] \in EndpRec
      /\ sl \in [Slot -> SlotRec]
  BY DEF Inv, TypeOK
<1>2. /\ Received(e, {"connect_ok", "connect_ko"})
      /\ mu' = [mu EXCEPT ![e] = m]
      /\ pr' = Taken(e)
      /\ UNCHANGED <<lan, chain, et, lan_connect, ko_timer, ps>>
  BY DEF RecvConnectOk, RecvConnectKo, Received
<1>3. /\ pr' \in [Endp -> ProcRec]
      /\ a \in Answer /\ a.kind \in {"connect_ok", "connect_ko"}
  BY <1>1, <1>2, TakenTyped
<1>4. a.lan \in Lan /\ s \in Slot /\ s[1] = e
  BY <1>3 DEF Answer, Slot
<1>5. m \in EndpRec /\ m.born = mu[e].born /\ m.stage = mu[e].stage
  BY <1>1, EndpFields
<1>6. \/ /\ UNCHANGED <<sl, nb_users>> /\ asking' \subseteq Client /\ strays' \subseteq Client
         /\ fault' \in {fault, "none", "bad_llid"}
      \/ /\ mu[e].born /\ sl[s].waiting = a.lan
         /\ sl' = [sl EXCEPT ![s] = Attached(sl[s], a.lan)]
         /\ nb_users' = NbAdd(s, a.lan)
         /\ asking' = asking \ {sl[s].asker}
         /\ UNCHANGED <<strays, fault>>
      \/ /\ sl' = [sl EXCEPT ![s] = NotWaiting(sl[s])]
         /\ asking' = asking \ {sl[s].asker}
         /\ UNCHANGED <<nb_users, strays, fault>>
  BY DEF RecvConnectOk, RecvConnectKo, StrayAnswer, Inv, TypeOK
<1> HIDE DEF m, s, a
<1>7. /\ mu' \in [Endp -> EndpRec]
      /\ \A d \in Endp : mu'[d].born = mu[d].born /\ mu'[d].stage = mu[d].stage
  BY <1>1, <1>2, <1>5
<1>8. CASE /\ UNCHANGED <<sl, nb_users>> /\ asking' \subseteq Client /\ strays' \subseteq Client
           /\ fault' \in {fault, "none", "bad_llid"}
  <2>1. fault' \in {"none", "bad_llid"}
    BY <1>8 DEF Inv, TypeOK, FreeFindsNoLan
  <2>2. TypeOK'
    BY <1>1, <1>2, <1>3, <1>7, <1>8, <2>1 DEF TypeOK
  <2>3. QED BY <1>7, <1>8, <2>1, <2>2, QuietStep DEF Inv, AttachConsistent
<1>9. CASE /\ mu[e].born /\ sl[s].waiting = a.lan
           /\ sl' = [sl EXCEPT ![s] = Attached(sl[s], a.lan)]
           /\ nb_users' = NbAdd(s, a.lan)
           /\ asking' = asking \ {sl[s].asker}
           /\ UNCHANGED <<strays, fault>>
  <2>1. /\ sl' \in [Slot -> SlotRec]
        /\ nb_users' \in [Lan -> Nat]
        /\ AttachConsistent'
        /\ NbUsersExact'
    BY <1>4, <1>7, <1>9, AttachStep
  <2>2. QED BY <1>1, <1>2, <1>3, <1>7, <1>9, <2>1 DEF Inv, TypeOK, FreeFindsNoLan
<1>10. CASE /\ sl' = [sl EXCEPT ![s] = NotWaiting(sl[s])]
            /\ asking' = asking \ {sl[s].asker}
            /\ UNCHANGED <<nb_users, strays, fault>>
  <2>1. sl' \in [Slot -> SlotRec]
    BY <1>1, <1>4, <1>10, SlotHelpers DEF LanOrNo
  <2>2. \A u \in Slot : /\ sl'[u].lan_num = sl[u].lan_num
                        /\ sl'[u].attached = sl[u].attached
                        /\ sl'[u].waiting \in {sl[u].waiting, NoLan}
    BY <1>1, <1>10 DEF NotWaiting, SlotRec
  <2>3. AttachConsistent'
    BY <1>7, <2>2 DEF Inv, AttachConsistent, Slot
  <2>4. NbUsersExact'
    BY <1>10, <2>2 DEF Inv, NbUsersExact, UsersOf
  <2>5. QED
    BY <1>1, <1>2, <1>3, <1>7, <1>10, <2>1, <2>3, <2>4 DEF Inv, TypeOK, FreeFindsNoLan
<1>11. QED BY <1>6, <1>8, <1>9, <1>10

-----------------------------------------------------------------------------
(* The connection of a slot to a LAN.                                        *)

\* What happens in the endpoint process, and timer_lan_connect, leave the slots.
LEMMA ConnectInv ==
  ASSUME Inv, NEW s \in Slot,
         \/ ProcConnectOk(s) \/ ProcLinkLost(s)
         \/ \E l \in Lan : TimerLanConnect(s, l) \/ ProcTimeout(s, l)
  PROVE  Inv'
<1> DEFINE e == s[1]
<1>1. /\ TypeOK
      /\ e \in Endp /\ s[2] \in Tidx
      /\ mu \in [Endp -> EndpRec] /\ mu[e] \in EndpRec
      /\ et \in [Endp -> TimerRec]
      /\ pr \in [Endp -> ProcRec] /\ pr[e] \in ProcRec
      /\ ps \in [Slot -> LinkRec] /\ ps[s] \in LinkRec
      /\ ps[s].link \in LanOrNo /\ ps[s].con \in SUBSET Lan
      /\ lan_connect \in [Slot \X Lan -> Nat]
      /\ mu[e].born => mu[e].stage # "none"
  BY DEF Inv, TypeOK, Slot, LinkRec, AttachConsistent
<1> HIDE DEF e
<1>2. ASSUME NEW k \in {"connect_ok", "connect_ko"}, NEW l \in Lan
      PROVE  [pr EXCEPT ![e] = [pr[e] EXCEPT !.outbox = Reply(e, k, l, s[2])]]
                \in [Endp -> ProcRec]
  <2>1. Reply(e, k, l, s[2]) \in Seq(Answer)
    BY <1>1, OutboxHelpers
  <2>2. [pr[e] EXCEPT !.outbox = Reply(e, k, l, s[2])] \in ProcRec
    BY <1>1, <2>1 DEF ProcRec
  <2>3. QED BY <1>1, <2>2
<1>3. ASSUME pr' \in [Endp -> ProcRec], ps' \in [Slot -> LinkRec],
             lan_connect' \in [Slot \X Lan -> Nat],
             mu' \in [Endp -> EndpRec],
             \A d \in Endp : mu'[d].born = mu[d].born /\ mu'[d].stage = mu[d].stage,
             UNCHANGED <<sl, nb_users, lan, asking, chain, strays, et, ko_timer, fault>>
      PROVE  Inv'
  <2>1. TypeOK'
    BY <1>1, <1>3 DEF TypeOK
  <2>2. QED BY <1>3, <2>1, QuietStep DEF Inv, AttachConsistent, FreeFindsNoLan
<1>4. CASE ProcConnectOk(s)
  <2>1. /\ ps[s].link # NoLan
        /\ ps' = [ps EXCEPT ![s] = [ps[s] EXCEPT !.up = TRUE, !.con = {}]]
        /\ pr' = IF ps[s].con = {} THEN pr
                 ELSE [pr EXCEPT ![e] = [pr[e] EXCEPT
                         !.outbox = Reply(e, "connect_ok", ps[s].link, s[2])]]
        /\ UNCHANGED <<mu, sl, nb_users, lan, asking, chain, strays, et, lan_connect, ko_timer, fault>>
    BY <1>4 DEF ProcConnectOk, e
  <2>2. [ps[s] EXCEPT !.up = TRUE, !.con = {}] \in LinkRec
    BY <1>1 DEF LinkRec
  <2>3. ps' \in [Slot -> LinkRec]
    BY <1>1, <2>1, <2>2
  <2>4. ps[s].link \in Lan
    BY <1>1, <2>1 DEF LanOrNo
  <2>5. pr' \in [Endp -> ProcRec]
    BY <1>1, <1>2, <2>1, <2>4
  <2>6. QED BY <1>1, <1>3, <2>1, <2>3, <2>5
<1>5. CASE ProcLinkLost(s)
  <2>1. /\ ps' = [ps EXCEPT ![s] = [ps[s] EXCEPT !.link = NoLan, !.up = FALSE]]
        /\ UNCHANGED <<mu, sl, nb_users, lan, asking, chain, strays, et, lan_connect, ko_timer, pr, fault>>
    BY <1>5 DEF ProcLinkLost
  <2>2. [ps[s] EXCEPT !.link = NoLan, !.up = FALSE] \in LinkRec
    BY <1>1 DEF LinkRec, LanOrNo
  <2>3. QED BY <1>1, <1>3, <2>1, <2>2
<1>6. ASSUME NEW l \in Lan, TimerLanConnect(s, l)
      PROVE  Inv'
  <2>1. /\ lan_connect[<<s, l>>] > 0
        /\ lan_connect' = [lan_connect EXCEPT ![<<s, l>>] = lan_connect[<<s, l>>] - 1]
        /\ \/ mu' = [mu EXCEPT ![e] = [mu[e] EXCEPT !.resp = ""]]
           \/ UNCHANGED mu
        /\ \/ UNCHANGED <<pr, ps>>
           \/ /\ pr' = [pr EXCEPT ![e] = [pr[e] EXCEPT !.outbox = Reply(e, "connect_ko", l, s[2])]]
              /\ UNCHANGED ps
           \/ /\ ps' = [ps EXCEPT ![s] = [link |-> l, up |-> FALSE, con |-> ps[s].con \cup {l}]]
              /\ UNCHANGED pr
        /\ UNCHANGED <<sl, nb_users, lan, asking, chain, strays, et, ko_timer, fault>>
    BY <1>6, Zenon DEF TimerLanConnect, e
  <2>2. lan_connect' \in [Slot \X Lan -> Nat]
    <3>1. <<s, l>> \in Slot \X Lan
      OBVIOUS
    <3>2. lan_connect[<<s, l>>] \in Nat /\ lan_connect[<<s, l>>] > 0
      BY <1>1, <2>1, <3>1, Zenon
    <3>3. lan_connect[<<s, l>>] - 1 \in Nat
      BY <3>2
    <3>4. QED BY <1>1, <2>1, <3>3, Zenon
  <2>3. /\ [mu[e] EXCEPT !.resp = ""] \in EndpRec
        /\ [mu[e] EXCEPT !.resp = ""].born = mu[e].born
        /\ [mu[e] EXCEPT !.resp = ""].stage = mu[e].stage
    BY <1>1, EndpFields
  <2>4. /\ mu' \in [Endp -> EndpRec]
        /\ \A d \in Endp : mu'[d].born = mu[d].born /\ mu'[d].stage = mu[d].stage
    BY <1>1, <2>1, <2>3
  <2>5. pr' \in [Endp -> ProcRec]
    BY <1>1, <1>2, <2>1
  <2>6. [link |-> l, up |-> FALSE, con |-> ps[s].con \cup {l}] \in LinkRec
    BY <1>1 DEF LinkRec, LanOrNo
  <2>7. ps' \in [Slot -> LinkRec]
    BY <1>1, <2>1, <2>6
  <2>8. QED BY <1>3, <2>1, <2>2, <2>4, <2>5, <2>7
<1>7. ASSUME NEW l \in Lan, ProcTimeout(s, l)
      PROVE  Inv'
  <2>1. /\ ps' = [ps EXCEPT ![s] = NoLink]
        /\ pr' = [pr EXCEPT ![e] = [pr[e] EXCEPT !.outbox = Reply(e, "connect_ko", l, s[2])]]
        /\ UNCHANGED <<mu, sl, nb_users, lan, asking, chain, strays, et, lan_connect, ko_timer, fault>>
    BY <1>7 DEF ProcTimeout, e
  <2>2. NoLink \in LinkRec
    BY DEF NoLink, LinkRec, LanOrNo
  <2>3. ps' \in [Slot -> LinkRec] /\ pr' \in [Endp -> ProcRec]
    BY <1>1, <1>2, <2>1, <2>2
  <2>4. QED BY <1>1, <1>3, <2>1, <2>3
<1>8. QED BY <1>4, <1>5, <1>6, <1>7

\* timer_evt
LEMMA TimerEvtInv ==
  ASSUME Inv, NEW s \in Slot, NEW l \in Lan, NEW seq \in 1..MaxSeq, TimerEvt(s, l, seq)
  PROVE  Inv'
<1>1. /\ TypeOK
      /\ sl \in [Slot -> SlotRec] /\ sl[s] \in SlotRec
  BY DEF Inv, TypeOK
<1>2. /\ UNCHANGED <<mu, nb_users, lan, chain, strays, et, lan_connect, pr, ps, fault>>
      /\ ko_timer' = ko_timer \ {<<s, l, seq>>}
      /\ asking' \subseteq asking
      /\ \/ sl' = [sl EXCEPT ![s] = NotWaiting(sl[s])]
         \/ sl' = sl
  BY DEF TimerEvt
<1>3. sl' \in [Slot -> SlotRec]
  BY <1>1, <1>2, SlotHelpers DEF LanOrNo
<1>4. \A u \in Slot : /\ sl'[u].lan_num = sl[u].lan_num
                      /\ sl'[u].attached = sl[u].attached
                      /\ sl'[u].waiting \in {sl[u].waiting, NoLan}
  <2>1. CASE sl' = [sl EXCEPT ![s] = NotWaiting(sl[s])]
    BY <1>1, <2>1 DEF NotWaiting, SlotRec
  <2>2. CASE sl' = sl
    BY <2>2
  <2>3. QED BY <1>2, <2>1, <2>2
<1>5. TypeOK'
  BY <1>1, <1>2, <1>3 DEF TypeOK
<1>6. AttachConsistent'
  BY <1>2, <1>4 DEF Inv, AttachConsistent
<1>7. NbUsersExact'
  BY <1>2, <1>4 DEF Inv, NbUsersExact, UsersOf
<1>8. QED BY <1>2, <1>5, <1>6, <1>7 DEF Inv, FreeFindsNoLan
-----------------------------------------------------------------------------
(* The invariant.                                                            *)

\* When the server starts no slot has a LAN.
LEMMA InitInv == Init => Inv
<1> SUFFICES ASSUME Init PROVE Inv
  OBVIOUS
<1>1. \A e \in Endp : mu[e] = NoEndp
  BY DEF Init
<1>2. \A s \in Slot : sl[s] = EmptySlot
  BY DEF Init
<1>3. TypeOK
  <2>1. NoEndp \in EndpRec
    BY DEF NoEndp, EndpRec
  <2>2. EmptySlot \in SlotRec
    BY DEF EmptySlot, SlotRec, LanOrNo
  <2>3. NoMulan \in LanRec
    BY EndpLanAssumption DEF NoMulan, LanRec
  <2>4. [death |-> 0, free |-> 0, watchdog |-> 0, early |-> NoRequest] \in TimerRec
    BY DEF TimerRec
  <2>5. [alive |-> FALSE, obituary |-> 0, outbox |-> <<>>] \in ProcRec
    BY EmptySeq DEF ProcRec
  <2>6. NoLink \in LinkRec
    BY DEF NoLink, LinkRec, LanOrNo
  <2>7. QED BY <2>1, <2>2, <2>3, <2>4, <2>5, <2>6 DEF Init, TypeOK
<1>4. AttachConsistent
  <2>1. \A s \in Slot : /\ sl[s].lan_num = NoLan
                        /\ sl[s].attached = NoLan
                        /\ sl[s].waiting = NoLan
    BY <1>2 DEF EmptySlot
  <2>2. \A e \in Endp : ~mu[e].born
    <3>1. ~NoEndp.born
      BY DEF NoEndp
    <3>2. QED BY <1>1, <3>1
  <2>3. QED BY <2>1, <2>2 DEF AttachConsistent
<1>5. NbUsersExact
  <2> SUFFICES ASSUME NEW l \in Lan PROVE nb_users[l] = Cardinality(UsersOf(l))
    BY DEF NbUsersExact
  <2>1. UsersOf(l) = {}
    BY <1>2, EndpLanAssumption DEF UsersOf, EmptySlot
  <2>2. QED BY <2>1, FS_EmptySet DEF Init
<1>6. QED BY <1>3, <1>4, <1>5 DEF Inv, FreeFindsNoLan, Init

\* Every action of the server and of the processes keeps the invariant.
LEMMA NextInv == Inv /\ [Next]_vars => Inv'
<1> SUFFICES ASSUME Inv, [Next]_vars PROVE Inv'
  OBVIOUS
<1>1. ASSUME NEW e \in Endp, EndpStep(e) PROVE Inv'
  BY <1>1, EndpStartInv, EndpStopInv, TimerEndpInv, BeatInv, EndInv, RecvTypeInv,
     RecvConnectInv DEF EndpStep
<1>2. ASSUME NEW l \in Lan, LanStep(l) PROVE Inv'
  BY <1>2, LanStepInv
<1>3. ASSUME NEW s \in Slot, SlotStep(s) PROVE Inv'
  BY <1>3, ConnectInv, TimerEvtInv DEF SlotStep
<1>4. ASSUME NEW c \in Client, NEW e \in Endp, NEW l \in Lan, AddLan(c, e, l) PROVE Inv'
  BY <1>4, AddLanInv
<1>5. ASSUME NEW e \in Endp, NEW l \in Lan, DelLan(e, l) PROVE Inv'
  BY <1>5, DelLanInv
<1>8. ASSUME NEW x \in chain, DelayedCoherency(x) PROVE Inv'
  BY <1>8, DelayedInv
<1>6. CASE UNCHANGED vars
  <2>1. TypeOK'
    BY <1>6 DEF vars, Inv, TypeOK
  <2>2. QED
    BY <1>6, <2>1, QuietStep DEF vars, Inv, AttachConsistent, FreeFindsNoLan
<1>7. QED BY <1>1, <1>2, <1>3, <1>4, <1>5, <1>6, <1>8 DEF Next

\* The inductive invariant holds of every behaviour of the server.
THEOREM Invariance == Spec => []Inv
<1>1. Init => Inv
  BY InitInv
<1>2. Inv /\ [Next]_vars => Inv'
  BY NextInv
<1>3. QED BY <1>1, <1>2, PTL DEF Spec

\* Every variable keeps its type: no LAN has a negative number of users, a
\* connect answer names a LAN.
THEOREM EndpTypes == Spec => []TypeOK
<1>1. Inv => TypeOK
  BY DEF Inv
<1>2. QED BY <1>1, Invariance, PTL

\* endp_evt.c and endp_mngt.c agree on the LAN of every slot.
THEOREM SlotsAgree == Spec => []AttachConsistent
<1>1. Inv => AttachConsistent
  BY DEF Inv
<1>2. QED BY <1>1, Invariance, PTL

\* lan_to_name.c counts the slots that have a LAN.
THEOREM UsersCounted == Spec => []NbUsersExact
<1>1. Inv => NbUsersExact
  BY DEF Inv
<1>2. QED BY <1>1, Invariance, PTL

\* muendp_free never reaches its KOUT.
THEOREM FreeIsSafe == Spec => []FreeFindsNoLan
<1>1. Inv => FreeFindsNoLan
  BY DEF Inv
<1>2. QED BY <1>1, Invariance, PTL

-----------------------------------------------------------------------------
(* No client is answered twice.                                              *)

\* The requests that may have a place: those without an answer, and those that
\* an answer meant for none may have reached.
Owed == asking \cup strays

\* AnsweredOnce, place by place.
OncePlaced ==
  \A c \in Client :
    /\ \A s \in Slot : sl[s].asker = c => c \in Owed
    /\ \A e \in Endp : et[e].early.client = c => c \in Owed
    /\ \A x \in chain : x.client = c => c \in Owed
    /\ \A s, u \in Slot : sl[s].asker = c /\ sl[u].asker = c => s = u
    /\ \A e, f \in Endp : et[e].early.client = c /\ et[f].early.client = c => e = f
    /\ \A x, y \in chain : x.client = c /\ y.client = c => x = y
    /\ \A s \in Slot, e \in Endp : ~ (sl[s].asker = c /\ et[e].early.client = c)
    /\ \A x \in chain : x.client = c => /\ \A s \in Slot : sl[s].asker # c
                                        /\ \A e \in Endp : et[e].early.client # c

LEMMA OncePlacedIff == AnsweredOnce <=> OncePlaced
<1>0. \A c \in Client :
        /\ \A s \in Slot : sl[s].asker = c => <<"slot", s>> \in Holds(c)
        /\ \A e \in Endp : et[e].early.client = c => <<"timer", e>> \in Holds(c)
        /\ \A x \in chain : x.client = c => <<"chain", x>> \in Holds(c)
        /\ \A h \in Holds(c) :
             \/ \E s \in Slot : h = <<"slot", s>> /\ sl[s].asker = c
             \/ \E e \in Endp : h = <<"timer", e>> /\ et[e].early.client = c
             \/ \E x \in chain : h = <<"chain", x>> /\ x.client = c
  BY DEF Holds
<1>1. ASSUME AnsweredOnce, NEW c \in Client
      PROVE  /\ \A s \in Slot : sl[s].asker = c => c \in Owed
             /\ \A e \in Endp : et[e].early.client = c => c \in Owed
             /\ \A x \in chain : x.client = c => c \in Owed
             /\ \A s, u \in Slot : sl[s].asker = c /\ sl[u].asker = c => s = u
             /\ \A e, f \in Endp : et[e].early.client = c /\ et[f].early.client = c => e = f
             /\ \A x, y \in chain : x.client = c /\ y.client = c => x = y
             /\ \A s \in Slot, e \in Endp : ~ (sl[s].asker = c /\ et[e].early.client = c)
             /\ \A x \in chain : x.client = c => /\ \A s \in Slot : sl[s].asker # c
                                                 /\ \A e \in Endp : et[e].early.client # c
  <2> DEFINE H == Holds(c)
  <2>1. /\ \A s \in Slot : sl[s].asker = c => <<"slot", s>> \in H
        /\ \A e \in Endp : et[e].early.client = c => <<"timer", e>> \in H
        /\ \A x \in chain : x.client = c => <<"chain", x>> \in H
    BY <1>0
  <2>2. (H # {} => c \in Owed) /\ \A x, y \in H : x = y
    BY <1>1 DEF AnsweredOnce, Owed
  <2> HIDE DEF H
  <2>3. QED BY <2>1, <2>2
<1>2. ASSUME OncePlaced, NEW c \in Client
      PROVE  /\ Holds(c) # {} /\ c \notin strays => c \in asking
             /\ \A x, y \in Holds(c) : x = y
  <2> DEFINE H == Holds(c)
  <2>1. \A h \in H : \/ \E s \in Slot : h = <<"slot", s>> /\ sl[s].asker = c
                     \/ \E e \in Endp : h = <<"timer", e>> /\ et[e].early.client = c
                     \/ \E x \in chain : h = <<"chain", x>> /\ x.client = c
    BY <1>0
  <2> HIDE DEF H
  <2>2. H # {} => c \in Owed
    BY <1>2, <2>1 DEF OncePlaced
  <2>3. \A x, y \in H : x = y
    BY <1>2, <2>1 DEF OncePlaced
  <2>4. QED BY <2>2, <2>3 DEF H, Owed
<1>3. QED BY <1>1, <1>2 DEF AnsweredOnce, OncePlaced

LEMMA OncePlacedIffNext == AnsweredOnce' <=> OncePlaced'
BY OncePlacedIff, PTL

\* The answers of D are given, and the places of their requests emptied.
LEMMA OnceAnswered ==
  ASSUME AnsweredOnce, NEW D, Owed \ D \subseteq Owed', chain' \subseteq chain,
         \A s \in Slot : sl'[s].asker \in {sl[s].asker, NoClient},
         \A e \in Endp : et'[e].early.client \in {et[e].early.client, NoClient},
         \A c \in Client : c \in D => /\ \A s \in Slot : sl'[s].asker # c
                                      /\ \A e \in Endp : et'[e].early.client # c
                                      /\ \A x \in chain' : x.client # c
  PROVE  AnsweredOnce'
<1>1. OncePlaced
  BY OncePlacedIff
<1>2. \A s \in Slot, c \in Client : sl'[s].asker = c => sl[s].asker = c
  BY EndpLanAssumption
<1>3. \A e \in Endp, c \in Client : et'[e].early.client = c => et[e].early.client = c
  BY EndpLanAssumption
<1>4. OncePlaced'
  <2> DEFINE O == Owed
             P == Owed'
  <2>1. O \ D \subseteq P
    OBVIOUS
  <2> SUFFICES ASSUME NEW c \in Client
               PROVE  /\ \A s \in Slot : sl'[s].asker = c => c \in P
                      /\ \A e \in Endp : et'[e].early.client = c => c \in P
                      /\ \A x \in chain' : x.client = c => c \in P
                      /\ \A s, u \in Slot : sl'[s].asker = c /\ sl'[u].asker = c => s = u
                      /\ \A e, f \in Endp :
                           et'[e].early.client = c /\ et'[f].early.client = c => e = f
                      /\ \A x, y \in chain' : x.client = c /\ y.client = c => x = y
                      /\ \A s \in Slot, e \in Endp :
                           ~ (sl'[s].asker = c /\ et'[e].early.client = c)
                      /\ \A x \in chain' : x.client = c =>
                           /\ \A s \in Slot : sl'[s].asker # c
                           /\ \A e \in Endp : et'[e].early.client # c
    BY DEF OncePlaced
  <2>2. /\ \A s \in Slot : sl[s].asker = c => c \in O
        /\ \A e \in Endp : et[e].early.client = c => c \in O
        /\ \A x \in chain : x.client = c => c \in O
    BY <1>1 DEF OncePlaced
  <2> HIDE DEF O, P
  <2>3. QED BY <1>1, <1>2, <1>3, <2>1, <2>2 DEF OncePlaced
<1>5. QED BY <1>4, OncePlacedIffNext

\* The request of c is put in one place: a slot, a timer or the chain.
LEMMA OncePut ==
  ASSUME AnsweredOnce, NEW c \in Client, Owed \cup {c} \subseteq Owed',
         \A s \in Slot : sl'[s].asker \in {sl[s].asker, NoClient, c},
         \A e \in Endp : et'[e].early.client \in {et[e].early.client, NoClient, c},
         \A x \in chain' : x \in chain \/ x.client = c,
         \A s, u \in Slot : sl'[s].asker = c /\ sl'[u].asker = c => s = u,
         \A e, f \in Endp : et'[e].early.client = c /\ et'[f].early.client = c => e = f,
         \A x, y \in chain' : x.client = c /\ y.client = c => x = y,
         \A s \in Slot, e \in Endp : ~ (sl'[s].asker = c /\ et'[e].early.client = c),
         \A x \in chain' : x.client = c => /\ \A s \in Slot : sl'[s].asker # c
                                           /\ \A e \in Endp : et'[e].early.client # c
  PROVE  AnsweredOnce'
<1>1. OncePlaced
  BY OncePlacedIff
<1>2. \A s \in Slot, d \in Client : sl'[s].asker = d => sl[s].asker = d \/ d = c
  BY EndpLanAssumption
<1>3. \A e \in Endp, d \in Client : et'[e].early.client = d => et[e].early.client = d \/ d = c
  BY EndpLanAssumption
<1>4. OncePlaced'
  <2> DEFINE O == Owed
             P == Owed'
  <2>1. O \cup {c} \subseteq P
    OBVIOUS
  <2> SUFFICES ASSUME NEW d \in Client
               PROVE  /\ \A s \in Slot : sl'[s].asker = d => d \in P
                      /\ \A e \in Endp : et'[e].early.client = d => d \in P
                      /\ \A x \in chain' : x.client = d => d \in P
                      /\ \A s, u \in Slot : sl'[s].asker = d /\ sl'[u].asker = d => s = u
                      /\ \A e, f \in Endp :
                           et'[e].early.client = d /\ et'[f].early.client = d => e = f
                      /\ \A x, y \in chain' : x.client = d /\ y.client = d => x = y
                      /\ \A s \in Slot, e \in Endp :
                           ~ (sl'[s].asker = d /\ et'[e].early.client = d)
                      /\ \A x \in chain' : x.client = d =>
                           /\ \A s \in Slot : sl'[s].asker # d
                           /\ \A e \in Endp : et'[e].early.client # d
    BY DEF OncePlaced
  <2>2. /\ \A s \in Slot : sl[s].asker = d => d \in O
        /\ \A e \in Endp : et[e].early.client = d => d \in O
        /\ \A x \in chain : x.client = d => d \in O
    BY <1>1 DEF OncePlaced
  <2> HIDE DEF O, P
  <2>3. CASE d = c
    BY <2>1, <2>3
  <2>4. CASE d # c
    BY <1>1, <1>2, <1>3, <2>1, <2>2, <2>4 DEF OncePlaced
  <2>5. QED BY <2>3, <2>4
<1>5. QED BY <1>4, OncePlacedIffNext

\* No place is given a request, none is answered.
LEMMA OnceKept ==
  ASSUME AnsweredOnce, UNCHANGED <<asking, chain, strays>>,
         \A s \in Slot : sl'[s].asker \in {sl[s].asker, NoClient},
         \A e \in Endp : et'[e].early.client \in {et[e].early.client, NoClient}
  PROVE  AnsweredOnce'
<1> DEFINE D == {}
<1>1. Owed \ D \subseteq Owed' /\ chain' \subseteq chain
  BY DEF Owed
<1>2. \A c \in Client : c \notin D
  OBVIOUS
<1> HIDE DEF D
<1>3. QED BY <1>1, <1>2, OnceAnswered

\* The timers that are armed or expire are not those that hold a request.
LEMMA EarlyKept ==
  ASSUME TypeOK, NEW e \in Endp,
         \/ et' = [et EXCEPT ![e].watchdog = @ + 1]
         \/ et' = [et EXCEPT ![e].watchdog = @ - 1]
         \/ et' = [et EXCEPT ![e].death = @ + 1]
         \/ et' = [et EXCEPT ![e].death = @ - 1]
         \/ et' = [et EXCEPT ![e].free = @ + 1]
         \/ et' = [et EXCEPT ![e].free = @ - 1]
         \/ et' = [et EXCEPT ![e].death = @ - 1, ![e].free = @ + 1]
         \/ UNCHANGED et
  PROVE  \A f \in Endp : et'[f].early = et[f].early
<1>1. et \in [Endp -> TimerRec]
  BY DEF TypeOK
<1>2. QED BY <1>1 DEF TimerRec

\* The slots of an endpoint that ends are emptied: who asked is forgotten.
LEMMA OnceQuickDeath ==
  ASSUME AnsweredOnce, NEW e \in Endp, QuickDeath(e) \/ UNCHANGED sl,
         UNCHANGED <<asking, chain, strays>>,
         \A f \in Endp : et'[f].early = et[f].early
  PROVE  AnsweredOnce'
<1>1. \A r : QuickDeathSlot(r).asker = NoClient
  BY DEF QuickDeathSlot, EmptySlot
<1>2. \A s \in Slot : sl'[s].asker \in {sl[s].asker, NoClient}
  BY <1>1 DEF QuickDeath
<1>3. QED BY <1>2, OnceKept

\* Every step of an endpoint that neither answers nor takes a request.
LEMMA OnceEndpQuiet ==
  ASSUME Inv, AnsweredOnce, NEW e \in Endp,
         \/ EndpStart(e) \/ EndpStop(e)
         \/ EndpConnect(e) \/ EndpPid(e) \/ EndpTypeReq(e) \/ EndpBeatQuit(e)
         \/ MuendpWatchdog(e) \/ EndpErrCb(e) \/ MuendpDeath(e)
         \/ TimerEndpDeath(e) \/ TimerEndpFree(e)
         \/ RecvTypeOk(e) \/ RecvTypeKo(e) \/ RecvDisconnectOk(e) \/ ProcExit(e)
  PROVE  AnsweredOnce'
<1>1. UNCHANGED <<asking, chain, strays>>
  BY DEF EndpStart, EndpStop, EndpConnect, EndpPid, EndpTypeReq, EndpBeatQuit,
         MuendpWatchdog, EndpErrCb, MuendpDeath, TimerEndpDeath, TimerEndpFree,
         RecvTypeOk, RecvTypeKo, RecvDisconnectOk, ProcExit
<1>2. QuickDeath(e) \/ UNCHANGED sl
  BY DEF EndpStart, EndpStop, EndpConnect, EndpPid, EndpTypeReq, EndpBeatQuit,
         MuendpWatchdog, EndpErrCb, MuendpDeath, TimerEndpDeath, TimerEndpFree,
         RecvTypeOk, RecvTypeKo, RecvDisconnectOk, ProcExit, EndpGone
<1>3. \/ et' = [et EXCEPT ![e].watchdog = @ + 1]
      \/ et' = [et EXCEPT ![e].watchdog = @ - 1]
      \/ et' = [et EXCEPT ![e].death = @ + 1]
      \/ et' = [et EXCEPT ![e].death = @ - 1]
      \/ et' = [et EXCEPT ![e].free = @ + 1]
      \/ et' = [et EXCEPT ![e].free = @ - 1]
      \/ et' = [et EXCEPT ![e].death = @ - 1, ![e].free = @ + 1]
      \/ UNCHANGED et
  BY Zenon
     DEF EndpStart, EndpStop, EndpConnect, EndpPid, EndpTypeReq, EndpBeatQuit,
         MuendpWatchdog, EndpErrCb, MuendpDeath, TimerEndpDeath, TimerEndpFree,
         RecvTypeOk, RecvTypeKo, RecvDisconnectOk, ProcExit
<1>4. \A f \in Endp : et'[f].early = et[f].early
  BY <1>3, EarlyKept DEF Inv
<1>5. QED BY <1>1, <1>2, <1>4, OnceQuickDeath

\* The one slot s is answered, or emptied without a word.
LEMMA OnceSlot ==
  ASSUME AnsweredOnce, NEW s \in Slot, UNCHANGED <<et, chain>>,
         \A u \in Slot : u # s => sl'[u].asker = sl[u].asker,
         \/ Owed \subseteq Owed' /\ sl'[s].asker \in {sl[s].asker, NoClient}
         \/ /\ asking' = asking \ {sl[s].asker} /\ UNCHANGED strays
            /\ sl'[s].asker = NoClient
  PROVE  AnsweredOnce'
<1>1. CASE Owed \subseteq Owed' /\ sl'[s].asker \in {sl[s].asker, NoClient}
  <2>1. \A u \in Slot : sl'[u].asker \in {sl[u].asker, NoClient}
    BY <1>1
  <2> DEFINE D == {}
  <2>2. Owed \ D \subseteq Owed' /\ \A c \in Client : c \notin D
    BY <1>1
  <2>3. /\ chain' \subseteq chain
        /\ \A e \in Endp : et'[e].early.client \in {et[e].early.client, NoClient}
    OBVIOUS
  <2> HIDE DEF D
  <2>4. QED BY <2>1, <2>2, <2>3, OnceAnswered
<1>2. CASE asking' = asking \ {sl[s].asker} /\ UNCHANGED strays /\ sl'[s].asker = NoClient
  <2> DEFINE D == {sl[s].asker}
  <2>1. \A u \in Slot : sl'[u].asker \in {sl[u].asker, NoClient}
    BY <1>2
  <2>2. \A c \in Client : c \in D => /\ \A u \in Slot : sl'[u].asker # c
                                     /\ \A e \in Endp : et'[e].early.client # c
                                     /\ \A x \in chain' : x.client # c
    BY <1>2, OncePlacedIff, EndpLanAssumption DEF OncePlaced
  <2>3. Owed \ D \subseteq Owed' /\ chain' \subseteq chain
    BY <1>2 DEF Owed
  <2>4. \A e \in Endp : et'[e].early.client \in {et[e].early.client, NoClient}
    OBVIOUS
  <2> HIDE DEF D
  <2>5. QED BY <2>1, <2>2, <2>3, <2>4, OnceAnswered
<1>3. QED BY <1>1, <1>2

\* The helpers on a slot that is served, refused or deleted forget who asked.
LEMMA AskerForgotten ==
  ASSUME NEW r \in SlotRec, NEW l \in LanOrNo
  PROVE  /\ DelLanSlot(r).asker \in {r.asker, NoClient}
         /\ NotWaiting(r).asker = NoClient
         /\ Attached(r, l).asker = NoClient
BY DEF SlotRec, DelLanSlot, NotWaiting, Attached

\* recv_del_lan_endp answers its own client at once; a slot loses who asked.
LEMMA OnceDelLan ==
  ASSUME Inv, AnsweredOnce, NEW e \in Endp, NEW l \in Lan, DelLan(e, l)
  PROVE  AnsweredOnce'
<1>1. PICK s \in FirstOf({u \in SlotsOf(e) : sl[u].attached = l}) :
        sl' = [sl EXCEPT ![s] = DelLanSlot(sl[s])]
  BY DEF DelLan
<1>2. UNCHANGED <<asking, chain, strays, et>> /\ Owed \subseteq Owed'
  BY DEF DelLan, Owed
<1>3. s \in Slot
  BY <1>1 DEF FirstOf, SlotsOf
<1>4. sl \in [Slot -> SlotRec] /\ sl[s] \in SlotRec
  BY <1>3 DEF Inv, TypeOK
<1>5. /\ sl'[s].asker \in {sl[s].asker, NoClient}
      /\ \A u \in Slot : u # s => sl'[u].asker = sl[u].asker
  BY <1>1, <1>3, <1>4, AskerForgotten DEF LanOrNo
<1>6. QED BY <1>2, <1>3, <1>5, OnceSlot

\* endp_evt_connect_OK, endp_evt_connect_KO and timer_evt answer one slot.
LEMMA OnceConnect ==
  ASSUME Inv, AnsweredOnce, NEW e \in Endp, RecvConnectOk(e) \/ RecvConnectKo(e)
  PROVE  AnsweredOnce'
<1> DEFINE a == Head(pr[e].outbox)
           s == <<e, a.tidx>>
<1>1. TypeOK /\ sl \in [Slot -> SlotRec]
  BY DEF Inv, TypeOK
<1>2. Received(e, {"connect_ok", "connect_ko"}) /\ UNCHANGED <<et, chain>>
  BY DEF RecvConnectOk, RecvConnectKo, Received
<1>3. a \in Answer /\ a.kind \in {"connect_ok", "connect_ko"}
  BY <1>1, <1>2, TakenTyped
<1>4. a.lan \in LanOrNo /\ s \in Slot /\ sl[s] \in SlotRec
  BY <1>1, <1>3 DEF Answer, Slot, LanOrNo
<1>5. \/ UNCHANGED sl /\ Owed \subseteq Owed'
      \/ /\ sl' = [sl EXCEPT ![s] = Attached(sl[s], a.lan)]
         /\ asking' = asking \ {sl[s].asker} /\ UNCHANGED strays
      \/ /\ sl' = [sl EXCEPT ![s] = NotWaiting(sl[s])]
         /\ asking' = asking \ {sl[s].asker} /\ UNCHANGED strays
  BY DEF RecvConnectOk, RecvConnectKo, StrayAnswer, Owed
<1> HIDE DEF s, a
<1>6. /\ \A u \in Slot : u # s => sl'[u].asker = sl[u].asker
      /\ \/ Owed \subseteq Owed' /\ sl'[s].asker \in {sl[s].asker, NoClient}
         \/ /\ asking' = asking \ {sl[s].asker} /\ UNCHANGED strays
            /\ sl'[s].asker = NoClient
  BY <1>1, <1>4, <1>5, AskerForgotten
<1>7. QED BY <1>2, <1>4, <1>6, OnceSlot

\* timer_evt
LEMMA OnceTimerEvt ==
  ASSUME Inv, AnsweredOnce, NEW s \in Slot, NEW l \in Lan, NEW seq \in 1..MaxSeq,
         TimerEvt(s, l, seq)
  PROVE  AnsweredOnce'
<1>1. sl \in [Slot -> SlotRec] /\ sl[s] \in SlotRec
  BY DEF Inv, TypeOK
<1>2. /\ UNCHANGED <<et, chain, strays>>
      /\ \/ UNCHANGED <<sl, asking>>
         \/ /\ sl' = [sl EXCEPT ![s] = NotWaiting(sl[s])]
            /\ asking' = asking \ {sl[s].asker}
  BY DEF TimerEvt
<1>3. /\ \A u \in Slot : u # s => sl'[u].asker = sl[u].asker
      /\ \/ Owed \subseteq Owed' /\ sl'[s].asker \in {sl[s].asker, NoClient}
         \/ /\ asking' = asking \ {sl[s].asker} /\ UNCHANGED strays
            /\ sl'[s].asker = NoClient
  BY <1>1, <1>2, AskerForgotten DEF LanOrNo, Owed
<1>4. QED BY <1>2, <1>3, OnceSlot

\* endp_evt_mulan_death refuses the slots of W, and no slot is of W and of A:
\* what it refuses is in no other place.
LEMMA OnceMulanDeath ==
  ASSUME Inv, AnsweredOnce, NEW l \in Lan, MulanDeathEvent(l),
         UNCHANGED <<chain, strays, et>>
  PROVE  AnsweredOnce'
<1> DEFINE W == FirstOf({s \in Slot : sl[s].waiting = l})
           A == FirstOf({s \in Slot : sl[s].attached = l})
           D == {sl[s].asker : s \in W}
<1>1. /\ sl' = [s \in Slot |-> IF s \in A THEN DelLanSlot(sl[s])
                               ELSE IF s \in W THEN NotWaiting(sl[s]) ELSE sl[s]]
      /\ asking' = asking \ D
  BY DEF MulanDeathEvent
<1>2. sl \in [Slot -> SlotRec] /\ l # NoLan
  BY EndpLanAssumption DEF Inv, TypeOK
<1>3. /\ \A s \in W : s \in Slot /\ sl[s].waiting = l
      /\ \A s \in A : s \in Slot /\ sl[s].attached = l
  BY DEF FirstOf
<1>4. \A s \in W : s \notin A
  BY <1>2, <1>3 DEF Inv, AttachConsistent
<1> HIDE DEF A
<1>5. \A s \in Slot : sl'[s].asker \in {sl[s].asker, NoClient}
  BY <1>1, <1>2, AskerForgotten DEF LanOrNo
<1>6. \A s \in W : sl'[s].asker = NoClient
  BY <1>1, <1>2, <1>3, <1>4, AskerForgotten DEF LanOrNo
<1> HIDE DEF W
<1>7. ASSUME NEW c \in Client, c \in D
      PROVE  /\ \A s \in Slot : sl'[s].asker # c
             /\ \A e \in Endp : et'[e].early.client # c
             /\ \A x \in chain' : x.client # c
  <2>1. PICK w \in W : c = sl[w].asker
    BY <1>7
  <2>2. w \in Slot /\ sl'[w].asker = NoClient
    BY <1>3, <1>6
  <2>3. \A s \in Slot : s # w => sl[s].asker # c
    BY <2>1, <2>2, OncePlacedIff DEF OncePlaced
  <2>4. \A e \in Endp : et[e].early.client # c
    BY <2>1, <2>2, OncePlacedIff DEF OncePlaced
  <2>5. \A x \in chain : x.client # c
    BY <2>1, <2>2, OncePlacedIff DEF OncePlaced
  <2>6. QED BY <1>5, <2>2, <2>3, <2>4, <2>5, EndpLanAssumption
<1> HIDE DEF D
<1>8. Owed \ D \subseteq Owed' /\ chain' \subseteq chain
  BY <1>1 DEF Owed
<1>9. QED BY <1>5, <1>7, <1>8, OnceAnswered

\* Every step of a LAN.
LEMMA OnceLanStep ==
  ASSUME Inv, AnsweredOnce, NEW l \in Lan, LanStep(l)
  PROVE  AnsweredOnce'
<1>1. UNCHANGED <<chain, strays, et>>
  BY DEF LanStep, MulanRequestQuit, MulanConnect, MulanPid, MulanListen, MulanListenOk,
         MulanErrCb, MulanDeath, MulanExit, TimerZombieKill
<1>2. MulanDeathEvent(l) \/ UNCHANGED <<sl, asking>>
  BY DEF LanStep, MulanRequestQuit, MulanConnect, MulanPid, MulanListen, MulanListenOk,
         MulanErrCb, MulanDeath, MulanExit, TimerZombieKill, ZombieKill
<1>3. CASE MulanDeathEvent(l)
  BY <1>1, <1>3, OnceMulanDeath
<1>4. CASE UNCHANGED <<sl, asking>>
  BY <1>1, <1>4, OnceKept
<1>5. QED BY <1>2, <1>3, <1>4

\* do_add_lan puts the request of c in one slot, the first one that is free;
\* c is in no other place, be it new or taken from the timer of e.
LEMMA OnceLocalAddLan ==
  ASSUME Inv, AnsweredOnce, NEW c \in Client, NEW e \in Endp, NEW l \in Lan,
         LocalAddLan(c, e, l),
         chain' \subseteq chain, strays \ {c} \subseteq strays',
         \A s \in Slot : sl[s].asker # c,
         \A x \in chain' : x.client # c,
         \A f \in Endp : et'[f].early.client \in {et[f].early.client, NoClient} \ {c}
  PROVE  AnsweredOnce'
<1>1. sl \in [Slot -> SlotRec]
  BY DEF Inv, TypeOK
<1>2. CASE Accepts(e, l)
  <2>1. PICK s \in FirstOf(FreeSlots(e)) : DoAddLan(c, s, l)
    BY <1>2 DEF LocalAddLan
  <2>2. s \in Slot
    BY <2>1 DEF FirstOf, FreeSlots, SlotsOf
  <2>3. Owed \cup {c} \subseteq Owed'
    BY <1>2 DEF LocalAddLan, Owed
  <2>4. PICK n : sl' = [sl EXCEPT ![s] = [sl[s] EXCEPT !.waiting = l, !.asker = c, !.seq = n]]
    BY <2>1 DEF DoAddLan
  <2>5. sl'[s].asker = c /\ \A u \in Slot : u # s => sl'[u] = sl[u]
    BY <1>1, <2>2, <2>4 DEF SlotRec
  <2>6. \A u \in Slot : sl'[u].asker \in {sl[u].asker, NoClient, c}
    BY <2>5
  <2>7. \A u \in Slot : sl'[u].asker = c => u = s
    BY <2>5
  <2>8. \A f \in Endp : /\ et'[f].early.client \in {et[f].early.client, NoClient, c}
                        /\ et'[f].early.client # c
    OBVIOUS
  <2>9. QED BY <2>3, <2>6, <2>7, <2>8, OncePut
<1>3. CASE ~Accepts(e, l)
  <2> DEFINE D == {c}
  <2>1. UNCHANGED sl /\ Owed \ D \subseteq Owed'
    BY <1>3 DEF LocalAddLan, Owed
  <2>2. \A d \in Client : d \in D => /\ \A s \in Slot : sl'[s].asker # d
                                     /\ \A f \in Endp : et'[f].early.client # d
                                     /\ \A x \in chain' : x.client # d
    BY <2>1
  <2>3. \A f \in Endp : et'[f].early.client \in {et[f].early.client, NoClient}
    OBVIOUS
  <2>4. \A s \in Slot : sl'[s].asker \in {sl[s].asker, NoClient}
    BY <2>1
  <2> HIDE DEF D
  <2>5. QED BY <2>1, <2>2, <2>3, <2>4, OnceAnswered
<1>4. QED BY <1>2, <1>3

\* add_lan_endp: the request is in no slot, no timer and no longer in the chain.
LEMMA OnceAddLanEndp ==
  ASSUME Inv, AnsweredOnce, NEW c \in Client, NEW e \in Endp, NEW l \in Lan,
         AddLanEndp(c, e, l),
         chain' \subseteq chain, strays \ {c} \subseteq strays',
         \A s \in Slot : sl[s].asker # c,
         \A f \in Endp : et[f].early.client # c,
         \A x \in chain' : x.client # c
  PROVE  AnsweredOnce'
<1>1. et \in [Endp -> TimerRec]
  BY DEF Inv, TypeOK
<1>2. CASE LocalAddLan(c, e, l) /\ UNCHANGED et
  <2>1. \A f \in Endp : et'[f].early.client \in {et[f].early.client, NoClient} \ {c}
    BY <1>2
  <2>2. QED BY <1>2, <2>1, OnceLocalAddLan
<1>3. CASE UNCHANGED <<sl, et>> /\ asking' = asking \ {c}
  <2> DEFINE D == {c}
  <2>1. Owed \ D \subseteq Owed'
    BY <1>3 DEF Owed
  <2>2. \A d \in Client : d \in D => /\ \A s \in Slot : sl'[s].asker # d
                                     /\ \A f \in Endp : et'[f].early.client # d
                                     /\ \A x \in chain' : x.client # d
    BY <1>3
  <2>3. /\ \A s \in Slot : sl'[s].asker \in {sl[s].asker, NoClient}
        /\ \A f \in Endp : et'[f].early.client \in {et[f].early.client, NoClient}
    BY <1>3
  <2> HIDE DEF D
  <2>4. QED BY <2>1, <2>2, <2>3, OnceAnswered
<1>4. CASE /\ et' = [et EXCEPT ![e] = [et[e] EXCEPT !.early = [client |-> c, lan |-> l]]]
           /\ asking' = asking \cup {c}
           /\ UNCHANGED sl
  <2>1. /\ et'[e].early.client = c
        /\ \A f \in Endp : f # e => et'[f].early = et[f].early
    BY <1>1, <1>4 DEF TimerRec
  <2>2. \A f \in Endp : et'[f].early.client \in {et[f].early.client, NoClient, c}
    BY <2>1
  <2>3. \A f \in Endp : et'[f].early.client = c => f = e
    BY <2>1
  <2>4. \A s \in Slot : sl'[s].asker \in {sl[s].asker, NoClient, c} /\ sl'[s].asker # c
    BY <1>4
  <2>5. Owed \cup {c} \subseteq Owed'
    BY <1>4 DEF Owed
  <2>6. QED BY <2>2, <2>3, <2>4, <2>5, OncePut
<1>5. QED BY <1>2, <1>3, <1>4 DEF AddLanEndp

\* recv_add_lan_endp: the request is new, so that it is in no place yet.
LEMMA OnceAddLan ==
  ASSUME Inv, AnsweredOnce, NEW c \in Client, NEW e \in Endp, NEW l \in Lan, AddLan(c, e, l)
  PROVE  AnsweredOnce'
<1>1. /\ \A s \in Slot : sl[s].asker # c
      /\ \A f \in Endp : et[f].early.client # c
      /\ \A x \in chain : x.client # c
  <2>1. /\ \A s \in Slot : sl[s].asker = c => <<"slot", s>> \in Holds(c)
        /\ \A f \in Endp : et[f].early.client = c => <<"timer", f>> \in Holds(c)
        /\ \A x \in chain : x.client = c => <<"chain", x>> \in Holds(c)
    BY DEF Holds
  <2>2. Holds(c) = {}
    BY DEF AddLan
  <2>3. QED BY <2>1, <2>2
<1>2. strays' = strays \ {c}
  BY DEF AddLan
<1>3. CASE AddLanEndp(c, e, l) /\ UNCHANGED chain
  BY <1>1, <1>2, <1>3, OnceAddLanEndp
<1>4. CASE UNCHANGED <<sl, asking, chain, et>>
  <2> DEFINE D == {c}
  <2>1. Owed \ D \subseteq Owed'
    BY <1>2, <1>4 DEF Owed
  <2>2. \A d \in Client : d \in D => /\ \A s \in Slot : sl'[s].asker # d
                                     /\ \A f \in Endp : et'[f].early.client # d
                                     /\ \A x \in chain' : x.client # d
    BY <1>1, <1>4
  <2>3. /\ \A s \in Slot : sl'[s].asker \in {sl[s].asker, NoClient}
        /\ \A f \in Endp : et'[f].early.client \in {et[f].early.client, NoClient}
        /\ chain' \subseteq chain
    BY <1>4
  <2> HIDE DEF D
  <2>4. QED BY <2>1, <2>2, <2>3, OnceAnswered
<1>5. CASE /\ chain' = chain \cup {[client |-> c, endp |-> e, lan |-> l]}
           /\ asking' = asking \cup {c}
           /\ UNCHANGED <<sl, et>>
  <2>1. Owed \cup {c} \subseteq Owed'
    BY <1>2, <1>5 DEF Owed
  <2>2. /\ \A x \in chain' : x \in chain \/ x.client = c
        /\ \A x, y \in chain' : x.client = c /\ y.client = c => x = y
    BY <1>1, <1>5
  <2>3. /\ \A s \in Slot : sl'[s].asker = sl[s].asker /\ sl'[s].asker # c
        /\ \A f \in Endp : et'[f].early.client = et[f].early.client /\ et'[f].early.client # c
    BY <1>1, <1>5
  <2>4. QED BY <2>1, <2>2, <2>3, OncePut
<1>6. QED BY <1>3, <1>4, <1>5 DEF AddLan

\* delayed_coherency_cmd_timeout: the request leaves the chain first.
LEMMA OnceDelayed ==
  ASSUME Inv, AnsweredOnce, NEW x \in chain, DelayedCoherency(x)
  PROVE  AnsweredOnce'
<1>1. x.client \in Client /\ x.endp \in Endp /\ x.lan \in Lan
  BY DEF Inv, TypeOK, Delayed
<1>2. /\ chain' = chain \ {x} /\ UNCHANGED strays
      /\ AddLanEndp(x.client, x.endp, x.lan)
  BY DEF DelayedCoherency
<1>3. /\ \A s \in Slot : sl[s].asker # x.client
      /\ \A f \in Endp : et[f].early.client # x.client
      /\ \A y \in chain : y.client = x.client => y = x
  BY <1>1, OncePlacedIff DEF OncePlaced
<1>4. QED BY <1>1, <1>2, <1>3, OnceAddLanEndp

\* timer_endp: the request leaves the timer before it is served or refused.
LEMMA OnceTimerEndp ==
  ASSUME Inv, AnsweredOnce, NEW e \in Endp, TimerEndp(e)
  PROVE  AnsweredOnce'
<1> DEFINE r == et[e].early
<1>1. et \in [Endp -> TimerRec] /\ r \in Request
  BY DEF Inv, TypeOK, TimerRec, TimerEndp
<1>2. r.client \in Client /\ r.lan \in Lan
  BY <1>1 DEF Request
<1>3. /\ et' = [et EXCEPT ![e] = [et[e] EXCEPT !.early = NoRequest]]
      /\ UNCHANGED <<chain, strays>>
  BY DEF TimerEndp
<1>4. /\ et'[e].early.client = NoClient
      /\ \A f \in Endp : f # e => et'[f].early = et[f].early
  BY <1>1, <1>3 DEF TimerRec, NoRequest
<1>5. /\ \A s \in Slot : sl[s].asker # r.client
      /\ \A f \in Endp : f # e => et[f].early.client # r.client
      /\ \A x \in chain' : x.client # r.client
  BY <1>2, <1>3, OncePlacedIff DEF OncePlaced
<1>6. \A f \in Endp : et'[f].early.client \in {et[f].early.client, NoClient} \ {r.client}
  BY <1>2, <1>4, <1>5, EndpLanAssumption
<1>7. \/ LocalAddLan(r.client, e, r.lan)
      \/ UNCHANGED sl /\ asking' = asking \ {r.client}
  BY DEF TimerEndp
<1> HIDE DEF r
<1>8. CASE LocalAddLan(r.client, e, r.lan)
  BY <1>2, <1>3, <1>5, <1>6, <1>8, OnceLocalAddLan
<1>9. CASE UNCHANGED sl /\ asking' = asking \ {r.client}
  <2> DEFINE D == {r.client}
  <2>1. UNCHANGED sl /\ Owed \ D \subseteq Owed' /\ chain' \subseteq chain
    BY <1>3, <1>9 DEF Owed
  <2>2. \A d \in Client : d \in D => /\ \A s \in Slot : sl'[s].asker # d
                                     /\ \A f \in Endp : et'[f].early.client # d
                                     /\ \A x \in chain' : x.client # d
    BY <1>5, <1>6, <1>9
  <2>3. \A f \in Endp : et'[f].early.client \in {et[f].early.client, NoClient}
    BY <1>6
  <2>4. \A s \in Slot : sl'[s].asker \in {sl[s].asker, NoClient}
    BY <1>9
  <2> HIDE DEF D
  <2>5. QED BY <2>1, <2>2, <2>3, <2>4, OnceAnswered
<1>10. QED BY <1>7, <1>8, <1>9

\* When the server starts no request is held.
LEMMA OnceInit == Init => AnsweredOnce
<1> SUFFICES ASSUME Init PROVE AnsweredOnce
  OBVIOUS
<1>1. \A s \in Slot : sl[s].asker = NoClient
  BY DEF Init, EmptySlot
<1>2. \A e \in Endp : et[e].early.client = NoClient
  BY DEF Init, NoRequest
<1>3. chain = {}
  BY DEF Init
<1>4. OncePlaced
  BY <1>1, <1>2, <1>3, EndpLanAssumption DEF OncePlaced
<1>5. QED BY <1>4, OncePlacedIff

\* Every action of the server keeps a request in one place.
LEMMA OnceNext == Inv /\ AnsweredOnce /\ [Next]_vars => AnsweredOnce'
<1> SUFFICES ASSUME Inv, AnsweredOnce, [Next]_vars PROVE AnsweredOnce'
  OBVIOUS
<1>1. ASSUME NEW e \in Endp, EndpStep(e) PROVE AnsweredOnce'
  BY <1>1, OnceEndpQuiet, OnceTimerEndp, OnceConnect DEF EndpStep
<1>2. ASSUME NEW l \in Lan, LanStep(l) PROVE AnsweredOnce'
  BY <1>2, OnceLanStep
<1>3. ASSUME NEW s \in Slot, SlotStep(s) PROVE AnsweredOnce'
  <2>1. ASSUME NEW l \in Lan, NEW seq \in 1..MaxSeq, TimerEvt(s, l, seq) PROVE AnsweredOnce'
    BY <2>1, OnceTimerEvt
  <2>2. ASSUME NEW l \in Lan, TimerLanConnect(s, l) \/ ProcTimeout(s, l) PROVE AnsweredOnce'
    <3>1. UNCHANGED <<sl, asking, chain, strays, et>>
      BY <2>2 DEF TimerLanConnect, ProcTimeout
    <3>2. QED BY <3>1, OnceKept
  <2>3. CASE ProcConnectOk(s) \/ ProcLinkLost(s)
    <3>1. UNCHANGED <<sl, asking, chain, strays, et>>
      BY <2>3 DEF ProcConnectOk, ProcLinkLost
    <3>2. QED BY <3>1, OnceKept
  <2>4. QED BY <1>3, <2>1, <2>2, <2>3 DEF SlotStep
<1>4. ASSUME NEW c \in Client, NEW e \in Endp, NEW l \in Lan, AddLan(c, e, l)
      PROVE  AnsweredOnce'
  BY <1>4, OnceAddLan
<1>5. ASSUME NEW e \in Endp, NEW l \in Lan, DelLan(e, l) PROVE AnsweredOnce'
  BY <1>5, OnceDelLan
<1>6. ASSUME NEW x \in chain, DelayedCoherency(x) PROVE AnsweredOnce'
  BY <1>6, OnceDelayed
<1>7. CASE UNCHANGED vars
  BY <1>7, OnceKept DEF vars
<1>8. QED BY <1>1, <1>2, <1>3, <1>4, <1>5, <1>6, <1>7 DEF Next

\* A request is in one slot, one timer or the chain, and only while it has had
\* no answer: none is answered twice, but for one that an answer to a slot that
\* waits for nothing may have reached (uninitialised llid and tid, endp_evt.c).
THEOREM OneAnswer == Spec => []AnsweredOnce
<1>1. Init => AnsweredOnce
  BY OnceInit
<1>2. Inv /\ Inv' /\ AnsweredOnce /\ [Next]_vars => AnsweredOnce'
  BY OnceNext
<1>3. QED BY <1>1, <1>2, Invariance, PTL DEF Spec

-----------------------------------------------------------------------------
(* The LAN of a slot lives.                                                  *)

\* endp_evt.c stops at the first slot it finds in an endpoint: its loops reach
\* every slot as long as no endpoint has two slots for one LAN.
Has(s, l) == l \in {sl[s].attached, sl[s].waiting}
OneSlotPerLan ==
  \A s, u \in Slot, l \in Lan : s[1] = u[1] /\ Has(s, l) /\ Has(u, l) => s = u
Alive(l) == lan[l].st # "none" /\ ~IsZombie(l)

\* A step that gives no slot a LAN, and ends no LAN that a slot keeps.
LEMMA LivesKept ==
  ASSUME SlotLanLives,
         \A s \in Slot, l \in Lan : Has(s, l)' => Has(s, l) /\ (Alive(l) => Alive(l)')
  PROVE  SlotLanLives'
BY DEF SlotLanLives, Has, Alive, IsZombie

\* The helpers on a slot take its LAN away, or attach the one it waited for.
LEMMA HelpersTake ==
  ASSUME NEW r \in SlotRec, NEW l \in LanOrNo
  PROVE  /\ DelLanSlot(r).attached \in {r.attached, NoLan}
         /\ DelLanSlot(r).waiting \in {r.waiting, NoLan}
         /\ NotWaiting(r).attached = r.attached
         /\ NotWaiting(r).waiting = NoLan
         /\ Attached(r, l).attached = l
         /\ Attached(r, l).waiting = NoLan
BY DEF SlotRec, DelLanSlot, NotWaiting, Attached

\* The steps of an endpoint, but for timer_endp: no LAN is touched.
LEMMA LivesEndp ==
  ASSUME Inv, SlotLanLives, NEW e \in Endp, EndpStep(e), ~TimerEndp(e)
  PROVE  SlotLanLives'
<1>1. /\ TypeOK
      /\ sl \in [Slot -> SlotRec]
      /\ NoLan \notin Lan
  BY EndpLanAssumption DEF Inv, TypeOK
<1>2. UNCHANGED lan
  BY DEF EndpStep, EndpStart, EndpStop, EndpConnect, EndpPid, EndpTypeReq, EndpBeatQuit,
         MuendpWatchdog, EndpErrCb, MuendpDeath, TimerEndpDeath, TimerEndpFree,
         RecvTypeOk, RecvTypeKo, RecvDisconnectOk, RecvConnectOk, RecvConnectKo, ProcExit
<1>3. CASE QuickDeath(e) \/ UNCHANGED sl
  <2>1. \A r : /\ QuickDeathSlot(r).attached = NoLan
               /\ QuickDeathSlot(r).waiting = NoLan
    BY DEF QuickDeathSlot, EmptySlot
  <2>2. \A s \in Slot, l \in Lan : Has(s, l)' => Has(s, l)
    BY <1>1, <1>3, <2>1 DEF QuickDeath, Has
  <2>3. QED BY <1>2, <2>2, LivesKept DEF Alive, IsZombie
<1>4. CASE RecvConnectOk(e) \/ RecvConnectKo(e)
  <2> DEFINE a == Head(pr[e].outbox)
             s == <<e, a.tidx>>
  <2>1. Received(e, {"connect_ok", "connect_ko"})
    BY <1>4 DEF RecvConnectOk, RecvConnectKo, Received
  <2>2. a \in Answer /\ a.kind \in {"connect_ok", "connect_ko"}
    BY <1>1, <2>1, TakenTyped
  <2>3. a.lan \in LanOrNo /\ s \in Slot /\ sl[s] \in SlotRec
    BY <1>1, <2>2 DEF Answer, Slot, LanOrNo
  <2>4. \/ UNCHANGED sl
        \/ /\ sl[s].waiting = a.lan
           /\ sl' = [sl EXCEPT ![s] = Attached(sl[s], a.lan)]
        \/ sl' = [sl EXCEPT ![s] = NotWaiting(sl[s])]
    BY <1>4 DEF RecvConnectOk, RecvConnectKo, StrayAnswer
  <2> HIDE DEF s, a
  <2>5. \A u \in Slot, l \in Lan : Has(u, l)' => Has(u, l)
    BY <1>1, <2>3, <2>4, HelpersTake DEF Has
  <2>6. QED BY <1>2, <2>5, LivesKept DEF Alive, IsZombie
<1>5. (QuickDeath(e) \/ UNCHANGED sl) \/ RecvConnectOk(e) \/ RecvConnectKo(e)
  BY DEF EndpStep, EndpStart, EndpStop, EndpConnect, EndpPid, EndpTypeReq, EndpBeatQuit,
         MuendpWatchdog, EndpErrCb, MuendpDeath, TimerEndpDeath, TimerEndpFree,
         RecvTypeOk, RecvTypeKo, RecvDisconnectOk, ProcExit, EndpGone
<1>6. QED BY <1>3, <1>4, <1>5

\* endp_evt_mulan_death reaches every slot of the LAN.
LEMMA DeathReaches ==
  ASSUME Inv, OneSlotPerLan, NEW l \in Lan, MulanDeathEvent(l)
  PROVE  \A s \in Slot : /\ ~Has(s, l)'
                         /\ \A k \in Lan : Has(s, k)' => Has(s, k)
<1> DEFINE W == FirstOf({s \in Slot : sl[s].waiting = l})
           A == FirstOf({s \in Slot : sl[s].attached = l})
<1>1. sl' = [s \in Slot |-> IF s \in A THEN DelLanSlot(sl[s])
                            ELSE IF s \in W THEN NotWaiting(sl[s]) ELSE sl[s]]
  BY DEF MulanDeathEvent
<1>2. sl \in [Slot -> SlotRec] /\ NoLan \notin Lan
  BY EndpLanAssumption DEF Inv, TypeOK
<1>3. \A s \in Slot : s[2] <= s[2]
  <2> SUFFICES ASSUME NEW s \in Slot PROVE s[2] <= s[2]
    OBVIOUS
  <2>1. s[2] \in Nat
    BY EndpLanAssumption DEF Slot
  <2>2. QED BY <2>1
<1>4. \A s \in Slot : /\ sl[s].waiting = l => s \in W
                      /\ sl[s].attached = l => s \in A
  BY <1>3 DEF FirstOf, OneSlotPerLan, Has
<1>5. \A s \in A : s \in Slot /\ sl[s].attached = l
  BY DEF FirstOf
<1> HIDE DEF A, W
<1>6. \A s \in A : /\ DelLanSlot(sl[s]).attached = NoLan
                   /\ DelLanSlot(sl[s]).waiting = NoLan
  BY <1>2, <1>5, DelLanEmpties
<1>7. ASSUME NEW s \in Slot
      PROVE  ~Has(s, l)' /\ \A k \in Lan : Has(s, k)' => Has(s, k)
  <2>1. sl[s] \in SlotRec
    BY <1>2
  <2>2. CASE s \in A
    BY <1>1, <1>2, <1>6, <2>2 DEF Has
  <2>3. CASE s \notin A /\ s \in W
    BY <1>1, <1>2, <1>4, <2>1, <2>3, HelpersTake DEF Has, LanOrNo
  <2>4. CASE s \notin A /\ s \notin W
    BY <1>1, <1>4, <2>4 DEF Has
  <2>5. QED BY <2>2, <2>3, <2>4
<1>8. QED BY <1>7

\* The steps of a LAN: only those that follow the death event, or find the LAN
\* a zombie already, end it.
LEMMA LivesLan ==
  ASSUME Inv, OneSlotPerLan, SlotLanLives, NEW l \in Lan, LanStep(l)
  PROVE  SlotLanLives'
<1>1. \A k \in Lan : k # l => lan'[k] = lan[k]
  BY DEF LanStep, MulanRequestQuit, MulanConnect, MulanPid, MulanListen, MulanListenOk,
         MulanErrCb, MulanDeath, MulanExit, TimerZombieKill, ZombieKill, Inv, TypeOK
<1>2. lan \in [Lan -> LanRec] /\ lan[l] \in LanRec
  BY DEF Inv, TypeOK
<1>3. CASE MulanDeathEvent(l)
  <2>1. \A s \in Slot, k \in Lan : Has(s, k)' => Has(s, k) /\ k # l
    BY <1>3, DeathReaches
  <2>2. QED BY <1>1, <2>1, LivesKept DEF Alive, IsZombie
<1>4. CASE UNCHANGED sl /\ (Alive(l) => Alive(l)')
  BY <1>1, <1>4, LivesKept DEF Alive, IsZombie, Has
<1>5. CASE MulanRequestQuit(l) \/ MulanErrCb(l)
  <2>1. PICK b : ZombieKill(l, b)
    BY <1>5 DEF MulanRequestQuit, MulanErrCb
  <2>2. MulanDeathEvent(l) \/ (UNCHANGED sl /\ IsZombie(l))
    BY <2>1 DEF ZombieKill
  <2>3. QED BY <1>3, <1>4, <2>2 DEF Alive
<1>6. CASE MulanConnect(l) \/ MulanPid(l) \/ MulanListen(l) \/ MulanListenOk(l) \/ MulanExit(l)
  <2>1. UNCHANGED sl
    BY <1>6 DEF MulanConnect, MulanPid, MulanListen, MulanListenOk, MulanExit
  <2>2. \/ lan' = [lan EXCEPT ![l] = [lan[l] EXCEPT !.llid = TRUE]]
        \/ lan' = [lan EXCEPT ![l] = [lan[l] EXCEPT !.proc = "dead"]]
        \/ \E x \in {"pid", "wait", "done"} :
             lan' = [lan EXCEPT ![l] = [lan[l] EXCEPT !.st = x]]
    BY <1>6, Zenon DEF MulanConnect, MulanPid, MulanListen, MulanListenOk, MulanExit
  <2>3. lan'[l].zombie = lan[l].zombie /\ lan'[l].st \in {lan[l].st, "pid", "wait", "done"}
    BY <1>2, <2>2 DEF LanRec
  <2>4. QED BY <1>4, <2>1, <2>3 DEF Alive, IsZombie
<1>7. CASE TimerZombieKill(l)
  <2>1. UNCHANGED sl /\ IsZombie(l)
    BY <1>7 DEF TimerZombieKill
  <2>2. QED BY <1>4, <2>1 DEF Alive
<1>8. CASE MulanDeath(l)
  BY <1>3, <1>8 DEF MulanDeath
<1>9. QED BY <1>5, <1>6, <1>7, <1>8 DEF LanStep

\* do_add_lan: the slot waits for a LAN that has a record, or is given one, and
\* that is not a zombie.
LEMMA LivesLocalAddLan ==
  ASSUME Inv, SlotLanLives, NEW c, NEW e \in Endp, NEW l \in Lan, LocalAddLan(c, e, l)
  PROVE  SlotLanLives'
<1>1. /\ sl \in [Slot -> SlotRec] /\ lan \in [Lan -> LanRec] /\ lan[l] \in LanRec
      /\ NoLan \notin Lan
  BY EndpLanAssumption DEF Inv, TypeOK
<1>2. CASE ~Accepts(e, l)
  BY <1>2, LivesKept DEF LocalAddLan, Has, Alive, IsZombie
<1>3. CASE Accepts(e, l)
  <2>1. PICK s \in FirstOf(FreeSlots(e)) : DoAddLan(c, s, l)
    BY <1>3 DEF LocalAddLan
  <2>2. s \in Slot /\ ~IsZombie(l)
    BY <1>3, <2>1 DEF FirstOf, FreeSlots, SlotsOf, Accepts
  <2>3. PICK n : sl' = [sl EXCEPT ![s] = [sl[s] EXCEPT !.waiting = l, !.asker = c, !.seq = n]]
    BY <2>1 DEF DoAddLan
  <2>4. \/ lan[l].st = "none" /\ lan' = [lan EXCEPT ![l] = [NoMulan EXCEPT
                                          !.st = "start", !.proc = "up"]]
        \/ lan[l].st # "none" /\ UNCHANGED lan
    BY <2>1 DEF DoAddLan
  <2>5. Alive(l)'
    <3>1. CASE lan[l].st # "none" /\ UNCHANGED lan
      BY <2>2, <3>1 DEF Alive, IsZombie
    <3>2. CASE lan' = [lan EXCEPT ![l] = [NoMulan EXCEPT !.st = "start", !.proc = "up"]]
      <4>1. lan'[l].st = "start" /\ lan'[l].zombie = -1
        BY <1>1, <3>2 DEF NoMulan
      <4>2. QED BY <4>1 DEF Alive, IsZombie
    <3>3. QED BY <2>4, <3>1, <3>2
  <2>6. \A k \in Lan : Alive(k) => Alive(k)'
    BY <1>1, <2>4, <2>5 DEF Alive, IsZombie
  <2>7. \A u \in Slot, k \in Lan : Has(u, k)' => Has(u, k) \/ k = l
    BY <1>1, <2>2, <2>3 DEF Has, SlotRec
  <2>8. QED BY <2>5, <2>6, <2>7 DEF SlotLanLives, Has, Alive, IsZombie
<1>4. QED BY <1>2, <1>3

\* Every action, in a state where the loops of endp_evt.c reach every slot.
LEMMA LivesNext == Inv /\ OneSlotPerLan /\ SlotLanLives /\ [Next]_vars => SlotLanLives'
<1> SUFFICES ASSUME Inv, OneSlotPerLan, SlotLanLives, [Next]_vars PROVE SlotLanLives'
  OBVIOUS
<1>1. /\ TypeOK
      /\ sl \in [Slot -> SlotRec] /\ et \in [Endp -> TimerRec]
      /\ NoLan \in LanOrNo /\ NoLan \notin Lan
  BY EndpLanAssumption DEF Inv, TypeOK, LanOrNo
<1>2. CASE UNCHANGED <<sl, lan>>
  BY <1>2, LivesKept DEF Has, Alive, IsZombie
<1>3. ASSUME NEW e \in Endp, EndpStep(e) PROVE SlotLanLives'
  <2>1. CASE TimerEndp(e)
    <3> DEFINE r == et[e].early
    <3>1. r.lan \in Lan
      BY <1>1, <2>1 DEF TimerEndp, TimerRec, Request
    <3>2. LocalAddLan(r.client, e, r.lan) \/ UNCHANGED <<sl, lan>>
      BY <2>1 DEF TimerEndp
    <3>3. QED BY <1>2, <3>1, <3>2, LivesLocalAddLan
  <2>2. QED BY <1>3, <2>1, LivesEndp
<1>4. ASSUME NEW l \in Lan, LanStep(l) PROVE SlotLanLives'
  BY <1>4, LivesLan
<1>5. ASSUME NEW s \in Slot, SlotStep(s) PROVE SlotLanLives'
  <2>1. UNCHANGED lan
    BY <1>5 DEF SlotStep, ProcConnectOk, ProcLinkLost, TimerLanConnect, ProcTimeout, TimerEvt
  <2>2. UNCHANGED sl \/ sl' = [sl EXCEPT ![s] = NotWaiting(sl[s])]
    BY <1>5 DEF SlotStep, ProcConnectOk, ProcLinkLost, TimerLanConnect, ProcTimeout, TimerEvt
  <2>3. \A u \in Slot, l \in Lan : Has(u, l)' => Has(u, l)
    BY <1>1, <2>2, HelpersTake DEF Has
  <2>4. QED BY <2>1, <2>3, LivesKept DEF Alive, IsZombie
<1>6. ASSUME NEW c \in Client, NEW e \in Endp, NEW l \in Lan, AddLan(c, e, l)
      PROVE  SlotLanLives'
  <2>1. LocalAddLan(c, e, l) \/ UNCHANGED <<sl, lan>>
    BY <1>6 DEF AddLan, AddLanEndp
  <2>2. QED BY <1>2, <2>1, LivesLocalAddLan
<1>7. ASSUME NEW e \in Endp, NEW l \in Lan, DelLan(e, l) PROVE SlotLanLives'
  <2>1. PICK s \in FirstOf({u \in SlotsOf(e) : sl[u].attached = l}) :
          sl' = [sl EXCEPT ![s] = DelLanSlot(sl[s])]
    BY <1>7 DEF DelLan
  <2>2. UNCHANGED lan /\ s \in Slot /\ sl[s] \in SlotRec
    BY <1>1, <1>7, <2>1 DEF DelLan, FirstOf, SlotsOf
  <2>3. \A u \in Slot, k \in Lan : Has(u, k)' => Has(u, k)
    BY <1>1, <2>1, <2>2, HelpersTake DEF Has
  <2>4. QED BY <2>2, <2>3, LivesKept DEF Alive, IsZombie
<1>8. ASSUME NEW x \in chain, DelayedCoherency(x) PROVE SlotLanLives'
  <2>1. x.endp \in Endp /\ x.lan \in Lan
    BY <1>1 DEF TypeOK, Delayed
  <2>2. LocalAddLan(x.client, x.endp, x.lan) \/ UNCHANGED <<sl, lan>>
    BY <1>8 DEF DelayedCoherency, AddLanEndp
  <2>3. QED BY <1>2, <2>1, <2>2, LivesLocalAddLan
<1>9. CASE UNCHANGED vars
  BY <1>2, <1>9 DEF vars
<1>10. QED BY <1>3, <1>4, <1>5, <1>6, <1>7, <1>8, <1>9 DEF Next

\* Whatever the number of slots: while no endpoint has two slots for one LAN,
\* the LAN of every slot has its record and is no zombie.
THEOREM LanOutlivesSlots == Spec /\ []OneSlotPerLan => []SlotLanLives
<1>1. Init => SlotLanLives
  BY EndpLanAssumption DEF Init, EmptySlot, SlotLanLives
<1>2. Inv /\ OneSlotPerLan /\ SlotLanLives /\ [Next]_vars => SlotLanLives'
  BY LivesNext
<1>3. QED BY <1>1, <1>2, Invariance, PTL DEF Spec

\* With one slot to an endpoint it is so in every behaviour.
THEOREM LanOutlivesSlot ==
  ASSUME \A t, u \in Tidx : t = u
  PROVE  Spec => []SlotLanLives
<1>1. OneSlotPerLan
  BY DEF OneSlotPerLan, Slot
<1>2. QED BY <1>1, LanOutlivesSlots, PTL


-----------------------------------------------------------------------------
(***************************************************************************)
(* The numbers of the LANs (LanNames): what the searches of the table      *)
(* find, the inductive invariant NamesInv, that a number stands for its    *)
(* LAN as long as a slot keeps it, and that the table implements LanUsers. *)
(***************************************************************************)

\* A nonempty set of naturals has a least element.
LEMMA LeastExists ==
  ASSUME NEW T \in SUBSET Nat, T # {}
  PROVE  \E x \in T : \A y \in T : x <= y
<1> DEFINE R == OpToRel(<, Nat)
<1>1. IsWellFoundedOn(R, Nat)
  BY NatLessThanWellFounded
<1>2. PICK x \in T : \A y \in T : ~ (<<y, x>> \in R)
  <2> HIDE DEF R
  <2> QED BY <1>1, WFMin
<1>3. \A y \in T : <<y, x>> \in R <=> y < x
  BY DEF OpToRel
<1> HIDE DEF R
<1>4. \A y \in T : ~ (y < x)
  BY <1>2, <1>3
<1> QED BY <1>4

\* Every probe is an index.
LEMMA ProbeType ==
  ASSUME NEW n \in Name, NEW k \in Nat
  PROVE  Probe(n, k) \in Index
<1> DEFINE M == MaxLan - 1
<1>1. M \in Nat /\ M > 0 /\ Index = 1..M /\ Hash[n] \in Index
  BY LanNamesAssumption DEF Index
<1>2. Probe(n, k) = (((Hash[n] - 1) + k) % M) + 1
  BY DEF Probe
<1> HIDE DEF M
<1>3. (Hash[n] - 1) + k \in Nat
  BY <1>1
<1>4. ((Hash[n] - 1) + k) % M \in 0..(M - 1)
  BY <1>1, <1>3
<1> QED BY <1>1, <1>2, <1>4

\* As many probes as there are indices reach each of them.
LEMMA ProbesCover ==
  ASSUME NEW n \in Name, NEW i \in Index
  PROVE  \E k \in 0..(MaxLan - 2) : Probe(n, k) = i
<1> DEFINE M == MaxLan - 1
           h == Hash[n]
           k == IF i >= h THEN i - h ELSE i - h + M
<1>1. M \in Nat /\ M > 0 /\ Index = 1..M /\ h \in 1..M /\ i \in 1..M
  BY LanNamesAssumption DEF Index
<1>2. Probe(n, k) = (((h - 1) + k) % M) + 1
  BY DEF Probe
<1>3. MaxLan - 2 = M - 1
  BY LanNamesAssumption
<1> HIDE DEF M, h
<1>4. k \in 0..(M - 1)
  BY <1>1
<1>5. ((h - 1) + k) % M = i - 1
  <2>1. CASE i >= h
    <3>1. (h - 1) + k = i - 1 /\ i - 1 \in 0..(M - 1)
      BY <1>1, <2>1
    <3> QED BY <1>1, <3>1
  <2>2. CASE ~(i >= h)
    <3>1. (h - 1) + k = (i - 1) + M /\ i - 1 \in 0..(M - 1)
      BY <1>1, <2>2
    <3> DEFINE a == (i - 1) + M
    <3>2. a \in Nat /\ a = M * (a \div M) + (a % M) /\ a % M \in 0..(M - 1) /\ a \div M \in Int
      BY <1>1, <3>1
    <3>3. a >= M /\ a < 2 * M
      BY <1>1, <3>1
    <3> HIDE DEF a
    <3>4. a \div M = 1
      BY <1>1, <3>2, <3>3
    <3>5. a % M = a - M
      BY <1>1, <3>2, <3>4
    <3> QED BY <1>1, <3>1, <3>5 DEF a
  <2> QED BY <2>1, <2>2
<1> QED BY <1>1, <1>2, <1>3, <1>4, <1>5

\* A search that goes through the whole table finds what is there.
LEMMA ProbeFinds ==
  ASSUME NEW n \in Name, NEW T \in SUBSET Index
  PROVE  /\ T = {} => FirstProbe(n, T) = 0
         /\ T # {} => FirstProbe(n, T) \in T
<1> DEFINE K == {k \in 0..(MaxLan - 2) : Probe(n, k) \in T}
           c == CHOOSE k \in K : \A j \in K : k <= j
<1>1. FirstProbe(n, T) = IF K = {} THEN 0 ELSE Probe(n, c)
  BY DEF FirstProbe
<1>2. CASE T = {}
  <2>1. K = {}
    BY <1>2
  <2> QED BY <1>1, <1>2, <2>1
<1>3. CASE T # {}
  <2>1. PICK i \in T : TRUE
    BY <1>3
  <2>2. PICK k \in 0..(MaxLan - 2) : Probe(n, k) = i
    BY <2>1, ProbesCover
  <2>3. K # {}
    BY <2>2
  <2>4. K \in SUBSET Nat
    BY LanNamesAssumption
  <2>5. \E x \in K : \A j \in K : x <= j
    BY <2>3, <2>4, LeastExists
  <2>6. c \in K
    <3> HIDE DEF K
    <3> QED BY <2>5
  <2>7. Probe(n, c) \in T
    BY <2>6
  <2> HIDE DEF K, c
  <2> QED BY <1>1, <1>3, <2>3, <2>7
<1> QED BY <1>2, <1>3

\* find_elem_with_name: the index that has the name, or 0 when none has.
LEMMA FindElemFinds ==
  ASSUME NEW n \in Name
  PROVE  /\ FindElem(n) = 0 => \A i \in Index : tab_elems[i].name # n
         /\ FindElem(n) # 0 => FindElem(n) \in Index /\ tab_elems[FindElem(n)].name = n
<1> DEFINE T == {i \in Index : tab_elems[i].name = n}
<1>1. T \in SUBSET Index /\ FindElem(n) = FirstProbe(n, T) /\ 0 \notin Index
  BY DEF FindElem, Index
<1>2. \A i : i \in T <=> i \in Index /\ tab_elems[i].name = n
  OBVIOUS
<1> HIDE DEF T
<1> QED BY <1>1, <1>2, ProbeFinds

\* find_free_idx_for_name: an index without a name, or 0 when there is none.
LEMMA FindFreeFinds ==
  ASSUME NEW n \in Name
  PROVE  /\ FindFree(n) = 0 => \A i \in Index : tab_elems[i].name # NoName
         /\ FindFree(n) # 0 => FindFree(n) \in Index /\ tab_elems[FindFree(n)].name = NoName
<1> DEFINE T == {i \in Index : tab_elems[i].name = NoName}
<1>1. T \in SUBSET Index /\ FindFree(n) = FirstProbe(n, T) /\ 0 \notin Index
  BY DEF FindFree, Index
<1>2. \A i : i \in T <=> i \in Index /\ tab_elems[i].name = NoName
  OBVIOUS
<1> HIDE DEF T
<1> QED BY <1>1, <1>2, ProbeFinds

\* The search finds the one index a name has.
LEMMA FindElemIs ==
  ASSUME NamesInv, NEW i \in Index, tab_elems[i].name # NoName
  PROVE  /\ tab_elems[i].name \in Name
         /\ FindElem(tab_elems[i].name) = i
<1>1. tab_elems[i].name \in Name
  BY DEF NamesInv, NamesTypeOK, Elem
<1> QED BY <1>1, FindElemFinds DEF NamesInv, NamesUnique

\* The sets that are counted are finite, and there is an index for every name.
LEMMA CountsFinite ==
  /\ \A i : IsFiniteSet(HoldersOf(i)) /\ Cardinality(HoldersOf(i)) \in Nat
  /\ IsFiniteSet(Named)
  /\ Cardinality(Named) \in 0..(MaxLan - 1)
<1>1. ASSUME NEW i
      PROVE  IsFiniteSet(HoldersOf(i)) /\ Cardinality(HoldersOf(i)) \in Nat
  <2>1. HoldersOf(i) \in SUBSET User
    BY DEF HoldersOf
  <2> QED BY <2>1, FS_Subset, FS_CardinalityType, LanNamesAssumption
<1>2. Named \in SUBSET Index
  BY DEF Named
<1>3. IsFiniteSet(Index) /\ Cardinality(Index) = MaxLan - 1
  BY FS_Interval, LanNamesAssumption DEF Index
<1>4. IsFiniteSet(Named) /\ Cardinality(Named) <= MaxLan - 1 /\ Cardinality(Named) \in Nat
  BY <1>2, <1>3, FS_Subset, FS_CardinalityType
<1> QED BY <1>1, <1>4, LanNamesAssumption

\* A slot that had no number is given one: its LAN has one holder more.
LEMMA SlotTaken ==
  ASSUME NamesTypeOK, NEW u \in User, NEW m \in Index, NEW n \in Name,
         lan_attached[u].lan_num = 0,
         lan_attached' = [lan_attached EXCEPT ![u] = [lan_num |-> m, lan |-> n]]
  PROVE  /\ lan_attached' \in [User -> KeptNumber]
         /\ lan_attached'[u].lan_num = m /\ lan_attached'[u].lan = n
         /\ \A v \in User : v # u => lan_attached'[v] = lan_attached[v]
         /\ \A i \in Index : Cardinality(HoldersOf(i)') =
              IF i = m THEN Cardinality(HoldersOf(i)) + 1 ELSE Cardinality(HoldersOf(i))
<1> DEFINE a == [lan_num |-> m, lan |-> n]
<1>0. a \in KeptNumber /\ a.lan_num = m /\ a.lan = n
  BY DEF KeptNumber
<1> HIDE DEF a
<1>1. /\ lan_attached' \in [User -> KeptNumber]
      /\ lan_attached'[u] = a
      /\ \A v \in User : v # u => lan_attached'[v] = lan_attached[v]
  BY <1>0 DEF NamesTypeOK, a
<1>2. 0 \notin Index
  BY DEF Index
<1>3. ASSUME NEW i \in Index
      PROVE  Cardinality(HoldersOf(i)') =
               IF i = m THEN Cardinality(HoldersOf(i)) + 1 ELSE Cardinality(HoldersOf(i))
  <2>1. u \notin HoldersOf(i)
    BY <1>2 DEF HoldersOf
  <2>2. HoldersOf(i)' = IF i = m THEN HoldersOf(i) \cup {u} ELSE HoldersOf(i)
    BY <1>0, <1>1, <1>2 DEF HoldersOf
  <2> QED BY <2>1, <2>2, CountsFinite, FS_AddElement
<1> QED BY <1>0, <1>1, <1>3

\* A slot that had a number gives it back: its LAN has one holder less.
LEMMA SlotLeft ==
  ASSUME NamesTypeOK, NEW u \in User, NEW m \in Index, lan_attached[u].lan_num = m,
         lan_attached' = [lan_attached EXCEPT ![u] = NoNumber]
  PROVE  /\ lan_attached' \in [User -> KeptNumber]
         /\ lan_attached'[u].lan_num = 0 /\ lan_attached'[u].lan = NoName
         /\ \A v \in User : v # u => lan_attached'[v] = lan_attached[v]
         /\ \A i \in Index : Cardinality(HoldersOf(i)') =
              IF i = m THEN Cardinality(HoldersOf(i)) - 1 ELSE Cardinality(HoldersOf(i))
         /\ Cardinality(HoldersOf(m)) > 0
<1>0. NoNumber \in KeptNumber /\ NoNumber.lan_num = 0 /\ NoNumber.lan = NoName
  BY DEF KeptNumber, NoNumber
<1>1. /\ lan_attached' \in [User -> KeptNumber]
      /\ lan_attached'[u] = NoNumber
      /\ \A v \in User : v # u => lan_attached'[v] = lan_attached[v]
  BY <1>0 DEF NamesTypeOK
<1>2. 0 \notin Index
  BY DEF Index
<1>3. ASSUME NEW i \in Index
      PROVE  Cardinality(HoldersOf(i)') =
               IF i = m THEN Cardinality(HoldersOf(i)) - 1 ELSE Cardinality(HoldersOf(i))
  <2>1. (u \in HoldersOf(i)) = (i = m)
    BY DEF HoldersOf
  <2>2. HoldersOf(i)' = IF i = m THEN HoldersOf(i) \ {u} ELSE HoldersOf(i)
    BY <1>0, <1>1, <1>2 DEF HoldersOf
  <2> QED BY <2>1, <2>2, CountsFinite, FS_RemoveElement
<1>4. HoldersOf(m) # {}
  BY DEF HoldersOf
<1>5. Cardinality(HoldersOf(m)) > 0
  BY <1>4, CountsFinite, FS_EmptySet
<1> QED BY <1>0, <1>1, <1>3, <1>5

\* Another slot takes a LAN the table has.
LEMMA KnownNameStep ==
  ASSUME NamesInv, NEW u \in User, NEW n \in Name, NEW m \in Index,
         tab_elems[m].name = n, lan_attached[u].lan_num = 0,
         tab_elems' = [tab_elems EXCEPT ![m].nb_users = @ + 1],
         lan_attached' = [lan_attached EXCEPT ![u] = [lan_num |-> m, lan |-> n]],
         UNCHANGED <<glob_total_elems, layout, kout>>
  PROVE  NamesInv'
<1> USE DEF NamesInv
<1>1. /\ tab_elems' \in [Index -> Elem]
      /\ \A i \in Index : /\ tab_elems'[i].name = tab_elems[i].name
                          /\ i # m => tab_elems'[i].nb_users = tab_elems[i].nb_users
      /\ tab_elems'[m].nb_users = tab_elems[m].nb_users + 1
  BY DEF NamesTypeOK, Elem
<1>2. tab_elems[m].nb_users \in Nat
  BY DEF NamesTypeOK, Elem
<1>3. NamesTypeOK'
  BY <1>1, SlotTaken DEF NamesTypeOK
<1>4. LayoutAgrees' /\ NamesUnique'
  BY <1>1 DEF LayoutAgrees, NamesUnique
<1>5. NamedIffUsed' /\ KoutWhenFull'
  BY <1>1, <1>2, LanNamesAssumption DEF NamedIffUsed, KoutWhenFull
<1>6. UsersExact'
  <2>1. \A i \in Index : tab_elems[i].nb_users = Cardinality(HoldersOf(i))
    BY DEF UsersExact
  <2>2. \A i \in Index : Cardinality(HoldersOf(i)') =
          IF i = m THEN Cardinality(HoldersOf(i)) + 1 ELSE Cardinality(HoldersOf(i))
    BY SlotTaken
  <2>3. \A i \in Index : tab_elems'[i].nb_users = Cardinality(HoldersOf(i)')
    BY <1>1, <2>1, <2>2
  <2> QED BY <2>3 DEF UsersExact
<1>7. TotalExact'
  <2>1. Named' = Named
    BY <1>1 DEF Named
  <2> QED BY <2>1 DEF TotalExact
<1>8. SlotNamed'
  BY <1>1, SlotTaken, LanNamesAssumption DEF SlotNamed, NamesTypeOK, KeptNumber, Index
<1> QED BY <1>3, <1>4, <1>5, <1>6, <1>7, <1>8

\* A name the table has not is given the free index idx.
LEMMA NewNameStep ==
  ASSUME NamesInv, NEW u \in User, NEW n \in Name, NEW m \in Index,
         tab_elems[m].name = NoName, \A i \in Index : tab_elems[i].name # n,
         lan_attached[u].lan_num = 0,
         tab_elems' = [tab_elems EXCEPT ![m] = [name |-> n, nb_users |-> 1]],
         lan_attached' = [lan_attached EXCEPT ![u] = [lan_num |-> m, lan |-> n]],
         glob_total_elems' = glob_total_elems + 1,
         kout' = (glob_total_elems + 1 >= MaxLan),
         layout' = layout \cup {n}
  PROVE  NamesInv' /\ ~kout'
<1> USE DEF NamesInv
<1> DEFINE e == [name |-> n, nb_users |-> 1]
<1>0. e \in Elem /\ e.name = n /\ e.nb_users = 1 /\ n # NoName
  BY LanNamesAssumption DEF Elem
<1> HIDE DEF e
<1>1. /\ tab_elems' \in [Index -> Elem]
      /\ tab_elems'[m] = e
      /\ \A i \in Index : i # m => tab_elems'[i] = tab_elems[i]
  BY <1>0 DEF NamesTypeOK, e
<1>2. TotalExact' /\ glob_total_elems' \in 0..MaxLan /\ ~kout'
  <2>1. m \notin Named /\ Named' = Named \cup {m}
    BY <1>0, <1>1 DEF Named
  <2>2. Cardinality(Named') = Cardinality(Named) + 1 /\ Cardinality(Named) \in Nat
    <3>1. IsFiniteSet(Named) /\ Cardinality(Named) \in Nat
      BY CountsFinite, LanNamesAssumption
    <3>2. Cardinality(Named \cup {m}) = Cardinality(Named) + 1
      BY <2>1, <3>1, FS_AddElement
    <3> QED BY <2>1, <3>1, <3>2, Zenon
  <2>3. Named' \in SUBSET Index /\ IsFiniteSet(Index) /\ Cardinality(Index) = MaxLan - 1
    BY FS_Interval, LanNamesAssumption DEF Index, Named
  <2>4. Cardinality(Named') <= MaxLan - 1
    BY <2>3, FS_Subset
  <2>5. glob_total_elems' = Cardinality(Named')
    BY <2>2 DEF TotalExact
  <2>6. Cardinality(Named') \in Nat
    BY <2>2
  <2>7. glob_total_elems' \in 0..MaxLan /\ ~(glob_total_elems + 1 >= MaxLan)
    BY <2>4, <2>5, <2>6, LanNamesAssumption
  <2>8. ~kout'
    BY <2>7, Zenon
  <2> QED BY <2>5, <2>7, <2>8 DEF TotalExact
<1>3. NamesTypeOK'
  <2>1. kout' \in BOOLEAN
    <3>1. (glob_total_elems + 1 >= MaxLan) \in BOOLEAN
      BY SMT
    <3> QED BY <3>1, Zenon
  <2>2. lan_attached' \in [User -> KeptNumber]
    BY SlotTaken
  <2> QED BY <1>1, <1>2, <2>1, <2>2, Zenon DEF NamesTypeOK
<1>4. LayoutAgrees'
  BY <1>0, <1>1 DEF LayoutAgrees
<1>5. NamesUnique'
  BY <1>0, <1>1 DEF NamesUnique
<1>6. NamedIffUsed' /\ KoutWhenFull'
  BY <1>0, <1>1, <1>2 DEF NamedIffUsed, KoutWhenFull
<1>7. UsersExact'
  <2>1. tab_elems[m].nb_users = 0
    BY DEF NamedIffUsed
  <2>2. \A i \in Index : tab_elems[i].nb_users = Cardinality(HoldersOf(i))
    BY DEF UsersExact
  <2>3. \A i \in Index : Cardinality(HoldersOf(i)') =
          IF i = m THEN Cardinality(HoldersOf(i)) + 1 ELSE Cardinality(HoldersOf(i))
    BY SlotTaken
  <2>4. \A i \in Index : tab_elems'[i].nb_users = Cardinality(HoldersOf(i)')
    BY <1>0, <1>1, <2>1, <2>2, <2>3
  <2> QED BY <2>4 DEF UsersExact
<1>8. SlotNamed'
  <2>1. \A v \in User : lan_attached[v].lan_num # 0 => lan_attached[v].lan_num # m
    BY DEF SlotNamed
  <2> QED BY <1>0, <1>1, <2>1, SlotTaken DEF SlotNamed, NamesTypeOK, KeptNumber, Index
<1> QED BY <1>2, <1>3, <1>4, <1>5, <1>6, <1>7, <1>8

\* The last user of a LAN leaves: its index is free again.
LEMMA LastUserStep ==
  ASSUME NamesInv, NEW u \in User, NEW m \in Index, lan_attached[u].lan_num = m,
         tab_elems[m].nb_users = 1,
         tab_elems' = [tab_elems EXCEPT ![m] = NoElem],
         glob_total_elems' = glob_total_elems - 1,
         layout' = layout \ {tab_elems[m].name},
         lan_attached' = [lan_attached EXCEPT ![u] = NoNumber],
         kout' = FALSE
  PROVE  NamesInv'
<1> USE DEF NamesInv
<1>0. NoElem \in Elem /\ NoElem.name = NoName /\ NoElem.nb_users = 0
  BY DEF NoElem, Elem
<1>1. /\ tab_elems' \in [Index -> Elem]
      /\ tab_elems'[m] = NoElem
      /\ \A i \in Index : i # m => tab_elems'[i] = tab_elems[i]
  BY <1>0 DEF NamesTypeOK
<1>2. tab_elems[m].name # NoName
  BY DEF NamedIffUsed
<1>3. TotalExact' /\ glob_total_elems' \in 0..MaxLan
  <2>1. m \in Named /\ Named' = Named \ {m}
    BY <1>0, <1>1, <1>2 DEF Named
  <2>2. IsFiniteSet(Named) /\ Cardinality(Named) \in 0..(MaxLan - 1)
    BY CountsFinite
  <2>3. Cardinality(Named \ {m}) = Cardinality(Named) - 1
    BY <2>1, <2>2, FS_RemoveElement
  <2>4. Cardinality(Named \ {m}) \in Nat
    BY <2>2, FS_RemoveElement, FS_CardinalityType
  <2>5. glob_total_elems' = Cardinality(Named')
    BY <2>1, <2>3 DEF TotalExact
  <2>6. glob_total_elems' \in 0..MaxLan
    BY <2>1, <2>2, <2>3, <2>4, <2>5, LanNamesAssumption
  <2> QED BY <2>5, <2>6 DEF TotalExact
<1>4. NamesTypeOK'
  BY <1>1, <1>3, SlotLeft DEF NamesTypeOK
<1>5. LayoutAgrees'
  <2>1. \A i \in Index : i # m => tab_elems[i].name # tab_elems[m].name
    BY <1>2 DEF NamesUnique
  <2> QED BY <1>0, <1>1, <2>1 DEF LayoutAgrees
<1>6. NamesUnique' /\ NamedIffUsed' /\ KoutWhenFull'
  BY <1>0, <1>1 DEF NamesUnique, NamedIffUsed, KoutWhenFull
<1>7. UsersExact'
  <2>1. \A i \in Index : tab_elems[i].nb_users = Cardinality(HoldersOf(i))
    BY DEF UsersExact
  <2>2. \A i \in Index : Cardinality(HoldersOf(i)') =
          IF i = m THEN Cardinality(HoldersOf(i)) - 1 ELSE Cardinality(HoldersOf(i))
    BY SlotLeft
  <2>3. \A i \in Index : tab_elems'[i].nb_users = Cardinality(HoldersOf(i)')
    BY <1>0, <1>1, <2>1, <2>2
  <2> QED BY <2>3 DEF UsersExact
<1>8. SlotNamed'
  <2>1. HoldersOf(m) = {u}
    <3>1. Cardinality(HoldersOf(m)) = 1 /\ u \in HoldersOf(m)
      BY DEF UsersExact, HoldersOf
    <3> QED BY <3>1, CountsFinite, FS_Singleton
  <2>2. \A v \in User : v # u => lan_attached[v].lan_num # m
    BY <2>1 DEF HoldersOf
  <2> QED BY <1>1, <2>2, SlotLeft DEF SlotNamed, NamesTypeOK, KeptNumber, Index
<1> QED BY <1>3, <1>4, <1>5, <1>6, <1>7, <1>8

\* One of several users of a LAN leaves: the LAN keeps its index.
LEMMA OneLeavesStep ==
  ASSUME NamesInv, NEW u \in User, NEW m \in Index, lan_attached[u].lan_num = m,
         tab_elems[m].nb_users # 1,
         tab_elems' = [tab_elems EXCEPT ![m] =
                         [name |-> tab_elems[m].name, nb_users |-> tab_elems[m].nb_users - 1]],
         lan_attached' = [lan_attached EXCEPT ![u] = NoNumber],
         UNCHANGED <<glob_total_elems, layout>>,
         kout' = FALSE
  PROVE  NamesInv'
<1> USE DEF NamesInv
<1> DEFINE e == [name |-> tab_elems[m].name, nb_users |-> tab_elems[m].nb_users - 1]
<1>0. tab_elems[m].nb_users > 1 /\ tab_elems[m].nb_users \in Nat
  <2>1. Cardinality(HoldersOf(m)) > 0 /\ tab_elems[m].nb_users = Cardinality(HoldersOf(m))
    BY SlotLeft DEF UsersExact
  <2>2. tab_elems[m].nb_users \in Nat
    BY DEF NamesTypeOK, Elem
  <2> QED BY <2>1, <2>2
<1>1. e \in Elem /\ e.name = tab_elems[m].name /\ e.nb_users = tab_elems[m].nb_users - 1
  BY <1>0 DEF NamesTypeOK, Elem
<1> HIDE DEF e
<1>2. /\ tab_elems' \in [Index -> Elem]
      /\ tab_elems'[m] = e
      /\ \A i \in Index : i # m => tab_elems'[i] = tab_elems[i]
  BY <1>1 DEF NamesTypeOK, e
<1>3. \A i \in Index : tab_elems'[i].name = tab_elems[i].name
  BY <1>1, <1>2
<1>4. NamesTypeOK'
  BY <1>2, SlotLeft DEF NamesTypeOK
<1>5. LayoutAgrees' /\ NamesUnique'
  BY <1>3 DEF LayoutAgrees, NamesUnique
<1>6. NamedIffUsed' /\ KoutWhenFull'
  BY <1>0, <1>1, <1>2 DEF NamedIffUsed, KoutWhenFull
<1>7. UsersExact'
  <2>1. \A i \in Index : tab_elems[i].nb_users = Cardinality(HoldersOf(i))
    BY DEF UsersExact
  <2>2. \A i \in Index : Cardinality(HoldersOf(i)') =
          IF i = m THEN Cardinality(HoldersOf(i)) - 1 ELSE Cardinality(HoldersOf(i))
    BY SlotLeft
  <2>3. \A i \in Index : tab_elems'[i].nb_users = Cardinality(HoldersOf(i)')
    BY <1>1, <1>2, <2>1, <2>2
  <2> QED BY <2>3 DEF UsersExact
<1>8. TotalExact'
  <2>1. Named' = Named
    BY <1>3 DEF Named
  <2> QED BY <2>1 DEF TotalExact
<1>9. SlotNamed'
  BY <1>3, SlotLeft DEF SlotNamed, NamesTypeOK, KeptNumber, Index
<1> QED BY <1>4, <1>5, <1>6, <1>7, <1>8, <1>9

\* A slot that joins a LAN: with the number of the LAN, or a free one, or the
\* server leaves for want of one.
LEMMA AddStep ==
  ASSUME NamesInv, NEW u \in User, NEW n \in Name, AddAttachedLan(u, n)
  PROVE  /\ NamesInv'
         /\ lan_attached[u].lan_num = 0
         /\ \/ lan_attached' = lan_attached
            \/ \E m \in Index :
                 lan_attached' = [lan_attached EXCEPT ![u] = [lan_num |-> m, lan |-> n]]
<1> DEFINE idx == FindElem(n)
           free == FindFree(n)
<1>1. lan_attached[u].lan_num = 0
  BY DEF AddAttachedLan
<1>2. CASE idx # 0
  <2>1. idx \in Index /\ tab_elems[idx].name = n
    BY <1>2, FindElemFinds
  <2>2. /\ tab_elems' = [tab_elems EXCEPT ![idx].nb_users = @ + 1]
        /\ lan_attached' = [lan_attached EXCEPT ![u] = [lan_num |-> idx, lan |-> n]]
        /\ UNCHANGED <<glob_total_elems, layout, kout>>
    BY <1>2, Zenon DEF AddAttachedLan
  <2> HIDE DEF idx
  <2>3. NamesInv'
    BY <1>1, <2>1, <2>2, KnownNameStep
  <2> QED BY <1>1, <2>1, <2>2, <2>3, Zenon
<1>3. CASE idx = 0 /\ free = 0
  <2>1. \A i \in Index : tab_elems[i].name # NoName
    BY <1>3, FindFreeFinds
  <2>2. kout' = TRUE /\ UNCHANGED <<tab_elems, glob_total_elems, lan_attached, layout>>
    BY <1>3, Zenon DEF AddAttachedLan, AddNewName
  <2>3. \A i \in Index : tab_elems[i].nb_users > 0
    BY <2>1 DEF NamesInv, NamedIffUsed, NamesTypeOK, Elem
  <2>4. Named' = Named /\ \A i : HoldersOf(i)' = HoldersOf(i)
    BY <2>2 DEF Named, HoldersOf
  <2>5. NamesTypeOK' /\ LayoutAgrees' /\ NamesUnique' /\ NamedIffUsed'
    BY <2>2 DEF NamesInv, NamesTypeOK, LayoutAgrees, NamesUnique, NamedIffUsed
  <2>6. UsersExact' /\ TotalExact'
    BY <2>2, <2>4 DEF NamesInv, UsersExact, TotalExact
  <2>7. SlotNamed' /\ KoutWhenFull'
    BY <2>2, <2>3 DEF NamesInv, SlotNamed, KoutWhenFull
  <2> QED BY <1>1, <2>2, <2>5, <2>6, <2>7 DEF NamesInv
<1>4. CASE idx = 0 /\ free # 0
  <2>1. /\ free \in Index /\ tab_elems[free].name = NoName
        /\ \A i \in Index : tab_elems[i].name # n
    BY <1>4, FindElemFinds, FindFreeFinds
  <2>2. /\ tab_elems' = [tab_elems EXCEPT ![free] = [name |-> n, nb_users |-> 1]]
        /\ glob_total_elems' = glob_total_elems + 1
        /\ kout' = (glob_total_elems + 1 >= MaxLan)
        /\ layout' = layout \cup {n}
        /\ lan_attached' = [lan_attached EXCEPT ![u] = [lan_num |-> free, lan |-> n]]
    BY <1>4, Zenon DEF AddAttachedLan, AddNewName
  <2> HIDE DEF free
  <2>3. NamesInv'
    BY <1>1, <2>1, <2>2, NewNameStep, Zenon
  <2> QED BY <1>1, <2>1, <2>2, <2>3, Zenon
<1> QED BY <1>2, <1>3, <1>4

\* A slot that leaves its LAN gives its number back: the table has it still.
LEMMA DelStep ==
  ASSUME NamesInv, NEW u \in User, DelAttachedLan(u)
  PROVE  /\ NamesInv'
         /\ lan_attached[u].lan_num \in Index
         /\ lan_attached' = [lan_attached EXCEPT ![u] = NoNumber]
<1> DEFINE m == lan_attached[u].lan_num
           n == lan_attached[u].lan
<1>1. m \in Index /\ n # NoName /\ tab_elems[m].name = n
  BY DEF DelAttachedLan, NamesInv, SlotNamed, NamesTypeOK, KeptNumber
<1>2. n \in Name /\ FindElem(n) = m /\ m # 0
  BY <1>1, FindElemIs DEF Index
<1>3. LanDelName(n, m) /\ lan_attached' = [lan_attached EXCEPT ![u] = NoNumber]
  BY <1>2, Zenon DEF DelAttachedLan
<1>4. tab_elems[m].nb_users \in Nat /\ tab_elems[m].nb_users > 0
  BY <1>1 DEF NamesInv, NamedIffUsed, NamesTypeOK, Elem
<1>5. CASE tab_elems[m].nb_users = 1
  <2>1. m \in Named /\ glob_total_elems = Cardinality(Named)
    BY <1>1 DEF Named, NamesInv, TotalExact
  <2>2. glob_total_elems - 1 \in Nat
    <3>1. Named # {} /\ IsFiniteSet(Named)
      BY <2>1, CountsFinite
    <3>2. Cardinality(Named) # 0
      BY <3>1, FS_EmptySet
    <3> QED BY <2>1, <3>2, CountsFinite, LanNamesAssumption
  <2>3. /\ tab_elems' = [tab_elems EXCEPT ![m] = NoElem]
        /\ glob_total_elems' = glob_total_elems - 1
        /\ layout' = layout \ {n}
        /\ kout' = (tab_elems[m].nb_users <= 0 \/ glob_total_elems - 1 < 0)
    BY <1>3, <1>5, Zenon DEF LanDelName, LastUser, TotalLeft, LayoutLeft
  <2>4. ~(tab_elems[m].nb_users <= 0 \/ glob_total_elems - 1 < 0)
    BY <1>4, <2>2
  <2>5. kout' = FALSE
    BY <2>3, <2>4, Zenon
  <2> HIDE DEF m
  <2>6. NamesInv'
    BY <1>1, <1>3, <1>5, <2>3, <2>5, LastUserStep DEF m
  <2> QED BY <1>1, <1>3, <2>6 DEF m
<1>6. CASE tab_elems[m].nb_users # 1
  <2>1. /\ tab_elems' = [tab_elems EXCEPT ![m] =
                           [name |-> n, nb_users |-> tab_elems[m].nb_users - 1]]
        /\ UNCHANGED <<glob_total_elems, layout>>
        /\ kout' = (tab_elems[m].nb_users <= 0 \/ glob_total_elems < 0)
    BY <1>3, <1>6, Zenon DEF LanDelName, LastUser, TotalLeft, LayoutLeft
  <2>2. ~(tab_elems[m].nb_users <= 0 \/ glob_total_elems < 0)
    BY <1>4 DEF NamesInv, NamesTypeOK
  <2>3. kout' = FALSE
    BY <2>1, <2>2, Zenon
  <2>4. NamesInv'
    BY <1>1, <1>3, <1>6, <2>1, <2>3, OneLeavesStep
  <2> QED BY <1>1, <1>3, <2>4
<1> QED BY <1>5, <1>6

LEMMA NamesInitInv == NamesInit => NamesInv
<1> SUFFICES ASSUME NamesInit
             PROVE  NamesInv
  OBVIOUS
<1>1. NoElem \in Elem /\ NoElem.name = NoName /\ NoElem.nb_users = 0
  BY DEF NoElem, Elem
<1>2. NoNumber \in KeptNumber /\ NoNumber.lan_num = 0 /\ NoNumber.lan = NoName
  BY DEF NoNumber, KeptNumber
<1>3. /\ tab_elems \in [Index -> Elem] /\ \A i \in Index : tab_elems[i] = NoElem
      /\ lan_attached \in [User -> KeptNumber] /\ \A u \in User : lan_attached[u] = NoNumber
      /\ glob_total_elems = 0 /\ layout = {} /\ kout = FALSE
  BY <1>1, <1>2 DEF NamesInit
<1>4. NamesTypeOK
  <2>1. kout \in BOOLEAN
    BY <1>3, Zenon
  <2>2. glob_total_elems \in 0..MaxLan /\ layout \subseteq Name
    BY <1>3, LanNamesAssumption
  <2> QED BY <1>3, <2>1, <2>2, Zenon DEF NamesTypeOK
<1>5. LayoutAgrees /\ NamesUnique /\ NamedIffUsed /\ SlotNamed /\ KoutWhenFull
  BY <1>1, <1>2, <1>3 DEF LayoutAgrees, NamesUnique, NamedIffUsed, SlotNamed, KoutWhenFull
<1>6. UsersExact
  <2>1. \A i \in Index : HoldersOf(i) = {}
    BY <1>2, <1>3 DEF HoldersOf, Index
  <2> QED BY <1>1, <1>3, <2>1, FS_EmptySet DEF UsersExact
<1>7. TotalExact
  <2>1. Named = {}
    BY <1>1, <1>3 DEF Named
  <2> QED BY <1>3, <2>1, FS_EmptySet DEF TotalExact
<1> QED BY <1>4, <1>5, <1>6, <1>7 DEF NamesInv

LEMMA StutterInv ==
  ASSUME NamesInv, UNCHANGED names_vars
  PROVE  NamesInv'
<1> USE DEF names_vars
<1>1. Named' = Named /\ \A i : HoldersOf(i)' = HoldersOf(i)
  BY DEF Named, HoldersOf
<1>2. NamesTypeOK' /\ LayoutAgrees' /\ NamesUnique' /\ NamedIffUsed'
  BY DEF NamesInv, NamesTypeOK, LayoutAgrees, NamesUnique, NamedIffUsed
<1>3. UsersExact' /\ TotalExact'
  BY <1>1 DEF NamesInv, UsersExact, TotalExact
<1>4. SlotNamed' /\ KoutWhenFull'
  BY DEF NamesInv, SlotNamed, KoutWhenFull
<1> QED BY <1>2, <1>3, <1>4 DEF NamesInv

\* The inductive invariant of the table and of the slots that keep its numbers.
THEOREM TableInvariant == NamesSpec => []NamesInv
<1>1. NamesInv /\ [NamesNext]_names_vars => NamesInv'
  BY AddStep, DelStep, StutterInv DEF NamesNext
<1> QED BY <1>1, NamesInitInv, PTL DEF NamesSpec

\* For every table, hash and number of slots: a number kept in a slot stands for
\* the LAN it was given for, lan_get_with_num and lan_get_with_name agree on it,
\* and of the KOUTs of lan_to_name.c only the one for a full table is reached.
THEOREM NumbersStand == NamesSpec => []NumberStands
<1>1. NamesInv => NumberStands
  <2> SUFFICES ASSUME NamesInv, NEW u \in User, lan_attached[u].lan_num # 0
               PROVE  /\ tab_elems[lan_attached[u].lan_num].name = lan_attached[u].lan
                      /\ FindElem(lan_attached[u].lan) = lan_attached[u].lan_num
    BY DEF NamesInv, NumberStands
  <2>1. /\ lan_attached[u].lan_num \in Index
        /\ lan_attached[u].lan # NoName
        /\ tab_elems[lan_attached[u].lan_num].name = lan_attached[u].lan
    BY DEF NamesInv, SlotNamed, NamesTypeOK, KeptNumber
  <2> QED BY <2>1, FindElemIs
<1> QED BY <1>1, TableInvariant, PTL

-----------------------------------------------------------------------------
(* The refinement.                                                           *)

\* The users of a LAN are the slots that keep its name.
UsersByName == \A n \in Name : NameUsers(n) = {u \in User : lan_attached[u].lan = n}

LEMMA UsersAreNamed == NamesInv => UsersByName
<1> SUFFICES ASSUME NamesInv, NEW n \in Name, NEW u \in User
             PROVE  /\ lan_attached[u].lan_num # 0 /\ lan_attached[u].lan_num = FindElem(n)
                         => lan_attached[u].lan = n
                    /\ lan_attached[u].lan = n
                         => lan_attached[u].lan_num # 0 /\ lan_attached[u].lan_num = FindElem(n)
  BY DEF UsersByName, NameUsers
<1>1. lan_attached[u].lan_num # 0 =>
        /\ lan_attached[u].lan_num \in Index
        /\ lan_attached[u].lan # NoName
        /\ tab_elems[lan_attached[u].lan_num].name = lan_attached[u].lan
  BY DEF NamesInv, SlotNamed, NamesTypeOK, KeptNumber
<1>2. lan_attached[u].lan_num = 0 => lan_attached[u].lan = NoName
  BY DEF NamesInv, SlotNamed
<1> QED BY <1>1, <1>2, FindElemFinds, FindElemIs, LanNamesAssumption

LEMMA UsersAreNamedNext == NamesInv' => UsersByName'
BY UsersAreNamed, PTL

\* A slot that takes a number is a user more of its LAN and of no other.
LEMMA UseStep ==
  ASSUME NamesInv, NamesInv', NEW u \in User, NEW n \in Name, NEW m \in Index,
         lan_attached[u].lan_num = 0,
         lan_attached' = [lan_attached EXCEPT ![u] = [lan_num |-> m, lan |-> n]]
  PROVE  Promise!Use(u, n)
<1>1. /\ lan_attached[u].lan = NoName
      /\ lan_attached'[u].lan = n
      /\ \A v \in User : v # u => lan_attached'[v] = lan_attached[v]
  BY SlotTaken DEF NamesInv, SlotNamed
<1>2. \A k \in Name : u \notin NameUsers(k)
  BY <1>1, UsersAreNamed, LanNamesAssumption DEF UsersByName
<1>3. ASSUME NEW k \in Name
      PROVE  NameUsers(k)' = IF k = n THEN NameUsers(k) \cup {u} ELSE NameUsers(k)
  <2>1. NameUsers(k) = {v \in User : lan_attached[v].lan = k}
    BY UsersAreNamed DEF UsersByName
  <2>2. NameUsers(k)' = {v \in User : lan_attached'[v].lan = k}
    BY UsersAreNamedNext DEF UsersByName
  <2>3. k # NoName
    BY LanNamesAssumption
  <2> QED BY <1>1, <2>1, <2>2, <2>3
<1>4. [k \in Name |-> NameUsers(k)]' = [[k \in Name |-> NameUsers(k)] EXCEPT ![n] = @ \cup {u}]
  BY <1>3
<1> QED BY <1>2, <1>4 DEF Promise!Use

\* A slot that gives its number back is a user less.
LEMMA LeaveStep ==
  ASSUME NamesInv, NamesInv', NEW u \in User, lan_attached[u].lan_num \in Index,
         lan_attached' = [lan_attached EXCEPT ![u] = NoNumber]
  PROVE  \E n \in Name : Promise!Leave(u, n)
<1> DEFINE n == lan_attached[u].lan
<1>1. n \in Name
  BY DEF NamesInv, SlotNamed, NamesTypeOK, KeptNumber, Index
<1>2. /\ lan_attached'[u].lan = NoName
      /\ \A v \in User : v # u => lan_attached'[v] = lan_attached[v]
  BY SlotLeft DEF NamesInv
<1>3. u \in NameUsers(n)
  BY <1>1, UsersAreNamed DEF UsersByName
<1>4. ASSUME NEW k \in Name
      PROVE  NameUsers(k)' = IF k = n THEN NameUsers(k) \ {u} ELSE NameUsers(k)
  <2>1. NameUsers(k) = {v \in User : lan_attached[v].lan = k}
    BY UsersAreNamed DEF UsersByName
  <2>2. NameUsers(k)' = {v \in User : lan_attached'[v].lan = k}
    BY UsersAreNamedNext DEF UsersByName
  <2>3. k # NoName
    BY LanNamesAssumption
  <2> QED BY <1>1, <1>2, <2>1, <2>2, <2>3
<1>5. [k \in Name |-> NameUsers(k)]' = [[k \in Name |-> NameUsers(k)] EXCEPT ![n] = @ \ {u}]
  BY <1>1, <1>4
<1> QED BY <1>1, <1>3, <1>5 DEF Promise!Leave

\* lan_to_name.c implements LanUsers: a LAN is in the table exactly while a slot
\* of an endpoint uses it, whatever the hash, the collisions and the holes.
THEOREM TableImplementsUsers == NamesSpec => ImplementsUsers
<1>1. NamesInit => Promise!Init
  <2> SUFFICES ASSUME NamesInit, NEW n \in Name
               PROVE  NameUsers(n) = {}
    BY DEF Promise!Init
  <2>1. \A u \in User : lan_attached[u].lan_num = 0
    BY DEF NamesInit, NoNumber
  <2> QED BY <2>1 DEF NameUsers
<1>2. NamesInv /\ NamesInv' /\ [NamesNext]_names_vars => [Promise!Next]_[n \in Name |-> NameUsers(n)]
  <2> SUFFICES ASSUME NamesInv, NamesInv', [NamesNext]_names_vars
               PROVE  Promise!Next \/ [n \in Name |-> NameUsers(n)]' = [n \in Name |-> NameUsers(n)]
    BY Zenon
  <2>1. lan_attached' = lan_attached => [n \in Name |-> NameUsers(n)]' = [n \in Name |-> NameUsers(n)]
    <3>1. lan_attached' = lan_attached => \A n \in Name : NameUsers(n)' = NameUsers(n)
      BY UsersAreNamed, UsersAreNamedNext DEF UsersByName
    <3> QED BY <3>1
  <2>2. CASE UNCHANGED names_vars
    BY <2>1, <2>2 DEF names_vars
  <2>3. ASSUME NEW u \in User, NEW n \in Name, AddAttachedLan(u, n)
        PROVE  Promise!Next \/ lan_attached' = lan_attached
    <3>1. /\ lan_attached[u].lan_num = 0
          /\ \/ lan_attached' = lan_attached
             \/ \E m \in Index :
                  lan_attached' = [lan_attached EXCEPT ![u] = [lan_num |-> m, lan |-> n]]
      BY <2>3, AddStep
    <3>2. Promise!Use(u, n) \/ lan_attached' = lan_attached
      BY <3>1, UseStep
    <3> QED BY <3>2 DEF Promise!Next
  <2>4. ASSUME NEW u \in User, DelAttachedLan(u)
        PROVE  Promise!Next
    <3>1. \E n \in Name : Promise!Leave(u, n)
      BY <2>4, DelStep, LeaveStep
    <3> QED BY <3>1 DEF Promise!Next
  <2> QED BY <2>1, <2>2, <2>3, <2>4 DEF NamesNext
<1> QED BY <1>1, <1>2, TableInvariant, PTL DEF NamesSpec, ImplementsUsers, Promise!Spec
==================================================================================
