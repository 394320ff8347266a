---------------------------- MODULE LanRank_proofs ----------------------------
(***************************************************************************)
(* Proofs about the ranks of the endpoint slots of a LAN, for any number   *)
(* of slots, ranks and connections.  The inductive invariant IInv says     *)
(* where the dialog of every connection stands, whatever order its two     *)
(* channels, and those of the connections before it, are read in.          *)
(***************************************************************************)
EXTENDS LanRank, FiniteSetTheorems, SequenceTheorems, WellFoundedInduction, TLAPS

-----------------------------------------------------------------------------
(* The inductive invariant.                                                  *)

\* The ends of the two channels of a connection: the slot's and the LAN's.
ES(n) == "e" \in net[n].sig
LS(n) == "l" \in net[n].sig
ET(n) == "e" \in net[n].trf
LT(n) == "l" \in net[n].trf

UpMsg == {Msg("handshake"), Msg("req_rank")} \cup {Ack(r) : r \in Rank}
DownMsg == {Msg(k) : k \in {"handshake_ok", "alloc_ko", "start", "end"}}
           \cup {AllocOk(r) : r \in Rank}
EpRec == [lan : 0 .. MaxCon, traf : 0 .. MaxCon, ok : 0 .. MaxCon, pend : Nat]
ConRec == [owner : SUBSET Ep, sig : SUBSET {"e", "l"}, trf : SUBSET {"e", "l"},
           up : {<<>>} \cup {<<m>> : m \in UpMsg}, down : Seq(DownMsg),
           opening : BOOLEAN]
RankRec == [pre : 0 .. MAX_USOCK_RANKS - 1, rank : 0 .. MAX_USOCK_RANKS - 1,
            traf : 0 .. MaxCon]
LanRec == [st : {"run", "quit", "dead"}, rec : [Con -> RankRec],
           present : [Rank -> 0 .. MaxCon], max : Nat, chain : SUBSET Con,
           member : [Con -> BOOLEAN]]

\* The types; a slot has no more timers than it made connections.
Typed ==
  /\ ncon \in 0 .. MaxCon
  /\ ep \in [Ep -> EpRec]
  /\ net \in [Con -> ConRec]
  /\ lan \in LanRec
  /\ \A e \in Ep : ep[e].pend <= ncon

Dead == lan.st = "dead"

\* A connection is made once, by one slot.
Owned ==
  \A n \in Con :
    /\ n > ncon => net[n].owner = {}
    /\ net[n].owner = {} => ~ES(n) /\ ~LS(n) /\ ~ET(n) /\ ~LT(n)
    /\ net[n].owner = {} \/ \E e \in Ep : net[n].owner = {e}

\* The llids of a slot are the ends it has, of the last connection it made.
SlotEnds ==
  \A e \in Ep, n \in Con :
    /\ ep[e].lan = n => /\ net[n].owner = {e} /\ ES(n)
                        /\ \A k \in Con : k > n => net[k].owner # {e}
    /\ ep[e].traf = n => /\ net[n].owner = {e} /\ ET(n)
                         /\ ep[e].lan \in {0, n}
                         /\ ~Dead => ep[e].lan = n
    /\ net[n].owner = {e} => (ES(n) => ep[e].lan = n) /\ (ET(n) => ep[e].traf = n)

\* As long as the LAN process lives it is the slot that closes first.
LanEnds ==
  \A n \in Con :
    /\ ES(n) /\ LT(n) => ET(n)
    /\ Dead => ~LS(n) /\ ~LT(n)
    /\ ~Dead /\ ES(n) => LS(n)
    /\ ~Dead /\ ET(n) => LT(n) /\ HasRec(n)

\* A record is that of an open signalling channel, the only one of its slot: the
\* channels of the connections the slot made before have ended.
RecsSound ==
  /\ \A n \in Con :
       /\ ~HasRec(n) => lan.rec[n] = NoRec
       /\ ~Dead /\ HasRec(n) => LS(n)
  /\ ~Dead => \A n, k \in Con : HasRec(n) /\ net[k].owner = net[n].owner =>
                /\ HasRec(k) => k = n
                /\ k < n => ~ES(k) /\ ~LS(k) /\ ~ET(k) /\ ~LT(k)

\* The traffic channel of a record is its own, open and a member of the chain.
ChainSound ==
  \A n \in Con :
    /\ lan.rec[n].traf \in {0, n}
    /\ n \in lan.chain <=> lan.rec[n].traf = n
    /\ ~Dead /\ n \in lan.chain => LT(n) /\ lan.member[n]
    /\ ~Dead /\ ET(n) /\ ~net[n].opening => n \in lan.chain

\* No rank is chosen twice, and the table has the acknowledged ones.
RanksSound ==
  /\ \A n, k \in Con : HasRec(n) /\ lan.rec[n].pre = lan.rec[k].pre => n = k
  /\ \A r \in Rank : lan.present[r] # 0 =>
       lan.rec[lan.present[r]].rank = r /\ r < lan.max
  /\ \A n \in Con : lan.rec[n].rank # 0 =>
       lan.rec[n].rank = lan.rec[n].pre /\ lan.present[lan.rec[n].rank] = n

\* Where the dialog of a connection stands that has both ends.
Fresh(n) == ~HasRec(n) /\ ~ET(n) /\ ~LT(n)
Granted(n) == HasRec(n) /\ lan.rec[n].rank = 0
Asking(n) ==
  /\ net[n].down = <<>>
  /\ \/ net[n].up \in {<<Msg("handshake")>>, <<Msg("req_rank")>>} /\ Fresh(n)
     \/ net[n].up = <<Ack(lan.rec[n].pre)>> /\ Granted(n) /\ ET(n)
Answered(n) ==
  /\ net[n].up = <<>>
  /\ \/ net[n].down \in {<<Msg("handshake_ok")>>, <<Msg("alloc_ko")>>} /\ Fresh(n)
     \/ net[n].down = <<AllocOk(lan.rec[n].pre)>> /\ Granted(n) /\ ~ET(n) /\ ~LT(n)
     \/ net[n].down = <<Msg("start")>> /\ lan.rec[n].rank # 0 /\ ET(n)
Started(n) ==
  /\ net[n].up = <<>> /\ net[n].down = <<>>
  /\ lan.rec[n].rank # 0 /\ ET(n)
  /\ \A e \in Ep : net[n].owner = {e} => ep[e].ok = n

\* A LAN that quits says so to the slots that were started, and answers no more.
Left(n) ==
  \/ /\ net[n].up = <<>>
     /\ \/ net[n].down \in {<<>>, <<Msg("end")>>, <<Msg("start"), Msg("end")>>,
                            <<Msg("start")>>, <<Msg("handshake_ok")>>, <<Msg("alloc_ko")>>}
        \/ net[n].down = <<AllocOk(lan.rec[n].pre)>> /\ HasRec(n)
  \/ /\ net[n].down = <<>>
     /\ \/ net[n].up \in {<<Msg("handshake")>>, <<Msg("req_rank")>>}
        \/ net[n].up = <<Ack(lan.rec[n].pre)>> /\ HasRec(n)
Dialog ==
  \A n \in Con : ES(n) /\ LS(n) =>
    /\ lan.st = "run" => Asking(n) \/ Answered(n) \/ Started(n)
    /\ lan.st = "quit" => Left(n)

Links == Owned /\ SlotEnds /\ LanEnds
Recs == RecsSound /\ ChainSound /\ RanksSound
IInv == Typed /\ Links /\ Recs /\ Dialog

-----------------------------------------------------------------------------
(* What the invariant says of the checked properties.                        *)

\* A set of ends by its members.
LEMMA Ends ==
  ASSUME NEW S \in SUBSET {"e", "l"}
  PROVE  /\ S = {"e", "l"} <=> "e" \in S /\ "l" \in S
         /\ S = {"e"} <=> "e" \in S /\ "l" \notin S
         /\ S = {"l"} <=> "l" \in S /\ "e" \notin S
         /\ S = {} <=> "l" \notin S /\ "e" \notin S
OBVIOUS

\* The types of the fields.
LEMMA Fields ==
  ASSUME Typed
  PROVE  /\ \A n \in Con : /\ net[n].sig \in SUBSET {"e", "l"}
                           /\ net[n].trf \in SUBSET {"e", "l"}
                           /\ net[n].owner \in SUBSET Ep
                           /\ net[n].down \in Seq(DownMsg)
                           /\ net[n].up \in {<<>>} \cup {<<m>> : m \in UpMsg}
                           /\ lan.rec[n] \in RankRec
                           /\ lan.rec[n].pre \in 0 .. MAX_USOCK_RANKS - 1
                           /\ lan.rec[n].rank \in 0 .. MAX_USOCK_RANKS - 1
                           /\ lan.rec[n].traf \in 0 .. MaxCon
         /\ \A e \in Ep : /\ ep[e].lan \in 0 .. MaxCon
                          /\ ep[e].traf \in 0 .. MaxCon
                          /\ ep[e].ok \in 0 .. MaxCon
                          /\ ep[e].pend \in Nat
         /\ \A r \in Rank : lan.present[r] \in 0 .. MaxCon
         /\ lan.max \in Nat
         /\ lan.chain \subseteq Con
         /\ lan.st \in {"run", "quit", "dead"}
<1>1. \A n \in Con : net[n] \in ConRec /\ lan.rec[n] \in RankRec
  BY DEF Typed, LanRec
<1>2. \A e \in Ep : ep[e] \in EpRec
  BY DEF Typed
<1>3. lan \in LanRec
  BY DEF Typed
<1>4. QED BY <1>1, <1>2, <1>3 DEF ConRec, RankRec, EpRec, LanRec

LEMMA GivesGrant ==
  ASSUME IInv
  PROVE  GrantKept
<1> SUFFICES ASSUME NEW n \in Con, net[n].sig = {"e", "l"}
             PROVE  /\ \A i \in DOMAIN net[n].down :
                         net[n].down[i].k = "alloc_ok" =>
                           lan.rec[n].pre = net[n].down[i].rank
                    /\ \A i \in DOMAIN net[n].up :
                         net[n].up[i].k = "ack" => lan.rec[n].pre = net[n].up[i].rank
  BY DEF GrantKept
<1>1. ES(n) /\ LS(n)
  BY DEF ES, LS
<1>2. lan.st \in {"run", "quit"}
  BY <1>1, Fields DEF IInv, Links, LanEnds, Dead
<1>3. Asking(n) \/ Answered(n) \/ Started(n) \/ Left(n)
  BY <1>1, <1>2 DEF IInv, Dialog
<1>4. /\ net[n].down \in {<<>>, <<Msg("end")>>, <<Msg("start"), Msg("end")>>, <<Msg("start")>>,
                          <<Msg("handshake_ok")>>, <<Msg("alloc_ko")>>,
                          <<AllocOk(lan.rec[n].pre)>>}
      /\ net[n].up \in {<<>>, <<Msg("handshake")>>, <<Msg("req_rank")>>,
                        <<Ack(lan.rec[n].pre)>>}
  BY <1>3 DEF Asking, Answered, Started, Left
<1>5. QED BY <1>4 DEF Msg, AllocOk, Ack

LEMMA GivesRanks ==
  ASSUME IInv
  PROVE  RanksApart
<1>1. Typed
  BY DEF IInv
<1>2. TypeOK
  <2>1. \A e \in Ep : ep[e] \in [lan : 0 .. MaxCon, traf : 0 .. MaxCon, ok : 0 .. MaxCon,
                                 pend : 0 .. MaxCon]
    <3> SUFFICES ASSUME NEW e \in Ep
                 PROVE  ep[e] \in [lan : 0 .. MaxCon, traf : 0 .. MaxCon,
                                   ok : 0 .. MaxCon, pend : 0 .. MaxCon]
      OBVIOUS
    <3>1. ep[e] \in EpRec /\ ep[e].pend \in Nat /\ ep[e].pend <= ncon /\ ncon \in 0 .. MaxCon
      BY <1>1, Fields DEF Typed
    <3>2. ep[e].pend \in 0 .. MaxCon
      BY <3>1, RankAssumption
    <3>3. QED BY <3>1, <3>2 DEF EpRec
  <2>2. QED BY <1>1, <2>1, Fields DEF Typed, TypeOK, LanRec, RankRec
<1>3. QED BY <1>2, GivesGrant DEF RanksApart, IInv, Recs, RanksSound

LEMMA GivesMembers ==
  ASSUME IInv
  PROVE  MembersExact
<1> SUFFICES ASSUME ~Dead
             PROVE  /\ lan.chain = {lan.rec[n].traf : n \in Con} \ {0}
                    /\ \A n \in Con : lan.rec[n].traf \in {0, n}
                    /\ \A n \in lan.chain : "l" \in net[n].trf
                    /\ \A n \in Con : net[n].trf = {"e", "l"} /\ ~net[n].opening =>
                                      n \in lan.chain
  BY DEF MembersExact, Dead
<1>1. ChainSound /\ lan.chain \subseteq Con
  BY Fields DEF IInv, Recs
<1>2. 0 \notin Con
  BY DEF Con
<1>3. lan.chain = {lan.rec[n].traf : n \in Con} \ {0}
  BY <1>1, <1>2 DEF ChainSound
<1>4. QED BY <1>1, <1>3 DEF ChainSound, LT, ET

LEMMA GivesProgress ==
  ASSUME IInv
  PROVE  NeverStuck
<1> SUFFICES ASSUME NEW e \in Ep
             PROVE  LET n == ep[e].lan
                    IN  /\ n # 0 => "e" \in net[n].sig
                        /\ ep[e].traf # 0 => "e" \in net[ep[e].traf].trf
                        /\ /\ n # 0 /\ lan.st = "run" /\ net[n].sig = {"e", "l"}
                           /\ net[n].up = <<>> /\ net[n].down = <<>>
                           => /\ ep[e].ok = n /\ ep[e].traf = n
                              /\ net[n].opening \/ n \in lan.chain
  BY DEF NeverStuck
<1> DEFINE n == ep[e].lan
<1>1. /\ n # 0 => n \in Con
      /\ ep[e].traf # 0 => ep[e].traf \in Con
  BY Fields, RankAssumption DEF IInv, Con
<1>2. /\ n # 0 => ES(n) /\ net[n].owner = {e}
      /\ ep[e].traf # 0 => ET(ep[e].traf)
  BY <1>1 DEF IInv, Links, SlotEnds
<1>3. ASSUME n # 0, lan.st = "run", net[n].sig = {"e", "l"}, net[n].up = <<>>,
             net[n].down = <<>>
      PROVE  /\ ep[e].ok = n /\ ep[e].traf = n
             /\ net[n].opening \/ n \in lan.chain
  <2>1. n \in Con /\ ES(n) /\ LS(n)
    BY <1>1, <1>3 DEF ES, LS
  <2>2. Asking(n) \/ Answered(n) \/ Started(n)
    BY <1>3, <2>1 DEF IInv, Dialog
  <2>3. ~Asking(n) /\ ~Answered(n)
    BY <1>3 DEF Asking, Answered
  <2>4. ET(n) /\ ep[e].ok = n
    BY <1>2, <1>3, <2>2, <2>3 DEF Started
  <2>5. ep[e].traf = n
    BY <1>2, <1>3, <2>1, <2>4 DEF IInv, Links, SlotEnds
  <2>6. net[n].opening \/ n \in lan.chain
    BY <1>3, <2>1, <2>4 DEF IInv, Recs, ChainSound, Dead
  <2>7. QED BY <2>4, <2>5, <2>6
<1> HIDE DEF n
<1>4. QED BY <1>2, <1>3 DEF ES, ET, n

-----------------------------------------------------------------------------
(* What most steps leave.                                                    *)

\* When the LAN process starts nothing is connected.
LEMMA InitInv == Init => IInv
<1> SUFFICES ASSUME Init PROVE IInv
  OBVIOUS
<1>1. /\ \A e \in Ep : ep[e] = NoChannel
      /\ \A n \in Con : net[n] = Unused
      /\ \A n \in Con : lan.rec[n] = NoRec
      /\ \A r \in Rank : lan.present[r] = 0
      /\ lan.st = "run" /\ lan.chain = {} /\ ncon = 0
  BY DEF Init
<1>2. /\ \A n \in Con : ~ES(n) /\ ~LS(n) /\ ~ET(n) /\ ~LT(n) /\ net[n].owner = {}
      /\ \A n \in Con : ~HasRec(n) /\ lan.rec[n].rank = 0 /\ lan.rec[n].traf = 0
      /\ \A e \in Ep : ep[e].lan = 0 /\ ep[e].traf = 0 /\ ep[e].pend = 0
  BY <1>1 DEF Unused, NoRec, NoChannel, HasRec, ES, LS, ET, LT
<1>3. Typed
  <2>1. 0 \in 0 .. MaxCon /\ 0 \in 0 .. MAX_USOCK_RANKS - 1
    BY RankAssumption
  <2>2. NoChannel \in EpRec /\ NoRec \in RankRec
    BY <2>1 DEF NoChannel, NoRec, EpRec, RankRec
  <2>3. Unused \in ConRec
    BY EmptySeq DEF Unused, ConRec
  <2>4. lan \in LanRec
    BY <2>1, <2>2 DEF Init, LanRec
  <2>5. QED BY <1>1, <1>2, <2>1, <2>2, <2>3, <2>4 DEF Init, Typed
<1>4. Links
  <2>1. 0 \notin Con
    BY DEF Con
  <2>2. QED
    BY <1>1, <1>2, <2>1 DEF Links, Owned, SlotEnds, LanEnds, Dead
<1>5. Recs
  BY <1>1, <1>2 DEF Recs, RecsSound, ChainSound, RanksSound, Con
<1>6. Dialog
  BY <1>2 DEF Dialog
<1>7. QED BY <1>3, <1>4, <1>5, <1>6 DEF IInv

\* A step of the LAN process: it may close its ends of channels that the slot
\* has closed.
LEMMA LinksLan ==
  ASSUME Links, UNCHANGED <<ep, ncon>>,
         Dead => Dead',
         \A n \in Con : /\ net'[n].owner = net[n].owner
                        /\ ES(n)' <=> ES(n)
                        /\ ET(n)' <=> ET(n)
                        /\ LS(n)' => LS(n) /\ ~Dead'
                        /\ LT(n)' => LT(n) /\ ~Dead'
                        /\ ~Dead' /\ ES(n) => LS(n)'
                        /\ ~Dead' /\ ET(n) => LT(n)' /\ HasRec(n)'
  PROVE  Links'
<1>1. Owned'
  BY DEF Links, Owned
<1>2. SlotEnds'
  BY DEF Links, SlotEnds
<1>3. LanEnds'
  BY DEF Links, LanEnds
<1>4. QED BY <1>1, <1>2, <1>3 DEF Links

\* A step of a slot: no record is touched, no end of the LAN is closed.
LEMMA RecsSlot ==
  ASSUME Recs, UNCHANGED lan,
         \A n \in Con : /\ LS(n) => LS(n)'
                        /\ LT(n) => LT(n)'
                        /\ ET(n)' /\ ~net'[n].opening => ET(n) /\ ~net[n].opening,
         ~Dead => \A n, k \in Con :
           HasRec(n) /\ net'[k].owner = net'[n].owner /\ (HasRec(k) \/ k < n) =>
             /\ net[k].owner = net[n].owner
             /\ k < n => /\ ES(k)' => ES(k)
                         /\ LS(k)' => LS(k)
                         /\ ET(k)' => ET(k)
                         /\ LT(k)' => LT(k)
  PROVE  Recs'
<1>1. \A n \in Con : HasRec(n)' <=> HasRec(n)
  BY DEF HasRec
<1>2. Dead' <=> Dead
  BY DEF Dead
<1>3. RecsSound'
  BY <1>1, <1>2 DEF Recs, RecsSound
<1>4. ChainSound'
  BY <1>2 DEF Recs, ChainSound
<1>5. RanksSound'
  BY <1>1 DEF Recs, RanksSound
<1>6. QED BY <1>3, <1>4, <1>5 DEF Recs

\* The dialog of n, as Dialog says.
Stage(n) ==
  /\ lan.st = "run" => Asking(n) \/ Answered(n) \/ Started(n)
  /\ lan.st = "quit" => Left(n)

\* A step that is not about the dialog of n.
LEMMA StageKept ==
  ASSUME NEW n \in Con, Stage(n),
         lan'.st = lan.st,
         net'[n].up = net[n].up, net'[n].down = net[n].down,
         ET(n)' <=> ET(n), LT(n)' <=> LT(n),
         lan'.rec[n].pre = lan.rec[n].pre, lan'.rec[n].rank = lan.rec[n].rank,
         net'[n].owner = net[n].owner,
         \A e \in Ep : net[n].owner = {e} => ep'[e].ok = ep[e].ok
  PROVE  Stage(n)'
<1>1. HasRec(n)' <=> HasRec(n)
  BY DEF HasRec
<1>2. (Fresh(n)' <=> Fresh(n)) /\ (Granted(n)' <=> Granted(n))
  BY <1>1 DEF Fresh, Granted
<1>3. Asking(n) => Asking(n)'
  BY <1>2 DEF Asking
<1>4. Answered(n) => Answered(n)'
  BY <1>2 DEF Answered
<1>5. Started(n) => Started(n)'
  BY <1>2 DEF Started
<1>6. Left(n) => Left(n)'
  BY <1>1 DEF Left
<1>7. QED BY <1>3, <1>4, <1>5, <1>6 DEF Stage

LEMMA StageIff == Dialog <=> \A n \in Con : ES(n) /\ LS(n) => Stage(n)
BY DEF Dialog, Stage

LEMMA StageIffNext == Dialog' <=> \A n \in Con : ES(n)' /\ LS(n)' => Stage(n)'
BY DEF Dialog, Stage

-----------------------------------------------------------------------------
(* The steps of a slot.                                                      *)

\* sock_fd_finish, with or without the timers of the slot, and what it has read.
LEMMA CloseInv ==
  ASSUME IInv, NEW e \in Ep, NEW nt \in [Con -> ConRec],
         \A k \in Con : /\ nt[k].owner = net[k].owner
                        /\ nt[k].sig = net[k].sig
                        /\ nt[k].trf = net[k].trf
                        /\ nt[k].up = net[k].up
                        /\ nt[k].opening = net[k].opening
                        /\ k # ep[e].lan => nt[k].down = net[k].down,
         ep' \in {Finished(e), [Finished(e) EXCEPT ![e].pend = 0]},
         net' = FinishNet(nt, e), UNCHANGED <<lan, ncon>>
  PROVE  IInv'
<1>1. /\ Typed /\ Owned /\ SlotEnds /\ LanEnds /\ Recs /\ Dialog
      /\ ep \in [Ep -> EpRec] /\ net \in [Con -> ConRec]
  BY DEF IInv, Links, Typed
<1>2. /\ \A f \in Ep : f # e => ep'[f] = ep[f]
      /\ ep'[e] \in EpRec
      /\ ep'[e].lan = 0 /\ ep'[e].traf = 0 /\ ep'[e].pend \in {0, ep[e].pend}
      /\ ep' \in [Ep -> EpRec]
  BY <1>1 DEF Finished, EpRec
<1>3. \A n \in Con :
        /\ net'[n] \in ConRec
        /\ net'[n].owner = net[n].owner
        /\ net'[n].up = net[n].up
        /\ net'[n].opening = net[n].opening
        /\ n # ep[e].lan => net'[n].down = net[n].down
        /\ ES(n)' <=> ES(n) /\ n # ep[e].lan
        /\ ET(n)' <=> ET(n) /\ n # ep[e].traf
        /\ LS(n)' <=> LS(n)
        /\ LT(n)' <=> LT(n)
  <2> SUFFICES ASSUME NEW n \in Con
               PROVE  /\ net'[n] \in ConRec
                      /\ net'[n].owner = net[n].owner
                      /\ net'[n].up = net[n].up
                      /\ net'[n].opening = net[n].opening
                      /\ n # ep[e].lan => net'[n].down = net[n].down
                      /\ ES(n)' <=> ES(n) /\ n # ep[e].lan
                      /\ ET(n)' <=> ET(n) /\ n # ep[e].traf
                      /\ LS(n)' <=> LS(n)
                      /\ LT(n)' <=> LT(n)
    OBVIOUS
  <2>1. net'[n] = [nt[n] EXCEPT
                     !.sig = IF n = ep[e].lan THEN nt[n].sig \ {"e"} ELSE nt[n].sig,
                     !.down = IF n = ep[e].lan THEN <<>> ELSE nt[n].down,
                     !.trf = IF n = ep[e].traf THEN nt[n].trf \ {"e"} ELSE nt[n].trf]
    BY DEF FinishNet
  <2>2. nt[n] \in ConRec
    OBVIOUS
  <2>3. /\ net'[n].owner = nt[n].owner
        /\ net'[n].up = nt[n].up
        /\ net'[n].opening = nt[n].opening
        /\ net'[n].down = IF n = ep[e].lan THEN <<>> ELSE nt[n].down
        /\ net'[n].sig = IF n = ep[e].lan THEN nt[n].sig \ {"e"} ELSE nt[n].sig
        /\ net'[n].trf = IF n = ep[e].traf THEN nt[n].trf \ {"e"} ELSE nt[n].trf
    BY <2>1, <2>2 DEF ConRec
  <2>4. net'[n] \in ConRec
    <3> DEFINE S == IF n = ep[e].lan THEN nt[n].sig \ {"e"} ELSE nt[n].sig
               D == IF n = ep[e].lan THEN <<>> ELSE nt[n].down
               T == IF n = ep[e].traf THEN nt[n].trf \ {"e"} ELSE nt[n].trf
    <3>1. S \in SUBSET {"e", "l"} /\ T \in SUBSET {"e", "l"}
      BY <2>2 DEF ConRec
    <3>2. D \in Seq(DownMsg)
      BY <2>2, EmptySeq DEF ConRec
    <3>3. net'[n] = [nt[n] EXCEPT !.sig = S, !.down = D, !.trf = T]
      BY <2>1
    <3> HIDE DEF S, D, T
    <3>4. QED BY <2>2, <3>1, <3>2, <3>3 DEF ConRec
  <2>5. QED BY <2>3, <2>4 DEF ES, ET, LS, LT
<1>4. net' \in [Con -> ConRec]
  BY <1>3 DEF FinishNet
<1>5. Typed'
  BY <1>1, <1>2, <1>4, RankAssumption DEF Typed
<1>6. Dead' <=> Dead
  BY DEF Dead
<1>7. \A n \in Con : HasRec(n)' <=> HasRec(n)
  BY DEF HasRec
<1>8. Links'
  <2>1. Owned'
    BY <1>1, <1>3 DEF Owned
  <2>2. SlotEnds'
    <3> SUFFICES ASSUME NEW f \in Ep, NEW n \in Con
                 PROVE  /\ ep'[f].lan = n => /\ net'[n].owner = {f} /\ ES(n)'
                                             /\ \A k \in Con : k > n => net'[k].owner # {f}
                        /\ ep'[f].traf = n => /\ net'[n].owner = {f} /\ ET(n)'
                                              /\ ep'[f].lan \in {0, n}
                                              /\ ~Dead' => ep'[f].lan = n
                        /\ net'[n].owner = {f} => /\ ES(n)' => ep'[f].lan = n
                                                  /\ ET(n)' => ep'[f].traf = n
      BY DEF SlotEnds
    <3>1. CASE f = e
      <4>1. n # 0
        BY DEF Con
      <4>2. QED BY <1>1, <1>2, <1>3, <3>1, <4>1 DEF SlotEnds
    <3>2. CASE f # e
      <4>0. ep[e].lan = n \/ ep[e].traf = n => net[n].owner = {e}
        <5>1. SlotEnds
          BY <1>1
        <5>2. QED BY ONLY <5>1, e \in Ep, n \in Con DEF SlotEnds
      <4>1. ep[e].lan = n => net[n].owner # {f}
        BY <3>2, <4>0
      <4>2. ep[e].traf = n => net[n].owner # {f}
        BY <3>2, <4>0
      <4>3. QED BY <1>1, <1>2, <1>3, <1>6, <3>2, <4>1, <4>2 DEF SlotEnds
    <3>3. QED BY <3>1, <3>2
  <2>3. LanEnds'
    <3>1. \A n \in Con : ES(n)' /\ LT(n)' => ET(n)'
      <4> SUFFICES ASSUME NEW n \in Con, ES(n)', LT(n)', n = ep[e].traf PROVE FALSE
        BY <1>1, <1>3 DEF LanEnds
      <4>1. net[n].owner = {e} /\ ES(n) /\ n # ep[e].lan
        BY <1>1, <1>3 DEF SlotEnds
      <4>2. QED BY <1>1, <4>1 DEF SlotEnds
    <3>2. QED BY <1>1, <1>3, <1>6, <1>7, <3>1 DEF LanEnds
  <2>4. QED BY <2>1, <2>2, <2>3 DEF Links
<1>9. Recs'
  BY <1>1, <1>3, RecsSlot
<1>10. Dialog'
  <2> SUFFICES ASSUME NEW n \in Con, ES(n)', LS(n)' PROVE Stage(n)'
    BY StageIffNext
  <2>1. ES(n) /\ LS(n) /\ n # ep[e].lan
    BY <1>3
  <2>2. Stage(n)
    BY <1>1, <2>1, StageIff
  <2>3. net[n].owner # {e}
    BY <1>1, <2>1 DEF SlotEnds
  <2>4. ep[e].traf # n
    BY <1>1, <2>3 DEF SlotEnds
  <2>5. \A f \in Ep : net[n].owner = {f} => ep'[f].ok = ep[f].ok
    BY <1>2, <2>3
  <2>6. QED BY <1>3, <2>1, <2>2, <2>4, <2>5, StageKept
<1>11. QED BY <1>5, <1>8, <1>9, <1>10 DEF IInv

\* connect_req_process: the connections of the slot before have ended.
LEMMA ConnectInv ==
  ASSUME IInv, NEW e \in Ep, Connect(e)
  PROVE  IInv'
<1>. PICK n \in Con : n = ncon + 1
  BY RankAssumption DEF Connect, IInv, Typed, Con
<1> DEFINE r == [Unused EXCEPT !.owner = {e}, !.sig = {"e", "l"},
                               !.up = <<Msg("handshake")>>]
<1>1. /\ Typed /\ Owned /\ SlotEnds /\ LanEnds /\ Recs /\ Dialog
      /\ ep \in [Ep -> EpRec] /\ net \in [Con -> ConRec] /\ ncon \in 0 .. MaxCon
  BY DEF IInv, Links, Typed
<1>2. /\ ep[e].lan = 0 /\ ~Dead /\ UNCHANGED lan
      /\ ncon' = n /\ n \in Con /\ n > ncon
      /\ ep' = [ep EXCEPT ![e].lan = n, ![e].pend = @ + 1]
      /\ net' = [net EXCEPT ![n] = r]
  BY <1>1, RankAssumption DEF Connect, Con, Dead
<1>3. /\ r \in ConRec /\ r.owner = {e} /\ r.sig = {"e", "l"} /\ r.trf = {}
      /\ r.up = <<Msg("handshake")>> /\ r.down = <<>> /\ r.opening = FALSE
  BY EmptySeq DEF Unused, ConRec, UpMsg
<1> HIDE DEF r
<1>4. ep[e].pend + 1 \in Nat /\ ep[e].pend + 1 <= n /\ n \in 0 .. MaxCon /\ n # 0
  BY <1>1, <1>2, Fields, RankAssumption DEF Typed, Con
<1>5. \A k \in Con : k > n => k > ncon
  BY <1>1, <1>2 DEF Con
<1>6. /\ \A f \in Ep : f # e => ep'[f] = ep[f]
      /\ ep'[e] \in EpRec
      /\ ep'[e].lan = n /\ ep'[e].traf = ep[e].traf /\ ep'[e].ok = ep[e].ok
      /\ ep'[e].pend = ep[e].pend + 1
      /\ ep' \in [Ep -> EpRec]
  BY <1>1, <1>2, <1>4 DEF EpRec
<1>7. /\ \A k \in Con : k # n => net'[k] = net[k]
      /\ net'[n] = r
      /\ net' \in [Con -> ConRec]
  BY <1>1, <1>2, <1>3
<1>8. /\ net[n].owner = {} /\ ~ES(n) /\ ~LS(n) /\ ~ET(n) /\ ~LT(n) /\ ~HasRec(n)
      /\ ES(n)' /\ LS(n)' /\ ~ET(n)' /\ ~LT(n)'
  BY <1>1, <1>2, <1>3, <1>7 DEF Owned, ES, LS, ET, LT, Recs, RecsSound
<1>9. \A k \in Con : k # n => /\ ES(k)' <=> ES(k)
                              /\ LS(k)' <=> LS(k)
                              /\ ET(k)' <=> ET(k)
                              /\ LT(k)' <=> LT(k)
  BY <1>7 DEF ES, LS, ET, LT
<1>10. /\ \A k \in Con : net[k].owner = {e} => ~ES(k) /\ ~ET(k)
       /\ ep[e].traf \notin Con
  <2>1. 0 \notin Con
    BY DEF Con
  <2>2. ep[e].traf \notin Con
    BY <1>1, <1>2, <2>1 DEF SlotEnds
  <2>3. QED BY <1>1, <1>2, <2>1, <2>2 DEF SlotEnds
<1>11. (Dead' <=> Dead) /\ \A k \in Con : HasRec(k)' <=> HasRec(k)
  BY <1>2 DEF Dead, HasRec
<1>12. Typed'
  <2>3. \A f \in Ep : ep'[f].pend <= n
    <3>1. \A f \in Ep : ep[f].pend \in Nat /\ ep[f].pend <= ncon
      BY <1>1, Fields DEF Typed
    <3>2. \A f \in Ep : ep[f].pend <= n
      BY <1>1, <1>2, <3>1 DEF Con
    <3>3. QED BY <1>4, <1>6, <3>2
  <2>4. QED BY <1>1, <1>2, <1>4, <1>6, <1>7, <2>3 DEF Typed
<1>13. Links'
  <2>1. Owned'
    <3> SUFFICES ASSUME NEW k \in Con
                 PROVE  /\ k > n => net'[k].owner = {}
                        /\ net'[k].owner = {} => ~ES(k)' /\ ~LS(k)' /\ ~ET(k)' /\ ~LT(k)'
                        /\ net'[k].owner = {} \/ \E f \in Ep : net'[k].owner = {f}
      BY <1>2 DEF Owned
    <3>1. CASE k = n
      <4>1. net'[k].owner = {e} /\ ~(k > n)
        BY <1>3, <1>4, <1>7, <3>1
      <4>2. QED BY <4>1
    <3>2. CASE k # n
      <4>1. net'[k] = net[k] /\ (k > n => k > ncon)
        BY <1>5, <1>7, <3>2
      <4>2. QED BY <1>1, <1>9, <3>2, <4>1 DEF Owned
    <3>3. QED BY <3>1, <3>2
  <2>2. SlotEnds'
    <3> SUFFICES ASSUME NEW f \in Ep, NEW m \in Con
                 PROVE  /\ ep'[f].lan = m => /\ net'[m].owner = {f} /\ ES(m)'
                                             /\ \A k \in Con : k > m => net'[k].owner # {f}
                        /\ ep'[f].traf = m => /\ net'[m].owner = {f} /\ ET(m)'
                                              /\ ep'[f].lan \in {0, m}
                                              /\ ~Dead' => ep'[f].lan = m
                        /\ net'[m].owner = {f} => /\ ES(m)' => ep'[f].lan = m
                                                  /\ ET(m)' => ep'[f].traf = m
      BY DEF SlotEnds
    <3>1. CASE f = e
      <4>1. \A k \in Con : k > n => net'[k].owner = {}
        BY <1>1, <1>2, <1>5, <1>7, <1>8 DEF Owned, Con
      <4>2. ep'[f].lan = n /\ ep'[f].traf \notin Con
        BY <1>6, <1>10, <3>1
      <4>3. \A k \in Con : k # n /\ net'[k].owner = {f} => ~ES(k)' /\ ~ET(k)'
        BY <1>7, <1>9, <1>10, <3>1
      <4>4. net'[n].owner = {f} /\ ES(n)' /\ ~ET(n)'
        BY <1>3, <1>7, <1>8, <3>1
      <4>5. QED BY <1>2, <4>1, <4>2, <4>3, <4>4
    <3>2. CASE f # e
      <4>1. net[n].owner # {f} /\ net'[n].owner # {f}
        BY <1>3, <1>7, <1>8, <3>2
      <4>2. ep'[f] = ep[f]
        BY <1>6, <3>2
      <4>3. \A k \in Con : net'[k].owner = {f} <=> net[k].owner = {f}
        BY <1>7, <4>1
      <4>4. m # n => (ES(m)' <=> ES(m)) /\ (ET(m)' <=> ET(m))
        BY <1>9
      <4>5. m = n => ep[f].lan # m /\ ep[f].traf # m
        BY <1>1, <4>1 DEF SlotEnds
      <4>6. /\ ep[f].lan = m => net[m].owner = {f} /\ ES(m)
            /\ ep[f].lan = m => \A k \in Con : k > m => net[k].owner # {f}
            /\ ep[f].traf = m => /\ net[m].owner = {f} /\ ET(m)
                                 /\ ep[f].lan \in {0, m}
                                 /\ ~Dead => ep[f].lan = m
            /\ net[m].owner = {f} => (ES(m) => ep[f].lan = m) /\ (ET(m) => ep[f].traf = m)
        BY <1>1 DEF SlotEnds
      <4>7. CASE m = n
        BY <4>1, <4>2, <4>5, <4>7
      <4>8. CASE m # n
        BY <1>11, <4>2, <4>3, <4>4, <4>6, <4>8
      <4>9. QED BY <4>7, <4>8
    <3>3. QED BY <3>1, <3>2
  <2>3. LanEnds'
    BY <1>1, <1>2, <1>8, <1>9, <1>11 DEF LanEnds
  <2>4. QED BY <2>1, <2>2, <2>3 DEF Links
<1>14. Recs'
  <2>1. \A m \in Con : ~Dead /\ HasRec(m) => m <= ncon /\ m # n
    BY <1>1, <1>2, <1>8 DEF Recs, RecsSound, Owned, Con
  <2>2. \A k \in Con : HasRec(k) => k # n
    BY <1>8
  <2>3. \A k, m \in Con : HasRec(m) /\ k < m => k # n
    BY <1>1, <1>2, <2>1 DEF Con
  <2>4. \A k \in Con : /\ LS(k) => LS(k)'
                       /\ LT(k) => LT(k)'
                       /\ ET(k)' /\ ~net'[k].opening => ET(k) /\ ~net[k].opening
    BY <1>7, <1>8, <1>9
  <2>5. \A m, k \in Con :
          HasRec(m) /\ net'[k].owner = net'[m].owner /\ (HasRec(k) \/ k < m) =>
            /\ net[k].owner = net[m].owner
            /\ k < m => /\ ES(k)' => ES(k)
                        /\ LS(k)' => LS(k)
                        /\ ET(k)' => ET(k)
                        /\ LT(k)' => LT(k)
    BY <1>7, <1>9, <2>2, <2>3
  <2>6. QED BY <1>1, <1>2, <2>4, <2>5, RecsSlot
<1>15. Dialog'
  <2> SUFFICES ASSUME NEW k \in Con, ES(k)', LS(k)' PROVE Stage(k)'
    BY StageIffNext
  <2>1. CASE k = n
    <3>1. Fresh(n)'
      BY <1>8, <1>11 DEF Fresh
    <3>2. net'[n].up = <<Msg("handshake")>> /\ net'[n].down = <<>>
      BY <1>3, <1>7
    <3>3. Asking(n)' /\ Left(n)'
      BY <3>1, <3>2 DEF Asking, Left
    <3>4. QED BY <2>1, <3>3 DEF Stage
  <2>2. CASE k # n
    <3>1. net'[k] = net[k] /\ ES(k) /\ LS(k)
      BY <1>7, <1>9, <2>2
    <3>2. Stage(k) /\ (ET(k)' <=> ET(k)) /\ (LT(k)' <=> LT(k))
      BY <1>1, <1>9, <2>2, <3>1, StageIff
    <3>3. \A f \in Ep : net[k].owner = {f} => ep'[f].ok = ep[f].ok
      BY <1>6
    <3>4. QED BY <1>2, <3>1, <3>2, <3>3, StageKept
  <2>3. QED BY <2>1, <2>2
<1>16. QED BY <1>12, <1>13, <1>14, <1>15 DEF IInv

\* The signalling channel of a slot ends only with the LAN process.
LEMMA ErrLanInv ==
  ASSUME IInv, NEW e \in Ep, EpErrLan(e)
  PROVE  IInv'
<1>. PICK n \in Con : n = ep[e].lan
  BY Fields, RankAssumption DEF EpErrLan, IInv, Con
<1>1. /\ Typed /\ Owned /\ SlotEnds /\ LanEnds /\ Recs /\ Dialog
      /\ ep \in [Ep -> EpRec] /\ net \in [Con -> ConRec] /\ UNCHANGED <<lan, ncon>>
  BY DEF IInv, Links, Typed, EpErrLan
<1>2. /\ net[n].sig = {"e"} /\ ES(n) /\ ~LS(n) /\ net[n].owner = {e}
      /\ ep' = [ep EXCEPT ![e].lan = 0]
      /\ net' = [net EXCEPT ![n].sig = {}, ![n].down = <<>>]
  BY <1>1 DEF EpErrLan, ES, LS, SlotEnds
<1>3. Dead /\ Dead'
  BY <1>1, <1>2 DEF LanEnds, Dead
<1>4. /\ \A f \in Ep : f # e => ep'[f] = ep[f]
      /\ ep'[e].lan = 0 /\ ep'[e].traf = ep[e].traf /\ ep'[e].pend = ep[e].pend
      /\ ep' \in [Ep -> EpRec]
  <2>1. ep[e] \in EpRec /\ 0 \in 0 .. MaxCon
    BY <1>1, RankAssumption
  <2>2. /\ \A f \in Ep : f # e => ep'[f] = ep[f]
        /\ ep'[e] = [ep[e] EXCEPT !.lan = 0]
    BY <1>1, <1>2
  <2>3. ep'[e] \in EpRec
    BY <2>1, <2>2 DEF EpRec
  <2>4. ep' \in [Ep -> EpRec]
    BY <1>1, <1>2, <2>2, <2>3
  <2>5. ep'[e].lan = 0 /\ ep'[e].traf = ep[e].traf /\ ep'[e].pend = ep[e].pend
    BY <2>1, <2>2 DEF EpRec
  <2>6. QED BY <2>2, <2>4, <2>5
<1>5. /\ \A k \in Con : k # n => net'[k] = net[k]
      /\ net'[n].owner = net[n].owner /\ net'[n].sig = {} /\ net'[n].trf = net[n].trf
      /\ net'[n].opening = net[n].opening
      /\ net' \in [Con -> ConRec]
  <2>1. net[n] \in ConRec /\ <<>> \in Seq(DownMsg)
    BY <1>1, EmptySeq
  <2>2. /\ \A k \in Con : k # n => net'[k] = net[k]
        /\ net'[n] = [net[n] EXCEPT !.sig = {}, !.down = <<>>]
    BY <1>1, <1>2
  <2>3. net'[n] \in ConRec
    BY <2>1, <2>2 DEF ConRec
  <2>4. net' \in [Con -> ConRec]
    BY <1>1, <1>2, <2>2, <2>3
  <2>5. /\ net'[n].owner = net[n].owner /\ net'[n].sig = {} /\ net'[n].trf = net[n].trf
        /\ net'[n].opening = net[n].opening
    BY <2>1, <2>2 DEF ConRec
  <2>6. QED BY <2>2, <2>4, <2>5
<1>6. \A k \in Con : /\ net'[k].owner = net[k].owner
                     /\ net'[k].opening = net[k].opening
                     /\ ES(k)' <=> ES(k) /\ k # n
                     /\ LS(k)' <=> LS(k)
                     /\ ET(k)' <=> ET(k)
                     /\ LT(k)' <=> LT(k)
  BY <1>2, <1>5 DEF ES, LS, ET, LT
<1>7. Typed'
  BY <1>1, <1>4, <1>5 DEF Typed
<1>8. Links'
  <2>1. Owned'
    BY <1>1, <1>6 DEF Owned
  <2>2. SlotEnds'
    <3> SUFFICES ASSUME NEW f \in Ep, NEW m \in Con
                 PROVE  /\ ep'[f].lan = m => /\ net'[m].owner = {f} /\ ES(m)'
                                             /\ \A k \in Con : k > m => net'[k].owner # {f}
                        /\ ep'[f].traf = m => /\ net'[m].owner = {f} /\ ET(m)'
                                              /\ ep'[f].lan \in {0, m}
                                              /\ ~Dead' => ep'[f].lan = m
                        /\ net'[m].owner = {f} => /\ ES(m)' => ep'[f].lan = m
                                                  /\ ET(m)' => ep'[f].traf = m
      BY DEF SlotEnds
    <3>1. CASE f = e
      <4>1. 0 # m
        BY DEF Con
      <4>2. QED BY <1>1, <1>3, <1>4, <1>6, <3>1, <4>1 DEF SlotEnds
    <3>2. CASE f # e
      <4>1. net[n].owner # {f} /\ ep'[f] = ep[f]
        BY <1>2, <1>4, <3>2
      <4>2. ep[f].lan # n
        BY <1>1, <4>1 DEF SlotEnds
      <4>3. QED BY <1>1, <1>3, <1>6, <4>1, <4>2 DEF SlotEnds
    <3>3. QED BY <3>1, <3>2
  <2>3. LanEnds'
    BY <1>1, <1>3, <1>6 DEF LanEnds
  <2>4. QED BY <2>1, <2>2, <2>3 DEF Links
<1>9. Recs'
  BY <1>1, <1>6, RecsSlot
<1>10. Dialog'
  BY <1>1, <1>3, <1>6 DEF LanEnds, Dialog
<1>11. QED BY <1>7, <1>8, <1>9, <1>10 DEF IInv

\* A message is read and answered over the channel of the slot, which may open
\* its traffic channel.
LEMMA ReadInv ==
  ASSUME IInv, NEW e \in Ep, NEW n \in Con, n = ep[e].lan,
         UNCHANGED <<lan, ncon>>,
         ep' \in [Ep -> EpRec], net' \in [Con -> ConRec],
         \A f \in Ep : f # e => ep'[f] = ep[f],
         \A k \in Con : k # n => net'[k] = net[k],
         ep'[e].lan = n, ep'[e].pend \in {0, ep[e].pend},
         net'[n].owner = net[n].owner, net'[n].sig = net[n].sig,
         \/ /\ net'[n].trf = net[n].trf /\ net'[n].opening = net[n].opening
            /\ ep'[e].traf = ep[e].traf
         \/ /\ net'[n].trf = {"e", "l"} /\ net'[n].opening
            /\ ep'[e].traf = n /\ ~Dead /\ HasRec(n),
         LS(n) => Stage(n)'
  PROVE  IInv'
<1>1. /\ Typed /\ Owned /\ SlotEnds /\ LanEnds /\ Recs /\ Dialog
      /\ net[n].owner = {e} /\ ES(n)
  BY DEF IInv, Links, SlotEnds
<1>2. (Dead' <=> Dead) /\ \A k \in Con : HasRec(k)' <=> HasRec(k)
  BY DEF Dead, HasRec
<1>3. \A k \in Con : /\ net'[k].owner = net[k].owner
                     /\ ES(k)' <=> ES(k)
                     /\ LS(k)' <=> LS(k)
                     /\ k # n => (ET(k)' <=> ET(k)) /\ (LT(k)' <=> LT(k))
  BY DEF ES, LS, ET, LT
<1>4. \/ /\ ET(n)' <=> ET(n)
         /\ LT(n)' <=> LT(n)
         /\ net'[n].opening = net[n].opening /\ ep'[e].traf = ep[e].traf
      \/ /\ ET(n)' /\ LT(n)' /\ net'[n].opening
         /\ ep'[e].traf = n /\ ~Dead /\ HasRec(n)
  BY DEF ET, LT
<1>5. Typed'
  <2>1. \A f \in Ep : ep'[f].pend <= ncon
    BY <1>1, RankAssumption DEF Typed
  <2>2. QED BY <1>1, <2>1 DEF Typed
<1>6. Links'
  <2>1. Owned'
    BY <1>1, <1>3 DEF Owned
  <2>2. SlotEnds'
    <3> SUFFICES ASSUME NEW f \in Ep, NEW m \in Con
                 PROVE  /\ ep'[f].lan = m => /\ net'[m].owner = {f} /\ ES(m)'
                                             /\ \A k \in Con : k > m => net'[k].owner # {f}
                        /\ ep'[f].traf = m => /\ net'[m].owner = {f} /\ ET(m)'
                                              /\ ep'[f].lan \in {0, m}
                                              /\ ~Dead' => ep'[f].lan = m
                        /\ net'[m].owner = {f} => /\ ES(m)' => ep'[f].lan = m
                                                  /\ ET(m)' => ep'[f].traf = m
      BY DEF SlotEnds
    <3>0. n # 0
      BY DEF Con
    <3>1. CASE f = e
      <4>1. m # n => ep[e].traf # m
        BY <1>1, <3>0 DEF SlotEnds
      <4>2. QED BY <1>1, <1>2, <1>3, <1>4, <3>1, <4>1 DEF SlotEnds
    <3>2. CASE f # e
      <4>1. ep'[f] = ep[f] /\ net[n].owner # {f}
        BY <1>1, <3>2
      <4>2. ep[f].lan # n /\ ep[f].traf # n
        BY <1>1, <4>1 DEF SlotEnds
      <4>3. CASE m = n
        BY <1>3, <4>1, <4>2, <4>3
      <4>4. CASE m # n
        <5>1. ET(m)' <=> ET(m)
          BY <1>3, <4>4
        <5>2. /\ ep[f].lan = m => net[m].owner = {f} /\ ES(m)
              /\ ep[f].lan = m => \A k \in Con : k > m => net[k].owner # {f}
              /\ ep[f].traf = m => /\ net[m].owner = {f} /\ ET(m)
                                   /\ ep[f].lan \in {0, m}
                                   /\ ~Dead => ep[f].lan = m
              /\ net[m].owner = {f} => (ES(m) => ep[f].lan = m) /\ (ET(m) => ep[f].traf = m)
          BY <1>1 DEF SlotEnds
        <5>3. QED BY <1>2, <1>3, <4>1, <5>1, <5>2
      <4>5. QED BY <4>3, <4>4
    <3>3. QED BY <3>1, <3>2
  <2>3. LanEnds'
    BY <1>1, <1>2, <1>3, <1>4 DEF LanEnds
  <2>4. QED BY <2>1, <2>2, <2>3 DEF Links
<1>7. Recs'
  <2>1. \A k \in Con : /\ LS(k) => LS(k)'
                       /\ LT(k) => LT(k)'
                       /\ ET(k)' /\ ~net'[k].opening => ET(k) /\ ~net[k].opening
    BY <1>3, <1>4
  <2>2. ~Dead => \A m, k \in Con :
          HasRec(m) /\ net'[k].owner = net'[m].owner /\ (HasRec(k) \/ k < m) =>
            /\ net[k].owner = net[m].owner
            /\ k < m => /\ ES(k)' => ES(k)
                        /\ LS(k)' => LS(k)
                        /\ ET(k)' => ET(k)
                        /\ LT(k)' => LT(k)
    <3> SUFFICES ASSUME ~Dead, NEW m \in Con, NEW k \in Con, HasRec(m),
                        net[k].owner = net[m].owner
                 PROVE  k < m => /\ ES(k)' => ES(k)
                                 /\ LS(k)' => LS(k)
                                 /\ ET(k)' => ET(k)
                                 /\ LT(k)' => LT(k)
      BY <1>3
    <3>1. CASE k # n
      BY <1>3, <3>1
    <3>2. CASE k = n
      <4>1. HasRec(n) => m = n
        BY <1>1, <3>2 DEF Recs, RecsSound
      <4>2. ~(n < n)
        BY DEF Con
      <4>3. QED BY <1>3, <1>4, <3>2, <4>1, <4>2
    <3>3. QED BY <3>1, <3>2
  <2>3. QED BY <1>1, <2>1, <2>2, RecsSlot
<1>8. Dialog'
  <2> SUFFICES ASSUME NEW k \in Con, ES(k)', LS(k)' PROVE Stage(k)'
    BY StageIffNext
  <2>1. CASE k = n
    BY <1>3, <2>1
  <2>2. CASE k # n
    <3>1. ES(k) /\ LS(k)
      BY <1>3
    <3>2. Stage(k)
      BY <1>1, <3>1, StageIff
    <3>3. net[k].owner # {e}
      BY <1>1, <2>2, <3>1 DEF SlotEnds
    <3>4. \A f \in Ep : net[k].owner = {f} => ep'[f].ok = ep[f].ok
      BY <3>3
    <3>5. QED BY <1>3, <2>2, <3>2, <3>4, StageKept
  <2>3. QED BY <2>1, <2>2
<1>9. QED BY <1>5, <1>6, <1>7, <1>8 DEF IInv

\* The sequences of a dialog.
LEMMA Short ==
  ASSUME NEW x, NEW y
  PROVE  /\ Head(<<x>>) = x /\ Tail(<<x>>) = <<>>
         /\ Head(<<x, y>>) = x /\ Tail(<<x, y>>) = <<y>>
         /\ Append(<<>>, x) = <<x>>
         /\ Append(<<x>>, y) = <<x, y>>
<1>1. Head(<<x>>) = x /\ Tail(<<x>>) = <<>> /\ Append(<<>>, x) = <<x>>
  OBVIOUS
<1>2. Head(<<x, y>>) = x
  OBVIOUS
<1>3. Tail(<<x, y>>) = <<y>>
  OBVIOUS
<1>4. Append(<<x>>, y) = <<x, y>>
  <2> DEFINE S == {x, y}
  <2>1. <<x>> \in Seq(S) /\ <<x, y>> \in Seq(S) /\ x \in S /\ y \in S
    OBVIOUS
  <2>2. /\ Len(<<x>>) = 1 /\ Len(<<x, y>>) = 2 /\ <<x>>[1] = x
        /\ <<x, y>>[1] = x /\ <<x, y>>[2] = y
    OBVIOUS
  <2> HIDE DEF S
  <2>3. /\ Append(<<x>>, y) \in Seq(S)
        /\ Len(Append(<<x>>, y)) = 2
        /\ Append(<<x>>, y)[1] = x
        /\ Append(<<x>>, y)[2] = y
    BY <2>1, <2>2, AppendProperties
  <2>4. \A i \in 1 .. 2 : Append(<<x>>, y)[i] = <<x, y>>[i]
    BY <2>2, <2>3
  <2>5. QED BY <2>1, <2>2, <2>3, <2>4, SeqEqual
<1>5. QED BY <1>1, <1>2, <1>3, <1>4

\* lan_diag of lib_muend: each message has the answer the dialog goes on with.
LEMMA RecvInv ==
  ASSUME IInv, NEW e \in Ep, EpRecv(e)
  PROVE  IInv'
<1>0. ep[e].lan # 0 /\ ep[e].lan \in 0 .. MaxCon
  BY Fields DEF EpRecv, IInv
<1>. PICK n \in Con : n = ep[e].lan
  BY <1>0, RankAssumption DEF Con
<1> DEFINE m == Head(net[n].down)
           nt == [net EXCEPT ![n].down = Tail(@)]
<1>1. /\ Typed /\ Owned /\ SlotEnds /\ LanEnds /\ Recs /\ Dialog
      /\ ep \in [Ep -> EpRec] /\ net \in [Con -> ConRec] /\ UNCHANGED <<lan, ncon>>
  BY DEF IInv, Links, Typed, EpRecv
<1>2. /\ ES(n) /\ net[n].owner = {e} /\ net[n].down # <<>>
      /\ ~Dead => LS(n)
      /\ n # 0
  BY <1>1 DEF EpRecv, SlotEnds, LanEnds, Con
<1>3. /\ nt \in [Con -> ConRec]
      /\ \A k \in Con : k # n => nt[k] = net[k]
      /\ nt[n] = [net[n] EXCEPT !.down = Tail(@)]
  <2>1. net[n] \in ConRec
    BY <1>1
  <2>2. Tail(net[n].down) \in Seq(DownMsg)
    BY <1>2, <2>1 DEF ConRec
  <2>3. [net[n] EXCEPT !.down = Tail(@)] \in ConRec
    BY <2>1, <2>2 DEF ConRec
  <2>4. QED BY <1>1, <2>3
<1>4. /\ nt[n].owner = net[n].owner /\ nt[n].sig = net[n].sig /\ nt[n].trf = net[n].trf
      /\ nt[n].up = net[n].up /\ nt[n].opening = net[n].opening
      /\ nt[n].down = Tail(net[n].down)
  BY <1>1, <1>3 DEF ConRec
<1>5. /\ nt[n].sig = {"e", "l"} <=> LS(n)
      /\ LS(n) => ~Dead /\ Stage(n) /\ (lan.st = "run" \/ lan.st = "quit")
  <2>1. net[n].sig = {"e", "l"} <=> LS(n)
    BY <1>1, <1>2, Ends, Fields DEF ES, LS
  <2>2. LS(n) => ~Dead /\ Stage(n)
    BY <1>1, <1>2, StageIff DEF LanEnds
  <2>3. QED BY <1>1, <1>4, <2>1, <2>2, Fields DEF Dead
<1>6. lan' = lan /\ \A k \in Con : HasRec(k)' <=> HasRec(k)
  BY <1>1 DEF HasRec
<1>7. \/ /\ m.k = "handshake_ok"
         /\ net' = SendUp(nt, n, Msg("req_rank"))
         /\ ep' = ep
      \/ /\ m.k = "alloc_ok" /\ lan.st = "run"
         /\ ep' = [ep EXCEPT ![e].traf = n]
         /\ net' = SendUp([nt EXCEPT ![n].trf = {"e", "l"}, ![n].opening = TRUE],
                          n, Ack(m.rank))
      \/ /\ m.k = "start"
         /\ ep' = [ep EXCEPT ![e].ok = n, ![e].pend = 0]
         /\ net' = nt
      \/ ep' = Finished(e) /\ net' = FinishNet(nt, e)
  BY DEF EpRecv
<1>8. CASE ep' = Finished(e) /\ net' = FinishNet(nt, e)
  <2>1. \A k \in Con : /\ nt[k].owner = net[k].owner
                       /\ nt[k].sig = net[k].sig
                       /\ nt[k].trf = net[k].trf
                       /\ nt[k].up = net[k].up
                       /\ nt[k].opening = net[k].opening
                       /\ k # ep[e].lan => nt[k].down = net[k].down
    BY <1>3, <1>4
  <2>2. nt \in [Con -> ConRec]
    BY <1>3
  <2> HIDE DEF nt, m
  <2>3. QED BY <1>1, <1>8, <2>1, <2>2, CloseInv
<1>9. ASSUME LS(n)
      PROVE  /\ m.k = "handshake_ok" => Tail(net[n].down) = <<>> /\ net[n].up = <<>>
             /\ m.k = "handshake_ok" /\ lan.st = "run" => Fresh(n)
             /\ m.k = "alloc_ok" /\ lan.st = "run" =>
                  /\ Tail(net[n].down) = <<>> /\ net[n].up = <<>>
                  /\ m.rank = lan.rec[n].pre /\ Granted(n)
             /\ m.k = "start" => net[n].up = <<>>
             /\ m.k = "start" /\ lan.st = "run" =>
                  Tail(net[n].down) = <<>> /\ lan.rec[n].rank # 0 /\ ET(n)
             /\ m.k = "start" /\ lan.st = "quit" =>
                  Tail(net[n].down) \in {<<>>, <<Msg("end")>>}
  <2>1. CASE lan.st = "run"
    <3>1. Answered(n)
      BY <1>2, <1>5, <1>9, <2>1 DEF Stage, Asking, Started
    <3>2. /\ net[n].up = <<>>
          /\ \/ net[n].down = <<Msg("handshake_ok")>> /\ Fresh(n)
             \/ net[n].down = <<Msg("alloc_ko")>>
             \/ net[n].down = <<AllocOk(lan.rec[n].pre)>> /\ Granted(n)
             \/ net[n].down = <<Msg("start")>> /\ lan.rec[n].rank # 0 /\ ET(n)
      BY <3>1 DEF Answered
    <3>3. CASE net[n].down = <<Msg("handshake_ok")>> /\ Fresh(n)
      <4>1. m.k = "handshake_ok" /\ Tail(net[n].down) = <<>>
        BY <3>3, Short DEF Msg
      <4>2. QED BY <2>1, <3>2, <3>3, <4>1
    <3>4. CASE net[n].down = <<Msg("alloc_ko")>>
      <4>1. m.k = "alloc_ko"
        BY <3>4, Short DEF Msg
      <4>2. QED BY <4>1
    <3>5. CASE net[n].down = <<AllocOk(lan.rec[n].pre)>> /\ Granted(n)
      <4>1. m.k = "alloc_ok" /\ m.rank = lan.rec[n].pre /\ Tail(net[n].down) = <<>>
        BY <3>5, Short DEF AllocOk
      <4>2. QED BY <3>2, <3>5, <4>1
    <3>6. CASE net[n].down = <<Msg("start")>> /\ lan.rec[n].rank # 0 /\ ET(n)
      <4>1. m.k = "start" /\ Tail(net[n].down) = <<>>
        BY <3>6, Short DEF Msg
      <4>2. QED BY <2>1, <3>2, <3>6, <4>1
    <3>7. QED BY <3>2, <3>3, <3>4, <3>5, <3>6
  <2>2. CASE lan.st = "quit"
    <3>1. Left(n)
      BY <1>5, <1>9, <2>2 DEF Stage
    <3>2. /\ net[n].up = <<>>
          /\ net[n].down \in {<<Msg("end")>>, <<Msg("start"), Msg("end")>>, <<Msg("start")>>,
                              <<Msg("handshake_ok")>>, <<Msg("alloc_ko")>>,
                              <<AllocOk(lan.rec[n].pre)>>}
      BY <1>2, <3>1 DEF Left
    <3>3. CASE net[n].down \in {<<Msg("end")>>, <<Msg("alloc_ko")>>,
                               <<AllocOk(lan.rec[n].pre)>>}
      <4>1. m.k \in {"end", "alloc_ko", "alloc_ok"}
        BY <3>3, Short DEF Msg, AllocOk
      <4>2. QED BY <2>2, <4>1
    <3>4. CASE net[n].down = <<Msg("handshake_ok")>>
      <4>1. m.k = "handshake_ok" /\ Tail(net[n].down) = <<>>
        BY <3>4, Short DEF Msg
      <4>2. QED BY <2>2, <3>2, <4>1
    <3>5. CASE net[n].down = <<Msg("start")>> \/ net[n].down = <<Msg("start"), Msg("end")>>
      <4>1. Head(net[n].down) = Msg("start") /\ Tail(net[n].down) \in {<<>>, <<Msg("end")>>}
        <5>1. CASE net[n].down = <<Msg("start")>>
          BY <5>1, Short
        <5>2. CASE net[n].down = <<Msg("start"), Msg("end")>>
          <6>1. Head(net[n].down) = Msg("start")
            BY <5>2, Short
          <6>2. Tail(net[n].down) = <<Msg("end")>>
            BY <5>2, Short
          <6>3. QED BY <6>1, <6>2
        <5>3. QED BY <3>5, <5>1, <5>2
      <4>2. m.k = "start"
        BY <4>1 DEF Msg
      <4>3. QED BY <2>2, <3>2, <4>1, <4>2
    <3>6. QED BY <3>2, <3>3, <3>4, <3>5
  <2>3. QED BY <1>5, <1>9, <2>1, <2>2
<1> HIDE DEF m, nt
<1>10. CASE m.k = "handshake_ok" /\ net' = SendUp(nt, n, Msg("req_rank")) /\ ep' = ep
  <2> DEFINE r == IF LS(n) THEN [nt[n] EXCEPT !.up = Append(@, Msg("req_rank"))] ELSE nt[n]
  <2>1. net' = [nt EXCEPT ![n] = r]
    BY <1>3, <1>5, <1>10 DEF SendUp
  <2>2. LS(n) => Append(net[n].up, Msg("req_rank")) = <<Msg("req_rank")>>
    BY <1>9, <1>10, Short
  <2>3. nt[n] \in ConRec
    BY <1>3
  <2>4. r \in ConRec
    <3>1. <<Msg("req_rank")>> \in {<<>>} \cup {<<x>> : x \in UpMsg}
      BY DEF UpMsg
    <3>2. CASE LS(n)
      <4>1. r = [nt[n] EXCEPT !.up = <<Msg("req_rank")>>]
        BY <1>4, <2>2, <3>2
      <4>2. QED BY <2>3, <3>1, <4>1 DEF ConRec
    <3>3. QED BY <2>3, <3>2
  <2>5. /\ r.owner = net[n].owner /\ r.sig = net[n].sig /\ r.trf = net[n].trf
        /\ r.opening = net[n].opening
        /\ r.down = Tail(net[n].down)
        /\ LS(n) => r.up = <<Msg("req_rank")>>
    BY <1>4, <2>2, <2>3 DEF ConRec
  <2> HIDE DEF r
  <2>6. /\ net' \in [Con -> ConRec] /\ net'[n] = r
        /\ \A k \in Con : k # n => net'[k] = net[k]
    BY <1>3, <2>1, <2>4
  <2>7. ASSUME LS(n) PROVE Stage(n)'
    <3>1. (ET(n)' <=> ET(n)) /\ (LT(n)' <=> LT(n))
      BY <2>5, <2>6 DEF ET, LT
    <3>2. lan.st = "run" => Fresh(n)'
      BY <1>6, <1>9, <1>10, <2>7, <3>1 DEF Fresh
    <3>3. net'[n].up = <<Msg("req_rank")>> /\ net'[n].down = <<>>
      BY <1>9, <1>10, <2>5, <2>6, <2>7
    <3>4. (lan.st = "run" => Asking(n)') /\ Left(n)'
      BY <3>2, <3>3 DEF Asking, Left
    <3>5. QED BY <1>6, <3>4 DEF Stage
  <2>8. ep' \in [Ep -> EpRec] /\ ep'[e] = ep[e] /\ \A f \in Ep : f # e => ep'[f] = ep[f]
    BY <1>1, <1>10
  <2>9. net'[n].trf = net[n].trf /\ net'[n].opening = net[n].opening
    BY <2>5, <2>6
  <2>10. QED BY <1>1, <2>5, <2>6, <2>7, <2>8, <2>9, ReadInv
<1>11. CASE /\ m.k = "alloc_ok" /\ lan.st = "run"
            /\ ep' = [ep EXCEPT ![e].traf = n]
            /\ net' = SendUp([nt EXCEPT ![n].trf = {"e", "l"}, ![n].opening = TRUE],
                             n, Ack(m.rank))
  <2>1. LS(n) /\ ~Dead
    BY <1>2, <1>11 DEF Dead
  <2>2. nt[n] \in ConRec /\ nt[n].up = <<>> /\ m.rank = lan.rec[n].pre /\ Granted(n)
    BY <1>3, <1>4, <1>9, <1>11, <2>1
  <2> DEFINE r == [nt[n] EXCEPT !.trf = {"e", "l"}, !.opening = TRUE, !.up = <<Ack(m.rank)>>]
             t == [nt EXCEPT ![n].trf = {"e", "l"}, ![n].opening = TRUE]
  <2>3. /\ t \in [Con -> ConRec]
        /\ t[n] = [nt[n] EXCEPT !.trf = {"e", "l"}, !.opening = TRUE]
        /\ \A k \in Con : k # n => t[k] = nt[k]
    <3>1. [nt[n] EXCEPT !.trf = {"e", "l"}, !.opening = TRUE] \in ConRec
      BY <2>2 DEF ConRec
    <3>2. t[n] = [nt[n] EXCEPT !.trf = {"e", "l"}, !.opening = TRUE]
      BY <1>3
    <3>3. QED BY <1>3, <3>1, <3>2
  <2> HIDE DEF t
  <2>4. t[n].sig = {"e", "l"} /\ t[n].up = <<>>
    BY <1>5, <2>1, <2>2, <2>3 DEF ConRec
  <2>5. net' = [t EXCEPT ![n].up = <<Ack(m.rank)>>]
    <3>1. Append(<<>>, Ack(m.rank)) = <<Ack(m.rank)>>
      OBVIOUS
    <3>2. net' = [t EXCEPT ![n].up = Append(t[n].up, Ack(m.rank))]
      BY <1>11, <2>4 DEF SendUp, t
    <3>3. QED BY <2>4, <3>1, <3>2
  <2>6. r \in ConRec
    <3>1. m.rank \in Rank
      BY <1>1, <2>2, Fields, RankAssumption DEF Granted, HasRec, Rank
    <3>2. <<Ack(m.rank)>> \in {<<>>} \cup {<<x>> : x \in UpMsg}
      BY <3>1 DEF UpMsg
    <3>3. QED BY <2>2, <3>2 DEF ConRec
  <2>7. /\ r.owner = net[n].owner /\ r.sig = net[n].sig /\ r.trf = {"e", "l"}
        /\ r.opening /\ r.down = Tail(net[n].down) /\ r.up = <<Ack(m.rank)>>
    BY <1>4, <2>2 DEF ConRec
  <2>8. net'[n] = r /\ net' \in [Con -> ConRec] /\ \A k \in Con : k # n => net'[k] = net[k]
    <3>1. net'[n] = r
      BY <2>2, <2>3, <2>5 DEF ConRec
    <3>2. QED BY <1>3, <2>3, <2>5, <2>6, <3>1
  <2> HIDE DEF r
  <2>9. Stage(n)'
    <3>1. ET(n)' /\ Granted(n)'
      BY <1>6, <2>2, <2>7, <2>8 DEF ET, Granted
    <3>2. net'[n].up = <<Ack(lan.rec[n].pre)>> /\ net'[n].down = <<>>
      BY <1>9, <1>11, <2>1, <2>2, <2>7, <2>8
    <3>3. Asking(n)'
      BY <1>6, <3>1, <3>2 DEF Asking
    <3>4. QED BY <1>6, <1>11, <3>3 DEF Stage
  <2>10. /\ ep' \in [Ep -> EpRec] /\ \A f \in Ep : f # e => ep'[f] = ep[f]
         /\ ep'[e].traf = n /\ ep'[e].lan = n /\ ep'[e].pend = ep[e].pend
    <3>1. ep[e] \in EpRec /\ n \in 0 .. MaxCon
      BY <1>1, RankAssumption DEF Con
    <3>2. [ep[e] EXCEPT !.traf = n] \in EpRec
      BY <3>1 DEF EpRec
    <3>3. ep'[e] = [ep[e] EXCEPT !.traf = n]
      BY <1>1, <1>11
    <3>4. ep'[e].traf = n /\ ep'[e].lan = n /\ ep'[e].pend = ep[e].pend
      BY <3>1, <3>3 DEF EpRec
    <3>5. QED BY <1>1, <1>11, <3>2, <3>4
  <2>11. net'[n].trf = {"e", "l"} /\ net'[n].opening
    BY <2>7, <2>8
  <2>12. HasRec(n)
    BY <2>2 DEF Granted
  <2>13. QED BY <1>1, <2>1, <2>7, <2>8, <2>9, <2>10, <2>11, <2>12, ReadInv
<1>12. CASE m.k = "start" /\ ep' = [ep EXCEPT ![e].ok = n, ![e].pend = 0] /\ net' = nt
  <2>1. /\ ep' \in [Ep -> EpRec] /\ \A f \in Ep : f # e => ep'[f] = ep[f]
        /\ ep'[e].traf = ep[e].traf /\ ep'[e].lan = n /\ ep'[e].pend = 0 /\ ep'[e].ok = n
    <3>1. ep[e] \in EpRec /\ n \in 0 .. MaxCon
      BY <1>1, RankAssumption DEF Con
    <3>2. [ep[e] EXCEPT !.ok = n, !.pend = 0] \in EpRec
      BY <3>1 DEF EpRec
    <3>3. ep'[e] = [ep[e] EXCEPT !.ok = n, !.pend = 0]
      BY <1>1, <1>12
    <3>4. ep'[e].traf = ep[e].traf /\ ep'[e].lan = n /\ ep'[e].pend = 0 /\ ep'[e].ok = n
      BY <3>1, <3>3 DEF EpRec
    <3>5. QED BY <1>1, <1>12, <3>2, <3>4
  <2>2. ASSUME LS(n) PROVE Stage(n)'
    <3>1. /\ net'[n].up = <<>> /\ net'[n].down = Tail(net[n].down)
          /\ ET(n)' <=> ET(n)
      BY <1>4, <1>9, <1>12, <2>2 DEF ET
    <3>2. \A f \in Ep : net'[n].owner = {f} => f = e
      BY <1>2, <1>4, <1>12
    <3>3. lan.st = "run" => Started(n)'
      <4>1. lan.st = "run" => lan'.rec[n].rank # 0 /\ ET(n)' /\ net'[n].down = <<>>
        BY <1>6, <1>9, <1>12, <2>2, <3>1
      <4>2. QED BY <2>1, <3>1, <3>2, <4>1 DEF Started
    <3>4. lan.st = "quit" => Left(n)'
      BY <1>9, <1>12, <2>2, <3>1 DEF Left
    <3>5. QED BY <1>6, <3>3, <3>4 DEF Stage
  <2>3. /\ net' \in [Con -> ConRec] /\ \A k \in Con : k # n => net'[k] = net[k]
        /\ net'[n].owner = net[n].owner /\ net'[n].sig = net[n].sig
        /\ net'[n].trf = net[n].trf /\ net'[n].opening = net[n].opening
    BY <1>3, <1>4, <1>12
  <2>4. QED BY <1>1, <2>1, <2>2, <2>3, ReadInv
<1>13. QED BY <1>7, <1>8, <1>10, <1>11, <1>12

\* The steps of a slot that close what it has.
LEMMA LeaveInv ==
  ASSUME IInv, NEW e \in Ep, EpErrTraf(e) \/ EpTimeout(e) \/ EpDisconnect(e)
  PROVE  IInv'
<1>1. net \in [Con -> ConRec]
  BY DEF IInv, Typed
<1>2. /\ ep' \in {Finished(e), [Finished(e) EXCEPT ![e].pend = 0]}
      /\ net' = FinishNet(net, e) /\ UNCHANGED <<lan, ncon>>
  BY DEF EpErrTraf, EpTimeout, EpDisconnect
<1>3. QED BY <1>1, <1>2, CloseInv

-----------------------------------------------------------------------------
(* The ranks that the LAN process chooses.                                   *)

\* A set of numbers has a least member.
LEMMA LeastExists ==
  ASSUME NEW T \in SUBSET Nat, T # {}
  PROVE  \E x \in T : \A y \in T : x <= y
<1> DEFINE R == OpToRel(<, Nat)
<1>1. IsWellFoundedOn(R, Nat)
  BY NatLessThanWellFounded
<1>2. PICK x \in T : \A y \in T : <<y, x>> \notin R
  <2> HIDE DEF R
  <2>1. QED BY <1>1, WFMin
<1>3. \A y \in T : <<y, x>> \in R <=> y < x
  BY DEF OpToRel
<1> HIDE DEF R
<1>4. \A y \in T : x \in Nat /\ y \in Nat /\ ~(y < x)
  BY <1>2, <1>3
<1>5. \A y \in T : x <= y
  BY <1>4
<1>6. QED BY <1>5

\* rank_get_free chooses a rank that no record has.
LEMMA FreeRank ==
  ASSUME Typed
  PROVE  /\ RankGetFree(lan) \in 0 .. MAX_USOCK_RANKS - 1
         /\ RankGetFree(lan) # 0 =>
              /\ RankGetFree(lan) \in Rank
              /\ \A n \in Con : lan.rec[n].pre # RankGetFree(lan)
<1> DEFINE free == {r \in Rank : lan.present[r] = 0 /\ \A n \in Con : lan.rec[n].pre # r}
<1>1. CASE free = {}
  BY <1>1, RankAssumption DEF RankGetFree
<1>2. CASE free # {}
  <2>1. free \in SUBSET Nat
    BY RankAssumption DEF Rank
  <2>2. \E m \in free : \A k \in free : m <= k
    <3> HIDE DEF free
    <3>1. QED BY <1>2, <2>1, LeastExists
  <2>3. Min(free) \in free
    <3> HIDE DEF free
    <3>1. QED BY <2>2 DEF Min
  <2>4. RankGetFree(lan) = Min(free)
    BY <1>2 DEF RankGetFree
  <2>5. RankGetFree(lan) \in Rank /\ \A n \in Con : lan.rec[n].pre # RankGetFree(lan)
    BY <2>3, <2>4
  <2>6. RankGetFree(lan) \in 0 .. MAX_USOCK_RANKS - 1
    BY <2>5, RankAssumption DEF Rank
  <2>7. QED BY <2>5, <2>6
<1>3. QED BY <1>1, <1>2

\* adjust_max_rank: the loops over the ranks stop above those in use.
LEMMA MaxAbove ==
  ASSUME NEW p \in [Rank -> 0 .. MaxCon]
  PROVE  /\ AdjustMax(p) \in Nat
         /\ \A r \in Rank : p[r] # 0 => r < AdjustMax(p)
<1> DEFINE used == {r \in Rank : p[r] # 0}
<1>0. used \subseteq Rank /\ \A r \in Rank : r \in Nat /\ MAX_USOCK_RANKS - r \in Nat
  BY RankAssumption DEF Rank
<1>1. CASE used = {}
  BY <1>1 DEF AdjustMax
<1>2. CASE used # {}
  <2> DEFINE N == MAX_USOCK_RANKS
             below == {N - r : r \in used}
  <2>1. below \in SUBSET Nat /\ below # {}
    BY <1>0, <1>2
  <2>2. PICK m \in below : \A k \in below : m <= k
    <3> HIDE DEF below
    <3>1. QED BY <2>1, LeastExists
  <2>3. PICK q \in used : m = N - q
    OBVIOUS
  <2>4. \A r \in used : q >= r
    <3> SUFFICES ASSUME NEW r \in used PROVE q >= r
      OBVIOUS
    <3>1. N - r \in below
      OBVIOUS
    <3>2. N - q <= N - r
      BY <2>2, <2>3, <3>1
    <3>3. r \in Nat /\ q \in Nat /\ N \in Nat
      BY <1>0, RankAssumption
    <3>4. QED BY <3>2, <3>3
  <2>5. Max(used) \in used /\ \A y \in used : Max(used) >= y
    <3>1. \E x \in used : \A y \in used : x >= y
      BY <2>4
    <3> HIDE DEF used
    <3>2. QED BY <3>1 DEF Max
  <2>6. AdjustMax(p) = Max(used) + 1
    BY <1>2 DEF AdjustMax
  <2>7. Max(used) \in Nat /\ \A r \in used : r \in Nat
    BY <1>0, <2>5
  <2>8. \A r \in used : r < AdjustMax(p)
    <3> HIDE DEF used
    <3>1. QED BY <2>5, <2>6, <2>7
  <2>9. AdjustMax(p) \in Nat
    <3> HIDE DEF used
    <3>1. QED BY <2>6, <2>7
  <2>10. QED BY <2>8, <2>9
<1>3. QED BY <1>1, <1>2

-----------------------------------------------------------------------------
(* The steps of the LAN process.                                             *)

\* The event loop serves a channel after the ends of the connections its slot
\* made before it.
LEMMA EarlierEnded ==
  ASSUME IInv, ~Dead, NEW n \in Con, net[n].owner # {}, Ready(n),
         NEW k \in Con, k < n, net[k].owner = net[n].owner
  PROVE  ~ES(k) /\ ~LS(k) /\ ~ET(k) /\ ~LT(k)
<1>1. Typed /\ Owned /\ SlotEnds /\ LanEnds
  BY DEF IInv, Links
<1>2. PICK e \in Ep : net[n].owner = {e}
  BY <1>1 DEF Owned
<1>3. k \in 1 .. n - 1 /\ n > k
  BY DEF Con
<1>4. ~ES(k) /\ ~ET(k)
  BY <1>1, <1>2, <1>3 DEF SlotEnds
<1>5. net[k].sig # {"l"} /\ net[k].trf # {"l"}
  BY <1>3 DEF Ready
<1>6. QED BY <1>1, <1>4, <1>5, Ends, Fields DEF ES, LS, ET, LT

\* A slot has one record, that of its last connection.
LEMMA OneRecord ==
  ASSUME IInv, ~Dead, NEW n \in Con, net[n].owner # {}, Ready(n), LS(n) \/ LT(n),
         NEW k \in Con, HasRec(k), net[k].owner = net[n].owner
  PROVE  k = n \/ (k > n /\ ~ES(n) /\ ~LT(n))
<1>1. RecsSound
  BY DEF IInv, Recs
<1>2. k < n => ~LS(k)
  BY EarlierEnded
<1>3. LS(k)
  BY <1>1 DEF RecsSound
<1>4. k > n => ~ES(n) /\ ~LT(n)
  <2>1. k > n => n < k
    BY DEF Con
  <2>2. QED BY <1>1, <2>1 DEF RecsSound
<1>5. k < n \/ k = n \/ k > n
  BY DEF Con
<1>6. QED BY <1>2, <1>3, <1>4, <1>5

\* A message of connection n is read.
LEMMA HearInv ==
  ASSUME IInv, ~Dead, NEW n \in Con, UNCHANGED <<ep, ncon>>,
         net' \in [Con -> ConRec], lan' \in LanRec, lan'.st = lan.st,
         \A k \in Con : k # n => net'[k] = net[k],
         net'[n].owner = net[n].owner, net'[n].sig = net[n].sig,
         net'[n].trf = net[n].trf, net'[n].opening = net[n].opening,
         \A k \in Con : k # n => lan'.rec[k] = lan.rec[k],
         HasRec(n) => HasRec(n)',
         Recs', ES(n) /\ LS(n) => Stage(n)'
  PROVE  IInv'
<1>1. Typed /\ Links /\ Recs /\ Dialog
  BY DEF IInv
<1>2. \A k \in Con : /\ net'[k].owner = net[k].owner
                     /\ ES(k)' <=> ES(k)
                     /\ LS(k)' <=> LS(k)
                     /\ ET(k)' <=> ET(k)
                     /\ LT(k)' <=> LT(k)
                     /\ HasRec(k) => HasRec(k)'
  BY DEF ES, LS, ET, LT, HasRec
<1>3. (Dead' <=> Dead) /\ ~Dead'
  BY DEF Dead
<1>4. Typed'
  BY <1>1 DEF Typed
<1>5. Links'
  <2>1. \A k \in Con : /\ LS(k)' => LS(k) /\ ~Dead'
                       /\ LT(k)' => LT(k) /\ ~Dead'
                       /\ ~Dead' /\ ES(k) => LS(k)'
                       /\ ~Dead' /\ ET(k) => LT(k)' /\ HasRec(k)'
    BY <1>1, <1>2, <1>3 DEF Links, LanEnds
  <2>2. QED BY <1>1, <1>2, <1>3, <2>1, LinksLan
<1>6. Dialog'
  <2> SUFFICES ASSUME NEW k \in Con, ES(k)', LS(k)' PROVE Stage(k)'
    BY StageIffNext
  <2>1. CASE k = n
    BY <1>2, <2>1
  <2>2. CASE k # n
    <3>1. ES(k) /\ LS(k)
      BY <1>2
    <3>2. Stage(k)
      BY <1>1, <3>1, StageIff
    <3>3. QED BY <1>2, <2>2, <3>2, StageKept
  <2>3. QED BY <2>1, <2>2
<1>7. QED BY <1>1, <1>4, <1>5, <1>6 DEF IInv

\* What is kept when the records are not touched.
LEMMA RecsHeard ==
  ASSUME Recs, UNCHANGED lan, NEW n \in Con,
         \A k \in Con : k # n => net'[k] = net[k],
         net'[n].owner = net[n].owner, net'[n].sig = net[n].sig,
         net'[n].trf = net[n].trf, net'[n].opening = net[n].opening
  PROVE  Recs'
<1>1. \A k \in Con : /\ net'[k].owner = net[k].owner
                     /\ net'[k].opening = net[k].opening
                     /\ ES(k)' <=> ES(k)
                     /\ LS(k)' <=> LS(k)
                     /\ ET(k)' <=> ET(k)
                     /\ LT(k)' <=> LT(k)
  BY DEF ES, LS, ET, LT
<1>2. QED BY <1>1, RecsSlot

\* llid_rank_llid_create: the record of a slot that has no other one.
LEMMA CreateRecs ==
  ASSUME IInv, ~Dead, NEW n \in Con, net[n].owner # {}, Ready(n), LS(n),
         NEW r \in Rank,
         lan' = LlidCreate(lan, n, r),
         \A k \in Con : k # n => net'[k] = net[k],
         net'[n].owner = net[n].owner, net'[n].sig = net[n].sig,
         net'[n].trf = net[n].trf, net'[n].opening = net[n].opening
  PROVE  /\ Recs' /\ lan' \in LanRec /\ lan'.st = lan.st
         /\ \A k \in Con : k # n => lan'.rec[k] = lan.rec[k]
         /\ HasRec(n) => HasRec(n)'
         /\ (\A k \in Con : HasRec(k) => /\ net[k].owner # net[n].owner
                                         /\ k # n /\ lan.rec[k].pre # r)
            => lan'.rec[n].pre = r /\ lan'.rec[n].rank = 0
<1>1. Typed /\ Recs /\ lan \in LanRec
  BY DEF IInv, Typed
<1>2. CASE \E k \in Con : /\ lan.rec[k].pre # 0
                          /\ net[k].owner = net[n].owner \/ k = n \/ lan.rec[k].pre = r
  <2>1. lan' = lan
    BY <1>2 DEF LlidCreate
  <2>2. Recs'
    BY <1>1, <2>1, RecsHeard
  <2>3. ~ \A k \in Con : HasRec(k) => /\ net[k].owner # net[n].owner
                                      /\ k # n /\ lan.rec[k].pre # r
    BY <1>2 DEF HasRec
  <2>4. QED BY <1>1, <2>1, <2>2, <2>3 DEF HasRec
<1>3. CASE ~ \E k \in Con : /\ lan.rec[k].pre # 0
                            /\ net[k].owner = net[n].owner \/ k = n \/ lan.rec[k].pre = r
  <2> DEFINE q == [NoRec EXCEPT !.pre = r]
  <2>1. /\ q \in RankRec /\ q.pre = r /\ q.rank = 0 /\ q.traf = 0
        /\ r # 0
    BY RankAssumption DEF NoRec, RankRec, Rank
  <2> HIDE DEF q
  <2>2. lan' = [lan EXCEPT !.rec[n] = q]
    BY <1>3 DEF LlidCreate, q
  <2>3. /\ lan'.st = lan.st /\ lan'.present = lan.present /\ lan'.max = lan.max
        /\ lan'.chain = lan.chain /\ lan'.member = lan.member
        /\ lan'.rec = [lan.rec EXCEPT ![n] = q]
        /\ lan' \in LanRec
    <3>1. lan' = [lan EXCEPT !.rec = [lan.rec EXCEPT ![n] = q]]
      BY <1>1, <2>2 DEF LanRec
    <3>2. [lan.rec EXCEPT ![n] = q] \in [Con -> RankRec]
      BY <1>1, <2>1 DEF LanRec
    <3>3. QED BY <1>1, <3>1, <3>2 DEF LanRec
  <2>4. lan'.rec[n] = q /\ \A k \in Con : k # n => lan'.rec[k] = lan.rec[k]
    BY <1>1, <2>3 DEF LanRec
  <2>5. /\ HasRec(n)' /\ ~HasRec(n)
        /\ \A k \in Con : k # n => (HasRec(k)' <=> HasRec(k))
        /\ \A k \in Con : HasRec(k) => /\ net[k].owner # net[n].owner
                                       /\ lan.rec[k].pre # r
    BY <1>3, <2>1, <2>4 DEF HasRec
  <2>6. lan.rec[n] = NoRec /\ lan.rec[n].rank = 0 /\ lan.rec[n].traf = 0
    BY <1>1, <2>5 DEF Recs, RecsSound, NoRec
  <2>7. \A k \in Con : lan'.rec[k].rank = lan.rec[k].rank /\ lan'.rec[k].traf = lan.rec[k].traf
    BY <2>1, <2>4, <2>6
  <2>8. \A k \in Con : /\ net'[k].owner = net[k].owner
                       /\ net'[k].opening = net[k].opening
                       /\ ES(k)' <=> ES(k)
                       /\ LS(k)' <=> LS(k)
                       /\ ET(k)' <=> ET(k)
                       /\ LT(k)' <=> LT(k)
    BY DEF ES, LS, ET, LT
  <2>9. Dead' <=> Dead
    BY <2>3 DEF Dead
  <2>10. RecsSound'
    <3>1. \A m \in Con : /\ ~HasRec(m)' => lan'.rec[m] = NoRec
                         /\ ~Dead' /\ HasRec(m)' => LS(m)'
      BY <1>1, <2>4, <2>5, <2>8, <2>9 DEF Recs, RecsSound
    <3>2. \A m, k \in Con : HasRec(m)' /\ net'[k].owner = net'[m].owner =>
            /\ HasRec(k)' => k = m
            /\ k < m => ~ES(k)' /\ ~LS(k)' /\ ~ET(k)' /\ ~LT(k)'
      <4> SUFFICES ASSUME NEW m \in Con, NEW k \in Con, HasRec(m)',
                          net[k].owner = net[m].owner
                   PROVE  /\ HasRec(k)' => k = m
                          /\ k < m => ~ES(k) /\ ~LS(k) /\ ~ET(k) /\ ~LT(k)
        BY <2>8
      <4>1. CASE m = n
        <5>1. k < n => ~ES(k) /\ ~LS(k) /\ ~ET(k) /\ ~LT(k)
          BY <4>1, EarlierEnded
        <5>2. HasRec(k)' => k = n
          BY <2>5, <4>1
        <5>3. QED BY <4>1, <5>1, <5>2
      <4>2. CASE m # n
        <5>1. HasRec(m) /\ k # n
          BY <2>5, <4>2
        <5>2. /\ HasRec(k) => k = m
              /\ k < m => ~ES(k) /\ ~LS(k) /\ ~ET(k) /\ ~LT(k)
          BY <1>1, <5>1 DEF Recs, RecsSound
        <5>3. QED BY <2>5, <5>1, <5>2
      <4>3. QED BY <4>1, <4>2
    <3>3. QED BY <3>1, <3>2 DEF RecsSound
  <2>11. ChainSound'
    BY <1>1, <2>3, <2>7, <2>8, <2>9 DEF Recs, ChainSound
  <2>12. RanksSound'
    <3>1. \A m, k \in Con : HasRec(m)' /\ lan'.rec[m].pre = lan'.rec[k].pre => m = k
      <4> SUFFICES ASSUME NEW m \in Con, NEW k \in Con, HasRec(m)',
                          lan'.rec[m].pre = lan'.rec[k].pre, m # k
                   PROVE  FALSE
        OBVIOUS
      <4>1. HasRec(k)'
        BY DEF HasRec
      <4>2. CASE m = n
        BY <2>1, <2>4, <2>5, <4>1, <4>2
      <4>3. CASE k = n
        BY <2>1, <2>4, <2>5, <4>3
      <4>4. CASE m # n /\ k # n
        BY <1>1, <2>4, <2>5, <4>4 DEF Recs, RanksSound
      <4>5. QED BY <4>2, <4>3, <4>4
    <3>2. \A s \in Rank : lan'.present[s] # 0 =>
            lan'.rec[lan'.present[s]].rank = s /\ s < lan'.max
      <4> SUFFICES ASSUME NEW s \in Rank, lan.present[s] # 0
                   PROVE  lan'.rec[lan.present[s]].rank = s /\ s < lan.max
        BY <2>3
      <4>1. lan.present[s] \in Con
        BY <1>1, Fields, RankAssumption DEF Con
      <4>2. QED BY <1>1, <2>7, <4>1 DEF Recs, RanksSound
    <3>3. \A m \in Con : lan'.rec[m].rank # 0 =>
            /\ lan'.rec[m].rank = lan'.rec[m].pre
            /\ lan'.present[lan'.rec[m].rank] = m
      <4> SUFFICES ASSUME NEW m \in Con, lan'.rec[m].rank # 0
                   PROVE  /\ lan'.rec[m].rank = lan'.rec[m].pre
                          /\ lan'.present[lan'.rec[m].rank] = m
        OBVIOUS
      <4>1. m # n
        BY <2>1, <2>4
      <4>2. QED BY <1>1, <2>3, <2>4, <4>1 DEF Recs, RanksSound
    <3>4. QED BY <3>1, <3>2, <3>3 DEF RanksSound
  <2>13. QED BY <2>1, <2>3, <2>4, <2>5, <2>10, <2>11, <2>12 DEF Recs
<1>4. QED BY <1>2, <1>3

\* llid_rank_peer_rank_set: the rank is the one reserved for the connection.
LEMMA AckRecs ==
  ASSUME IInv, ~Dead, NEW n \in Con, NEW r \in Rank,
         lan.rec[n].pre = r, \A k \in Con : lan.rec[k].rank # r,
         NEW act, act = [lan EXCEPT !.rec[n].rank = r, !.present[r] = n],
         lan' = [act EXCEPT !.max = AdjustMax(act.present)],
         \A k \in Con : k # n => net'[k] = net[k],
         net'[n].owner = net[n].owner, net'[n].sig = net[n].sig,
         net'[n].trf = net[n].trf, net'[n].opening = net[n].opening
  PROVE  /\ Recs' /\ lan' \in LanRec /\ lan'.st = lan.st
         /\ \A k \in Con : k # n => lan'.rec[k] = lan.rec[k]
         /\ HasRec(n) => HasRec(n)'
         /\ lan'.rec[n].rank = r
<1>1. Typed /\ Recs /\ lan \in LanRec
  BY DEF IInv, Typed
<1>2. /\ lan.rec \in [Con -> RankRec] /\ lan.rec[n] \in RankRec
      /\ lan.present \in [Rank -> 0 .. MaxCon] /\ n \in 0 .. MaxCon /\ n # 0
      /\ r \in 0 .. MAX_USOCK_RANKS - 1 /\ r # 0
  BY <1>1, RankAssumption DEF LanRec, Con, Rank
<1> DEFINE q == [lan.rec[n] EXCEPT !.rank = r]
           p == [lan.present EXCEPT ![r] = n]
<1>3. /\ q \in RankRec /\ q.pre = r /\ q.rank = r /\ q.traf = lan.rec[n].traf
      /\ p \in [Rank -> 0 .. MaxCon]
  BY <1>2 DEF RankRec
<1>4. act = [lan EXCEPT !.rec = [lan.rec EXCEPT ![n] = q], !.present = p]
  BY <1>1, <1>2 DEF LanRec
<1>5. p[r] = n /\ \A s \in Rank : s # r => p[s] = lan.present[s]
  BY <1>2
<1> HIDE DEF q, p
<1>6. act.present = p /\ act.st = lan.st /\ act.rec = [lan.rec EXCEPT ![n] = q]
  BY <1>1, <1>4 DEF LanRec
<1>7. AdjustMax(p) \in Nat /\ \A s \in Rank : p[s] # 0 => s < AdjustMax(p)
  BY <1>3, MaxAbove
<1>8. [lan.rec EXCEPT ![n] = q] \in [Con -> RankRec]
  BY <1>2, <1>3
<1>9. lan' = [lan EXCEPT !.rec = [lan.rec EXCEPT ![n] = q], !.present = p,
                         !.max = AdjustMax(p)]
  BY <1>1, <1>4, <1>6 DEF LanRec
<1>10. /\ lan' \in LanRec /\ lan'.st = lan.st /\ lan'.present = p
       /\ lan'.max = AdjustMax(p)
       /\ lan'.rec = [lan.rec EXCEPT ![n] = q]
       /\ lan'.chain = lan.chain /\ lan'.member = lan.member
  BY <1>1, <1>3, <1>7, <1>8, <1>9 DEF LanRec
<1>11. lan'.rec[n] = q /\ \A k \in Con : k # n => lan'.rec[k] = lan.rec[k]
  BY <1>2, <1>10
<1>12. /\ \A k \in Con : /\ lan'.rec[k].pre = lan.rec[k].pre
                         /\ lan'.rec[k].traf = lan.rec[k].traf
                         /\ HasRec(k)' <=> HasRec(k)
       /\ HasRec(n)
  BY <1>2, <1>3, <1>11 DEF HasRec
<1>13. \A k \in Con : /\ net'[k].owner = net[k].owner
                      /\ net'[k].opening = net[k].opening
                      /\ ES(k)' <=> ES(k)
                      /\ LS(k)' <=> LS(k)
                      /\ ET(k)' <=> ET(k)
                      /\ LT(k)' <=> LT(k)
  BY DEF ES, LS, ET, LT
<1>14. Dead' <=> Dead
  BY <1>10 DEF Dead
<1>15. RecsSound'
  <2>1. \A m \in Con : ~HasRec(m)' => lan'.rec[m] = NoRec
    BY <1>1, <1>11, <1>12 DEF Recs, RecsSound
  <2>2. QED BY <1>1, <1>12, <1>13, <1>14, <2>1 DEF Recs, RecsSound
<1>16. ChainSound'
  BY <1>1, <1>10, <1>12, <1>13, <1>14 DEF Recs, ChainSound
<1>17. RanksSound'
  <2>1. \A m, k \in Con : HasRec(m)' /\ lan'.rec[m].pre = lan'.rec[k].pre => m = k
    BY <1>1, <1>12 DEF Recs, RanksSound
  <2>2. \A s \in Rank : lan'.present[s] # 0 =>
          lan'.rec[lan'.present[s]].rank = s /\ s < lan'.max
    <3> SUFFICES ASSUME NEW s \in Rank, p[s] # 0
                 PROVE  lan'.rec[p[s]].rank = s /\ s < AdjustMax(p)
      BY <1>10
    <3>1. s < AdjustMax(p)
      BY <1>7
    <3>2. CASE s = r
      BY <1>3, <1>5, <1>11, <3>1, <3>2
    <3>3. CASE s # r
      <4>1. p[s] = lan.present[s] /\ lan.present[s] \in Con
        BY <1>1, <1>5, <3>3, Fields, RankAssumption DEF Con
      <4>2. lan.rec[lan.present[s]].rank = s
        BY <1>1, <4>1 DEF Recs, RanksSound
      <4>3. lan.present[s] # n
        <5>1. lan.rec[n].rank # 0 => lan.rec[n].rank = lan.rec[n].pre
          BY <1>1 DEF Recs, RanksSound
        <5>2. s # 0
          BY DEF Rank
        <5>3. QED BY <3>3, <4>2, <5>1, <5>2
      <4>4. QED BY <1>11, <3>1, <4>1, <4>2, <4>3
    <3>4. QED BY <3>2, <3>3
  <2>3. \A m \in Con : lan'.rec[m].rank # 0 =>
          /\ lan'.rec[m].rank = lan'.rec[m].pre
          /\ lan'.present[lan'.rec[m].rank] = m
    <3> SUFFICES ASSUME NEW m \in Con, lan'.rec[m].rank # 0
                 PROVE  /\ lan'.rec[m].rank = lan'.rec[m].pre
                        /\ p[lan'.rec[m].rank] = m
      BY <1>10
    <3>1. CASE m = n
      BY <1>3, <1>5, <1>11, <3>1
    <3>2. CASE m # n
      <4>1. lan'.rec[m] = lan.rec[m] /\ lan.rec[m].rank # r
        BY <1>11, <3>2
      <4>2. /\ lan.rec[m].rank = lan.rec[m].pre
            /\ lan.present[lan.rec[m].rank] = m
        BY <1>1, <4>1 DEF Recs, RanksSound
      <4>3. lan.rec[m].rank \in Rank
        <5>1. lan.rec[m].rank \in 0 .. MAX_USOCK_RANKS - 1
          BY <1>1, Fields
        <5>2. lan.rec[m].rank # 0
          BY <4>1
        <5>3. QED BY <5>1, <5>2, RankAssumption DEF Rank
      <4>4. QED BY <1>5, <4>1, <4>2, <4>3
    <3>3. QED BY <3>1, <3>2
  <2>4. QED BY <2>1, <2>2, <2>3 DEF RanksSound
<1>18. QED BY <1>3, <1>10, <1>11, <1>12, <1>15, <1>16, <1>17 DEF Recs

\* The one message under way from a slot is read, and answered if the slot has
\* its end.
LEMMA Answer ==
  ASSUME Typed, NEW n \in Con, LS(n), net[n].up # <<>>,
         NEW a \in DownMsg,
         NEW nt, nt = [net EXCEPT ![n].up = Tail(@)],
         net' \in {nt, SendDown(nt, n, a)}
  PROVE  /\ net' \in [Con -> ConRec]
         /\ \A k \in Con : k # n => net'[k] = net[k]
         /\ net'[n].owner = net[n].owner /\ net'[n].sig = net[n].sig
         /\ net'[n].trf = net[n].trf /\ net'[n].opening = net[n].opening
         /\ net'[n].up = <<>>
         /\ net' = nt => net'[n].down = net[n].down
         /\ net' = SendDown(nt, n, a) /\ ES(n) => net'[n].down = Append(net[n].down, a)
<1>1. net[n] \in ConRec /\ net \in [Con -> ConRec]
  BY DEF Typed
<1>2. PICK m \in UpMsg : net[n].up = <<m>>
  BY <1>1 DEF ConRec
<1>3. Tail(net[n].up) = <<>>
  BY <1>2, Short
<1>4. /\ nt[n] = [net[n] EXCEPT !.up = <<>>]
      /\ \A k \in Con : k # n => nt[k] = net[k]
  BY <1>1, <1>3
<1>5. nt[n] \in ConRec
  BY <1>1, <1>4 DEF ConRec
<1>6. /\ nt[n].owner = net[n].owner /\ nt[n].sig = net[n].sig
      /\ nt[n].trf = net[n].trf /\ nt[n].opening = net[n].opening
      /\ nt[n].up = <<>> /\ nt[n].down = net[n].down
  BY <1>1, <1>4 DEF ConRec
<1>7. nt \in [Con -> ConRec]
  BY <1>1, <1>4, <1>5
<1>8. nt[n].sig = {"e", "l"} <=> ES(n)
  BY <1>1, <1>6, Ends DEF ES, LS, ConRec
<1>9. Append(nt[n].down, a) \in Seq(DownMsg)
  BY <1>5, AppendProperties DEF ConRec
<1> DEFINE r == [nt[n] EXCEPT !.down = Append(nt[n].down, a)]
<1>10. r \in ConRec
  BY <1>5, <1>9 DEF ConRec
<1>11. /\ r.owner = nt[n].owner /\ r.sig = nt[n].sig
       /\ r.trf = nt[n].trf /\ r.opening = nt[n].opening
       /\ r.up = nt[n].up /\ r.down = Append(nt[n].down, a)
  BY <1>5 DEF ConRec
<1>12. ES(n) => SendDown(nt, n, a) = [nt EXCEPT ![n] = r]
  BY <1>7, <1>8 DEF SendDown
<1>13. ~ES(n) => SendDown(nt, n, a) = nt
  BY <1>8 DEF SendDown
<1> HIDE DEF r
<1>14. CASE ES(n) /\ net' = SendDown(nt, n, a)
  <2>1. /\ net' \in [Con -> ConRec] /\ net'[n] = r
        /\ \A k \in Con : k # n => net'[k] = nt[k]
    BY <1>7, <1>10, <1>12, <1>14
  <2>2. net' # nt
    <3>1. Len(Append(nt[n].down, a)) # Len(nt[n].down)
      BY <1>5, AppendProperties, LenProperties DEF ConRec
    <3>2. QED BY <1>11, <2>1, <3>1
  <2>3. QED BY <1>4, <1>6, <1>11, <2>1, <2>2
<1>15. CASE net' = nt /\ ~(ES(n) /\ net' = SendDown(nt, n, a))
  BY <1>4, <1>6, <1>7, <1>15
<1>16. QED BY <1>13, <1>14, <1>15

\* rank_dialog and rpct_recv_diag_msg
LEMMA LanRecvInv ==
  ASSUME IInv, NEW n \in Con, LanRecv(n)
  PROVE  IInv'
<1> DEFINE m == Head(net[n].up)
<1>1. /\ Typed /\ Owned /\ LanEnds /\ Recs /\ Dialog /\ lan \in LanRec
      /\ UNCHANGED <<ep, ncon>>
  BY DEF IInv, Links, Typed, LanRecv
<1>2. LS(n) /\ net[n].up # <<>> /\ Ready(n)
  BY DEF LanRecv, LS
<1>3. ~Dead /\ net[n].owner # {}
  BY <1>1, <1>2 DEF Owned, LanEnds
<1>4. PICK nt : nt = [net EXCEPT ![n].up = Tail(@)]
  OBVIOUS
<1>5. net[n].up = <<m>> /\ m \in UpMsg
  <2>1. PICK x \in UpMsg : net[n].up = <<x>>
    BY <1>1, <1>2, Fields
  <2>2. QED BY <2>1, Short
<1>6. \/ m = Msg("handshake")
      \/ m = Msg("req_rank")
      \/ \E r \in Rank : m = Ack(r)
  BY <1>5 DEF UpMsg
<1>7. \/ lan.st = "quit" /\ net' = nt /\ lan' = lan
      \/ /\ lan.st = "run" /\ m.k = "handshake"
         /\ net' = SendDown(nt, n, Msg("handshake_ok")) /\ lan' = lan
      \/ lan.st = "run" /\ m.k = "req_rank" /\ ReqRank(n)
      \/ lan.st = "run" /\ m.k = "ack" /\ AckRank(n, m.rank)
  BY <1>4 DEF LanRecv
<1>8. ES(n) => Stage(n)
  BY <1>1, <1>2, StageIff
<1>9. ES(n) /\ lan.st = "run" => Asking(n)
  BY <1>2, <1>8 DEF Stage, Answered, Started
<1>10. ASSUME lan' = lan,
              net' \in [Con -> ConRec],
              \A k \in Con : k # n => net'[k] = net[k],
              net'[n].owner = net[n].owner, net'[n].sig = net[n].sig,
              net'[n].trf = net[n].trf, net'[n].opening = net[n].opening,
              ES(n) => Stage(n)'
       PROVE  IInv'
  <2>1. Recs'
    BY <1>1, <1>10, RecsHeard
  <2>2. (HasRec(n) => HasRec(n)') /\ lan' \in LanRec
    BY <1>1, <1>10 DEF HasRec
  <2>3. QED BY <1>1, <1>3, <1>10, <2>1, <2>2, HearInv
<1>11. CASE lan.st = "quit" /\ net' = nt /\ lan' = lan
  <2>1. Msg("end") \in DownMsg
    BY DEF DownMsg
  <2>2. /\ net' \in [Con -> ConRec]
        /\ \A k \in Con : k # n => net'[k] = net[k]
        /\ net'[n].owner = net[n].owner /\ net'[n].sig = net[n].sig
        /\ net'[n].trf = net[n].trf /\ net'[n].opening = net[n].opening
        /\ net'[n].up = <<>> /\ net'[n].down = net[n].down
    BY <1>1, <1>2, <1>4, <1>11, <2>1, Answer
  <2>3. ASSUME ES(n) PROVE Stage(n)'
    <3>1. net[n].down = <<>>
      BY <1>2, <1>8, <1>11, <2>3 DEF Stage, Left
    <3>2. Left(n)'
      BY <2>2, <3>1 DEF Left
    <3>3. QED BY <1>11, <3>2 DEF Stage
  <2>4. QED BY <1>10, <1>11, <2>2, <2>3
<1>12. CASE /\ lan.st = "run" /\ m.k = "handshake"
            /\ net' = SendDown(nt, n, Msg("handshake_ok")) /\ lan' = lan
  <2>1. Msg("handshake_ok") \in DownMsg
    BY DEF DownMsg
  <2>2. /\ net' \in [Con -> ConRec]
        /\ \A k \in Con : k # n => net'[k] = net[k]
        /\ net'[n].owner = net[n].owner /\ net'[n].sig = net[n].sig
        /\ net'[n].trf = net[n].trf /\ net'[n].opening = net[n].opening
        /\ net'[n].up = <<>>
        /\ ES(n) => net'[n].down = Append(net[n].down, Msg("handshake_ok"))
    BY <1>1, <1>2, <1>4, <1>12, <2>1, Answer
  <2>3. ASSUME ES(n) PROVE Stage(n)'
    <3>1. net[n].down = <<>> /\ Fresh(n)
      <4>1. m # Ack(lan.rec[n].pre)
        BY <1>12 DEF Ack
      <4>2. net[n].up # <<Ack(lan.rec[n].pre)>>
        BY <1>5, <4>1, Short
      <4>3. QED BY <1>9, <1>12, <2>3, <4>2 DEF Asking
    <3>2. net'[n].down = <<Msg("handshake_ok")>>
      BY <2>2, <2>3, <3>1, Short
    <3>3. Fresh(n)'
      BY <1>12, <2>2, <3>1 DEF Fresh, HasRec, ET, LT
    <3>4. Answered(n)'
      BY <2>2, <3>2, <3>3 DEF Answered
    <3>5. QED BY <1>12, <3>4 DEF Stage
  <2>4. QED BY <1>10, <1>12, <2>2, <2>3
<1>13. CASE lan.st = "run" /\ m.k = "req_rank" /\ ReqRank(n)
  <2>1. ES(n) => net[n].down = <<>> /\ Fresh(n)
    <3>1. m # Ack(lan.rec[n].pre)
      BY <1>13 DEF Ack
    <3>2. net[n].up # <<Ack(lan.rec[n].pre)>>
      BY <1>5, <3>1, Short
    <3>3. QED BY <1>9, <1>13, <3>2 DEF Asking
  <2>2. CASE RankGetFree(lan) = 0
    <3>1. net' = SendDown(nt, n, Msg("alloc_ko")) /\ lan' = lan /\ Msg("alloc_ko") \in DownMsg
      BY <1>4, <1>13, <2>2 DEF ReqRank, DownMsg
    <3>2. /\ net' \in [Con -> ConRec]
          /\ \A k \in Con : k # n => net'[k] = net[k]
          /\ net'[n].owner = net[n].owner /\ net'[n].sig = net[n].sig
          /\ net'[n].trf = net[n].trf /\ net'[n].opening = net[n].opening
          /\ net'[n].up = <<>>
          /\ ES(n) => net'[n].down = Append(net[n].down, Msg("alloc_ko"))
      BY <1>1, <1>2, <1>4, <3>1, Answer
    <3>3. ASSUME ES(n) PROVE Stage(n)'
      <4>1. net'[n].down = <<Msg("alloc_ko")>>
        BY <2>1, <3>2, <3>3, Short
      <4>2. Fresh(n)'
        BY <2>1, <3>1, <3>2, <3>3 DEF Fresh, HasRec, ET, LT
      <4>3. Answered(n)'
        BY <3>2, <4>1, <4>2 DEF Answered
      <4>4. QED BY <1>13, <3>1, <4>3 DEF Stage
    <3>4. QED BY <1>10, <3>1, <3>2, <3>3
  <2>3. CASE RankGetFree(lan) # 0
    <3>1. PICK r \in Rank : r = RankGetFree(lan) /\ \A k \in Con : lan.rec[k].pre # r
      BY <1>1, <2>3, FreeRank
    <3>2. /\ net' = SendDown(nt, n, AllocOk(r)) /\ lan' = LlidCreate(lan, n, r)
          /\ AllocOk(r) \in DownMsg
      BY <1>4, <1>13, <2>3, <3>1 DEF ReqRank, DownMsg
    <3>3. /\ net' \in [Con -> ConRec]
          /\ \A k \in Con : k # n => net'[k] = net[k]
          /\ net'[n].owner = net[n].owner /\ net'[n].sig = net[n].sig
          /\ net'[n].trf = net[n].trf /\ net'[n].opening = net[n].opening
          /\ net'[n].up = <<>>
          /\ ES(n) => net'[n].down = Append(net[n].down, AllocOk(r))
      BY <1>1, <1>2, <1>4, <3>2, Answer
    <3>4. /\ Recs' /\ lan' \in LanRec /\ lan'.st = lan.st
          /\ \A k \in Con : k # n => lan'.rec[k] = lan.rec[k]
          /\ HasRec(n) => HasRec(n)'
          /\ (\A k \in Con : HasRec(k) => /\ net[k].owner # net[n].owner
                                          /\ k # n /\ lan.rec[k].pre # r)
             => lan'.rec[n].pre = r /\ lan'.rec[n].rank = 0
      BY <1>2, <1>3, <3>2, <3>3, CreateRecs
    <3>5. ASSUME ES(n) PROVE Stage(n)'
      <4>1. net'[n].down = <<AllocOk(r)>>
        BY <2>1, <3>3, <3>5, Short
      <4>2. \A k \in Con : HasRec(k) => /\ net[k].owner # net[n].owner
                                        /\ k # n /\ lan.rec[k].pre # r
        BY <1>2, <1>3, <2>1, <3>1, <3>5, OneRecord DEF Fresh
      <4>3. lan'.rec[n].pre = r /\ lan'.rec[n].rank = 0 /\ r # 0
        BY <3>4, <4>2 DEF Rank
      <4>4. Granted(n)' /\ ~ET(n)' /\ ~LT(n)'
        BY <2>1, <3>3, <3>5, <4>3 DEF Granted, HasRec, ET, LT, Fresh
      <4>5. Answered(n)'
        BY <3>3, <4>1, <4>3, <4>4 DEF Answered
      <4>6. QED BY <1>13, <3>4, <4>5 DEF Stage
    <3>6. QED BY <1>1, <1>3, <3>3, <3>4, <3>5, HearInv
  <2>4. QED BY <2>2, <2>3
<1>14. CASE lan.st = "run" /\ m.k = "ack" /\ AckRank(n, m.rank)
  <2>1. PICK r \in Rank : m = Ack(r)
    BY <1>6, <1>14 DEF Msg
  <2>2. m.rank = r /\ AckRank(n, r)
    BY <1>14, <2>1 DEF Ack
  <2>3. ES(n) => /\ net[n].down = <<>> /\ lan.rec[n].pre = r /\ Granted(n) /\ ET(n)
    <3>1. net[n].up # <<Msg("handshake")>> /\ net[n].up # <<Msg("req_rank")>>
      <4>1. m # Msg("handshake") /\ m # Msg("req_rank")
        BY <1>14 DEF Msg
      <4>2. QED BY <1>5, <4>1, Short
    <3>2. ASSUME ES(n) PROVE net[n].up = <<Ack(lan.rec[n].pre)>> /\ Granted(n) /\ ET(n)
                             /\ net[n].down = <<>>
      BY <1>9, <1>14, <3>1, <3>2 DEF Asking
    <3>3. ASSUME ES(n) PROVE lan.rec[n].pre = r
      <4>1. Ack(r) = Ack(lan.rec[n].pre)
        BY <1>5, <2>1, <3>2, <3>3, Short
      <4>2. QED BY <4>1 DEF Ack
    <3>4. QED BY <3>2, <3>3
  <2>4. ES(n) => \A k \in Con : lan.rec[k].rank # r
    <3> SUFFICES ASSUME ES(n), NEW k \in Con, lan.rec[k].rank = r PROVE FALSE
      OBVIOUS
    <3>1. r # 0 /\ lan.rec[n].pre = r /\ HasRec(n) /\ lan.rec[n].rank = 0
      BY <2>3 DEF Rank, Granted
    <3>2. lan.rec[k].pre = r
      BY <1>1, <3>1 DEF Recs, RanksSound
    <3>3. n = k
      BY <1>1, <3>1, <3>2 DEF Recs, RanksSound
    <3>4. QED BY <3>1, <3>3
  <2>5. CASE (\E k \in Con : lan.rec[k].rank = r) \/ lan.rec[n].pre # r
    <3>1. net' = nt /\ lan' = lan /\ ~ES(n) /\ Msg("start") \in DownMsg
      BY <1>4, <2>2, <2>3, <2>4, <2>5 DEF AckRank, DownMsg
    <3>2. /\ net' \in [Con -> ConRec]
          /\ \A k \in Con : k # n => net'[k] = net[k]
          /\ net'[n].owner = net[n].owner /\ net'[n].sig = net[n].sig
          /\ net'[n].trf = net[n].trf /\ net'[n].opening = net[n].opening
      BY <1>1, <1>2, <1>4, <3>1, Answer
    <3>3. QED BY <1>10, <3>1, <3>2
  <2>6. CASE ~((\E k \in Con : lan.rec[k].rank = r) \/ lan.rec[n].pre # r)
    <3>1. PICK act : act = [lan EXCEPT !.rec[n].rank = r, !.present[r] = n]
      OBVIOUS
    <3>2. /\ net' = SendDown(nt, n, Msg("start")) /\ Msg("start") \in DownMsg
          /\ lan' = [act EXCEPT !.max = AdjustMax(act.present)]
          /\ lan.rec[n].pre = r /\ \A k \in Con : lan.rec[k].rank # r
      BY <1>4, <2>2, <2>6, <3>1 DEF AckRank, DownMsg
    <3>3. /\ net' \in [Con -> ConRec]
          /\ \A k \in Con : k # n => net'[k] = net[k]
          /\ net'[n].owner = net[n].owner /\ net'[n].sig = net[n].sig
          /\ net'[n].trf = net[n].trf /\ net'[n].opening = net[n].opening
          /\ net'[n].up = <<>>
          /\ ES(n) => net'[n].down = Append(net[n].down, Msg("start"))
      BY <1>1, <1>2, <1>4, <3>2, Answer
    <3>4. /\ Recs' /\ lan' \in LanRec /\ lan'.st = lan.st
          /\ \A k \in Con : k # n => lan'.rec[k] = lan.rec[k]
          /\ HasRec(n) => HasRec(n)'
          /\ lan'.rec[n].rank = r
      BY <1>3, <3>1, <3>2, <3>3, AckRecs
    <3>5. ASSUME ES(n) PROVE Stage(n)'
      <4>1. net'[n].down = <<Msg("start")>>
        BY <2>3, <3>3, <3>5, Short
      <4>2. lan'.rec[n].rank # 0 /\ ET(n)'
        BY <2>3, <3>3, <3>4, <3>5 DEF ET, Rank
      <4>3. Answered(n)'
        BY <3>3, <4>1, <4>2 DEF Answered
      <4>4. QED BY <1>14, <3>4, <4>3 DEF Stage
    <3>6. QED BY <1>1, <1>3, <3>3, <3>4, <3>5, HearInv
  <2>7. QED BY <2>5, <2>6
<1>15. QED BY <1>7, <1>11, <1>12, <1>13, <1>14

\* llid_rank_traf_connect: a slot that opens its traffic channel has one record
\* at most, that of this connection.
LEMMA LanTrafInv ==
  ASSUME IInv, NEW n \in Con, LanTraf(n)
  PROVE  IInv'
<1> DEFINE own == {k \in Con : HasRec(k) /\ net[k].owner = net[n].owner}
           join == {k \in own : lan.rec[k].traf = 0}
<1>1. /\ Typed /\ Owned /\ Links /\ LanEnds /\ Recs /\ Dialog /\ lan \in LanRec
      /\ net \in [Con -> ConRec] /\ UNCHANGED <<ep, ncon>>
  BY DEF IInv, Links, Typed, LanTraf
<1>2. LT(n) /\ Ready(n)
  BY DEF LanTraf, LT
<1>3. ~Dead /\ net[n].owner # {}
  BY <1>1, <1>2 DEF Owned, LanEnds
<1>4. /\ net' = [net EXCEPT ![n].opening = FALSE]
      /\ lan' = [lan EXCEPT
                   !.member[n] = own # {},
                   !.rec = [k \in Con |-> IF k \in join THEN [@[k] EXCEPT !.traf = n]
                                          ELSE @[k]],
                   !.chain = IF join = {} THEN @ ELSE @ \cup {n}]
  BY DEF LanTraf
<1>5. own \subseteq {n}
  <2>1. \A k \in own : k = n
    BY <1>2, <1>3, OneRecord
  <2>2. QED BY <2>1
<1>6. /\ HasRec(n) <=> own # {}
      /\ join # {} <=> HasRec(n) /\ lan.rec[n].traf = 0
      /\ n \in join <=> HasRec(n) /\ lan.rec[n].traf = 0
      /\ \A k \in Con : k # n => k \notin join
  BY <1>5
<1> DEFINE q == IF n \in join THEN [lan.rec[n] EXCEPT !.traf = n] ELSE lan.rec[n]
           b == own # {}
           c == IF join = {} THEN lan.chain ELSE lan.chain \cup {n}
<1>7. /\ q \in RankRec /\ q.pre = lan.rec[n].pre /\ q.rank = lan.rec[n].rank
      /\ q.traf = IF HasRec(n) /\ lan.rec[n].traf = 0 THEN n ELSE lan.rec[n].traf
      /\ ~HasRec(n) => q = lan.rec[n]
  <2>1. lan.rec[n] \in RankRec /\ n \in 0 .. MaxCon
    BY <1>1, Fields, RankAssumption DEF Con
  <2>2. CASE HasRec(n) /\ lan.rec[n].traf = 0
    <3>1. q = [lan.rec[n] EXCEPT !.traf = n]
      BY <1>6, <2>2
    <3> HIDE DEF q
    <3>2. QED BY <2>1, <2>2, <3>1 DEF RankRec
  <2>3. CASE ~(HasRec(n) /\ lan.rec[n].traf = 0)
    <3>1. q = lan.rec[n]
      BY <1>6, <2>3
    <3> HIDE DEF q
    <3>2. QED BY <2>1, <2>3, <3>1 DEF RankRec
  <2>4. QED BY <2>2, <2>3
<1>8. b \in BOOLEAN /\ (b <=> HasRec(n))
  BY <1>6
<1>9. c \subseteq Con /\ c = IF HasRec(n) /\ lan.rec[n].traf = 0 THEN lan.chain \cup {n}
                             ELSE lan.chain
  BY <1>1, <1>6, Fields
<1>10. /\ lan' = [lan EXCEPT !.member = [lan.member EXCEPT ![n] = b],
                             !.rec = [lan.rec EXCEPT ![n] = q], !.chain = c]
       /\ [lan.rec EXCEPT ![n] = q] \in [Con -> RankRec]
       /\ [lan.member EXCEPT ![n] = b] \in [Con -> BOOLEAN]
  <2>1. lan.rec \in [Con -> RankRec] /\ lan.member \in [Con -> BOOLEAN]
    BY <1>1 DEF LanRec
  <2>2. [k \in Con |-> IF k \in join THEN [lan.rec[k] EXCEPT !.traf = n] ELSE lan.rec[k]]
        = [lan.rec EXCEPT ![n] = q]
    BY <1>6, <2>1
  <2>3. [lan.rec EXCEPT ![n] = q] \in [Con -> RankRec]
    <3> HIDE DEF q
    <3>1. QED BY <1>7, <2>1
  <2>4. [lan.member EXCEPT ![n] = b] \in [Con -> BOOLEAN]
    <3> HIDE DEF b
    <3>1. QED BY <1>8, <2>1
  <2>5. lan' = [lan EXCEPT !.member = [lan.member EXCEPT ![n] = b],
                           !.rec = [lan.rec EXCEPT ![n] = q], !.chain = c]
    <3> HIDE DEF own
    <3>1. lan' = [lan EXCEPT !.member[n] = b,
                   !.rec = [k \in Con |-> IF k \in join THEN [lan.rec[k] EXCEPT !.traf = n]
                                          ELSE lan.rec[k]],
                   !.chain = c]
      BY <1>1, <1>4 DEF LanRec
    <3> HIDE DEF b, c, join, q
    <3>2. QED BY <1>1, <2>2, <3>1 DEF LanRec
  <2>6. QED BY <2>3, <2>4, <2>5
<1> HIDE DEF own, join, q, b, c
<1>11. /\ lan' \in LanRec /\ lan'.st = lan.st /\ lan'.present = lan.present
       /\ lan'.max = lan.max /\ lan'.chain = c
       /\ lan'.rec = [lan.rec EXCEPT ![n] = q]
       /\ lan'.member = [lan.member EXCEPT ![n] = b]
  BY <1>1, <1>9, <1>10 DEF LanRec
<1>12. /\ lan'.rec[n] = q /\ \A k \in Con : k # n => lan'.rec[k] = lan.rec[k]
       /\ lan'.member[n] = b /\ \A k \in Con : k # n => lan'.member[k] = lan.member[k]
  BY <1>1, <1>11 DEF LanRec
<1>13. \A k \in Con : /\ lan'.rec[k].pre = lan.rec[k].pre
                      /\ lan'.rec[k].rank = lan.rec[k].rank
                      /\ HasRec(k)' <=> HasRec(k)
  BY <1>7, <1>12 DEF HasRec
<1>14. /\ net' \in [Con -> ConRec]
       /\ \A k \in Con : k # n => net'[k] = net[k]
       /\ net'[n] = [net[n] EXCEPT !.opening = FALSE]
  <2>1. [net[n] EXCEPT !.opening = FALSE] \in ConRec
    BY <1>1 DEF ConRec
  <2>2. QED BY <1>1, <1>4, <2>1
<1>15. /\ net'[n].owner = net[n].owner /\ net'[n].sig = net[n].sig
       /\ net'[n].trf = net[n].trf /\ net'[n].up = net[n].up /\ net'[n].down = net[n].down
  BY <1>1, <1>14 DEF ConRec
<1>16. \A k \in Con : /\ net'[k].owner = net[k].owner
                      /\ net'[k].up = net[k].up /\ net'[k].down = net[k].down
                      /\ ES(k)' <=> ES(k)
                      /\ LS(k)' <=> LS(k)
                      /\ ET(k)' <=> ET(k)
                      /\ LT(k)' <=> LT(k)
  BY <1>14, <1>15 DEF ES, LS, ET, LT
<1>17. ~Dead' /\ (Dead' <=> Dead)
  BY <1>3, <1>11 DEF Dead
<1>18. Typed'
  BY <1>1, <1>11, <1>14 DEF Typed
<1>19. Links'
  <2>1. \A k \in Con : /\ LS(k)' => LS(k) /\ ~Dead'
                       /\ LT(k)' => LT(k) /\ ~Dead'
                       /\ ~Dead' /\ ES(k) => LS(k)'
                       /\ ~Dead' /\ ET(k) => LT(k)' /\ HasRec(k)'
    BY <1>1, <1>13, <1>16, <1>17 DEF LanEnds
  <2>2. QED BY <1>1, <1>16, <1>17, <2>1, LinksLan
<1>20. Recs'
  <2>1. RecsSound'
    <3>1. \A k \in Con : ~HasRec(k)' => lan'.rec[k] = NoRec
      BY <1>1, <1>7, <1>12, <1>13 DEF Recs, RecsSound
    <3>2. QED BY <1>1, <1>13, <1>16, <1>17, <3>1 DEF Recs, RecsSound
  <2>2. ChainSound'
    <3> SUFFICES ASSUME NEW k \in Con
                 PROVE  /\ lan'.rec[k].traf \in {0, k}
                        /\ k \in c <=> lan'.rec[k].traf = k
                        /\ k \in c => LT(k) /\ lan'.member[k]
                        /\ ET(k) /\ ~net'[k].opening => k \in c
      BY <1>11, <1>16, <1>17 DEF ChainSound
    <3>1. /\ lan.rec[k].traf \in {0, k}
          /\ k \in lan.chain <=> lan.rec[k].traf = k
          /\ k \in lan.chain => LT(k) /\ lan.member[k]
          /\ ET(k) /\ ~net[k].opening => k \in lan.chain
      BY <1>1, <1>3 DEF Recs, ChainSound
    <3>2. CASE k # n
      BY <1>9, <1>12, <1>14, <3>1, <3>2
    <3>3. CASE k = n
      <4>0. n # 0
        BY DEF Con
      <4>1. ~HasRec(n) => lan.rec[n].traf = 0
        BY <1>1 DEF Recs, RecsSound, NoRec
      <4>2. ET(n) => HasRec(n)
        BY <1>1, <1>3 DEF LanEnds
      <4>3. lan'.rec[n].traf = IF HasRec(n) THEN n ELSE 0
        BY <1>7, <1>12, <3>1, <3>3, <4>1
      <4>4. n \in c <=> HasRec(n)
        BY <1>9, <3>1, <3>3, <4>0, <4>1
      <4>5. HasRec(n) => lan'.member[n]
        BY <1>8, <1>12
      <4>6. QED BY <1>2, <3>3, <4>0, <4>2, <4>3, <4>4, <4>5
    <3>4. QED BY <3>2, <3>3
  <2>3. RanksSound'
    <3>1. \A s \in Rank : lan.present[s] # 0 => lan.present[s] \in Con
      BY <1>1, Fields, RankAssumption DEF Con
    <3>2. QED BY <1>1, <1>11, <1>13, <3>1 DEF Recs, RanksSound
  <2>4. QED BY <2>1, <2>2, <2>3 DEF Recs
<1>21. Dialog'
  <2> SUFFICES ASSUME NEW k \in Con, ES(k)', LS(k)' PROVE Stage(k)'
    BY StageIffNext
  <2>1. Stage(k)
    BY <1>1, <1>16, StageIff
  <2>2. QED BY <1>1, <1>11, <1>13, <1>16, <2>1, StageKept
<1>22. QED BY <1>18, <1>19, <1>20, <1>21 DEF IInv

\* free_llid_rank: the record of a connection whose slot has gone, and the LAN's
\* end of its signalling channel; its traffic channel may be closed before.
LEMMA FreedInv ==
  ASSUME IInv, ~Dead, NEW n \in Con, ~ES(n), ~ET(n),
         NEW nt, nt \in {net, [net EXCEPT ![n].trf = {}]},
         lan' = Freed(lan, n), net' = FreedNet(nt, n),
         UNCHANGED <<ep, ncon>>
  PROVE  IInv'
<1>1. /\ Typed /\ Owned /\ Links /\ LanEnds /\ Recs /\ Dialog /\ lan \in LanRec
      /\ net \in [Con -> ConRec]
  BY DEF IInv, Links, Typed
<1> DEFINE left == [r \in Rank |-> IF r = lan.rec[n].rank THEN 0 ELSE lan.present[r]]
           c == lan.chain \ {lan.rec[n].traf}
           x == IF left # lan.present THEN AdjustMax(left) ELSE lan.max
<1>2. lan' = [lan EXCEPT !.rec[n] = NoRec, !.chain = c, !.present = left, !.max = x]
  BY DEF Freed
<1>3. /\ left \in [Rank -> 0 .. MaxCon]
      /\ \A r \in Rank : left[r] = IF r = lan.rec[n].rank THEN 0 ELSE lan.present[r]
  <2>1. \A r \in Rank : lan.present[r] \in 0 .. MaxCon /\ 0 \in 0 .. MaxCon
    BY <1>1, Fields, RankAssumption
  <2>2. QED BY <2>1
<1>4. x \in Nat /\ \A r \in Rank : left[r] # 0 => r < x
  <2>1. CASE left = lan.present
    <3>1. x = lan.max
      BY <2>1
    <3> HIDE DEF left, x
    <3>2. QED BY <1>1, <2>1, <3>1, Fields DEF Recs, RanksSound
  <2>2. CASE left # lan.present
    <3>1. x = AdjustMax(left)
      BY <2>2
    <3> HIDE DEF left, x
    <3>2. QED BY <1>3, <3>1, MaxAbove
  <2>3. QED BY <2>1, <2>2
<1>5. c \subseteq Con /\ \A k \in Con : k \in c <=> k \in lan.chain /\ k # lan.rec[n].traf
  BY <1>1, Fields
<1> HIDE DEF left, c, x
<1>6. NoRec \in RankRec /\ NoRec.pre = 0 /\ NoRec.rank = 0 /\ NoRec.traf = 0
  BY RankAssumption DEF NoRec, RankRec
<1>7. /\ lan' \in LanRec /\ lan'.st = lan.st /\ lan'.present = left /\ lan'.max = x
      /\ lan'.chain = c /\ lan'.member = lan.member
      /\ lan'.rec = [lan.rec EXCEPT ![n] = NoRec]
  <2>1. lan' = [lan EXCEPT !.rec = [lan.rec EXCEPT ![n] = NoRec], !.chain = c,
                           !.present = left, !.max = x]
    BY <1>1, <1>2 DEF LanRec
  <2>2. [lan.rec EXCEPT ![n] = NoRec] \in [Con -> RankRec]
    BY <1>1, <1>6 DEF LanRec
  <2>3. QED BY <1>1, <1>3, <1>4, <1>5, <2>1, <2>2, ZenonT(40) DEF LanRec
<1>8. lan'.rec[n] = NoRec /\ \A k \in Con : k # n => lan'.rec[k] = lan.rec[k]
  BY <1>1, <1>7 DEF LanRec
<1>9. ~HasRec(n)' /\ \A k \in Con : k # n => (HasRec(k)' <=> HasRec(k))
  BY <1>6, <1>8 DEF HasRec
<1>10. lan.rec[n].traf \in {0, n} /\ n # 0
  BY <1>1 DEF Recs, ChainSound, Con
<1>11. /\ nt \in [Con -> ConRec] /\ \A k \in Con : k # n => nt[k] = net[k]
       /\ nt[n].owner = net[n].owner /\ nt[n].sig = net[n].sig
       /\ nt[n].trf \subseteq net[n].trf
  <2>1. CASE nt = net
    BY <1>1, <2>1
  <2>2. CASE nt = [net EXCEPT ![n].trf = {}]
    <3>1. nt[n] = [net[n] EXCEPT !.trf = {}] /\ \A k \in Con : k # n => nt[k] = net[k]
      BY <1>1, <2>2
    <3>2. net[n] \in ConRec
      BY <1>1
    <3>3. [net[n] EXCEPT !.trf = {}] \in ConRec
      BY <3>2 DEF ConRec
    <3>4. /\ nt[n].owner = net[n].owner /\ nt[n].sig = net[n].sig
          /\ nt[n].trf \subseteq net[n].trf
      BY <3>1, <3>2 DEF ConRec
    <3>5. QED BY <1>1, <2>2, <3>1, <3>3, <3>4
  <2>3. QED BY <2>1, <2>2
<1>12. \A k \in Con :
         net'[k] = [nt[k] EXCEPT !.sig = IF k = n THEN @ \ {"l"} ELSE @,
                                 !.up = IF k = n THEN <<>> ELSE @,
                                 !.trf = IF k = lan.rec[n].traf THEN @ \ {"l"} ELSE @]
  BY DEF FreedNet
<1>13. \A k \in Con : k # n => net'[k] = net[k]
  <2> SUFFICES ASSUME NEW k \in Con, k # n PROVE net'[k] = net[k]
    OBVIOUS
  <2>1. k # lan.rec[n].traf
    BY <1>10 DEF Con
  <2>2. net'[k] = [nt[k] EXCEPT !.sig = nt[k].sig, !.up = nt[k].up, !.trf = nt[k].trf]
    BY <1>12, <2>1
  <2>3. [nt[k] EXCEPT !.sig = nt[k].sig, !.up = nt[k].up, !.trf = nt[k].trf] = nt[k]
    <3>1. nt[k] \in ConRec
      BY <1>11
    <3>2. QED BY <3>1 DEF ConRec
  <2>4. QED BY <1>11, <2>2, <2>3
<1>14. /\ net'[n] \in ConRec /\ net'[n].owner = net[n].owner
       /\ ~ES(n)' /\ ~LS(n)' /\ ~ET(n)' /\ (LT(n)' => LT(n))
  <2> DEFINE T == IF n = lan.rec[n].traf THEN nt[n].trf \ {"l"} ELSE nt[n].trf
  <2>1. net'[n] = [nt[n] EXCEPT !.sig = nt[n].sig \ {"l"}, !.up = <<>>, !.trf = T]
    BY <1>12
  <2>2. nt[n] \in ConRec /\ net[n] \in ConRec
    BY <1>1, <1>11
  <2>3. T \subseteq net[n].trf /\ T \in SUBSET {"e", "l"}
    BY <1>11, <2>2 DEF ConRec
  <2> HIDE DEF T
  <2>4. net'[n] \in ConRec
    BY <2>1, <2>2, <2>3 DEF ConRec
  <2>5. /\ net'[n].owner = nt[n].owner /\ net'[n].sig = nt[n].sig \ {"l"}
        /\ net'[n].trf = T
    BY <2>1, <2>2 DEF ConRec
  <2>6. QED BY <1>11, <2>3, <2>4, <2>5 DEF ES, LS, ET, LT
<1>15. \A k \in Con : /\ net'[k].owner = net[k].owner
                      /\ ES(k)' <=> ES(k)
                      /\ LS(k)' <=> LS(k) /\ k # n
                      /\ ET(k)' <=> ET(k)
                      /\ LT(k)' => LT(k)
                      /\ k # n => (LT(k)' <=> LT(k))
  BY <1>13, <1>14 DEF ES, LS, ET, LT
<1>16. ~Dead' /\ (Dead' <=> Dead)
  BY <1>7 DEF Dead
<1>17. Typed'
  <2>1. net' \in [Con -> ConRec]
    <3>1. \A k \in Con : net'[k] \in ConRec
      BY <1>1, <1>13, <1>14
    <3>2. QED BY <3>1 DEF FreedNet
  <2>2. QED BY <1>1, <1>7, <2>1 DEF Typed
<1>18. Links'
  <2>1. \A k \in Con : /\ LS(k)' => LS(k) /\ ~Dead'
                       /\ LT(k)' => LT(k) /\ ~Dead'
                       /\ ~Dead' /\ ES(k) => LS(k)'
                       /\ ~Dead' /\ ET(k) => LT(k)' /\ HasRec(k)'
    BY <1>1, <1>9, <1>15, <1>16 DEF LanEnds
  <2>2. QED BY <1>1, <1>15, <1>16, <2>1, LinksLan
<1>19. Recs'
  <2>1. RecsSound'
    BY <1>1, <1>8, <1>9, <1>15, <1>16 DEF Recs, RecsSound
  <2>2. ChainSound'
    <3> SUFFICES ASSUME NEW k \in Con
                 PROVE  /\ lan'.rec[k].traf \in {0, k}
                        /\ k \in c <=> lan'.rec[k].traf = k
                        /\ k \in c => LT(k)' /\ lan.member[k]
                        /\ ET(k)' /\ ~net'[k].opening => k \in c
      BY <1>7, <1>16 DEF ChainSound
    <3>1. /\ lan.rec[k].traf \in {0, k}
          /\ k \in lan.chain <=> lan.rec[k].traf = k
          /\ k \in lan.chain => LT(k) /\ lan.member[k]
          /\ ET(k) /\ ~net[k].opening => k \in lan.chain
      BY <1>1 DEF Recs, ChainSound
    <3>2. CASE k # n
      <4>1. k \in c <=> k \in lan.chain
        BY <1>5, <1>10, <3>2 DEF Con
      <4>2. QED BY <1>8, <1>13, <1>15, <3>1, <3>2, <4>1
    <3>3. CASE k = n
      <4>1. k \notin c
        BY <1>5, <3>1, <3>3
      <4>2. lan'.rec[k].traf = 0 /\ ~ET(k)'
        BY <1>6, <1>8, <1>14, <3>3
      <4>3. QED BY <1>10, <3>3, <4>1, <4>2
    <3>4. QED BY <3>2, <3>3
  <2>3. RanksSound'
    <3>1. \A m, k \in Con : HasRec(m)' /\ lan'.rec[m].pre = lan'.rec[k].pre => m = k
      <4> SUFFICES ASSUME NEW m \in Con, NEW k \in Con, HasRec(m)',
                          lan'.rec[m].pre = lan'.rec[k].pre
                   PROVE  m = k
        OBVIOUS
      <4>1. HasRec(k)' /\ m # n /\ k # n
        BY <1>9 DEF HasRec
      <4>2. QED BY <1>1, <1>8, <1>9, <4>1 DEF Recs, RanksSound
    <3>2. \A s \in Rank : left[s] # 0 => lan'.rec[left[s]].rank = s /\ s < x
      <4> SUFFICES ASSUME NEW s \in Rank, left[s] # 0
                   PROVE  lan'.rec[left[s]].rank = s /\ s < x
        OBVIOUS
      <4>1. left[s] = lan.present[s] /\ s # lan.rec[n].rank /\ left[s] \in Con
        BY <1>3, RankAssumption DEF Con
      <4>2. lan.rec[left[s]].rank = s
        BY <1>1, <4>1 DEF Recs, RanksSound
      <4>3. left[s] # n
        BY <4>1, <4>2
      <4>4. QED BY <1>4, <1>8, <4>1, <4>2, <4>3
    <3>3. \A m \in Con : lan'.rec[m].rank # 0 =>
            lan'.rec[m].rank = lan'.rec[m].pre /\ left[lan'.rec[m].rank] = m
      <4> SUFFICES ASSUME NEW m \in Con, lan'.rec[m].rank # 0
                   PROVE  lan'.rec[m].rank = lan'.rec[m].pre /\ left[lan'.rec[m].rank] = m
        OBVIOUS
      <4>1. m # n /\ lan'.rec[m] = lan.rec[m] /\ lan.rec[m].rank # 0
        BY <1>6, <1>8
      <4>2. lan.rec[m].rank = lan.rec[m].pre /\ lan.present[lan.rec[m].rank] = m
        BY <1>1, <4>1 DEF Recs, RanksSound
      <4>3. lan.rec[m].rank \in Rank
        <5>1. lan.rec[m].rank \in 0 .. MAX_USOCK_RANKS - 1
          BY <1>1, Fields
        <5>2. QED BY <4>1, <5>1, RankAssumption DEF Rank
      <4>4. lan.rec[m].rank # lan.rec[n].rank
        <5>1. lan.rec[n].rank = lan.rec[m].rank => lan.present[lan.rec[m].rank] = n
          BY <1>1, <4>1 DEF Recs, RanksSound
        <5>2. QED BY <4>1, <4>2, <5>1
      <4>5. QED BY <1>3, <4>1, <4>2, <4>3, <4>4
    <3>4. QED BY <1>7, <3>1, <3>2, <3>3 DEF RanksSound
  <2>4. QED BY <2>1, <2>2, <2>3 DEF Recs
<1>20. Dialog'
  <2> SUFFICES ASSUME NEW k \in Con, ES(k)', LS(k)' PROVE Stage(k)'
    BY StageIffNext
  <2>1. ES(k) /\ LS(k) /\ k # n
    BY <1>15
  <2>2. Stage(k)
    BY <1>1, <2>1, StageIff
  <2>3. QED BY <1>7, <1>8, <1>13, <1>15, <2>1, <2>2, StageKept
<1>21. QED BY <1>17, <1>18, <1>19, <1>20 DEF IInv

\* err_traf_cb, of a channel whose record is gone, and err_init_traf_cb.
LEMMA ShutInv ==
  ASSUME IInv, NEW n \in Con, net[n].trf = {"l"}, n \notin lan.chain,
         net' = [net EXCEPT ![n].trf = {}], lan' = lan, UNCHANGED <<ep, ncon>>
  PROVE  IInv'
<1>1. /\ Typed /\ Owned /\ Links /\ LanEnds /\ Recs /\ Dialog
      /\ net \in [Con -> ConRec]
  BY DEF IInv, Links, Typed
<1>2. LT(n) /\ ~ET(n) /\ ~ES(n) /\ ~Dead
  BY <1>1 DEF LanEnds, LT, ET
<1>3. /\ net'[n] = [net[n] EXCEPT !.trf = {}]
      /\ \A k \in Con : k # n => net'[k] = net[k]
  BY <1>1
<1>4. net[n] \in ConRec
  BY <1>1
<1>5. /\ net'[n] \in ConRec /\ net'[n].owner = net[n].owner /\ net'[n].sig = net[n].sig
      /\ net'[n].trf = {}
  BY <1>3, <1>4 DEF ConRec
<1>6. \A k \in Con : /\ net'[k].owner = net[k].owner
                     /\ ES(k)' <=> ES(k)
                     /\ LS(k)' <=> LS(k)
                     /\ ET(k)' <=> ET(k)
                     /\ LT(k)' <=> LT(k) /\ k # n
  BY <1>2, <1>3, <1>5 DEF ES, LS, ET, LT
<1>7. Typed'
  <2>1. net' \in [Con -> ConRec]
    BY <1>1, <1>3, <1>5
  <2>2. QED BY <1>1, <2>1 DEF Typed
<1>8. ~Dead' /\ \A k \in Con : HasRec(k)' <=> HasRec(k)
  BY <1>2 DEF Dead, HasRec
<1>9. Links'
  <2>1. \A k \in Con : /\ LS(k)' => LS(k) /\ ~Dead'
                       /\ LT(k)' => LT(k) /\ ~Dead'
                       /\ ~Dead' /\ ES(k) => LS(k)'
                       /\ ~Dead' /\ ET(k) => LT(k)' /\ HasRec(k)'
    BY <1>1, <1>2, <1>6, <1>8 DEF LanEnds
  <2>2. QED BY <1>1, <1>2, <1>6, <2>1, LinksLan
<1>10. Recs'
  <2>1. RecsSound'
    BY <1>1, <1>2, <1>6, <1>8 DEF Recs, RecsSound
  <2>2. ChainSound'
    BY <1>1, <1>2, <1>3, <1>6, <1>8 DEF Recs, ChainSound
  <2>3. RanksSound'
    BY <1>1, <1>8 DEF Recs, RanksSound
  <2>4. QED BY <2>1, <2>2, <2>3 DEF Recs
<1>11. Dialog'
  <2> SUFFICES ASSUME NEW k \in Con, ES(k)', LS(k)' PROVE Stage(k)'
    BY StageIffNext
  <2>1. ES(k) /\ LS(k) /\ k # n
    BY <1>2, <1>6
  <2>2. Stage(k)
    BY <1>1, <2>1, StageIff
  <2>3. QED BY <1>3, <1>6, <2>1, <2>2, StageKept
<1>12. QED BY <1>7, <1>9, <1>10, <1>11 DEF IInv

\* The LAN process ends, and with it its end of every channel.
LEMMA ExitInv ==
  ASSUME IInv, Exit, UNCHANGED <<ep, ncon>>
  PROVE  IInv'
<1>1. /\ Typed /\ Links /\ Recs /\ lan \in LanRec /\ net \in [Con -> ConRec]
  BY DEF IInv, Typed
<1>2. /\ lan' = [lan EXCEPT !.st = "dead"]
      /\ \A k \in Con : net'[k] = [net[k] EXCEPT !.sig = @ \ {"l"}, !.trf = @ \ {"l"},
                                                 !.up = <<>>]
  BY DEF Exit
<1>3. /\ lan' \in LanRec /\ lan'.st = "dead" /\ lan'.rec = lan.rec
      /\ lan'.present = lan.present /\ lan'.max = lan.max /\ lan'.chain = lan.chain
  BY <1>1, <1>2 DEF LanRec
<1>4. \A k \in Con : /\ net'[k] \in ConRec /\ net'[k].owner = net[k].owner
                     /\ ES(k)' <=> ES(k)
                     /\ ~LS(k)'
                     /\ ET(k)' <=> ET(k)
                     /\ ~LT(k)'
  <2> SUFFICES ASSUME NEW k \in Con
               PROVE  /\ net'[k] \in ConRec /\ net'[k].owner = net[k].owner
                      /\ ES(k)' <=> ES(k)
                      /\ ~LS(k)'
                      /\ ET(k)' <=> ET(k)
                      /\ ~LT(k)'
    OBVIOUS
  <2>1. net[k] \in ConRec
    BY <1>1
  <2>2. net'[k] \in ConRec
    <3> DEFINE S == net[k].sig \ {"l"}
               T == net[k].trf \ {"l"}
    <3>1. S \in SUBSET {"e", "l"} /\ T \in SUBSET {"e", "l"}
      BY <2>1 DEF ConRec
    <3>2. net'[k] = [net[k] EXCEPT !.sig = S, !.trf = T, !.up = <<>>]
      BY <1>2
    <3> HIDE DEF S, T
    <3>3. QED BY <2>1, <3>1, <3>2 DEF ConRec
  <2>3. /\ net'[k].owner = net[k].owner /\ net'[k].sig = net[k].sig \ {"l"}
        /\ net'[k].trf = net[k].trf \ {"l"}
    BY <1>2, <2>1 DEF ConRec
  <2>4. QED BY <2>2, <2>3 DEF ES, LS, ET, LT
<1>5. Dead'
  BY <1>3 DEF Dead
<1>6. Typed'
  <2>1. net' \in [Con -> ConRec]
    BY <1>4 DEF Exit
  <2>2. QED BY <1>1, <1>3, <2>1 DEF Typed
<1>7. Links'
  BY <1>1, <1>4, <1>5, LinksLan
<1>8. \A k \in Con : HasRec(k)' <=> HasRec(k)
  BY <1>3 DEF HasRec
<1>9. Recs'
  <2>1. RecsSound'
    BY <1>1, <1>3, <1>5, <1>8 DEF Recs, RecsSound
  <2>2. ChainSound'
    BY <1>1, <1>3, <1>5 DEF Recs, ChainSound
  <2>3. RanksSound'
    BY <1>1, <1>3, <1>8 DEF Recs, RanksSound
  <2>4. QED BY <2>1, <2>2, <2>3 DEF Recs
<1>10. Dialog'
  BY <1>4 DEF Dialog
<1>11. QED BY <1>6, <1>7, <1>9, <1>10 DEF IInv

\* The end of a channel, whether its record is there, gone, or was never found.
LEMMA LanErrInv ==
  ASSUME IInv, NEW n \in Con, LanErrSig(n) \/ LanErrTraf(n)
  PROVE  IInv'
<1>1. /\ Typed /\ SlotEnds /\ LanEnds /\ Recs /\ UNCHANGED <<ep, ncon>>
  BY DEF IInv, Links, LanErrSig, LanErrTraf
<1>2. CASE LanErrSig(n)
  <2>1. LS(n) /\ ~ES(n)
    BY <1>2 DEF LanErrSig, LS, ES
  <2>2. ~Dead
    BY <1>1, <2>1 DEF LanEnds
  <2>3. ~ET(n)
    <3> SUFFICES ASSUME ET(n) PROVE FALSE
      OBVIOUS
    <3>1. PICK e \in Ep : net[n].owner = {e}
      BY <2>1 DEF IInv, Links, Owned
    <3>2. ep[e].lan = n
      BY <1>1, <2>2, <3>1 DEF SlotEnds
    <3>3. QED BY <1>1, <2>1, <3>2 DEF SlotEnds
  <2>4. lan' = Freed(lan, n) /\ net' = FreedNet(net, n)
    BY <1>2 DEF LanErrSig
  <2>5. QED BY <1>1, <2>1, <2>2, <2>3, <2>4, FreedInv
<1>3. CASE LanErrTraf(n)
  <2>1. PICK shut : shut = [net EXCEPT ![n].trf = {}]
    OBVIOUS
  <2>2. net[n].trf = {"l"} /\ LT(n) /\ ~ET(n)
    BY <1>3 DEF LanErrTraf, LT, ET
  <2>3. ~Dead /\ ~ES(n)
    BY <1>1, <2>2 DEF LanEnds
  <2>4. n # 0 /\ \A k \in Con : lan.rec[k].traf = n => k = n
    <3>1. n # 0
      BY DEF Con
    <3>2. QED BY <1>1, <3>1 DEF Recs, ChainSound
  <2>5. n \in lan.chain => lan.rec[n].traf = n /\ lan.member[n]
    BY <1>1, <2>3 DEF Recs, ChainSound
  <2>6. \/ /\ lan.member[n]
           /\ \/ /\ {k \in Con : lan.rec[k].traf = n} = {}
                 /\ net' = shut /\ lan' = lan
              \/ \E k \in {k \in Con : lan.rec[k].traf = n} :
                   lan' = Freed(lan, k) /\ net' = FreedNet(shut, k)
        \/ ~lan.member[n] /\ net' = shut /\ lan' = lan
        \/ Exit
    BY <1>3, <2>1 DEF LanErrTraf
  <2>7. CASE /\ lan.member[n] /\ {k \in Con : lan.rec[k].traf = n} = {}
             /\ net' = shut /\ lan' = lan
    <3>1. n \notin lan.chain
      BY <2>5, <2>7
    <3>2. QED BY <1>1, <2>1, <2>2, <2>7, <3>1, ShutInv
  <2>8. CASE \E k \in {k \in Con : lan.rec[k].traf = n} :
               lan' = Freed(lan, k) /\ net' = FreedNet(shut, k)
    <3>1. lan' = Freed(lan, n) /\ net' = FreedNet(shut, n)
      BY <2>4, <2>8
    <3>2. QED BY <1>1, <2>1, <2>2, <2>3, <3>1, FreedInv
  <2>9. CASE ~lan.member[n] /\ net' = shut /\ lan' = lan
    <3>1. n \notin lan.chain
      BY <2>5, <2>9
    <3>2. QED BY <1>1, <2>1, <2>2, <2>9, <3>1, ShutInv
  <2>10. CASE Exit
    BY <1>1, <2>10, ExitInv
  <2>11. QED BY <2>6, <2>7, <2>8, <2>9, <2>10
<1>4. QED BY <1>2, <1>3

\* self_destroy: the slots that are told are those that were started.
LEMMA LanQuitInv ==
  ASSUME IInv, LanQuit
  PROVE  IInv'
<1> DEFINE told == {lan.present[r] : r \in {q \in Rank : q < lan.max}}
<1>1. /\ Typed /\ Owned /\ Links /\ LanEnds /\ Recs /\ Dialog /\ lan \in LanRec
      /\ net \in [Con -> ConRec] /\ UNCHANGED <<ep, ncon>>
      /\ lan.st = "run" /\ lan' = [lan EXCEPT !.st = "quit"]
      /\ \A n \in Con : net'[n] = IF n \in told THEN SendDown(net, n, Msg("end"))[n]
                                  ELSE net[n]
  BY DEF IInv, Links, Typed, LanQuit
<1>2. \A n \in told \cap Con : lan.rec[n].rank # 0
  <2>1. \A r \in Rank : lan.present[r] \in Con => lan.rec[lan.present[r]].rank = r
    <3>1. 0 \notin Con
      BY DEF Con
    <3>2. QED BY <1>1, <3>1 DEF Recs, RanksSound
  <2>2. 0 \notin Rank
    BY DEF Rank
  <2>3. QED BY <2>1, <2>2
<1> HIDE DEF told
<1>3. /\ lan' \in LanRec /\ lan'.st = "quit" /\ lan'.rec = lan.rec
      /\ lan'.present = lan.present /\ lan'.max = lan.max /\ lan'.chain = lan.chain
      /\ lan'.member = lan.member
  BY <1>1 DEF LanRec
<1>4. \A n \in Con :
        /\ net'[n] \in ConRec /\ net'[n].owner = net[n].owner /\ net'[n].sig = net[n].sig
        /\ net'[n].trf = net[n].trf /\ net'[n].opening = net[n].opening
        /\ net'[n].up = net[n].up
        /\ \/ net'[n].down = net[n].down
           \/ lan.rec[n].rank # 0 /\ net'[n].down = Append(net[n].down, Msg("end"))
  <2> SUFFICES ASSUME NEW n \in Con
               PROVE  /\ net'[n] \in ConRec /\ net'[n].owner = net[n].owner
                      /\ net'[n].sig = net[n].sig
                      /\ net'[n].trf = net[n].trf /\ net'[n].opening = net[n].opening
                      /\ net'[n].up = net[n].up
                      /\ \/ net'[n].down = net[n].down
                         \/ /\ lan.rec[n].rank # 0
                            /\ net'[n].down = Append(net[n].down, Msg("end"))
    OBVIOUS
  <2>1. net[n] \in ConRec
    BY <1>1
  <2>2. CASE net'[n] = net[n]
    BY <2>1, <2>2
  <2>3. CASE net'[n] # net[n]
    <3>1. n \in told /\ net'[n] = SendDown(net, n, Msg("end"))[n]
      BY <1>1, <2>3
    <3>2. net'[n] = [net[n] EXCEPT !.down = Append(net[n].down, Msg("end"))]
      BY <1>1, <2>3, <3>1 DEF SendDown
    <3>3. Msg("end") \in DownMsg /\ net[n].down \in Seq(DownMsg)
      BY <2>1 DEF DownMsg, ConRec
    <3>4. Append(net[n].down, Msg("end")) \in Seq(DownMsg)
      BY <3>3, AppendProperties
    <3>5. net'[n] \in ConRec
      BY <2>1, <3>2, <3>4 DEF ConRec
    <3>6. /\ net'[n].owner = net[n].owner /\ net'[n].sig = net[n].sig
          /\ net'[n].trf = net[n].trf /\ net'[n].opening = net[n].opening
          /\ net'[n].up = net[n].up
          /\ net'[n].down = Append(net[n].down, Msg("end"))
      BY <2>1, <3>2 DEF ConRec
    <3>7. QED BY <1>2, <3>1, <3>5, <3>6
  <2>4. QED BY <2>2, <2>3
<1>5. \A n \in Con : /\ net'[n].owner = net[n].owner
                     /\ net'[n].opening = net[n].opening
                     /\ ES(n)' <=> ES(n)
                     /\ LS(n)' <=> LS(n)
                     /\ ET(n)' <=> ET(n)
                     /\ LT(n)' <=> LT(n)
                     /\ HasRec(n)' <=> HasRec(n)
  BY <1>3, <1>4 DEF ES, LS, ET, LT, HasRec
<1>6. ~Dead /\ ~Dead'
  BY <1>1, <1>3 DEF Dead
<1>7. Typed'
  <2>1. net' \in [Con -> ConRec]
    BY <1>4 DEF LanQuit
  <2>2. QED BY <1>1, <1>3, <2>1 DEF Typed
<1>8. Links'
  <2>1. \A k \in Con : /\ LS(k)' => LS(k) /\ ~Dead'
                       /\ LT(k)' => LT(k) /\ ~Dead'
                       /\ ~Dead' /\ ES(k) => LS(k)'
                       /\ ~Dead' /\ ET(k) => LT(k)' /\ HasRec(k)'
    BY <1>1, <1>5, <1>6 DEF LanEnds
  <2>2. QED BY <1>1, <1>5, <1>6, <2>1, LinksLan
<1>9. Recs'
  <2>1. RecsSound'
    BY <1>1, <1>3, <1>5, <1>6 DEF Recs, RecsSound
  <2>2. ChainSound'
    BY <1>1, <1>3, <1>5, <1>6 DEF Recs, ChainSound
  <2>3. RanksSound'
    BY <1>1, <1>3, <1>5 DEF Recs, RanksSound
  <2>4. QED BY <2>1, <2>2, <2>3 DEF Recs
<1>10. Dialog'
  <2> SUFFICES ASSUME NEW n \in Con, ES(n)', LS(n)' PROVE Stage(n)'
    BY StageIffNext
  <2>1. Asking(n) \/ Answered(n) \/ Started(n)
    BY <1>1, <1>5, StageIff DEF Stage
  <2>2. ASSUME net'[n].down = net[n].down PROVE Left(n)'
    <3>1. Left(n)
      BY <2>1 DEF Asking, Answered, Started, Left, Granted
    <3>2. QED BY <1>3, <1>4, <1>5, <2>2, <3>1 DEF Left
  <2>3. ASSUME lan.rec[n].rank # 0, net'[n].down = Append(net[n].down, Msg("end"))
        PROVE  Left(n)'
    <3>1. ~Granted(n) /\ ~Fresh(n)
      <4>1. ~HasRec(n) => lan.rec[n].rank = 0
        BY <1>1 DEF Recs, RecsSound, NoRec
      <4>2. QED BY <2>3, <4>1 DEF Granted, Fresh
    <3>2. /\ net[n].up = <<>>
          /\ net[n].down = <<>> \/ net[n].down = <<Msg("start")>>
      BY <2>1, <3>1 DEF Asking, Answered, Started
    <3>3. net'[n].down \in {<<Msg("end")>>, <<Msg("start"), Msg("end")>>}
      BY <2>3, <3>2, Short
    <3>4. QED BY <1>4, <3>2, <3>3 DEF Left
  <2>4. Left(n)'
    BY <1>4, <2>2, <2>3
  <2>5. QED BY <1>3, <2>4 DEF Stage
<1>11. QED BY <1>7, <1>8, <1>9, <1>10 DEF IInv

-----------------------------------------------------------------------------
(* The theorems.                                                             *)

LEMMA NextInv ==
  ASSUME IInv, [Next]_vars
  PROVE  IInv'
<1>1. CASE UNCHANGED vars
  <2>1. /\ ep' = ep /\ net' = net /\ lan' = lan /\ ncon' = ncon
    BY <1>1 DEF vars
  <2>2. Typed'
    BY <2>1 DEF IInv, Typed
  <2>3. Links'
    BY <2>1 DEF IInv, Links, Owned, SlotEnds, LanEnds, ES, LS, ET, LT, Dead, HasRec
  <2>4. Recs'
    BY <2>1 DEF IInv, Recs, RecsSound, ChainSound, RanksSound, ES, LS, ET, LT, Dead, HasRec
  <2>5. Dialog'
    <3> SUFFICES ASSUME NEW n \in Con, ES(n)', LS(n)' PROVE Stage(n)'
      BY StageIffNext
    <3>1. ES(n) /\ LS(n) /\ (ET(n)' <=> ET(n)) /\ (LT(n)' <=> LT(n))
      BY <2>1 DEF ES, LS, ET, LT
    <3>2. Stage(n)
      BY <3>1, StageIff DEF IInv
    <3>3. QED BY <2>1, <3>1, <3>2, StageKept
  <2>6. QED BY <2>2, <2>3, <2>4, <2>5 DEF IInv
<1>2. ASSUME NEW e \in Ep, Connect(e) PROVE IInv'
  BY <1>2, ConnectInv
<1>3. ASSUME NEW e \in Ep, EpRecv(e) PROVE IInv'
  BY <1>3, RecvInv
<1>4. ASSUME NEW e \in Ep, EpErrLan(e) PROVE IInv'
  BY <1>4, ErrLanInv
<1>5. ASSUME NEW e \in Ep, EpErrTraf(e) \/ EpTimeout(e) \/ EpDisconnect(e) PROVE IInv'
  BY <1>5, LeaveInv
<1>6. ASSUME NEW n \in Con, LanRecv(n) PROVE IInv'
  BY <1>6, LanRecvInv
<1>7. ASSUME NEW n \in Con, LanTraf(n) PROVE IInv'
  BY <1>7, LanTrafInv
<1>8. ASSUME NEW n \in Con, LanErrSig(n) \/ LanErrTraf(n) PROVE IInv'
  BY <1>8, LanErrInv
<1>9. CASE LanQuit
  BY <1>9, LanQuitInv
<1>10. CASE LanExit
  BY <1>10, ExitInv DEF LanExit
<1>11. QED BY <1>1, <1>2, <1>3, <1>4, <1>5, <1>6, <1>7, <1>8, <1>9, <1>10 DEF Next

\* Where every connection stands, in every state the two sides can reach: the
\* ends of its channels, its record, its rank, and the message under way.
THEOREM RanksInvariant == Spec => []IInv
<1>1. Init => IInv
  BY InitInv
<1>2. IInv /\ [Next]_vars => IInv'
  BY NextInv
<1>3. QED BY <1>1, <1>2, PTL DEF Spec

\* rank_get_free and llid_rank_peer_rank_set: a rank is that of one connection,
\* from the moment a slot is told of it, and the table of ranks has the records
\* in use.
THEOREM RanksNeverShared == Spec => []RanksApart
<1>1. IInv => RanksApart
  BY GivesRanks
<1>2. QED BY <1>1, RanksInvariant, PTL

\* traf_chain_insert and traf_chain_extract: packets are sent to the open traffic
\* channels of the records, and to no other.
THEOREM ChainIsMembers == Spec => []MembersExact
<1>1. IInv => MembersExact
  BY GivesMembers
<1>2. QED BY <1>1, RanksInvariant, PTL

\* The dialog of lib_muend and lib_mulan: a slot that keeps its channel to a LAN
\* that runs has a message under way, or was started.
THEOREM SlotNeverStuck == Spec => []NeverStuck
<1>1. IInv => NeverStuck
  BY GivesProgress
<1>2. QED BY <1>1, RanksInvariant, PTL

=============================================================================
