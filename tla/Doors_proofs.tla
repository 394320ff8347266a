---------------------------- MODULE Doors_proofs ----------------------------
(***************************************************************************)
(* The two users of the doors.  Backdoor: the doors know the machine and   *)
(* the port of its agent once they have read their commands, and the       *)
(* automaton at the console always has a timer that tries again.  C2cPeer: *)
(* a link between two servers has its endpoint, is watched while it has a  *)
(* connection, and joins the indexes both ends mean.                       *)
(***************************************************************************)
EXTENDS Backdoor, C2cPeer, SequenceTheorems, FiniteSetTheorems, TLAPS

-----------------------------------------------------------------------------
(* The start of the agent (Backdoor).                                        *)
Vm == [st : {"none", "live", "dying"}, ok : BOOLEAN]
Cvm == [on : BOOLEAN, timer : BOOLEAN, ready : BOOLEAN, con : BOOLEAN,
        read : BOOLEAN, hb : BOOLEAN, auto : Autos, t2 : Nat,
        handshake : BOOLEAN, listen : BOOLEAN, door : 0 .. MaxHvc]
Guest == [on : BOOLEAN, todo : SUBSET {"ls", "start", "resp"}, starting : BOOLEAN,
          agent : {"none", "new", "ask", "run"}, port : {"vport", "hvc"}, sent : BOOLEAN]
Bvm == [on : BOOLEAN, life : Nat, llid : {"none", "open", "closed"}, hvc : 0 .. MaxHvc,
        used : BOOLEAN, up : BOOLEAN, ping : {"no", "ok", "ko"}, fail : 0 .. MAX_FAIL,
        fresh : BOOLEAN, connect : BOOLEAN, hb : BOOLEAN, release : BOOLEAN]
Relay == [door : {"none", "open", "lost"}, sw : {"none", "pending", "open", "stale"}]
Command == [k : {"add"}, path : {"vport", "hvc"}, life : Nat]
           \cup [k : {"up_vport", "up_hvc", "down", "del"}]
Ctl == [up : BOOLEAN, cmds : Seq(Command), evts : Seq({"ok", "ko"})]
Aux == [life : Nat, fault : Nat, broken : BOOLEAN]

\* The tables of the switch, of the doors and of the machine.
Typed ==
    /\ vm \in Vm /\ cvm \in Cvm /\ guest \in Guest /\ ctl \in Ctl /\ bvm \in Bvm
    /\ hvc \in [Hvc -> Relay] /\ aux \in Aux

\* The console is watched for a live machine only, and not waited for when open.
SwitchSound ==
    /\ cvm.on <=> vm.st = "live"
    /\ cvm.con \/ cvm.timer \/ cvm.auto \in {"vport", "hvc"} => cvm.on
    /\ cvm.timer => ~cvm.con /\ ~cvm.read

\* The automaton at the console has what makes it try again.
Retry ==
    /\ cvm.con /\ cvm.read => cvm.hb
    /\ cvm.con /\ cvm.read => (cvm.auto \in {"agent_req", "wait_hvc"} => cvm.handshake)
    /\ cvm.auto = "after_first" => cvm.t2 > 0

\* The doors know no life of the machine that has not begun.
LivesOrdered ==
    /\ bvm.life <= aux.life
    /\ \A i \in 1 .. Len(ctl.cmds) : ctl.cmds[i].k = "add" => ctl.cmds[i].life <= aux.life

\* Doors that are down hold nothing.
DoorsAway ==
    /\ ~ctl.up => bvm = NoBvm /\ ctl.cmds = <<>> /\ ctl.evts = <<>>
    /\ bvm.release => bvm.on

\* The last event under way is the last the doors decided on.
Told ==
    /\ ctl.evts # <<>> /\ bvm.ping # "no" => ctl.evts[Len(ctl.evts)] = bvm.ping
    /\ ctl.evts = <<>> /\ cvm.on /\ bvm.life = aux.life =>
        /\ bvm.ping = "ok" => vm.ok
        /\ bvm.ping = "ko" => ~vm.ok

\* Message k is not in cmds after place i.
Later(cmds, i, k) == \A j \in 1 .. Len(cmds) : j > i => cmds[j].k # k

\* The last message about the port is k.
LastPort(cmds, k, other) == \E i \in 1 .. Len(cmds) : cmds[i].k = k /\ Later(cmds, i, other)

\* What the doors will know of the machine once the commands have come.
Follows(cmds, on, auto, b) ==
    /\ on => /\ ~b.release /\ Later(cmds, 0, "del")
             /\ b.on \/ (cmds # <<>> /\ Head(cmds).k = "add")
    /\ ~on /\ cmds # <<>> => cmds[Len(cmds)].k = "del"
    /\ ~on /\ cmds = <<>> /\ b.on => b.release \/ (b.llid = "none" /\ ~b.connect)
    /\ auto = "vport" => \/ Later(cmds, 0, "up_hvc") /\ ~b.used
                         \/ LastPort(cmds, "up_vport", "up_hvc")
    /\ auto = "hvc" => \/ Later(cmds, 0, "up_vport") /\ b.on /\ b.used
                       \/ LastPort(cmds, "up_hvc", "up_vport")

\* The doors, once they have handled what they were sent, know the machine, which
\* is life n of its name.
Serves(c, auto, b, n) ==
    /\ c.up => Follows(c.cmds, TRUE, auto, b)
    /\ \A i \in 1 .. Len(c.cmds) : c.cmds[i].k = "add" => c.cmds[i].life <= n

Known == ctl.up => Follows(ctl.cmds, cvm.on, cvm.auto, bvm)

IInv == Typed /\ SwitchSound /\ Retry /\ LivesOrdered /\ DoorsAway /\ Told /\ Known

-----------------------------------------------------------------------------
LEMMA CommandTyped ==
  ASSUME Typed
  PROVE  /\ \A k \in {"up_vport", "up_hvc", "down", "del"} : Cmd(k) \in Command
         /\ \A p \in {"vport", "hvc"} : AddVm(p) \in Command
BY DEF Typed, Cmd, AddVm, Command, Aux

\* A message appended, and the port the automaton then uses.
LEMMA AppendFollows ==
  ASSUME NEW cmds \in Seq(Command), NEW b \in Bvm, NEW auto, NEW auto2, NEW m \in Command,
         Follows(cmds, TRUE, auto, b),
         \/ auto2 = auto /\ m.k \in {"add", "down"}
         \/ auto2 = "vport" /\ m.k = "up_vport"
         \/ auto2 = "hvc" /\ m.k = "up_hvc"
         \/ auto2 \notin {"vport", "hvc"} /\ m.k = "down"
  PROVE  Follows(Append(cmds, m), TRUE, auto2, b)
<1> DEFINE new == Append(cmds, m)
<1>1. /\ new \in Seq(Command) /\ new # <<>> /\ Len(new) = Len(cmds) + 1
      /\ \A j \in 1 .. Len(cmds) : new[j] = cmds[j]
      /\ new[Len(new)] = m
  OBVIOUS
<1> SUFFICES Follows(new, TRUE, auto2, b)
  OBVIOUS
<1>2. cmds # <<>> => Head(new) = Head(cmds)
  OBVIOUS
<1>3. \A i \in Nat, k \in {"up_vport", "up_hvc", "down", "del", "add"} : 
        m.k # k /\ Later(cmds, i, k) => Later(new, i, k)
  BY <1>1 DEF Later
<1>4. \A k, o \in {"up_vport", "up_hvc"} : m.k # o /\ LastPort(cmds, k, o) => LastPort(new, k, o)
  BY <1>1, <1>3 DEF LastPort
<1>5. \A k, o \in {"up_vport", "up_hvc"} : m.k = k => LastPort(new, k, o)
  BY <1>1 DEF LastPort, Later
<1> HIDE DEF new
<1>6. /\ ~b.release /\ Later(new, 0, "del")
      /\ b.on \/ (new # <<>> /\ Head(new).k = "add")
  BY <1>1, <1>2, <1>3 DEF Follows
<1>7. CASE auto2 = "vport"
  BY <1>7, <1>6, <1>3, <1>4, <1>5 DEF Follows
<1>8. CASE auto2 = "hvc"
  BY <1>8, <1>6, <1>3, <1>4, <1>5 DEF Follows
<1>9. CASE auto2 \notin {"vport", "hvc"}
  BY <1>9, <1>6 DEF Follows
<1> QED BY <1>7, <1>8, <1>9

\* What is left of a sequence without its head.
LEMMA TailProps ==
  ASSUME NEW S, NEW q \in Seq(S), q # <<>>
  PROVE  /\ Tail(q) \in Seq(S) /\ Len(Tail(q)) = Len(q) - 1 /\ Len(q) \in Nat \ {0}
         /\ \A j \in 1 .. Len(Tail(q)) : Tail(q)[j] = q[j + 1]
         /\ Head(q) = q[1] /\ q[1] \in S
         /\ Len(Tail(q)) = 0 => Tail(q) = <<>>
<1>1. Len(q) > 0 /\ Len(q) \in Nat
  OBVIOUS
<1>2. Tail(q) \in Seq(S) /\ Len(Tail(q)) = Len(q) - 1
  OBVIOUS
<1>3. \A j \in 1 .. Len(Tail(q)) : Tail(q)[j] = q[j + 1]
  BY <1>1, <1>2
<1>4. Head(q) = q[1] /\ q[1] \in S
  BY <1>1
<1>5. Len(Tail(q)) = 0 => Tail(q) = <<>>
  BY <1>2, EmptySeq
<1> QED BY <1>1, <1>2, <1>3, <1>4, <1>5

\* The first message handled.
LEMMA TailFollows ==
  ASSUME NEW cmds \in Seq(Command), cmds # <<>>, NEW b \in Bvm, NEW b2 \in Bvm,
         NEW on \in BOOLEAN, NEW auto,
         Follows(cmds, on, auto, b), auto \in {"vport", "hvc"} => on,
         Head(cmds).k # "del" => b2.release = b.release,
         Head(cmds).k = "add" => b2.on /\ (b.on => b2.used = b.used) /\ (~b.on => ~b2.used),
         Head(cmds).k = "up_vport" => b2.on = b.on /\ (b.on => ~b2.used),
         Head(cmds).k = "up_hvc" => b2.on = b.on /\ (b.on => b2.used),
         Head(cmds).k = "down" => b2.on = b.on /\ b2.used = b.used,
         Head(cmds).k = "del" =>
            (b2.on => b2.release \/ (b2.llid = "none" /\ ~b2.connect))
  PROVE  Follows(Tail(cmds), on, auto, b2)
<1> DEFINE new == Tail(cmds)
<1>1. /\ new \in Seq(Command) /\ Len(new) = Len(cmds) - 1 /\ Len(cmds) \in Nat \ {0}
      /\ \A j \in 1 .. Len(new) : new[j] = cmds[j + 1]
      /\ Head(cmds) = cmds[1] /\ cmds[1] \in Command
      /\ Len(new) = 0 => new = <<>>
  BY TailProps
<1> SUFFICES Follows(new, on, auto, b2)
  OBVIOUS
<1>2. \A i \in Nat : \A k : Later(cmds, i + 1, k) => Later(new, i, k)
  BY <1>1 DEF Later
<1>3. \A i \in Nat : \A k : Later(cmds, i, k) => Later(new, i, k)
  BY <1>1 DEF Later
<1>4. \A k, o : LastPort(cmds, k, o) => LastPort(new, k, o) \/ (cmds[1].k = k /\ Later(new, 0, o))
  <2> SUFFICES ASSUME NEW k, NEW o, NEW i \in 1 .. Len(cmds), cmds[i].k = k, Later(cmds, i, o)
               PROVE  LastPort(new, k, o) \/ (cmds[1].k = k /\ Later(new, 0, o))
    BY DEF LastPort
  <2>1. CASE i = 1
    BY <2>1, <1>2
  <2>2. CASE i > 1
    <3>1. i - 1 \in 1 .. Len(new) /\ new[i - 1].k = k /\ i - 1 \in Nat
      BY <2>2, <1>1
    <3>2. Later(new, i - 1, o)
      BY <3>1, <1>2
    <3> QED BY <3>1, <3>2 DEF LastPort
  <2> QED BY <2>1, <2>2
<1> HIDE DEF new
<1>5. cmds[1].k \in {"add", "up_vport", "up_hvc", "down", "del"}
  BY <1>1 DEF Command
<1>6. CASE on
  <2>1. cmds[1].k # "del"
    BY <1>6, <1>1 DEF Follows, Later
  <2>2. b2.on
    BY <1>6, <2>1, <1>5, <1>1 DEF Follows
  <2>3. ~b2.release /\ Later(new, 0, "del")
    BY <1>6, <2>1, <1>3, <1>1 DEF Follows
  <2>4. cmds[1].k # "add" => b.on
    BY <1>6, <1>1 DEF Follows
  <2>5. auto = "vport" => \/ Later(new, 0, "up_hvc") /\ ~b2.used
                          \/ LastPort(new, "up_vport", "up_hvc")
    <3> SUFFICES ASSUME auto = "vport", ~LastPort(new, "up_vport", "up_hvc")
                 PROVE  Later(new, 0, "up_hvc") /\ ~b2.used
      OBVIOUS
    <3>1. CASE Later(cmds, 0, "up_hvc") /\ ~b.used
      <4>1. cmds[1].k # "up_hvc"
        BY <3>1, <1>1 DEF Later
      <4> QED BY <3>1, <4>1, <1>3, <1>1, <1>5, <2>1, <2>4 
    <3>2. CASE LastPort(cmds, "up_vport", "up_hvc")
      BY <3>2, <1>4, <1>1, <2>4
    <3> QED BY <3>1, <3>2 DEF Follows
  <2>6. auto = "hvc" => \/ Later(new, 0, "up_vport") /\ b2.on /\ b2.used
                        \/ LastPort(new, "up_hvc", "up_vport")
    <3> SUFFICES ASSUME auto = "hvc", ~LastPort(new, "up_hvc", "up_vport")
                 PROVE  Later(new, 0, "up_vport") /\ b2.on /\ b2.used
      OBVIOUS
    <3>1. CASE Later(cmds, 0, "up_vport") /\ b.on /\ b.used
      <4>1. cmds[1].k # "up_vport"
        BY <3>1, <1>1 DEF Later
      <4> QED BY <3>1, <4>1, <1>3, <1>1, <1>5, <2>1, <2>2
    <3>2. CASE LastPort(cmds, "up_hvc", "up_vport")
      BY <3>2, <1>4, <1>1, <2>4, <2>2
    <3> QED BY <3>1, <3>2 DEF Follows
  <2> QED BY <1>6, <2>2, <2>3, <2>5, <2>6 DEF Follows
<1>7. CASE ~on
  <2>1. cmds[Len(cmds)].k = "del"
    BY <1>7 DEF Follows
  <2>2. new # <<>> => new[Len(new)].k = "del"
    BY <2>1, <1>1
  <2>3. new = <<>> => cmds[1].k = "del"
    <3>1. new = <<>> => Len(new) = 0
      OBVIOUS
    <3>2. Len(new) = 0 => Len(cmds) = 1
      BY <1>1
    <3> QED BY <3>1, <3>2, <2>1
  <2> QED BY <1>7, <2>2, <2>3, <1>1 DEF Follows
<1> QED BY <1>6, <1>7
-----------------------------------------------------------------------------
LEMMA TellOne ==
  ASSUME NEW c \in Ctl, NEW m \in Command
  PROVE  /\ Tell(c, <<m>>) \in Ctl
         /\ Tell(c, <<m>>).up = c.up /\ Tell(c, <<m>>).evts = c.evts
         /\ Tell(c, <<m>>).cmds = IF c.up THEN Append(c.cmds, m) ELSE c.cmds
         /\ ~c.up => Tell(c, <<m>>) = c
<1>1. /\ c.cmds \in Seq(Command) /\ c.cmds \o <<m>> = Append(c.cmds, m)
      /\ Append(c.cmds, m) \in Seq(Command)
  BY DEF Ctl
<1> QED BY <1>1 DEF Tell, Ctl

LEMMA TellTwo ==
  ASSUME NEW c \in Ctl, NEW m \in Command, NEW n \in Command
  PROVE  Tell(c, <<m, n>>) = Tell(Tell(c, <<m>>), <<n>>)
<1>1. /\ c.cmds \in Seq(Command) /\ c.cmds \o <<m>> = Append(c.cmds, m)
      /\ c.cmds \o <<m, n>> = Append(Append(c.cmds, m), n)
      /\ Append(c.cmds, m) \o <<n>> = Append(Append(c.cmds, m), n)
  BY DEF Ctl
<1> QED BY <1>1 DEF Tell, Ctl

LEMMA TellThree ==
  ASSUME NEW c \in Ctl, NEW m \in Command, NEW n \in Command, NEW p \in Command
  PROVE  Tell(c, <<m, n, p>>) = Tell(Tell(Tell(c, <<m>>), <<n>>), <<p>>)
<1>1. /\ c.cmds \in Seq(Command) /\ c.cmds \o <<m>> = Append(c.cmds, m)
      /\ c.cmds \o <<m, n, p>> = Append(Append(Append(c.cmds, m), n), p)
      /\ Append(c.cmds, m) \o <<n>> = Append(Append(c.cmds, m), n)
      /\ Append(Append(c.cmds, m), n) \o <<p>> = Append(Append(Append(c.cmds, m), n), p)
  BY DEF Ctl
<1> QED BY <1>1 DEF Tell, Ctl

LEMMA Tuples ==
  ASSUME NEW S, NEW m \in S, NEW n \in S, NEW p \in S
  PROVE  /\ <<m>> \o <<>> = <<m>> /\ <<m>> \o <<n>> = <<m, n>>
         /\ <<m>> \o <<n, p>> = <<m, n, p>>
         /\ Append(<<>>, m) = <<m>>
<1>1. <<m>> \in Seq(S) /\ <<m>> \o <<>> = <<m>>
  BY ConcatEmptySeq
<1>5. ASSUME NEW q \in Seq(S)
      PROVE  q \o <<n>> = Append(q, n) /\ q \o <<n, p>> = Append(Append(q, n), p)
  OBVIOUS
<1>6. Append(<<m>>, n) = <<m, n>>
  <2> DEFINE t == Append(<<m>>, n)
  <2>1. Len(<<m>>) = 1 /\ <<m>>[1] = m
    OBVIOUS
  <2>2. t \in Seq(S) /\ Len(t) = 2 /\ t[1] = m /\ t[2] = n
    BY <1>1, <2>1, AppendProperties
  <2>3. /\ <<m, n>> \in Seq(S) /\ Len(<<m, n>>) = 2
        /\ <<m, n>>[1] = m /\ <<m, n>>[2] = n
    OBVIOUS
  <2> HIDE DEF t
  <2>4. \A i \in 1 .. 2 : t[i] = <<m, n>>[i]
    BY <2>2, <2>3
  <2>5. t = <<m, n>>
    BY <2>2, <2>3, <2>4, SeqEqual
  <2> QED BY <2>5 DEF t
<1>2. <<m>> \o <<n>> = <<m, n>>
  <2>1. Append(<<m>>, n) = <<m, n>>
    BY <1>6
  <2> QED BY <1>1, <1>5, <2>1
<1>3. <<m>> \o <<n, p>> = <<m, n, p>>
  <2>1. Append(Append(<<m>>, n), p) = <<m, n, p>>
    <3>1. /\ <<m, n>> \in Seq(S) /\ Len(<<m, n>>) = 2
          /\ <<m, n>>[1] = m /\ <<m, n>>[2] = n
      OBVIOUS
    <3> DEFINE t == Append(<<m, n>>, p)
    <3>2. /\ t \in Seq(S) /\ Len(t) = 3 /\ t[1] = m /\ t[2] = n /\ t[3] = p
      BY <3>1, AppendProperties
    <3>3. /\ <<m, n, p>> \in Seq(S) /\ Len(<<m, n, p>>) = 3
          /\ <<m, n, p>>[1] = m /\ <<m, n, p>>[2] = n /\ <<m, n, p>>[3] = p
      OBVIOUS
    <3> HIDE DEF t
    <3>4. \A i \in 1 .. 3 : t[i] = <<m, n, p>>[i]
      BY <3>2, <3>3
    <3>5. t = <<m, n, p>>
      BY <3>2, <3>3, <3>4, SeqEqual
    <3> QED BY <1>6, <3>5 DEF t
  <2> QED BY <1>1, <1>5, <2>1
<1>4. Append(<<>>, m) = <<m>>
  OBVIOUS
<1> QED BY <1>1, <1>2, <1>3, <1>4

\* A message told keeps what the doors will know.
LEMMA TellServes ==
  ASSUME NEW c \in Ctl, NEW m \in Command, NEW b \in Bvm, NEW n \in Nat,
         NEW auto, NEW auto2, Serves(c, auto, b, n), m.k = "add" => m.life <= n,
         \/ auto2 = auto /\ m.k \in {"add", "down"}
         \/ auto2 = "vport" /\ m.k = "up_vport"
         \/ auto2 = "hvc" /\ m.k = "up_hvc"
         \/ auto2 \notin {"vport", "hvc"} /\ m.k = "down"
  PROVE  Serves(Tell(c, <<m>>), auto2, b, n)
<1> DEFINE r == Tell(c, <<m>>)
<1>1. /\ r.up = c.up /\ (~c.up => r = c)
      /\ r.cmds = IF c.up THEN Append(c.cmds, m) ELSE c.cmds
  BY TellOne
<1>2. c.cmds \in Seq(Command)
  BY DEF Ctl
<1> HIDE DEF r
<1>3. CASE ~c.up
  BY <1>1, <1>3 DEF Serves, r
<1>4. CASE c.up
  <2>1. Follows(c.cmds, TRUE, auto, b)
    BY <1>4 DEF Serves
  <2>2. Follows(Append(c.cmds, m), TRUE, auto2, b)
    BY <1>2, <2>1, AppendFollows
  <2>3. \A i \in 1 .. Len(Append(c.cmds, m)) :
           Append(c.cmds, m)[i].k = "add" => Append(c.cmds, m)[i].life <= n
    BY <1>2 DEF Serves
  <2> QED BY <1>1, <1>4, <2>2, <2>3 DEF Serves, r
<1> QED BY <1>3, <1>4

\* The steps that send nothing and change nothing the doors or the clients know
\* of the machine.
LEMMA QuietKeeps ==
  ASSUME IInv, Typed', SwitchSound', Retry', vm' = vm, ctl' = ctl,
         aux'.life = aux.life, cvm'.on = cvm.on,
         cvm'.auto \in {"vport", "hvc"} => cvm'.auto = cvm.auto,
         ~ctl.up => bvm' = bvm,
         bvm'.on = bvm.on, bvm'.used = bvm.used, bvm'.release = bvm.release,
         bvm'.life = bvm.life, bvm'.ping = bvm.ping,
         bvm.llid = "none" /\ ~bvm.connect => bvm'.llid = "none" /\ ~bvm'.connect
  PROVE  IInv'
<1>1. LivesOrdered' /\ DoorsAway' /\ Told'
  BY DEF IInv, LivesOrdered, DoorsAway, Told
<1>2. Known'
  BY DEF IInv, Known, Follows
<1> QED BY <1>1, <1>2 DEF IInv

-----------------------------------------------------------------------------
LEMMA RxFacts ==
  ASSUME IInv, NEW g \in Guest, NEW tok, Rx(g, tok)
  PROVE  /\ cvm' \in Cvm /\ guest' \in Guest
         /\ cvm'.on = cvm.on /\ cvm'.con = cvm.con /\ cvm'.timer = cvm.timer
         /\ cvm'.read = cvm.read \/ cvm.con
         /\ Retry'
         /\ \/ ctl' = ctl /\ (cvm'.auto \in {"vport", "hvc"} => cvm'.auto = cvm.auto)
            \/ cvm.on /\ cvm'.auto = "vport" /\ ctl' = Tell(ctl, UpVport)
            \/ cvm.on /\ cvm'.auto = "hvc" /\ ctl' = Tell(ctl, UpHvc)
<1> DEFINE c == IF cvm.read THEN cvm
                ELSE [Restarted(cvm) EXCEPT !.read = TRUE, !.hb = TRUE]
<1>0. cvm \in Cvm /\ (cvm.con => cvm.on) /\ Retry
  BY DEF IInv, Typed, SwitchSound
<1>1. /\ c \in Cvm /\ c.on = cvm.on /\ c.con = cvm.con /\ c.timer = cvm.timer
      /\ c.read /\ (c.con => c.hb)
      /\ c.con => (c.auto \in {"agent_req", "wait_hvc"} => c.handshake)
      /\ c.auto = "after_first" => c.t2 > 0
      /\ c.auto \in {"vport", "hvc"} => c.auto = cvm.auto
  BY <1>0 DEF Cvm, Restarted, Retry, Autos
<1> HIDE DEF c
<1>2. CASE ~cvm.con /\ guest' = g /\ UNCHANGED <<cvm, ctl>>
  BY <1>0, <1>2 DEF Retry
<1>3. CASE /\ cvm.con /\ c.auto = "first_try" /\ tok = "ls"
           /\ cvm' = [c EXCEPT !.auto = "after_first", !.t2 = @ + 1]
           /\ guest' = g /\ UNCHANGED ctl
  <2>1. c.t2 \in Nat /\ c.t2 + 1 \in Nat /\ c.t2 + 1 > 0
    BY <1>1 DEF Cvm
  <2>2. cvm' \in Cvm
    BY <1>1, <1>3, <2>1 DEF Cvm, Autos
  <2>3. /\ cvm'.auto = "after_first" /\ cvm'.t2 = c.t2 + 1 /\ cvm'.hb = c.hb
        /\ cvm'.on = c.on /\ cvm'.con = c.con /\ cvm'.timer = c.timer
    BY <1>1, <1>3 DEF Cvm
  <2> QED BY <1>1, <1>3, <2>1, <2>2, <2>3 DEF Retry
<1>4. CASE /\ cvm.con /\ c.auto = "launch" /\ tok = "up"
           /\ cvm' = Waiting(c, "agent_req") /\ guest' = g /\ UNCHANGED ctl
  BY <1>1, <1>4 DEF Retry, Cvm, Autos, Waiting
<1>5. CASE /\ cvm.con /\ c.auto = "agent_req" /\ tok = "req_vport"
           /\ cvm' = [c EXCEPT !.auto = "vport"]
           /\ guest' = g /\ ctl' = Tell(ctl, UpVport)
  BY <1>0, <1>1, <1>5 DEF Retry, Cvm, Autos
<1>6. CASE /\ cvm.con /\ c.auto = "agent_req" /\ tok = "req_hvc"
           /\ cvm' = Waiting(c, "wait_hvc") /\ UNCHANGED ctl
           /\ guest' = [g EXCEPT !.todo = @ \cup {"resp"}]
  <2>1. guest' \in Guest
    BY <1>6 DEF Guest
  <2> QED BY <1>1, <1>6, <2>1 DEF Retry, Cvm, Autos, Waiting
<1>7. CASE /\ cvm.con /\ c.auto = "wait_hvc" /\ tok = "ack" /\ guest' = g
           /\ \/ cvm' = [c EXCEPT !.auto = "hvc", !.listen = TRUE]
                 /\ ctl' = Tell(ctl, UpHvc)
              \/ cvm' = [c EXCEPT !.auto = "failure"] /\ UNCHANGED ctl
  BY <1>0, <1>1, <1>7 DEF Retry, Cvm, Autos
<1>8. CASE cvm.con /\ guest' = g /\ cvm' = c /\ UNCHANGED ctl
  BY <1>1, <1>8 DEF Retry
<1> QED BY <1>2, <1>3, <1>4, <1>5, <1>6, <1>7, <1>8 DEF Rx, c

\* What the guest writes keeps the invariant.
LEMMA RxKeeps ==
  ASSUME IInv, NEW g \in Guest, NEW tok, Rx(g, tok), UNCHANGED <<vm, bvm, hvc>>,
         aux' \in Aux, aux'.life = aux.life
  PROVE  IInv'
<1>r. /\ cvm' \in Cvm /\ guest' \in Guest
      /\ cvm'.on = cvm.on /\ cvm'.con = cvm.con /\ cvm'.timer = cvm.timer
      /\ cvm'.read = cvm.read \/ cvm.con
      /\ Retry'
      /\ \/ ctl' = ctl /\ (cvm'.auto \in {"vport", "hvc"} => cvm'.auto = cvm.auto)
         \/ cvm.on /\ cvm'.auto = "vport" /\ ctl' = Tell(ctl, UpVport)
         \/ cvm.on /\ cvm'.auto = "hvc" /\ ctl' = Tell(ctl, UpHvc)
  BY RxFacts
<1>0. /\ Typed /\ ctl \in Ctl /\ bvm \in Bvm /\ aux.life \in Nat
      /\ vm' = vm /\ bvm' = bvm /\ hvc' = hvc /\ Retry'
      /\ cvm' \in Cvm /\ guest' \in Guest /\ aux' \in Aux /\ cvm'.on = cvm.on
  BY <1>r DEF IInv, Typed, Aux
<1>s. cvm.on => Serves(ctl, cvm.auto, bvm, aux.life)
  BY DEF IInv, Known, LivesOrdered, Serves
<1>1. SwitchSound'
  BY <1>r DEF IInv, SwitchSound
<1>2. CASE ctl' = ctl /\ (cvm'.auto \in {"vport", "hvc"} => cvm'.auto = cvm.auto)
  <2>1. Typed'
    BY <1>0, <1>2 DEF Typed
  <2> QED BY <1>0, <1>1, <1>2, <2>1, QuietKeeps
<1>3. ASSUME NEW c \in Ctl, ctl' = c, c.up = ctl.up, c.evts = ctl.evts, ~c.up => c = ctl,
             cvm.on, Serves(c, cvm'.auto, bvm, aux.life)
      PROVE  IInv'
  <2>1. Typed'
    BY <1>0, <1>3 DEF Typed
  <2>2. LivesOrdered' /\ DoorsAway' /\ Told'
    BY <1>0, <1>3 DEF IInv, LivesOrdered, DoorsAway, Told, Serves
  <2>3. Known'
    BY <1>0, <1>3 DEF Known, Serves
  <2> QED BY <1>0, <1>1, <2>1, <2>2, <2>3 DEF IInv
<1>4. CASE cvm.on /\ cvm'.auto = "vport" /\ ctl' = Tell(ctl, UpVport)
  <2>1. Cmd("up_vport") \in Command /\ Cmd("up_vport").k = "up_vport"
    BY <1>0, CommandTyped DEF Cmd
  <2>2. Serves(ctl', cvm'.auto, bvm, aux.life)
    BY <1>0, <1>s, <1>4, <2>1, TellServes DEF UpVport
  <2> QED BY <1>0, <1>3, <1>4, <2>1, <2>2, TellOne DEF UpVport
<1>5. CASE cvm.on /\ cvm'.auto = "hvc" /\ ctl' = Tell(ctl, UpHvc)
  <2> DEFINE c == Tell(ctl, <<Cmd("up_hvc")>>)
  <2>1. /\ Cmd("up_hvc") \in Command /\ Cmd("up_hvc").k = "up_hvc"
        /\ AddVm("hvc") \in Command /\ AddVm("hvc").k = "add" /\ AddVm("hvc").life = aux.life
    BY <1>0, CommandTyped DEF Cmd, AddVm
  <2>2. /\ c \in Ctl /\ c.up = ctl.up /\ c.evts = ctl.evts /\ (~ctl.up => c = ctl)
    BY <1>0, <2>1, TellOne
  <2>3. ctl' = Tell(c, <<AddVm("hvc")>>)
    BY <1>0, <1>5, <2>1, TellTwo DEF UpHvc
  <2>4. Serves(c, cvm'.auto, bvm, aux.life)
    BY <1>0, <1>s, <1>5, <2>1, TellServes
  <2> HIDE DEF c
  <2>5. aux.life <= aux.life
    BY <1>0
  <2>6. Serves(ctl', cvm'.auto, bvm, aux.life)
    BY <1>0, <2>1, <2>2, <2>3, <2>4, <2>5, TellServes
  <2>7. /\ ctl' \in Ctl /\ ctl'.up = ctl.up /\ ctl'.evts = ctl.evts
        /\ (~ctl.up => ctl' = ctl)
    BY <2>1, <2>2, <2>3, TellOne
  <2> QED BY <1>3, <1>5, <2>6, <2>7
<1> QED BY <1>r, <1>2, <1>4, <1>5
-----------------------------------------------------------------------------
\* The types of the records, for the actions that read them.
LEMMA Records ==
  ASSUME IInv
  PROVE  /\ vm \in Vm /\ cvm \in Cvm /\ guest \in Guest /\ ctl \in Ctl /\ bvm \in Bvm
         /\ hvc \in [Hvc -> Relay] /\ aux \in Aux
         /\ SwitchSound /\ Retry /\ LivesOrdered /\ DoorsAway /\ Told /\ Known
BY DEF IInv, Typed

LEMMA FaultKeeps ==
  ASSUME IInv, Fault \/ Breaks \/ UNCHANGED aux
  PROVE  aux' \in Aux /\ aux'.life = aux.life
<1>1. aux \in Aux
  BY Records
<1>2. aux.fault \in Nat /\ aux.fault + 1 \in Nat
  BY <1>1 DEF Aux
<1>3. CASE aux' = [aux EXCEPT !.fault = aux.fault + 1]
  BY <1>1, <1>2, <1>3 DEF Aux
<1>4. CASE aux' = [aux EXCEPT !.fault = aux.fault + 1, !.broken = TRUE]
  BY <1>1, <1>2, <1>4 DEF Aux
<1> QED BY <1>1, <1>3, <1>4 DEF Fault, Breaks

\* Quiet steps of the switch.
LEMMA SwitchQuiet ==
  ASSUME IInv,
         \/ TimerConnect \/ ConsoleErr \/ TimerHeartbeat \/ TimerAutomaton2
         \/ HandshakeTimeout \/ \E n \in Hvc : RelayAccept(n) \/ RelayErr(n)
  PROVE  IInv'
<1>0. /\ vm \in Vm /\ cvm \in Cvm /\ guest \in Guest /\ ctl \in Ctl /\ bvm \in Bvm
      /\ hvc \in [Hvc -> Relay] /\ aux \in Aux /\ SwitchSound /\ Retry
  BY Records
<1>1. ASSUME UNCHANGED <<vm, ctl, bvm>>, cvm' \in Cvm, guest' \in Guest,
             hvc' \in [Hvc -> Relay], aux' \in Aux, aux'.life = aux.life,
             cvm'.on = cvm.on, cvm'.con \/ cvm'.timer => cvm'.on,
             cvm'.timer => ~cvm'.con /\ ~cvm'.read,
             cvm'.auto \in {"vport", "hvc"} => cvm'.auto = cvm.auto, Retry'
      PROVE  IInv'
  <2>1. Typed' /\ SwitchSound'
    BY <1>0, <1>1 DEF Typed, SwitchSound
  <2> QED BY <1>0, <1>1, <2>1, QuietKeeps
<1>2. CASE TimerConnect
  <2>1. cvm' \in Cvm /\ cvm'.on = cvm.on /\ cvm'.auto = cvm.auto
        /\ cvm'.t2 = cvm.t2 /\ cvm'.read = cvm.read /\ cvm'.hb = cvm.hb
        /\ cvm'.handshake = cvm.handshake /\ cvm.timer /\ cvm.on /\ ~cvm.read
        /\ (cvm'.timer => ~cvm'.con)
    BY <1>0, <1>2 DEF TimerConnect, Cvm, SwitchSound
  <2>2. UNCHANGED <<vm, ctl, bvm, guest, hvc>> /\ aux' \in Aux /\ aux'.life = aux.life
    BY <1>2, FaultKeeps DEF TimerConnect
  <2>3. Retry'
    BY <1>0, <2>1, <2>2 DEF Retry
  <2> QED BY <1>0, <1>1, <2>1, <2>2, <2>3
<1>3. CASE ConsoleErr
  <2>1. /\ cvm' \in Cvm /\ cvm'.on = cvm.on /\ cvm'.auto = cvm.auto /\ ~cvm'.con
        /\ cvm'.t2 = cvm.t2 /\ cvm.con /\ cvm.on /\ ~cvm'.timer
    BY <1>0, <1>3 DEF ConsoleErr, Cvm, SwitchSound
  <2>2. UNCHANGED <<vm, ctl, bvm, guest, hvc>> /\ aux' \in Aux /\ aux'.life = aux.life
    BY <1>3, FaultKeeps DEF ConsoleErr
  <2>3. Retry'
    BY <1>0, <2>1 DEF Retry
  <2> QED BY <1>0, <1>1, <2>1, <2>2, <2>3
<1>4. CASE TimerHeartbeat
  <2>1. guest' \in Guest
    BY <1>0, <1>4 DEF TimerHeartbeat, Guest
  <2>2. UNCHANGED <<vm, cvm, ctl, bvm, hvc>> /\ aux' \in Aux /\ aux'.life = aux.life
    BY <1>4, FaultKeeps DEF TimerHeartbeat
  <2>3. Retry'
    BY <1>0, <2>2 DEF Retry
  <2> QED BY <1>0, <1>1, <2>1, <2>2, <2>3 DEF SwitchSound
<1>5. CASE TimerAutomaton2
  <2>1. /\ cvm.t2 \in Nat /\ cvm.t2 > 0 /\ cvm.t2 - 1 \in Nat
        /\ cvm' = [cvm EXCEPT !.t2 = cvm.t2 - 1,
                       !.auto = IF cvm.auto = "after_first" THEN "launch" ELSE cvm.auto]
    BY <1>0, <1>5 DEF TimerAutomaton2, Cvm
  <2>2. /\ cvm' \in Cvm /\ cvm'.on = cvm.on /\ cvm'.con = cvm.con /\ cvm'.timer = cvm.timer
        /\ cvm'.read = cvm.read /\ cvm'.hb = cvm.hb /\ cvm'.handshake = cvm.handshake
        /\ cvm'.auto = IF cvm.auto = "after_first" THEN "launch" ELSE cvm.auto
    BY <1>0, <2>1 DEF Cvm, Autos
  <2>3. Retry'
    BY <1>0, <2>2 DEF Retry
  <2> QED BY <1>0, <1>1, <1>5, <2>2, <2>3 DEF SwitchSound, TimerAutomaton2
<1>6. CASE HandshakeTimeout
  <2>1. /\ cvm' \in Cvm /\ cvm'.on = cvm.on /\ cvm'.con = cvm.con /\ cvm'.timer = cvm.timer
        /\ cvm'.read = cvm.read /\ cvm'.hb = cvm.hb /\ cvm'.t2 = cvm.t2
        /\ cvm'.auto = IF cvm.auto \in {"vport", "hvc"} THEN cvm.auto ELSE "first_try"
    BY <1>0, <1>6 DEF HandshakeTimeout, Restarted, Cvm, Autos
  <2>2. UNCHANGED <<vm, guest, ctl, bvm, hvc>> /\ aux' \in Aux /\ aux'.life = aux.life
    BY <1>6, FaultKeeps DEF HandshakeTimeout
  <2>3. Retry'
    BY <1>0, <2>1 DEF Retry
  <2> QED BY <1>0, <1>1, <2>1, <2>2, <2>3 DEF SwitchSound
<1>7. ASSUME NEW n \in Hvc, RelayAccept(n) \/ RelayErr(n)
      PROVE  IInv'
  <2>0. n \in 0 .. MaxHvc /\ 0 \in 0 .. MaxHvc
    BY BackdoorAssumption DEF Hvc
  <2>9. \E d \in 0 .. MaxHvc : cvm' = cvm \/ cvm' = [cvm EXCEPT !.door = d]
    BY <1>7, <2>0 DEF RelayAccept, RelayErr
  <2>1. /\ cvm' \in Cvm /\ cvm'.on = cvm.on /\ cvm'.con = cvm.con /\ cvm'.timer = cvm.timer
        /\ cvm'.read = cvm.read /\ cvm'.hb = cvm.hb /\ cvm'.t2 = cvm.t2
        /\ cvm'.auto = cvm.auto /\ cvm'.handshake = cvm.handshake
    BY <1>0, <2>9 DEF Cvm
  <2>2. hvc' \in [Hvc -> Relay]
    BY <1>0, <1>7 DEF RelayAccept, RelayErr, Relay
  <2>3. UNCHANGED <<vm, guest, ctl, bvm, aux>>
    BY <1>7 DEF RelayAccept, RelayErr
  <2>4. Retry'
    BY <1>0, <2>1 DEF Retry
  <2> QED BY <1>0, <1>1, <2>1, <2>2, <2>3, <2>4 DEF SwitchSound
<1> QED BY <1>2, <1>3, <1>4, <1>5, <1>6, <1>7

\* The steps of the guest but what it writes.
LEMMA GuestQuiet ==
  ASSUME IInv, GuestBoots \/ QemuEnds \/ ShellStarts \/ ConsoleStolen \/ AgentDies
  PROVE  IInv'
<1>0. /\ vm \in Vm /\ cvm \in Cvm /\ guest \in Guest /\ ctl \in Ctl /\ bvm \in Bvm
      /\ hvc \in [Hvc -> Relay] /\ aux \in Aux /\ SwitchSound /\ Retry
  BY Records
<1>1. UNCHANGED <<vm, cvm, ctl, bvm, hvc>>
  BY Zenon DEF GuestBoots, QemuEnds, ShellStarts, ConsoleStolen, AgentDies
<1>2. aux' \in Aux /\ aux'.life = aux.life
  BY FaultKeeps, Zenon DEF GuestBoots, QemuEnds, ShellStarts, ConsoleStolen, AgentDies
<1>3. guest' \in Guest
  <2>1. CASE GuestBoots
    BY <2>1, BackdoorAssumption, Zenon DEF GuestBoots, Guest, NoGuest
  <2>2. CASE QemuEnds
    BY <2>2 DEF QemuEnds, Guest, NoGuest
  <2>3. CASE ShellStarts
    BY <1>0, <2>3 DEF ShellStarts, Guest
  <2>4. CASE ConsoleStolen
    BY <1>0, <2>4 DEF ConsoleStolen, Guest
  <2>5. CASE AgentDies
    BY <1>0, <2>5 DEF AgentDies, Guest
  <2> QED BY <2>1, <2>2, <2>3, <2>4, <2>5
<1>4. Typed' /\ SwitchSound' /\ Retry'
  BY <1>0, <1>1, <1>2, <1>3 DEF Typed, SwitchSound, Retry
<1> QED BY <1>0, <1>1, <1>2, <1>4, QuietKeeps

\* What the guest writes on its console.
LEMMA GuestWrites ==
  ASSUME IInv, ShellPrompt \/ ShellLs \/ ShellUp \/ AgentAsks \/ AgentAcks
  PROVE  IInv'
<1>0. guest \in Guest /\ aux \in Aux
  BY Records
<1>1. UNCHANGED <<vm, bvm, hvc>> /\ aux' \in Aux /\ aux'.life = aux.life
  BY FaultKeeps DEF ShellPrompt, ShellLs, ShellUp, AgentAsks, AgentAcks
<1>2. \E g \in Guest, tok \in {"prompt", "ls", "up", "req_vport", "req_hvc", "ack"} : Rx(g, tok)
  <2>1. CASE ShellPrompt
    BY <1>0, <2>1 DEF ShellPrompt
  <2>2. CASE ShellLs
    <3>1. [guest EXCEPT !.todo = @ \ {"ls"}] \in Guest
      BY <1>0 DEF Guest
    <3> QED BY <2>2, <3>1 DEF ShellLs
  <2>3. CASE ShellUp
    <3>1. [guest EXCEPT !.starting = FALSE] \in Guest
      BY <1>0 DEF Guest
    <3> QED BY <2>3, <3>1 DEF ShellUp
  <2>4. CASE AgentAsks
    <3>1. [guest EXCEPT !.agent = "run"] \in Guest /\ [guest EXCEPT !.agent = "ask"] \in Guest
      BY <1>0 DEF Guest
    <3> QED BY <2>4, <3>1 DEF AgentAsks
  <2>5. CASE AgentAcks
    <3>1. [guest EXCEPT !.agent = "run", !.todo = @ \ {"resp"}] \in Guest
      BY <1>0 DEF Guest
    <3> QED BY <2>5, <3>1 DEF AgentAcks
  <2> QED BY <2>1, <2>2, <2>3, <2>4, <2>5
<1> QED BY <1>1, <1>2, RxKeeps
-----------------------------------------------------------------------------
LEMMA AwayIdle ==
  ASSUME IInv, bvm.on \/ bvm.hb \/ bvm.connect \/ bvm.release \/ bvm.llid # "none"
               \/ bvm.up \/ ctl.cmds # <<>> \/ ctl.evts # <<>>
  PROVE  ctl.up
BY DEF IInv, DoorsAway, NoBvm

\* The record after an attempt to reach the machine.
LEMMA ConnectFacts ==
  ASSUME IInv, NEW b \in Bvm, Connect(b)
  PROVE  /\ bvm' \in Bvm /\ bvm'.on = b.on /\ bvm'.used = b.used
         /\ bvm'.release = b.release /\ bvm'.life = b.life /\ bvm'.ping = b.ping
         /\ aux' \in Aux /\ aux'.life = aux.life
<1>1. \E l \in {"none", "open", "closed"}, c \in BOOLEAN :
         bvm' = [b EXCEPT !.llid = l, !.connect = c]
  <2>1. b.llid \in {"none", "open", "closed"}
    BY DEF Bvm
  <2>2. \A c \in BOOLEAN : [b EXCEPT !.connect = c] = [b EXCEPT !.llid = b.llid, !.connect = c]
    BY DEF Bvm
  <2> QED BY <2>1, <2>2, Zenon DEF Connect
<1>2. Breaks \/ UNCHANGED aux
  BY DEF Connect
<1> QED BY <1>1, <1>2, FaultKeeps DEF Bvm

\* Quiet steps of the doors.
LEMMA DoorsQuiet ==
  ASSUME IInv, TimerPlug \/ PlugErr \/ \E n \in Hvc : RelayEnds(n)
  PROVE  IInv'
<1>0. /\ vm \in Vm /\ cvm \in Cvm /\ guest \in Guest /\ ctl \in Ctl /\ bvm \in Bvm
      /\ hvc \in [Hvc -> Relay] /\ aux \in Aux /\ SwitchSound /\ Retry
  BY Records
<1>1. ASSUME UNCHANGED <<vm, cvm, guest, ctl>>, bvm' \in Bvm, hvc' \in [Hvc -> Relay],
             aux' \in Aux, aux'.life = aux.life, ~ctl.up => bvm' = bvm,
             bvm'.on = bvm.on, bvm'.used = bvm.used, bvm'.release = bvm.release,
             bvm'.life = bvm.life, bvm'.ping = bvm.ping,
             bvm.llid = "none" /\ ~bvm.connect => bvm'.llid = "none" /\ ~bvm'.connect
      PROVE  IInv'
  <2>1. Typed' /\ SwitchSound' /\ Retry'
    BY <1>0, <1>1 DEF Typed, SwitchSound, Retry
  <2> QED BY <1>0, <1>1, <2>1, QuietKeeps
<1>2. CASE TimerPlug
  <2>1. bvm.connect /\ ctl.up
    BY <1>2, AwayIdle DEF TimerPlug
  <2> QED BY <1>0, <1>1, <1>2, <2>1, ConnectFacts DEF TimerPlug
<1>3. CASE PlugErr
  <2>1. bvm.llid = "open" /\ ctl.up
    BY <1>3, AwayIdle DEF PlugErr
  <2>2. /\ bvm' \in Bvm /\ bvm'.on = bvm.on /\ bvm'.used = bvm.used
        /\ bvm'.release = bvm.release /\ bvm'.life = bvm.life /\ bvm'.ping = bvm.ping
    BY <1>0, <1>3 DEF PlugErr, Down, Bvm
  <2>3. UNCHANGED <<vm, cvm, guest, ctl, hvc>> /\ aux' \in Aux /\ aux'.life = aux.life
    BY <1>3, FaultKeeps DEF PlugErr
  <2> QED BY <1>0, <1>1, <2>1, <2>2, <2>3
<1>4. ASSUME NEW n \in Hvc, RelayEnds(n)
      PROVE  IInv'
  <2>1. hvc' \in [Hvc -> Relay]
    BY <1>0, <1>4 DEF RelayEnds, Relay
  <2>2. UNCHANGED <<vm, cvm, guest, ctl, aux>>
    BY <1>4 DEF RelayEnds
  <2>3. CASE bvm' = bvm
    BY <1>0, <1>1, <2>1, <2>2, <2>3
  <2>4. CASE bvm.on /\ bvm' = Down(bvm)
    <3>1. ctl.up
      BY <2>4, AwayIdle
    <3>2. /\ bvm' \in Bvm /\ bvm'.on = bvm.on /\ bvm'.used = bvm.used
          /\ bvm'.release = bvm.release /\ bvm'.life = bvm.life /\ bvm'.ping = bvm.ping
          /\ bvm'.llid = bvm.llid /\ ~bvm'.connect
      BY <1>0, <2>4 DEF Down, Bvm
    <3> QED BY <1>0, <1>1, <2>1, <2>2, <3>1, <3>2
  <2> QED BY <1>4, <2>3, <2>4 DEF RelayEnds
<1> QED BY <1>2, <1>3, <1>4

-----------------------------------------------------------------------------
\* What the doors found out is the last event under way.
LEMMA EventFacts ==
  ASSUME NEW c \in Ctl, NEW e \in {"ok", "ko"}
  PROVE  /\ Event(c, e) \in Ctl /\ Event(c, e).up = c.up /\ Event(c, e).cmds = c.cmds
         /\ Event(c, e).evts # <<>> /\ Event(c, e).evts[Len(Event(c, e).evts)] = e
<1>1. c.evts \in Seq({"ok", "ko"})
  BY DEF Ctl
<1>2. CASE e = "ko" /\ c.evts # <<>> /\ c.evts[Len(c.evts)] = "ko"
  BY <1>2 DEF Event
<1>3. CASE ~(e = "ko" /\ c.evts # <<>> /\ c.evts[Len(c.evts)] = "ko")
  <2>1. Event(c, e) = [c EXCEPT !.evts = Append(c.evts, e)]
    BY <1>3 DEF Event
  <2>2. /\ Append(c.evts, e) \in Seq({"ok", "ko"}) /\ Append(c.evts, e) # <<>>
        /\ Append(c.evts, e)[Len(Append(c.evts, e))] = e
    BY <1>1
  <2> QED BY <2>1, <2>2 DEF Ctl
<1> QED BY <1>2, <1>3

LEMMA EventKeeps ==
  ASSUME IInv, NEW e \in {"ok", "ko"}, ctl' = Event(ctl, e), ctl.up,
         UNCHANGED <<vm, cvm, hvc>>, guest' \in Guest, bvm' \in Bvm,
         aux' \in Aux, aux'.life = aux.life,
         bvm'.ping = e, bvm'.on = bvm.on, bvm'.used = bvm.used, bvm'.release = bvm.release,
         bvm'.life = bvm.life,
         bvm.llid = "none" /\ ~bvm.connect => bvm'.llid = "none" /\ ~bvm'.connect
  PROVE  IInv'
<1>1. /\ vm \in Vm /\ cvm \in Cvm /\ ctl \in Ctl /\ bvm \in Bvm
      /\ hvc \in [Hvc -> Relay] /\ SwitchSound /\ Retry
  BY Records
<1>2. /\ ctl' \in Ctl /\ ctl'.up = ctl.up /\ ctl'.cmds = ctl.cmds
      /\ ctl'.evts # <<>> /\ ctl'.evts[Len(ctl'.evts)] = e
  BY <1>1, EventFacts
<1>3. Typed' /\ SwitchSound' /\ Retry'
  BY <1>1, <1>2 DEF Typed, SwitchSound, Retry
<1>4. LivesOrdered' /\ DoorsAway' /\ Told'
  BY <1>2 DEF IInv, LivesOrdered, DoorsAway, Told
<1>5. Known'
  BY <1>2 DEF IInv, Known, Follows
<1> QED BY <1>3, <1>4, <1>5 DEF IInv

\* The pings of the doors.
LEMMA PingKeeps ==
  ASSUME IInv, TimerPing \/ Pong \/ SyncLost
  PROVE  IInv'
<1>0. /\ vm \in Vm /\ cvm \in Cvm /\ guest \in Guest /\ ctl \in Ctl /\ bvm \in Bvm
      /\ hvc \in [Hvc -> Relay] /\ aux \in Aux /\ SwitchSound /\ Retry
  BY Records
<1>1. ASSUME UNCHANGED <<vm, cvm, hvc, ctl, aux>>, guest' \in Guest, bvm' \in Bvm, ctl.up,
             bvm'.ping = bvm.ping, bvm'.on = bvm.on, bvm'.used = bvm.used,
             bvm'.release = bvm.release, bvm'.life = bvm.life,
             bvm'.llid = bvm.llid, bvm'.connect = bvm.connect
      PROVE  IInv'
  <2>1. Typed' /\ SwitchSound' /\ Retry'
    BY <1>0, <1>1 DEF Typed, SwitchSound, Retry
  <2> QED BY <1>0, <1>1, <2>1, QuietKeeps
<1>2. CASE TimerPing
  <2>0. ctl.up
    BY <1>2, AwayIdle DEF TimerPing
  <2> DEFINE fail == IF bvm.fresh THEN 0 ELSE bvm.fail + 1
  <2>1. guest' \in Guest /\ UNCHANGED <<vm, cvm, hvc>>
    <3>1. PingArrives \in BOOLEAN
      BY DEF PingArrives
    <3> QED BY <1>0, <1>2, <3>1 DEF TimerPing, Guest
  <2>2. MAX_FAIL \in Nat /\ bvm.fail \in 0 .. MAX_FAIL /\ fail \in Nat
    BY <1>0, BackdoorAssumption DEF Bvm
  <2>3. CASE fail <= MAX_FAIL
    <3>1. bvm' = [bvm EXCEPT !.fresh = FALSE, !.fail = fail] /\ UNCHANGED <<ctl, aux>>
      BY <1>2, <2>3 DEF TimerPing
    <3>2. fail \in 0 .. MAX_FAIL
      BY <2>2, <2>3
    <3> HIDE DEF fail
    <3>3. /\ bvm' \in Bvm /\ bvm'.on = bvm.on /\ bvm'.used = bvm.used /\ bvm'.ping = bvm.ping
          /\ bvm'.release = bvm.release /\ bvm'.life = bvm.life
          /\ bvm'.llid = bvm.llid /\ bvm'.connect = bvm.connect
      BY <1>0, <3>1, <3>2 DEF Bvm
    <3> QED BY <1>1, <2>0, <2>1, <3>1, <3>3
  <2>4. CASE ~(fail <= MAX_FAIL)
    <3>1. /\ bvm' = [bvm EXCEPT !.fresh = FALSE, !.fail = 0, !.ping = "ko"]
          /\ ctl' = Event(ctl, "ko")
      BY <1>0, <1>2, <2>4 DEF TimerPing, Bvm
    <3>2. aux' \in Aux /\ aux'.life = aux.life
      BY <1>0, <1>2, <2>4, FaultKeeps DEF TimerPing
    <3>3. 0 \in 0 .. MAX_FAIL
      BY <2>2
    <3>4. /\ bvm' \in Bvm /\ bvm'.on = bvm.on /\ bvm'.used = bvm.used /\ bvm'.ping = "ko"
          /\ bvm'.release = bvm.release /\ bvm'.life = bvm.life
          /\ bvm'.llid = bvm.llid /\ bvm'.connect = bvm.connect
      BY <1>0, <3>1, <3>3 DEF Bvm
    <3> QED BY <2>0, <2>1, <3>1, <3>2, <3>4, EventKeeps
  <2> QED BY <2>3, <2>4
<1>3. CASE Pong
  <2>1. /\ guest' \in Guest /\ UNCHANGED <<vm, cvm, hvc, aux>>
        /\ bvm' \in Bvm /\ bvm'.on = bvm.on /\ bvm'.used = bvm.used /\ bvm'.ping = "ok"
        /\ bvm'.release = bvm.release /\ bvm'.life = bvm.life
        /\ bvm'.llid = bvm.llid /\ bvm'.connect = bvm.connect
    BY <1>0, <1>3 DEF Pong, Guest, Bvm
  <2>2. ctl.up
    <3>1. bvm.llid = "open" \/ bvm.used
      BY <1>3 DEF Pong, AgentHeard, Working
    <3> QED BY <3>1 DEF IInv, DoorsAway, NoBvm
  <2>3. CASE bvm.ping = "ok"
    BY <1>1, <1>3, <2>1, <2>2, <2>3 DEF Pong
  <2>4. CASE bvm.ping # "ok"
    <3>1. ctl' = Event(ctl, "ok")
      BY <1>3, <2>4 DEF Pong
    <3> QED BY <1>0, <2>1, <2>2, <3>1, EventKeeps
  <2> QED BY <2>3, <2>4
<1>4. CASE SyncLost
  <2>1. /\ bvm' \in Bvm /\ bvm'.on = bvm.on /\ bvm'.used = bvm.used /\ bvm'.ping = "ko"
        /\ bvm'.release = bvm.release /\ bvm'.life = bvm.life
        /\ bvm'.llid = bvm.llid /\ ~bvm'.connect
    BY <1>0, <1>4 DEF SyncLost, Down, Bvm
  <2>2. ctl.up
    <3>1. bvm.llid = "open" \/ bvm.used
      BY <1>4 DEF SyncLost, AgentHeard, Working
    <3> QED BY <3>1 DEF IInv, DoorsAway, NoBvm
  <2>3. UNCHANGED <<vm, cvm, guest, hvc>> /\ aux' \in Aux /\ aux'.life = aux.life
        /\ ctl' = Event(ctl, "ko")
    BY <1>4, FaultKeeps DEF SyncLost
  <2> QED BY <1>0, <2>1, <2>2, <2>3, EventKeeps
<1> QED BY <1>2, <1>3, <1>4
-----------------------------------------------------------------------------
\* The life of a machine.
LEMMA CreateKeeps ==
  ASSUME IInv, Create
  PROVE  IInv'
<1>0. /\ vm \in Vm /\ cvm \in Cvm /\ guest \in Guest /\ ctl \in Ctl /\ bvm \in Bvm
      /\ hvc \in [Hvc -> Relay] /\ aux \in Aux /\ SwitchSound
      /\ aux.life \in Nat /\ bvm.life \in Nat /\ bvm.life <= aux.life
  BY Records DEF LivesOrdered, Aux, Bvm
<1>1. /\ vm' \in Vm /\ vm'.st = "live" /\ aux' \in Aux /\ aux'.life = aux.life + 1
      /\ ~cvm.on /\ ctl.cmds = <<>> /\ ~bvm.release /\ UNCHANGED <<guest, bvm, hvc>>
  BY <1>0 DEF Create, Vm, Aux, SwitchSound
<1>2. /\ cvm' \in Cvm /\ cvm'.on /\ ~cvm'.con /\ ~cvm'.read /\ cvm'.auto = "min"
  <2>1. NoCvm \in Cvm
    BY BackdoorAssumption DEF Cvm, NoCvm, Autos
  <2>2. ~NoCvm.con /\ ~NoCvm.read /\ NoCvm.auto = "min"
    BY DEF NoCvm
  <2>3. cvm' = [NoCvm EXCEPT !.on = TRUE, !.timer = TRUE]
    BY DEF Create
  <2> QED BY <2>1, <2>2, <2>3 DEF Cvm
<1> DEFINE m == [k |-> "add", path |-> "vport", life |-> aux.life + 1]
<1>3. ctl' = Tell(ctl, <<m>>) /\ m \in Command /\ m.k = "add" /\ m.life = aux'.life
  BY <1>0, <1>1 DEF Create, AddVm, Command
<1>4. /\ ctl' \in Ctl /\ ctl'.up = ctl.up /\ ctl'.evts = ctl.evts
      /\ ctl'.cmds = IF ctl.up THEN <<m>> ELSE <<>>
      /\ ~ctl.up => ctl' = ctl
  <2> HIDE DEF m
  <2>1. Append(<<>>, m) = <<m>>
    BY <1>3, Tuples
  <2>2. /\ Tell(ctl, <<m>>) \in Ctl
        /\ Tell(ctl, <<m>>).up = ctl.up /\ Tell(ctl, <<m>>).evts = ctl.evts
        /\ Tell(ctl, <<m>>).cmds = IF ctl.up THEN Append(ctl.cmds, m) ELSE ctl.cmds
        /\ ~ctl.up => Tell(ctl, <<m>>) = ctl
    BY <1>0, <1>3, TellOne
  <2> QED BY <1>1, <1>3, <2>1, <2>2
<1> HIDE DEF m
<1>5. Typed' /\ SwitchSound' /\ Retry'
  BY <1>0, <1>1, <1>2, <1>4 DEF Typed, SwitchSound, Retry
<1>6. LivesOrdered'
  BY <1>0, <1>1, <1>3, <1>4 DEF LivesOrdered
<1>7. DoorsAway' /\ Told'
  BY <1>0, <1>1, <1>4 DEF IInv, DoorsAway, Told
<1>8. Known'
  BY <1>1, <1>2, <1>3, <1>4 DEF Known, Follows, Later
<1> QED BY <1>5, <1>6, <1>7, <1>8 DEF IInv

LEMMA DeathKeeps ==
  ASSUME IInv, MachineDeath
  PROVE  IInv'
<1>0. /\ vm \in Vm /\ cvm \in Cvm /\ guest \in Guest /\ ctl \in Ctl /\ bvm \in Bvm
      /\ hvc \in [Hvc -> Relay] /\ aux \in Aux /\ SwitchSound
  BY Records
<1>1. /\ vm' \in Vm /\ vm'.st = "dying" /\ UNCHANGED <<guest, bvm, aux>>
      /\ cvm' = NoCvm /\ ctl' = Tell(ctl, <<Cmd("del")>>)
  BY <1>0 DEF MachineDeath, Vm
<1>2. hvc' \in [Hvc -> Relay]
  BY <1>0 DEF MachineDeath, SwitchReleased, Relay
<1>3. /\ cvm' \in Cvm /\ ~cvm'.on /\ ~cvm'.con /\ ~cvm'.timer /\ cvm'.auto = "min"
  BY <1>1, BackdoorAssumption DEF Cvm, NoCvm, Autos
<1>4. Cmd("del") \in Command /\ Cmd("del").k = "del"
  BY <1>0, CommandTyped DEF Cmd, Command
<1>5. /\ ctl' \in Ctl /\ ctl'.up = ctl.up /\ ctl'.evts = ctl.evts
      /\ ctl'.cmds = IF ctl.up THEN Append(ctl.cmds, Cmd("del")) ELSE ctl.cmds
      /\ ~ctl.up => ctl' = ctl
  BY <1>0, <1>1, <1>4, TellOne
<1>6. Typed' /\ SwitchSound' /\ Retry'
  BY <1>0, <1>1, <1>2, <1>3, <1>5 DEF Typed, SwitchSound, Retry
<1>7. ctl.cmds \in Seq(Command)
  BY <1>0 DEF Ctl
<1>8. LivesOrdered'
  <2>1. \A i \in 1 .. Len(ctl'.cmds) : ctl'.cmds[i].k = "add" =>
           i \in 1 .. Len(ctl.cmds) /\ ctl'.cmds[i] = ctl.cmds[i]
    BY <1>4, <1>5, <1>7
  <2> QED BY <1>1, <2>1 DEF IInv, LivesOrdered
<1>9. DoorsAway' /\ Told'
  BY <1>1, <1>3, <1>5 DEF IInv, DoorsAway, Told
<1>10. ctl.up => ctl'.cmds # <<>> /\ ctl'.cmds[Len(ctl'.cmds)].k = "del"
  BY <1>4, <1>5, <1>7
<1>11. Known'
  BY <1>3, <1>5, <1>10 DEF Known, Follows
<1> QED BY <1>6, <1>8, <1>9, <1>11 DEF IInv

LEMMA UnsetKeeps ==
  ASSUME IInv, Unset
  PROVE  IInv'
<1>0. /\ SwitchSound /\ Typed /\ Retry /\ LivesOrdered /\ DoorsAway /\ Told /\ Known
  BY DEF IInv
<1>1. /\ vm' \in Vm /\ vm'.st = "none" /\ ~cvm.on /\ UNCHANGED <<cvm, guest, ctl, bvm, hvc, aux>>
  BY <1>0 DEF Unset, Vm, SwitchSound
<1>2. Typed' /\ SwitchSound' /\ Retry'
  BY <1>0, <1>1 DEF Typed, SwitchSound, Retry
<1>3. LivesOrdered' /\ DoorsAway' /\ Told' /\ Known'
  BY <1>0, <1>1 DEF LivesOrdered, DoorsAway, Told, Known, Follows
<1> QED BY <1>2, <1>3 DEF IInv

-----------------------------------------------------------------------------
\* The switch hears of the agent, and of the doors.
LEMMA RecvEventKeeps ==
  ASSUME IInv, RecvEvent
  PROVE  IInv'
<1>0. /\ vm \in Vm /\ cvm \in Cvm /\ guest \in Guest /\ ctl \in Ctl /\ bvm \in Bvm
      /\ hvc \in [Hvc -> Relay] /\ aux \in Aux /\ aux.life \in Nat
      /\ SwitchSound /\ Retry /\ LivesOrdered /\ DoorsAway /\ Told /\ Known
  BY Records DEF Aux
<1> DEFINE e == Head(ctl.evts)
           k == [ctl EXCEPT !.evts = Tail(ctl.evts)]
<1>1. ctl.evts # <<>> /\ ctl.up /\ UNCHANGED <<guest, bvm, hvc, aux>>
  BY AwayIdle DEF RecvEvent
<1>2. /\ ctl.evts \in Seq({"ok", "ko"}) /\ Tail(ctl.evts) \in Seq({"ok", "ko"})
      /\ Len(Tail(ctl.evts)) = Len(ctl.evts) - 1 /\ Len(ctl.evts) \in Nat \ {0}
      /\ \A j \in 1 .. Len(Tail(ctl.evts)) : Tail(ctl.evts)[j] = ctl.evts[j + 1]
      /\ e = ctl.evts[1] /\ e \in {"ok", "ko"}
      /\ Len(Tail(ctl.evts)) = 0 <=> Tail(ctl.evts) = <<>>
  <2>1. ctl.evts \in Seq({"ok", "ko"})
    BY <1>0 DEF Ctl
  <2>2. /\ Tail(ctl.evts) \in Seq({"ok", "ko"}) /\ Len(Tail(ctl.evts)) = Len(ctl.evts) - 1
        /\ Len(ctl.evts) \in Nat \ {0}
        /\ \A j \in 1 .. Len(Tail(ctl.evts)) : Tail(ctl.evts)[j] = ctl.evts[j + 1]
        /\ Head(ctl.evts) = ctl.evts[1] /\ ctl.evts[1] \in {"ok", "ko"}
    BY <1>1, <2>1, TailProps
  <2>3. Len(Tail(ctl.evts)) = 0 <=> Tail(ctl.evts) = <<>>
    BY <2>2, EmptySeq
  <2> QED BY <2>1, <2>2, <2>3
<1>3. k \in Ctl /\ k.up = ctl.up /\ k.cmds = ctl.cmds /\ k.evts = Tail(ctl.evts)
  BY <1>0, <1>2 DEF Ctl
<1>4. /\ k.evts # <<>> => k.evts[Len(k.evts)] = ctl.evts[Len(ctl.evts)]
      /\ k.evts = <<>> => ctl.evts[Len(ctl.evts)] = e
  BY <1>2, <1>3
<1>5. Serves(k, cvm.auto, bvm, aux.life) \/ ~cvm.on
  BY <1>0, <1>3 DEF Known, Serves, LivesOrdered
<1>6. /\ \/ ~cvm.on /\ ctl' = k /\ UNCHANGED <<vm, cvm>>
         \/ /\ cvm.on /\ vm' = [vm EXCEPT !.ok = (e = "ok")]
            /\ IF e = "ko" /\ PingKoRestarts
               THEN cvm' = Restarted(cvm) /\ ctl' = Tell(k, <<Cmd("down")>>)
               ELSE ctl' = k /\ UNCHANGED cvm
  BY DEF RecvEvent
<1> HIDE DEF e, k
<1>7. CASE ~cvm.on /\ ctl' = k /\ UNCHANGED <<vm, cvm>>
  <2>1. Typed' /\ SwitchSound' /\ Retry'
    BY <1>0, <1>1, <1>3, <1>7 DEF Typed, SwitchSound, Retry
  <2>2. LivesOrdered' /\ DoorsAway' /\ Told'
    BY <1>0, <1>1, <1>3, <1>4, <1>7 DEF LivesOrdered, DoorsAway, Told
  <2>3. Known'
    BY <1>0, <1>1, <1>3, <1>7 DEF Known, Follows
  <2> QED BY <2>1, <2>2, <2>3 DEF IInv
<1>8. CASE cvm.on /\ vm' = [vm EXCEPT !.ok = (e = "ok")]
  <2>1. vm' \in Vm /\ vm'.st = vm.st /\ (vm'.ok <=> e = "ok")
    BY <1>0, <1>8 DEF Vm
  <2>2. ASSUME cvm' \in Cvm, cvm'.on = cvm.on, cvm'.con = cvm.con, cvm'.timer = cvm.timer,
               cvm'.read = cvm.read, Retry', ctl' \in Ctl, ctl'.up = ctl.up, ctl'.evts = k.evts,
               Serves(ctl', cvm'.auto, bvm, aux.life)
        PROVE  IInv'
    <3>1. Typed' /\ SwitchSound'
      BY <1>0, <1>1, <1>8, <2>1, <2>2 DEF Typed, SwitchSound
    <3>2. LivesOrdered' /\ DoorsAway'
      BY <1>0, <1>1, <2>2 DEF LivesOrdered, DoorsAway, Serves
    <3>3. Told'
      BY <1>0, <1>1, <1>2, <1>4, <2>1, <2>2 DEF Told, Bvm
    <3>4. Known'
      BY <1>1, <1>8, <2>2 DEF Known, Serves
    <3> QED BY <2>2, <3>1, <3>2, <3>3, <3>4 DEF IInv
  <2>3. CASE e = "ko" /\ PingKoRestarts
    <3>1. cvm' = Restarted(cvm) /\ ctl' = Tell(k, <<Cmd("down")>>)
      BY <1>6, <1>8, <2>3
    <3>2. /\ cvm' \in Cvm /\ cvm'.on = cvm.on /\ cvm'.con = cvm.con /\ cvm'.timer = cvm.timer
          /\ cvm'.read = cvm.read /\ cvm'.auto = "first_try" /\ cvm'.hb = cvm.hb
      BY <1>0, <3>1 DEF Restarted, Cvm, Autos
    <3>3. Retry'
      BY <1>0, <3>2 DEF Retry
    <3>4. Cmd("down") \in Command /\ Cmd("down").k = "down"
      BY <1>0, CommandTyped DEF Cmd, Command
    <3>5. ctl' \in Ctl /\ ctl'.up = ctl.up /\ ctl'.evts = k.evts
      BY <1>3, <3>1, <3>4, TellOne
    <3>6. Serves(ctl', cvm'.auto, bvm, aux.life)
      BY <1>0, <1>3, <1>5, <1>8, <3>1, <3>2, <3>4, TellServes
    <3> QED BY <2>2, <3>2, <3>3, <3>5, <3>6
  <2>4. CASE ~(e = "ko" /\ PingKoRestarts)
    <3>1. ctl' = k /\ cvm' = cvm
      BY <1>6, <1>8, <2>4
    <3>2. Retry'
      BY <1>0, <3>1 DEF Retry
    <3> QED BY <1>0, <1>3, <1>5, <1>8, <2>2, <3>1, <3>2
  <2> QED BY <2>3, <2>4
<1> QED BY <1>6, <1>7, <1>8

\* The doors are started again.
LEMMA RestartKeeps ==
  ASSUME IInv, DoorsRestart
  PROVE  IInv'
<1>0. /\ vm \in Vm /\ cvm \in Cvm /\ guest \in Guest /\ bvm \in Bvm
      /\ hvc \in [Hvc -> Relay] /\ aux \in Aux /\ aux.life \in Nat
      /\ SwitchSound /\ Retry /\ DoorsAway
      /\ bvm = NoBvm /\ UNCHANGED <<vm, guest, bvm, hvc, aux>>
  BY Records DEF DoorsRestart, DoorsAway, Aux
<1> DEFINE k == [NoCtl EXCEPT !.up = TRUE]
           add == AddVm("vport")
<1>1. k \in Ctl /\ k.up /\ k.cmds = <<>> /\ k.evts = <<>>
  <2>1. <<>> \in Seq(Command) /\ <<>> \in Seq({"ok", "ko"})
    OBVIOUS
  <2> QED BY <2>1 DEF NoCtl, Ctl
<1>2. /\ cvm' \in Cvm /\ cvm'.on = cvm.on /\ cvm'.con = cvm.con /\ cvm'.timer = cvm.timer
      /\ cvm'.read = cvm.read /\ cvm'.hb = cvm.hb /\ cvm'.t2 = cvm.t2
      /\ cvm'.handshake = cvm.handshake
      /\ cvm'.auto = cvm.auto \/ cvm'.auto = "first_try"
      /\ cvm.auto \in {"vport", "hvc"} => cvm'.auto = cvm.auto
  BY <1>0 DEF DoorsRestart, Restarted, Cvm, Autos
<1>3. Retry'
  BY <1>0, <1>2 DEF Retry
<1>4. SwitchSound'
  BY <1>0, <1>2 DEF SwitchSound
<1>5. ASSUME ctl' \in Ctl, ctl'.up, ctl'.evts = <<>>,
             IF cvm.on THEN Serves(ctl', cvm'.auto, bvm, aux.life) ELSE ctl' = k
      PROVE  IInv'
  <2>1. Typed'
    BY <1>0, <1>2, <1>5 DEF Typed
  <2>2. DoorsAway' /\ Told'
    BY <1>0, <1>5 DEF DoorsAway, Told, NoBvm
  <2>3. LivesOrdered' /\ Known'
    <3>1. bvm.life = 0 /\ ~bvm.on
      BY <1>0 DEF NoBvm
    <3>2. CASE cvm.on
      <4>1. Serves(ctl', cvm'.auto, bvm, aux.life) /\ cvm'.on /\ 0 <= aux.life
        BY <1>0, <1>2, <1>5, <3>2
      <4>2. LivesOrdered'
        BY <1>0, <3>1, <4>1 DEF LivesOrdered, Serves
      <4>3. Known'
        BY <1>0, <4>1 DEF Known, Serves
      <4> QED BY <4>2, <4>3
    <3>3. CASE ~cvm.on
      <4>4. ctl'.cmds = <<>>
        BY <1>1, <1>5, <3>3
      <4>5. cvm'.auto \notin {"vport", "hvc"}
        BY <1>0, <1>2, <3>3 DEF SwitchSound
      <4>1. ctl'.cmds = <<>> /\ ~cvm'.on /\ cvm'.auto \notin {"vport", "hvc"} /\ 0 <= aux.life
        BY <1>0, <1>2, <3>3, <4>4, <4>5
      <4>2. LivesOrdered'
        BY <1>0, <3>1, <4>1 DEF LivesOrdered
      <4>3. Known'
        BY <1>0, <3>1, <4>1 DEF Known, Follows
      <4> QED BY <4>2, <4>3
    <3> QED BY <3>2, <3>3
  <2> QED BY <1>3, <1>4, <2>1, <2>2, <2>3 DEF IInv
<1>6. CASE ~cvm.on
  <2>1. ctl' = k
    BY <1>6 DEF DoorsRestart
  <2> QED BY <1>1, <1>5, <1>6, <2>1
<1>7. CASE cvm.on
  <2>1. /\ add \in Command /\ add.k = "add" /\ add.life = aux.life
        /\ AddVm("hvc") \in Command /\ AddVm("hvc").k = "add" /\ AddVm("hvc").life = aux.life
        /\ Cmd("up_vport") \in Command /\ Cmd("up_vport").k = "up_vport"
        /\ Cmd("up_hvc") \in Command /\ Cmd("up_hvc").k = "up_hvc"
        /\ aux.life <= aux.life
    BY <1>0, CommandTyped DEF Cmd, AddVm, Typed, IInv
  <2> DEFINE a == Tell(k, <<add>>)
  <2>4. ctl' = Tell(k, <<add>> \o Reinit)
    BY <1>7 DEF DoorsRestart
  <2> HIDE DEF k, add
  <2>2. a \in Ctl /\ a.up /\ a.evts = <<>> /\ a.cmds = <<add>>
    <3>1. Append(<<>>, add) = <<add>>
      BY <2>1, Tuples
    <3>2. /\ a \in Ctl /\ a.up = k.up /\ a.evts = k.evts
          /\ a.cmds = IF k.up THEN Append(k.cmds, add) ELSE k.cmds
      BY <1>1, <2>1, TellOne
    <3> QED BY <1>1, <3>1, <3>2
  <2> HIDE DEF a
  <2>3. ASSUME NEW auto, auto \notin {"vport", "hvc"}
        PROVE  Serves(a, auto, bvm, aux.life)
    <3>1. ~bvm.release
      BY <1>0 DEF NoBvm
    <3>2. /\ a.cmds # <<>> /\ Head(a.cmds) = add /\ Len(a.cmds) = 1 /\ a.cmds[1] = add
      BY <2>2
    <3> QED BY <1>0, <2>1, <2>3, <3>1, <3>2 DEF Serves, Follows, Later
  <2>5. CASE cvm.auto = "vport"
    <3>1. Reinit = <<Cmd("up_vport")>>
      BY <2>5 DEF Reinit, UpVport
    <3>2. ctl' = Tell(k, <<add, Cmd("up_vport")>>)
      BY <2>1, <2>4, <3>1, Tuples
    <3>3. ctl' = Tell(a, <<Cmd("up_vport")>>)
      BY <1>1, <2>1, <3>2, TellTwo DEF a
    <3>4. Serves(ctl', "vport", bvm, aux.life)
      BY <1>0, <2>1, <2>2, <2>3, <3>3, TellServes
    <3>5. ctl' \in Ctl /\ ctl'.up /\ ctl'.evts = <<>>
      BY <2>1, <2>2, <3>3, TellOne
    <3> QED BY <1>2, <1>5, <1>7, <2>5, <3>4, <3>5
  <2>6. CASE cvm.auto = "hvc"
    <3>1. Reinit = <<Cmd("up_hvc"), AddVm("hvc")>>
      BY <2>6 DEF Reinit, UpHvc
    <3> DEFINE b == Tell(a, <<Cmd("up_hvc")>>)
    <3>2. ctl' = Tell(k, <<add, Cmd("up_hvc"), AddVm("hvc")>>)
      BY <2>1, <2>4, <3>1, Tuples
    <3>3. ctl' = Tell(b, <<AddVm("hvc")>>)
      BY <1>1, <2>1, <3>2, TellThree DEF a
    <3>4. b \in Ctl /\ b.up /\ b.evts = <<>>
      BY <2>1, <2>2, TellOne
    <3>5. Serves(b, "hvc", bvm, aux.life)
      BY <1>0, <2>1, <2>2, <2>3, TellServes
    <3> HIDE DEF b
    <3>6. Serves(ctl', "hvc", bvm, aux.life)
      BY <1>0, <2>1, <3>3, <3>4, <3>5, TellServes
    <3>7. ctl' \in Ctl /\ ctl'.up /\ ctl'.evts = <<>>
      BY <2>1, <3>3, <3>4, TellOne
    <3> QED BY <1>2, <1>5, <1>7, <2>6, <3>6, <3>7
  <2>7. CASE cvm.auto \notin {"vport", "hvc"}
    <3>1. Reinit = <<>>
      BY <2>7 DEF Reinit
    <3>2. ctl' = a
      BY <2>1, <2>4, <3>1, Tuples DEF a
    <3>3. cvm'.auto \notin {"vport", "hvc"}
      BY <1>2, <2>7
    <3> QED BY <1>5, <1>7, <2>2, <2>3, <3>2, <3>3
  <2> QED BY <2>5, <2>6, <2>7
<1> QED BY <1>6, <1>7
-----------------------------------------------------------------------------
\* The doors do as they are told.
LEMMA RecvCommandKeeps ==
  ASSUME IInv, RecvCommand
  PROVE  IInv'
<1>0. /\ vm \in Vm /\ cvm \in Cvm /\ guest \in Guest /\ ctl \in Ctl /\ bvm \in Bvm
      /\ hvc \in [Hvc -> Relay] /\ aux \in Aux /\ aux.life \in Nat
      /\ SwitchSound /\ Retry /\ LivesOrdered /\ DoorsAway /\ Told /\ Known
  BY Records DEF Aux
<1> DEFINE c == Head(ctl.cmds)
<1>1. /\ ctl.cmds # <<>> /\ ctl.up /\ UNCHANGED <<vm, cvm, guest>>
      /\ ctl' = [ctl EXCEPT !.cmds = Tail(ctl.cmds)]
  BY AwayIdle DEF RecvCommand
<1>2. /\ ctl.cmds \in Seq(Command) /\ Tail(ctl.cmds) \in Seq(Command)
      /\ \A j \in 1 .. Len(Tail(ctl.cmds)) : Tail(ctl.cmds)[j] = ctl.cmds[j + 1]
      /\ Len(Tail(ctl.cmds)) = Len(ctl.cmds) - 1 /\ Len(ctl.cmds) \in Nat \ {0}
      /\ c = ctl.cmds[1] /\ c \in Command
  BY <1>0, <1>1, TailProps DEF Ctl
<1>3. /\ ctl' \in Ctl /\ ctl'.up = ctl.up /\ ctl'.evts = ctl.evts
      /\ ctl'.cmds = Tail(ctl.cmds)
  BY <1>0, <1>1, <1>2 DEF Ctl
<1>4. /\ c.k = "add" /\ Begin(c)
      \/ /\ c.k # "add" /\ UNCHANGED <<hvc, aux>>
         /\ bvm' = IF ~bvm.on THEN bvm
                   ELSE CASE c.k = "up_vport" -> [bvm EXCEPT !.up = TRUE, !.used = FALSE]
                          [] c.k = "up_hvc" -> [bvm EXCEPT !.used = TRUE]
                          [] c.k = "down" -> Down(bvm)
                          [] c.k = "del" -> Deleted(bvm)
  <2>1. c.k \in {"add", "up_vport", "up_hvc", "down", "del"}
    BY <1>2 DEF Command
  <2> QED BY <1>0, <2>1 DEF RecvCommand, Bvm
<1> HIDE DEF c
<1>5. c.k = "add" => c.life \in Nat /\ c.life <= aux.life
  <2>1. c.k = "add" => c.life \in Nat
    BY <1>2 DEF Command
  <2>2. 1 \in 1 .. Len(ctl.cmds)
    BY <1>2
  <2> QED BY <1>0, <1>2, <2>1, <2>2 DEF LivesOrdered
<1>6. ASSUME bvm' \in Bvm, hvc' \in [Hvc -> Relay], aux' \in Aux, aux'.life = aux.life,
             bvm'.life <= aux.life,
             bvm'.ping = "no" \/ (bvm'.ping = bvm.ping /\ bvm'.life = bvm.life),
             bvm'.release => bvm'.on, c.k # "del" => bvm'.release = bvm.release,
             c.k = "add" => bvm'.on /\ (bvm.on => bvm'.used = bvm.used)
                            /\ (~bvm.on => ~bvm'.used),
             c.k = "up_vport" => bvm'.on = bvm.on /\ (bvm.on => ~bvm'.used),
             c.k = "up_hvc" => bvm'.on = bvm.on /\ (bvm.on => bvm'.used),
             c.k = "down" => bvm'.on = bvm.on /\ bvm'.used = bvm.used,
             c.k = "del" =>
                (bvm'.on => bvm'.release \/ (bvm'.llid = "none" /\ ~bvm'.connect))
      PROVE  IInv'
  <2>1. Typed' /\ SwitchSound' /\ Retry'
    BY <1>0, <1>1, <1>3, <1>6 DEF Typed, SwitchSound, Retry
  <2>2. LivesOrdered'
    <3>1. \A j \in 1 .. Len(Tail(ctl.cmds)) : j + 1 \in 1 .. Len(ctl.cmds)
      BY <1>2
    <3> QED BY <1>0, <1>2, <1>3, <1>6, <3>1 DEF LivesOrdered
  <2>3. DoorsAway'
    BY <1>1, <1>3, <1>6 DEF DoorsAway
  <2>4. Told'
    BY <1>0, <1>1, <1>3, <1>6 DEF Told
  <2>5. Known'
    <3>1. Follows(ctl.cmds, cvm.on, cvm.auto, bvm)
      BY <1>0, <1>1 DEF Known
    <3>2. cvm.on \in BOOLEAN /\ (cvm.auto \in {"vport", "hvc"} => cvm.on)
      BY <1>0 DEF SwitchSound, Cvm
    <3>3. Follows(Tail(ctl.cmds), cvm.on, cvm.auto, bvm')
      BY <1>0, <1>1, <1>2, <1>6, <3>1, <3>2, TailFollows DEF c
    <3> QED BY <1>1, <1>3, <3>3 DEF Known
  <2> QED BY <2>1, <2>2, <2>3, <2>4, <2>5 DEF IInv
<1>7. bvm.life \in Nat /\ bvm.life <= aux.life /\ (bvm.release => bvm.on)
  BY <1>0 DEF LivesOrdered, DoorsAway, Bvm
<1>8. CASE c.k = "add" /\ Begin(c)
  <2>1. CASE ~bvm.on
    <3> DEFINE b == [NoBvm EXCEPT !.on = TRUE, !.life = c.life, !.hb = TRUE]
    <3>1. NoBvm \in Bvm
      BY BackdoorAssumption DEF NoBvm, Bvm
    <3>2. b \in Bvm /\ b.on /\ ~b.used /\ ~b.release /\ b.ping = "no" /\ b.life = c.life
      <4>1. ~NoBvm.used /\ ~NoBvm.release /\ NoBvm.ping = "no"
        BY DEF NoBvm
      <4> QED BY <1>5, <1>8, <3>1, <4>1 DEF Bvm
    <3>3. Connect(b) /\ hvc' = hvc
      BY <1>8, <2>1 DEF Begin
    <3> HIDE DEF b
    <3>4. /\ bvm' \in Bvm /\ bvm'.on = b.on /\ bvm'.used = b.used
          /\ bvm'.release = b.release /\ bvm'.life = b.life /\ bvm'.ping = b.ping
          /\ aux' \in Aux /\ aux'.life = aux.life
      BY <3>2, <3>3, ConnectFacts
    <3>5. ~bvm.release
      BY <1>0, <2>1 DEF DoorsAway
    <3>6. /\ c.k = "add" /\ bvm'.on /\ ~bvm'.used /\ ~bvm'.release /\ bvm'.ping = "no"
          /\ bvm'.life <= aux.life /\ hvc' \in [Hvc -> Relay]
      BY <1>0, <1>5, <1>8, <3>2, <3>3, <3>4
    <3>7. bvm'.release = bvm.release
      BY <1>0, <3>4, <3>5, <3>6 DEF Bvm
    <3> QED BY <1>6, <2>1, <3>4, <3>6, <3>7
  <2>2. CASE bvm.on
    <3>1. CASE bvm' = bvm /\ hvc' = hvc /\ aux' = aux
      BY <1>0, <1>6, <1>7, <1>8, <2>2, <3>1
    <3>2. ASSUME NEW n \in Hvc, hvc' = [hvc EXCEPT ![n] = [door |-> "open", sw |-> "pending"]],
                 bvm' = [bvm EXCEPT !.hvc = n, !.up = TRUE], UNCHANGED aux
          PROVE  IInv'
      <4>1. hvc' \in [Hvc -> Relay]
        BY <1>0, <3>2 DEF Relay
      <4>2. n \in 0 .. MaxHvc
        BY BackdoorAssumption DEF Hvc
      <4>3. /\ bvm' \in Bvm /\ bvm'.on = bvm.on /\ bvm'.used = bvm.used
            /\ bvm'.release = bvm.release /\ bvm'.life = bvm.life /\ bvm'.ping = bvm.ping
        BY <1>0, <3>2, <4>2 DEF Bvm
      <4> QED BY <1>0, <1>6, <1>7, <1>8, <2>2, <3>2, <4>1, <4>3
    <3> QED BY <1>8, <2>2, <3>1, <3>2, Zenon DEF Begin
  <2> QED BY <1>0, <2>1, <2>2
<1>9. CASE /\ c.k # "add" /\ UNCHANGED <<hvc, aux>>
           /\ bvm' = IF ~bvm.on THEN bvm
                     ELSE CASE c.k = "up_vport" -> [bvm EXCEPT !.up = TRUE, !.used = FALSE]
                            [] c.k = "up_hvc" -> [bvm EXCEPT !.used = TRUE]
                            [] c.k = "down" -> Down(bvm)
                            [] c.k = "del" -> Deleted(bvm)
  <2>0. UNCHANGED <<hvc, aux>> /\ c.k \in {"up_vport", "up_hvc", "down", "del"}
    BY <1>2, <1>9 DEF Command
  <2>1. CASE ~bvm.on
    <3>1. bvm' = bvm
      BY <1>9, <2>1
    <3> QED BY <1>0, <1>6, <1>7, <2>0, <2>1, <3>1
  <2>2. CASE bvm.on /\ c.k = "up_vport"
    <3>1. bvm' = [bvm EXCEPT !.up = TRUE, !.used = FALSE]
      BY <1>9, <2>2
    <3>2. /\ bvm' \in Bvm /\ bvm'.on = bvm.on /\ ~bvm'.used
          /\ bvm'.release = bvm.release /\ bvm'.life = bvm.life /\ bvm'.ping = bvm.ping
      BY <1>0, <3>1 DEF Bvm
    <3> QED BY <1>0, <1>6, <1>7, <2>0, <2>2, <3>2
  <2>3. CASE bvm.on /\ c.k = "up_hvc"
    <3>1. bvm' = [bvm EXCEPT !.used = TRUE]
      BY <1>9, <2>3
    <3>2. /\ bvm' \in Bvm /\ bvm'.on = bvm.on /\ bvm'.used
          /\ bvm'.release = bvm.release /\ bvm'.life = bvm.life /\ bvm'.ping = bvm.ping
      BY <1>0, <3>1 DEF Bvm
    <3> QED BY <1>0, <1>6, <1>7, <2>0, <2>3, <3>2
  <2>4. CASE bvm.on /\ c.k = "down"
    <3>1. bvm' = Down(bvm)
      BY <1>9, <2>4
    <3>2. /\ bvm' \in Bvm /\ bvm'.on = bvm.on /\ bvm'.used = bvm.used
          /\ bvm'.release = bvm.release /\ bvm'.life = bvm.life /\ bvm'.ping = bvm.ping
      BY <1>0, <3>1 DEF Bvm, Down
    <3> QED BY <1>0, <1>6, <1>7, <2>0, <2>4, <3>2
  <2>5. CASE bvm.on /\ c.k = "del"
    <3>1. bvm' = Deleted(bvm)
      BY <1>9, <2>5
    <3>2. /\ bvm' \in Bvm /\ bvm'.on /\ bvm'.life = bvm.life /\ bvm'.ping = bvm.ping
          /\ ~bvm'.connect /\ bvm'.llid = bvm.llid /\ (bvm'.release <=> bvm.llid # "none")
      BY <1>0, <2>5, <3>1 DEF Bvm, Deleted
    <3> QED BY <1>0, <1>6, <1>7, <2>0, <2>5, <3>2
  <2> QED BY <1>0, <2>0, <2>1, <2>2, <2>3, <2>4, <2>5 DEF Bvm
<1> QED BY <1>4, <1>8, <1>9

\* The doors free the record of a machine that is gone, or die themselves.
LEMMA DoorsForget ==
  ASSUME IInv, TimerRelease \/ DoorsCrash
  PROVE  IInv'
<1>0. /\ vm \in Vm /\ cvm \in Cvm /\ guest \in Guest /\ ctl \in Ctl /\ bvm \in Bvm
      /\ hvc \in [Hvc -> Relay] /\ aux \in Aux /\ aux.life \in Nat
      /\ SwitchSound /\ Retry /\ LivesOrdered /\ DoorsAway /\ Told /\ Known
  BY Records DEF Aux
<1>1. /\ bvm' = NoBvm /\ UNCHANGED <<vm, cvm, guest>>
      /\ aux' \in Aux /\ aux'.life = aux.life
  BY <1>0, FaultKeeps DEF TimerRelease, DoorsCrash, Dies
<1>2. /\ NoBvm \in Bvm /\ NoBvm.life = 0 /\ NoBvm.ping = "no" /\ ~NoBvm.on
      /\ ~NoBvm.used /\ ~NoBvm.release
  BY BackdoorAssumption DEF NoBvm, Bvm
<1>3. hvc' \in [Hvc -> Relay]
  BY <1>0 DEF TimerRelease, DoorsCrash, Dies, Relay
<1>4. SwitchSound' /\ Retry'
  BY <1>0, <1>1 DEF SwitchSound, Retry
<1>5. CASE TimerRelease
  <2>1. ctl' = ctl /\ bvm.release /\ ctl.up
    BY <1>5, AwayIdle DEF TimerRelease
  <2>2. Typed' /\ LivesOrdered' /\ DoorsAway' /\ Told'
    BY <1>0, <1>1, <1>2, <1>3, <2>1 DEF Typed, LivesOrdered, DoorsAway, Told
  <2>3. ~cvm.on
    BY <1>0, <2>1 DEF Known, Follows
  <2>4. Known'
    BY <1>0, <1>1, <1>2, <2>1, <2>3 DEF Known, Follows, SwitchSound
  <2> QED BY <1>4, <2>2, <2>4 DEF IInv
<1>6. CASE DoorsCrash
  <2>1. ctl' = NoCtl
    BY <1>6 DEF DoorsCrash, Dies
  <2>2. ctl' \in Ctl /\ ~ctl'.up /\ ctl'.cmds = <<>> /\ ctl'.evts = <<>>
    <3>1. <<>> \in Seq(Command) /\ <<>> \in Seq({"ok", "ko"})
      OBVIOUS
    <3> QED BY <2>1, <3>1 DEF NoCtl, Ctl
  <2>3. Typed' /\ LivesOrdered' /\ DoorsAway' /\ Told' /\ Known'
    BY <1>0, <1>1, <1>2, <1>3, <2>2 DEF Typed, LivesOrdered, DoorsAway, Told, Known
  <2> QED BY <1>4, <2>3 DEF IInv
<1> QED BY <1>5, <1>6

-----------------------------------------------------------------------------
LEMMA InitIInv == Init => IInv
<1> SUFFICES ASSUME Init PROVE IInv
  OBVIOUS
<1>1. <<>> \in Seq(Command) /\ <<>> \in Seq({"ok", "ko"})
  OBVIOUS
<1>2. /\ ctl \in Ctl /\ ctl.up /\ ctl.cmds = <<>> /\ ctl.evts = <<>>
  BY <1>1 DEF Init, NoCtl, Ctl
<1>3. /\ cvm = NoCvm /\ NoCvm \in Cvm /\ ~NoCvm.on /\ ~NoCvm.con /\ ~NoCvm.timer
      /\ NoCvm.auto = "min" /\ NoCvm.t2 = 0
  BY BackdoorAssumption DEF Init, NoCvm, Cvm, Autos
<1>4. /\ bvm = NoBvm /\ NoBvm \in Bvm /\ NoBvm.life = 0 /\ NoBvm.ping = "no" /\ ~NoBvm.on /\ ~NoBvm.release
  BY BackdoorAssumption DEF Init, NoBvm, Bvm
<1>5. /\ vm \in Vm /\ vm.st = "none" /\ guest \in Guest /\ hvc \in [Hvc -> Relay]
      /\ aux \in Aux /\ aux.life = 0
  BY DEF Init, Vm, NoGuest, Guest, Relay, Aux
<1>6. Typed
  BY <1>2, <1>3, <1>4, <1>5 DEF Typed
<1>7. SwitchSound /\ Retry /\ LivesOrdered /\ DoorsAway /\ Told
  BY <1>2, <1>3, <1>4, <1>5 DEF SwitchSound, Retry, LivesOrdered, DoorsAway, Told
<1>8. Known
  BY <1>2, <1>3, <1>4 DEF Known, Follows
<1> QED BY <1>6, <1>7, <1>8 DEF IInv

LEMMA StepIInv == IInv /\ [Next]_vars => IInv'
<1> SUFFICES ASSUME IInv, [Next]_vars PROVE IInv'
  OBVIOUS
<1>1. CASE Next
  BY <1>1, CreateKeeps, DeathKeeps, UnsetKeeps, SwitchQuiet, RecvEventKeeps, RestartKeeps,
     GuestQuiet, GuestWrites, RecvCommandKeeps, DoorsQuiet, DoorsForget, PingKeeps
     DEF Next, SwitchStep, GuestStep, DoorsStep
<1>2. CASE UNCHANGED vars
  BY <1>2 DEF vars, IInv, Typed, SwitchSound, Retry, LivesOrdered, DoorsAway, Told, Known
<1> QED BY <1>1, <1>2

\* IInv holds in every behaviour of the switch (qhvc0.c), the doors (doorways_mngt.c
\* and llid_backdoor.c) and the agent.
THEOREM BackdoorInvariant == Spec => []IInv
BY InitIInv, StepIInv, PTL DEF Spec

LEMMA IInvDoorsFollow == IInv => DoorsFollow
<1> SUFFICES ASSUME IInv PROVE DoorsFollow
  OBVIOUS
<1>1. FlagAgrees
  BY DEF IInv, Told, FlagAgrees
<1>2. ASSUME ctl.up, ctl.cmds = <<>>
      PROVE  /\ cvm.on => bvm.on
             /\ cvm.auto = "vport" => ~bvm.used
             /\ cvm.auto = "hvc" => bvm.used
             /\ bvm.on /\ ~cvm.on => bvm.release \/ bvm.llid = "none"
  <2>1. Follows(<<>>, cvm.on, cvm.auto, bvm)
    BY <1>2 DEF IInv, Known
  <2>2. \A k, o : ~LastPort(<<>>, k, o)
    BY DEF LastPort
  <2> QED BY <2>1, <2>2 DEF Follows
<1> QED BY <1>1, <1>2 DEF DoorsFollow

LEMMA IInvRetry == IInv => RetryIsDue
<1> SUFFICES ASSUME IInv PROVE RetryIsDue
  OBVIOUS
<1>1. TypeOK
  BY DEF IInv, Typed, TypeOK, Vm, Cvm, Guest, Bvm
<1> QED BY <1>1 DEF IInv, Retry, RetryIsDue

\* Once the doors have taken every command, they have the record of a machine the
\* switch has, on the port of its agent, and none of a machine that is gone, also
\* after a restart of the doors.
THEOREM DoorsFollowHolds == Spec => []DoorsFollow
BY BackdoorInvariant, IInvDoorsFollow, PTL

\* While the console of qhvc0.c is open and read, the automaton never waits without
\* the heartbeat, the handshake or the count that will make it try again.
THEOREM RetryHolds == Spec => []RetryIsDue
BY BackdoorInvariant, IInvRetry, PTL

-----------------------------------------------------------------------------
(* Links between two servers (C2cPeer).                                      *)
Idx == 0 .. MAX_C2C_IDX - 1
FreeIdx == 1 .. MAX_C2C_IDX - 1
Llid == 0 .. MaxConn

Link == [st : States, llid : Llid, master_idx : Idx, slave_idx : Idx,
         count : 0 .. MAX_PING + 1,
         timer : {"none", "try", "idx", "create", "conx"}, con : BOOLEAN]
Endp == [st : {"none", "wait", "ready", "born"}, fd : Llid, dying : BOOLEAN]
DoorRec == [idx : Idx, peer : Idx, dido : Llid, con : BOOLEAN]
Ans == [k : {"idx", "conx", "death"}, idx : Idx, fd : Llid]
ToMaster == [k : {"ping"}]
            \cup [k : {"ack"}, master_idx : Idx, slave_idx : Idx, status : {0, 1}]
ToSlave == [k : {"ping", "delete"}] \cup [k : {"create"}, master_idx : Idx]
To(x) == IF x = "m" THEN ToMaster ELSE ToSlave
Queues == {q \in [Side -> Seq(ToMaster \cup ToSlave)] : \A x \in Side : q[x] \in Seq(To(x))}
Chan == [open : SUBSET Side, cut : BOOLEAN, q : Queues]
Traffic == [end : [Side -> {"none", "door", "proc"}], ctx : SUBSET Side,
            msg : {"none", "hello", "reply"}, idx : Idx]

\* Each end has the states of its role.
Links == {c \in [Side -> Link] : c["m"].st # "sidx" /\ c["s"].st \notin {"midx", "zero"}}

State == [c : Links, mu : [Side -> Endp], ping : [Side -> Nat],
          stop : [Side -> Seq(Llid)], restart : Nat,
          door : [Side -> DoorRec], pool : [Side -> Seq(FreeIdx)], up : [Side -> Seq(Ans)],
          conn : [Conn -> Chan], tr : [Conn -> Traffic],
          nadd : Nat, nconn : Llid, ntr : Llid, nupset : Nat]

Fields == {"c", "mu", "ping", "stop", "restart", "door", "pool", "up", "conn", "tr",
           "nadd", "nconn", "ntr", "nupset"}
Keep(a, b, F) == \A f \in F : b[f] = a[f]

\* The pool has the indexes the record does not hold, once each.
PoolOk(idx, pool) ==
    /\ \A i, j \in 1 .. Len(pool) : pool[i] = pool[j] => i = j
    /\ \A i \in 1 .. Len(pool) : pool[i] # idx
    /\ \A v \in FreeIdx : v = idx \/ \E i \in 1 .. Len(pool) : pool[i] = v

\* What one end keeps while its link is being changed.
Weak(st, x) ==
    /\ Exists(st, x) => st.mu[x].st # "none"
    /\ st.c[x].timer = "try" => st.c[x].llid = 0
    /\ ~Exists(st, x) => st.c[x] = NoC2c
    /\ st.door[x].idx # 0 => Exists(st, x)
    /\ st.mu[x].st = "ready" => st.mu[x].fd # 0
    /\ PoolOk(st.door[x].idx, st.pool[x])
Watch(st, x) == st.c[x].llid # 0 => st.c[x].timer # "none" \/ st.ping[x] > 0
Stopped(st, x) ==
    st.mu[x].st # "none" /\ ~Exists(st, x) => st.stop[x] # <<>> \/ st.mu[x].dying
\* The part of the invariant about one end.
Local(st, x) == Weak(st, x) /\ Watch(st, x) /\ Stopped(st, x)

HasIdx(u) == \E j \in 1 .. Len(u) : u[j].k = "idx"
OneIdx(u) == \A i, j \in 1 .. Len(u) : u[i].k = "idx" /\ u[j].k = "idx" => i = j
NoCreate(q) == \A j \in 1 .. Len(q) : q[j].k # "create"
Creates(q, i) == \A j \in 1 .. Len(q) : q[j].k = "create" => q[j].master_idx = i
Accept(a) == a.k = "ack" /\ a.status = 0
LastSays(q, v, i) ==
    \/ (\A j \in 1 .. Len(q) : ~Accept(q[j])) /\ (v = 0 \/ v = i)
    \/ \E j \in 1 .. Len(q) : /\ Accept(q[j]) /\ q[j].slave_idx = i
                              /\ \A k \in 1 .. Len(q) : k > j => ~Accept(q[k])
Works(k) == k.open = Side /\ ~k.cut
Idle(k) == k.open = {} /\ k.q["m"] = <<>> /\ k.q["s"] = <<>>

\* The part about both ends, their doors' answers and what is under way.
Shared(st) ==
    LET m == st.c["m"]
        s == st.c["s"]
        k == st.conn[m.llid]
    IN  /\ m.llid <= st.nconn /\ s.llid <= st.nconn
        /\ \A n \in Conn : n > st.nconn => Idle(st.conn[n])
        /\ OneIdx(st.up["m"])
        /\ m.con => ~HasIdx(st.up["m"])
        /\ m.llid # 0 /\ HasIdx(st.up["m"]) => s.llid # m.llid /\ NoCreate(k.q["s"])
        /\ m.llid # 0 => Creates(k.q["s"], m.master_idx)
        /\ m.llid # 0 /\ m.llid = s.llid =>
            /\ m.master_idx = s.master_idx
            /\ Works(k) /\ ~HasIdx(st.up["s"]) =>
                  LastSays(k.q["m"], m.slave_idx, s.slave_idx)

Good(st) == st \in State /\ (\A x \in Side : Local(st, x)) /\ Shared(st)
\* The inductive invariant.
PeerInv == Good(w)

-----------------------------------------------------------------------------
Calm(c, d) ==
    d.llid # 0 => /\ d.llid = c.llid /\ d.master_idx = c.master_idx
                  /\ d.slave_idx = c.slave_idx
SameIdx(u, v) == (HasIdx(u) <=> HasIdx(v)) /\ (OneIdx(u) => OneIdx(v))
Quieter(k, j) ==
    /\ Idle(k) => Idle(j)
    /\ NoCreate(k.q["s"]) => NoCreate(j.q["s"])
    /\ \A i \in Idx : Creates(k.q["s"], i) => Creates(j.q["s"], i)
    /\ Works(j) => Works(k) /\ \A v, i \in Idx : LastSays(k.q["m"], v, i) => LastSays(j.q["m"], v, i)
\* Nothing new is promised between the ends.
Quiet(st, new) ==
    /\ new.nconn = st.nconn
    /\ \A n \in Conn : Quieter(st.conn[n], new.conn[n])
    /\ \A x \in Side : SameIdx(st.up[x], new.up[x]) /\ Calm(st.c[x], new.c[x])
    /\ new.c["m"].con => st.c["m"].con
SameSide(st, new, y) ==
    /\ new.c[y] = st.c[y] /\ new.mu[y] = st.mu[y] /\ new.ping[y] = st.ping[y]
    /\ new.stop[y] = st.stop[y] /\ new.door[y] = st.door[y] /\ new.pool[y] = st.pool[y]
\* A change of the end x alone.
Frame(st, new, x) == new \in State /\ Quiet(st, new) /\ SameSide(st, new, Peer(x))

LEMMA FrameSelf ==
  ASSUME NEW st \in State, NEW x \in Side
  PROVE  Frame(st, st, x)
BY DEF Frame, Quiet, Quieter, SameIdx, Calm, SameSide

LEMMA FrameTrans ==
  ASSUME NEW a, NEW b, NEW c, NEW x \in Side, Frame(a, b, x), Frame(b, c, x)
  PROVE  Frame(a, c, x)
<1>1. /\ c \in State /\ SameSide(a, c, Peer(x)) /\ c.nconn = a.nconn
      /\ (c.c["m"].con => a.c["m"].con)
  BY DEF Frame, Quiet, SameSide
<1>2. \A n \in Conn : Quieter(a.conn[n], c.conn[n])
  <2> SUFFICES ASSUME NEW n \in Conn PROVE Quieter(a.conn[n], c.conn[n])
    OBVIOUS
  <2>1. Quieter(a.conn[n], b.conn[n]) /\ Quieter(b.conn[n], c.conn[n])
    BY DEF Frame, Quiet
  <2> QED BY <2>1 DEF Quieter
<1>3. \A y \in Side : SameIdx(a.up[y], c.up[y]) /\ Calm(a.c[y], c.c[y])
  BY DEF Frame, Quiet, SameIdx, Calm
<1> QED BY <1>1, <1>2, <1>3 DEF Frame, Quiet

LEMMA Sides ==
  /\ "m" \in Side /\ "s" \in Side /\ Peer("m") = "s" /\ Peer("s") = "m"
  /\ \A x \in Side : Peer(x) \in Side /\ Peer(x) # x /\ \A y \in Side : y = x \/ y = Peer(x)
BY DEF Side, Peer

\* The types of the tables.
LEMMA Tables ==
  ASSUME NEW st \in State
  PROVE  /\ st.c \in Links /\ st.mu \in [Side -> Endp] /\ st.ping \in [Side -> Nat]
         /\ st.stop \in [Side -> Seq(Llid)] /\ st.restart \in Nat
         /\ st.door \in [Side -> DoorRec] /\ st.pool \in [Side -> Seq(FreeIdx)]
         /\ st.up \in [Side -> Seq(Ans)] /\ st.conn \in [Conn -> Chan]
         /\ st.tr \in [Conn -> Traffic] /\ st.nadd \in Nat /\ st.nconn \in Llid
         /\ st.ntr \in Llid /\ st.nupset \in Nat
BY DEF State

LEMMA LinkType ==
  ASSUME NEW st \in State, NEW x \in Side
  PROVE  /\ st.c[x] \in Link /\ st.c[x].llid \in Llid
         /\ st.c[x].master_idx \in Idx /\ st.c[x].slave_idx \in Idx
         /\ st.c[x].st \in States
         /\ st.c["m"].st # "sidx" /\ st.c["s"].st \notin {"midx", "zero"}
BY Tables DEF Links, Link

LEMMA FrameGood ==
  ASSUME NEW st, Good(st), NEW new, NEW x \in Side, Frame(st, new, x), Local(new, x)
  PROVE  Good(new)
<1>1. st \in State /\ new \in State /\ Quiet(st, new) /\ Shared(st)
  BY DEF Good, Frame
<1>2. \A y \in Side : Local(new, y)
  <2>1. Local(new, Peer(x))
    BY Sides DEF Good, Frame, SameSide, Local, Weak, Watch, Stopped, Exists
  <2> QED BY <2>1, Sides
<1>3. /\ \A y \in Side : st.c[y].llid \in Nat /\ new.c[y].llid \in Nat
      /\ \A y \in Side : st.c[y].llid # 0 => st.c[y].llid \in Conn
      /\ st.c["m"].master_idx \in Idx /\ st.c["m"].slave_idx \in Idx
      /\ st.c["s"].slave_idx \in Idx /\ st.nconn \in Nat
  BY <1>1, LinkType, Tables, Sides, C2cAssumption DEF Llid, Conn
<1>4. Shared(new)
  BY <1>1, <1>3, Sides DEF Shared, Quiet, Quieter, SameIdx, Calm
<1> QED BY <1>1, <1>2, <1>4 DEF Good

-----------------------------------------------------------------------------
\* Queues and answers.
LEMMA AppendProps ==
  ASSUME NEW S, NEW q \in Seq(S), NEW a \in S
  PROVE  /\ Append(q, a) \in Seq(S) /\ Len(Append(q, a)) = Len(q) + 1 /\ Len(q) \in Nat
         /\ \A j \in 1 .. Len(q) : Append(q, a)[j] = q[j]
         /\ Append(q, a)[Len(q) + 1] = a
OBVIOUS

LEMMA AppendAnswer ==
  ASSUME NEW q \in Seq(Ans), NEW a \in Ans
  PROVE  /\ a.k # "idx" => SameIdx(q, Append(q, a))
         /\ a.k = "idx" => HasIdx(Append(q, a))
         /\ a.k = "idx" /\ ~HasIdx(q) => OneIdx(Append(q, a))
<1> DEFINE p == Append(q, a)
<1>1. /\ Len(p) = Len(q) + 1 /\ Len(q) \in Nat /\ p[Len(q) + 1] = a
      /\ \A j \in 1 .. Len(q) : p[j] = q[j]
  BY AppendProps
<1> HIDE DEF p
<1>2. a.k # "idx" => (HasIdx(q) <=> HasIdx(p)) /\ (OneIdx(q) => OneIdx(p))
  BY <1>1 DEF HasIdx, OneIdx
<1>3. a.k = "idx" => HasIdx(p)
  BY <1>1 DEF HasIdx
<1>4. a.k = "idx" /\ ~HasIdx(q) => OneIdx(p)
  BY <1>1 DEF HasIdx, OneIdx
<1> QED BY <1>2, <1>3, <1>4 DEF p, SameIdx

LEMMA TailAnswer ==
  ASSUME NEW q \in Seq(Ans), q # <<>>
  PROVE  /\ Tail(q) \in Seq(Ans) /\ Head(q) \in Ans
         /\ Head(q).k # "idx" => SameIdx(q, Tail(q))
         /\ HasIdx(Tail(q)) => HasIdx(q)
         /\ OneIdx(q) => OneIdx(Tail(q))
         /\ Head(q).k = "idx" => HasIdx(q) /\ (OneIdx(q) => ~HasIdx(Tail(q)))
<1> DEFINE p == Tail(q)
<1>1. /\ p \in Seq(Ans) /\ Len(p) = Len(q) - 1 /\ Len(q) \in Nat \ {0}
      /\ \A j \in 1 .. Len(p) : p[j] = q[j + 1]
      /\ Head(q) = q[1] /\ q[1] \in Ans
  BY TailProps
<1> HIDE DEF p
<1>2. HasIdx(p) => HasIdx(q)
  BY <1>1 DEF HasIdx
<1>3. OneIdx(q) => OneIdx(p)
  <2> SUFFICES ASSUME OneIdx(q), NEW i \in 1 .. Len(p), NEW j \in 1 .. Len(p),
                      p[i].k = "idx", p[j].k = "idx"
               PROVE  i = j
    BY DEF OneIdx
  <2>1. /\ i + 1 \in 1 .. Len(q) /\ j + 1 \in 1 .. Len(q)
        /\ q[i + 1].k = "idx" /\ q[j + 1].k = "idx"
    BY <1>1
  <2>2. i + 1 = j + 1
    BY <2>1 DEF OneIdx
  <2> QED BY <2>2
<1>4. q[1].k # "idx" /\ HasIdx(q) => HasIdx(p)
  <2> SUFFICES ASSUME q[1].k # "idx", NEW i \in 1 .. Len(q), q[i].k = "idx"
               PROVE  HasIdx(p)
    BY DEF HasIdx
  <2>1. i - 1 \in 1 .. Len(p) /\ p[i - 1] = q[i]
    BY <1>1
  <2> QED BY <2>1 DEF HasIdx
<1>5. q[1].k = "idx" => HasIdx(q)
  BY <1>1 DEF HasIdx
<1>6. q[1].k = "idx" /\ OneIdx(q) => ~HasIdx(p)
  <2> SUFFICES ASSUME q[1].k = "idx", OneIdx(q), NEW i \in 1 .. Len(p), p[i].k = "idx"
               PROVE  FALSE
    BY DEF HasIdx
  <2>1. i + 1 \in 1 .. Len(q) /\ q[i + 1].k = "idx" /\ 1 \in 1 .. Len(q) /\ i + 1 # 1
    BY <1>1
  <2> QED BY <2>1 DEF OneIdx
<1> QED BY <1>1, <1>2, <1>3, <1>4, <1>5, <1>6 DEF p, SameIdx

\* A message that says nothing of the indexes.
Plain(a) == a.k # "create" /\ ~Accept(a)

LEMMA AppendQueue ==
  ASSUME NEW S, NEW q \in Seq(S), NEW a \in S
  PROVE  /\ a.k # "create" /\ NoCreate(q) => NoCreate(Append(q, a))
         /\ \A i : Creates(q, i) /\ (a.k = "create" => a.master_idx = i)
                     => Creates(Append(q, a), i)
         /\ \A v, i : LastSays(q, v, i) /\ ~Accept(a) => LastSays(Append(q, a), v, i)
         /\ \A v, i : Accept(a) /\ a.slave_idx = i => LastSays(Append(q, a), v, i)
<1> DEFINE p == Append(q, a)
<1>1. /\ Len(p) = Len(q) + 1 /\ Len(q) \in Nat /\ p[Len(q) + 1] = a
      /\ \A j \in 1 .. Len(q) : p[j] = q[j]
  BY AppendProps
<1> HIDE DEF p
<1>2. a.k # "create" /\ NoCreate(q) => NoCreate(p)
  BY <1>1 DEF NoCreate
<1>3. \A i : Creates(q, i) /\ (a.k = "create" => a.master_idx = i) => Creates(p, i)
  BY <1>1 DEF Creates
<1>4. \A v, i : LastSays(q, v, i) /\ ~Accept(a) => LastSays(p, v, i)
  BY <1>1 DEF LastSays
<1>5. \A v, i : Accept(a) /\ a.slave_idx = i => LastSays(p, v, i)
  BY <1>1 DEF LastSays
<1> QED BY <1>2, <1>3, <1>4, <1>5 DEF p

LEMMA TailQueue ==
  ASSUME NEW S, NEW q \in Seq(S), q # <<>>
  PROVE  /\ NoCreate(q) => NoCreate(Tail(q))
         /\ \A i : Creates(q, i) => Creates(Tail(q), i)
         /\ \A v, i : LastSays(q, v, i) /\ ~Accept(Head(q)) => LastSays(Tail(q), v, i)
         /\ \A v, i : LastSays(q, v, i) /\ Accept(Head(q))
                        => LastSays(Tail(q), Head(q).slave_idx, i)
         /\ Head(q).k = "create" => ~NoCreate(q)
         /\ \A i : Head(q).k = "create" /\ Creates(q, i) => Head(q).master_idx = i
<1> DEFINE p == Tail(q)
<1>1. /\ p \in Seq(S) /\ Len(p) = Len(q) - 1 /\ Len(q) \in Nat \ {0}
      /\ \A j \in 1 .. Len(p) : p[j] = q[j + 1]
      /\ Head(q) = q[1] /\ q[1] \in S
  BY TailProps
<1> HIDE DEF p
<1>2. NoCreate(q) => NoCreate(p)
  BY <1>1 DEF NoCreate
<1>3. \A i : Creates(q, i) => Creates(p, i)
  BY <1>1 DEF Creates
<1>4. ASSUME NEW v, NEW i, LastSays(q, v, i)
      PROVE  LastSays(p, IF Accept(q[1]) THEN q[1].slave_idx ELSE v, i)
  <2>1. CASE \A j \in 1 .. Len(q) : ~Accept(q[j])
    <3>1. ~Accept(q[1]) /\ \A j \in 1 .. Len(p) : ~Accept(p[j])
      BY <2>1, <1>1
    <3>2. v = 0 \/ v = i
      BY <2>1, <1>4 DEF LastSays
    <3> QED BY <3>1, <3>2 DEF LastSays
  <2>2. ASSUME NEW j \in 1 .. Len(q), Accept(q[j]), q[j].slave_idx = i,
               \A k \in 1 .. Len(q) : k > j => ~Accept(q[k])
        PROVE  LastSays(p, IF Accept(q[1]) THEN q[1].slave_idx ELSE v, i)
    <3>1. CASE j = 1
      <4>1. \A k \in 1 .. Len(p) : ~Accept(p[k])
        BY <3>1, <2>2, <1>1
      <4> QED BY <4>1, <3>1, <2>2 DEF LastSays
    <3>2. CASE j > 1
      <4>1. /\ j - 1 \in 1 .. Len(p) /\ p[j - 1] = q[j]
            /\ \A k \in 1 .. Len(p) : k > j - 1 => ~Accept(p[k])
        BY <3>2, <2>2, <1>1
      <4> QED BY <4>1, <2>2 DEF LastSays
    <3> QED BY <3>1, <3>2
  <2> QED BY <2>1, <2>2, <1>4 DEF LastSays
<1>5. Head(q).k = "create" => ~NoCreate(q)
  BY <1>1 DEF NoCreate
<1>6. \A i : Head(q).k = "create" /\ Creates(q, i) => Head(q).master_idx = i
  BY <1>1 DEF Creates
<1> QED BY <1>1, <1>2, <1>3, <1>4, <1>5, <1>6 DEF p
-----------------------------------------------------------------------------
\* What the helpers of the model do, field by field.
Sent(st, new, x, n, msg) ==
    /\ new \in State /\ Keep(st, new, Fields \ {"conn"})
    /\ \A k \in Conn : k # n => new.conn[k] = st.conn[k]
    /\ new.conn[n].open = st.conn[n].open /\ new.conn[n].cut = st.conn[n].cut
    /\ new.conn[n].q[x] = st.conn[n].q[x]
    /\ \/ new.conn[n].q[Peer(x)] = st.conn[n].q[Peer(x)]
          /\ (msg # Ping => ~Works(st.conn[n]))
       \/ new.conn[n].q[Peer(x)] = Append(st.conn[n].q[Peer(x)], msg)
          /\ Works(st.conn[n])

LEMMA SendOnFacts ==
  ASSUME NEW st \in State, NEW x \in Side, NEW n \in Conn, NEW msg \in To(Peer(x))
  PROVE  Sent(st, SendOn(st, x, n, msg), x, n, msg)
<1> DEFINE new == SendOn(st, x, n, msg)
<1> SUFFICES Sent(st, new, x, n, msg)
  OBVIOUS
<1>1. st.conn \in [Conn -> Chan] /\ st.conn[n] \in Chan /\ Peer(x) \in Side /\ Peer(x) # x
  BY Tables, Sides
<1> DEFINE q == st.conn[n].q
           q2 == [q EXCEPT ![Peer(x)] = Append(q[Peer(x)], msg)]
           k2 == [st.conn[n] EXCEPT !.q = q2]
           conn2 == [st.conn EXCEPT ![n] = k2]
<1>2. q \in Queues /\ q \in [Side -> Seq(ToMaster \cup ToSlave)] /\ \A y \in Side : q[y] \in Seq(To(y))
  BY <1>1 DEF Chan, Queues
<1>3. CASE new = st
  <2>1. msg # Ping => ~Works(st.conn[n])
    <3> SUFFICES ASSUME msg # Ping, Works(st.conn[n]) PROVE FALSE
      OBVIOUS
    <3>1. st = [st EXCEPT !.conn[n].q[Peer(x)] = Append(@, msg)]
      BY <1>3 DEF SendOn, Works
    <3>2. st.conn[n].q[Peer(x)] = Append(st.conn[n].q[Peer(x)], msg)
      BY <3>1, <1>1, <1>2 DEF State, Chan
    <3>3. st.conn[n].q[Peer(x)] \in Seq(To(Peer(x)))
      BY <1>1, <1>2
    <3> QED BY <3>2, <3>3, AppendProps
  <2> HIDE DEF new
  <2> QED BY <1>3, <2>1 DEF Keep, Sent
<1>4. CASE Works(st.conn[n]) /\ new = [st EXCEPT !.conn[n].q[Peer(x)] = Append(@, msg)]
  <2>1. Append(q[Peer(x)], msg) \in Seq(To(Peer(x)))
    BY <1>1, <1>2
  <2>2. To(Peer(x)) \subseteq ToMaster \cup ToSlave
    BY DEF To
  <2>3. Append(q[Peer(x)], msg) \in Seq(ToMaster \cup ToSlave)
    BY <1>1, <1>2, <2>2
  <2>4. q2 \in Queues
    BY <1>1, <1>2, <2>1, <2>3 DEF Queues
  <2>5. k2 \in Chan /\ k2.open = st.conn[n].open /\ k2.cut = st.conn[n].cut /\ k2.q = q2
    BY <1>1, <2>4 DEF Chan
  <2>6. conn2 \in [Conn -> Chan]
    BY <1>1, <2>5
  <2>7. new = [st EXCEPT !.conn = conn2]
    BY <1>4
  <2> HIDE DEF conn2
  <2>8. new \in State /\ Keep(st, new, Fields \ {"conn"}) /\ new.conn = conn2
    BY <2>6, <2>7 DEF State, Keep, Fields
  <2>9. q2[Peer(x)] = Append(q[Peer(x)], msg) /\ q2[x] = q[x]
    BY <1>1, <1>2
  <2>10. new.conn[n] = k2 /\ \A k \in Conn : k # n => new.conn[k] = st.conn[k]
    BY <1>1, <2>8 DEF conn2
  <2> HIDE DEF new, k2, q2
  <2>11. /\ new.conn[n].open = st.conn[n].open /\ new.conn[n].cut = st.conn[n].cut
         /\ new.conn[n].q[x] = st.conn[n].q[x]
         /\ new.conn[n].q[Peer(x)] = Append(st.conn[n].q[Peer(x)], msg)
    BY <2>5, <2>9, <2>10
  <2>12. Works(st.conn[n])
    BY <1>4
  <2> QED BY <2>8, <2>10, <2>11, <2>12 DEF Sent
<1> QED BY <1>3, <1>4 DEF SendOn, Works

\* A message that gives no index, of x to its peer.
LEMMA SendPlain ==
  ASSUME NEW st \in State, NEW x \in Side, NEW n \in Conn, NEW msg \in To(Peer(x)),
         Plain(msg)
  PROVE  /\ Frame(st, SendOn(st, x, n, msg), x)
         /\ Keep(st, SendOn(st, x, n, msg), Fields \ {"conn"})
<1> DEFINE new == SendOn(st, x, n, msg)
<1>0. Sent(st, new, x, n, msg)
  BY SendOnFacts
<1> HIDE DEF new
<1>1. /\ new \in State /\ Keep(st, new, Fields \ {"conn"})
      /\ \A k \in Conn : k # n => new.conn[k] = st.conn[k]
      /\ new.conn[n].open = st.conn[n].open /\ new.conn[n].cut = st.conn[n].cut
      /\ new.conn[n].q[x] = st.conn[n].q[x]
      /\ \/ new.conn[n].q[Peer(x)] = st.conn[n].q[Peer(x)]
         \/ new.conn[n].q[Peer(x)] = Append(st.conn[n].q[Peer(x)], msg)
            /\ Works(st.conn[n])
  <2>1. /\ new \in State /\ Keep(st, new, Fields \ {"conn"})
        /\ \A k \in Conn : k # n => new.conn[k] = st.conn[k]
        /\ new.conn[n].open = st.conn[n].open /\ new.conn[n].cut = st.conn[n].cut
        /\ new.conn[n].q[x] = st.conn[n].q[x]
    BY <1>0, Zenon DEF Sent
  <2>2. \/ new.conn[n].q[Peer(x)] = st.conn[n].q[Peer(x)]
        \/ new.conn[n].q[Peer(x)] = Append(st.conn[n].q[Peer(x)], msg)
           /\ Works(st.conn[n])
    BY <1>0, Zenon DEF Sent
  <2> QED BY <2>1, <2>2, Zenon
<1>2. /\ new.c = st.c /\ new.mu = st.mu /\ new.ping = st.ping /\ new.stop = st.stop
      /\ new.door = st.door /\ new.pool = st.pool /\ new.up = st.up /\ new.nconn = st.nconn
  BY <1>1 DEF Keep, Fields
<1>3. st.conn[n].q[Peer(x)] \in Seq(To(Peer(x)))
  BY Tables, Sides DEF Chan, Queues
<1>4. Quieter(st.conn[n], new.conn[n])
  <2> DEFINE q == st.conn[n].q[Peer(x)]
             p == new.conn[n].q[Peer(x)]
  <2>1. CASE p = q
    BY <2>1, <1>1, Sides DEF Quieter, Idle, Works
  <2>2. CASE p = Append(q, msg) /\ Works(st.conn[n])
    <3>1. /\ NoCreate(q) => NoCreate(p)
          /\ \A i : Creates(q, i) => Creates(p, i)
          /\ \A v, i : LastSays(q, v, i) => LastSays(p, v, i)
      BY <1>3, <2>2, AppendQueue DEF Plain
    <3>2. ~Idle(st.conn[n])
      BY <2>2, Sides DEF Idle, Works
    <3> HIDE DEF q, p
    <3> QED BY <1>1, <3>1, <3>2, Sides, Zenon DEF Quieter, Works, q, p
  <2> QED BY <1>1, <2>1, <2>2, Zenon
<1>5. \A k \in Conn : Quieter(st.conn[k], new.conn[k])
  BY <1>1, <1>4, Zenon DEF Quieter
<1>6. Frame(st, new, x)
  BY <1>1, <1>2, <1>5, Zenon DEF Frame, Quiet, SameIdx, Calm, SameSide
<1> QED BY <1>1, <1>6, Zenon DEF new

LEMMA SendFacts ==
  ASSUME NEW st \in State, NEW x \in Side, NEW msg \in To(Peer(x)), Plain(msg)
  PROVE  /\ Frame(st, Send(st, x, msg), x)
         /\ Keep(st, Send(st, x, msg), Fields \ {"conn"})
<1>1. CASE Channel(st, x)
  <2>1. st.c[x].llid \in Conn
    BY <1>1, LinkType, C2cAssumption DEF Channel, Llid, Conn
  <2> QED BY <1>1, <2>1, SendPlain DEF Send
<1>2. CASE ~Channel(st, x)
  BY <1>2, FrameSelf DEF Send, Keep
<1> QED BY <1>1, <1>2

LEMMA PingIsPlain ==
  /\ \A x \in Side : Ping \in To(x) /\ Plain(Ping)
  /\ Delete \in To("s") /\ Plain(Delete)
BY DEF Ping, Delete, To, ToMaster, ToSlave, Plain, Accept

\* A change of one connection.
SetConn(st, n, k) == [st EXCEPT !.conn[n] = k]

LEMMA SetConnFacts ==
  ASSUME NEW st \in State, NEW n \in Conn, NEW k \in Chan
  PROVE  /\ SetConn(st, n, k) \in State
         /\ Keep(st, SetConn(st, n, k), Fields \ {"conn"})
         /\ SetConn(st, n, k).conn[n] = k
         /\ \A j \in Conn : j # n => SetConn(st, n, k).conn[j] = st.conn[j]
<1> DEFINE conn2 == [st.conn EXCEPT ![n] = k]
           new == SetConn(st, n, k)
<1>1. st.conn \in [Conn -> Chan] /\ conn2 \in [Conn -> Chan] /\ conn2[n] = k
      /\ \A j \in Conn : j # n => conn2[j] = st.conn[j]
  BY Tables
<1>2. new = [st EXCEPT !.conn = conn2]
  BY DEF SetConn
<1> HIDE DEF conn2, new
<1>3. new \in State /\ Keep(st, new, Fields \ {"conn"}) /\ new.conn = conn2
  BY <1>1, <1>2 DEF State, Keep, Fields
<1> QED BY <1>1, <1>3 DEF new

LEMMA ConnFrame ==
  ASSUME NEW st \in State, NEW x \in Side, NEW n \in Conn, NEW k \in Chan,
         Quieter(st.conn[n], k)
  PROVE  Frame(st, SetConn(st, n, k), x)
<1> DEFINE new == SetConn(st, n, k)
<1>1. /\ new \in State /\ Keep(st, new, Fields \ {"conn"}) /\ new.conn[n] = k
      /\ \A j \in Conn : j # n => new.conn[j] = st.conn[j]
  BY SetConnFacts, Zenon
<1> HIDE DEF new
<1>2. /\ new.c = st.c /\ new.mu = st.mu /\ new.ping = st.ping /\ new.stop = st.stop
      /\ new.door = st.door /\ new.pool = st.pool /\ new.up = st.up /\ new.nconn = st.nconn
  BY <1>1 DEF Keep, Fields
<1>3. \A j \in Conn : Quieter(st.conn[j], new.conn[j])
  BY <1>1 DEF Quieter
<1>4. Frame(st, new, x)
  BY <1>1, <1>2, <1>3 DEF Frame, Quiet, SameIdx, Calm, SameSide
<1> QED BY <1>4 DEF new

LEMMA EmptyQueue ==
  /\ NoCreate(<<>>) /\ \A i : Creates(<<>>, i)
BY DEF NoCreate, Creates

LEMMA CloseFacts ==
  ASSUME NEW st \in State, NEW x \in Side, NEW n \in Conn
  PROVE  /\ Frame(st, Close(st, x, n), x)
         /\ Keep(st, Close(st, x, n), Fields \ {"conn"})
<1> DEFINE k == st.conn[n]
           open2 == k.open \ {x}
           cut2 == k.cut /\ k.open = Side
           k1 == [k EXCEPT !.open = open2]
           q2 == [k1.q EXCEPT ![x] = <<>>]
           k2 == [k1 EXCEPT !.q = q2]
           k3 == [k2 EXCEPT !.cut = cut2]
           a1 == [st EXCEPT !.conn[n].open = @ \ {x}]
           a2 == [a1 EXCEPT !.conn[n].q[x] = <<>>]
           a3 == [a2 EXCEPT !.conn[n].cut = cut2]
<1>1. k \in Chan /\ k.q \in Queues /\ k.open \in SUBSET Side /\ k.cut \in BOOLEAN
  BY Tables DEF Chan
<1>2. Close(st, x, n) = a3
  BY DEF Close
<1>3. cut2 \in BOOLEAN /\ open2 \in SUBSET Side /\ x \notin open2
  BY <1>1
<1> HIDE DEF cut2, open2
<1>4. k1 \in Chan /\ k1.open = open2 /\ k1.q = k.q /\ k1.cut = k.cut
  BY <1>1, <1>3 DEF Chan
<1>5. Quieter(k, k1)
  <2>1. ~Works(k1)
    BY <1>3, <1>4 DEF Works
  <2>2. Idle(k) => Idle(k1)
    BY <1>4 DEF Idle, open2
  <2> HIDE DEF k, k1
  <2> QED BY <1>4, <2>1, <2>2 DEF Quieter
<1>6. Frame(st, a1, x) /\ Keep(st, a1, Fields \ {"conn"}) /\ a1.conn[n] = k1
  <2>1. a1 = SetConn(st, n, k1)
    BY DEF open2, SetConn
  <2> HIDE DEF a1, k1
  <2> QED BY <2>1, <1>4, <1>5, ConnFrame, SetConnFacts
<1>7. q2 \in Queues /\ q2[x] = <<>> /\ q2[Peer(x)] = k.q[Peer(x)]
  <2>1. k.q \in [Side -> Seq(ToMaster \cup ToSlave)] /\ \A y \in Side : k.q[y] \in Seq(To(y))
    BY <1>1 DEF Queues
  <2>2. <<>> \in Seq(To(x)) /\ <<>> \in Seq(ToMaster \cup ToSlave)
    OBVIOUS
  <2> QED BY <2>1, <2>2, <1>4, Sides DEF Queues
<1>8. k2 \in Chan /\ k2.open = open2 /\ k2.q = q2
  <2> HIDE DEF k1, q2
  <2> QED BY <1>4, <1>7 DEF Chan
<1>9. Quieter(k1, k2)
  <2>1. ~Works(k2)
    BY <1>3, <1>8 DEF Works
  <2>2. k2.q["s"] = k1.q["s"] \/ k2.q["s"] = <<>>
    BY <1>4, <1>7, <1>8, Sides
  <2>3. Idle(k1) => Idle(k2)
    BY <1>4, <1>7, <1>8, Sides DEF Idle
  <2> HIDE DEF k1, k2
  <2> QED BY <2>1, <2>2, <2>3, EmptyQueue DEF Quieter
<1>10. Frame(a1, a2, x) /\ Keep(a1, a2, Fields \ {"conn"}) /\ a2.conn[n] = k2
  <2>1. a2 = [a1 EXCEPT !.conn[n] = [a1.conn[n] EXCEPT !.q = [a1.conn[n].q EXCEPT ![x] = <<>>]]]
    OBVIOUS
  <2> HIDE DEF a1, a2, k1
  <2>2. a2 = SetConn(a1, n, k2)
    BY <2>1, <1>6 DEF SetConn
  <2>3. a1 \in State /\ Quieter(a1.conn[n], k2)
    BY <1>6, <1>9 DEF Frame
  <2>4. k2 \in Chan
    BY <1>8
  <2> HIDE DEF k2
  <2> QED BY <2>2, <2>3, <2>4, ConnFrame, SetConnFacts
<1>11. k3 \in Chan /\ k3.open = open2 /\ k3.q = k2.q
  <2> HIDE DEF k2
  <2> QED BY <1>3, <1>8 DEF Chan
<1>12. Quieter(k2, k3)
  <2> HIDE DEF k2, k3
  <2> QED BY <1>3, <1>8, <1>11 DEF Quieter, Works, Idle
<1>13. Frame(a2, a3, x) /\ Keep(a2, a3, Fields \ {"conn"})
  <2>1. a3 = [a2 EXCEPT !.conn[n] = [a2.conn[n] EXCEPT !.cut = cut2]]
    OBVIOUS
  <2> HIDE DEF a1, a2, a3, k2
  <2>2. a3 = SetConn(a2, n, k3)
    BY <2>1, <1>10 DEF SetConn
  <2>3. a2 \in State /\ Quieter(a2.conn[n], k3)
    BY <1>10, <1>12 DEF Frame
  <2> HIDE DEF k3
  <2> QED BY <2>2, <2>3, <1>11, ConnFrame, SetConnFacts
<1> HIDE DEF a1, a2, a3
<1>14. Frame(st, a3, x)
  BY <1>6, <1>10, <1>13, FrameTrans
<1>15. Keep(st, a3, Fields \ {"conn"})
  BY <1>6, <1>10, <1>13 DEF Keep
<1> QED BY <1>2, <1>14, <1>15

\* A message received, which says nothing to x of the indexes.
Pop(st, x, n) == [st EXCEPT !.conn[n].q[x] = Tail(@)]

Popped(st, new, x, n) ==
    /\ new \in State /\ Keep(st, new, Fields \ {"conn"})
    /\ \A k \in Conn : k # n => new.conn[k] = st.conn[k]
    /\ new.conn[n].open = st.conn[n].open /\ new.conn[n].cut = st.conn[n].cut
    /\ new.conn[n].q[Peer(x)] = st.conn[n].q[Peer(x)]
    /\ new.conn[n].q[x] = Tail(st.conn[n].q[x])
    /\ st.conn[n].q[x] \in Seq(To(x)) /\ Head(st.conn[n].q[x]) \in To(x)
    /\ ~Idle(st.conn[n])
    /\ x = "s" \/ ~Accept(Head(st.conn[n].q[x])) => Frame(st, new, x)

LEMMA PopFacts ==
  ASSUME NEW st \in State, NEW x \in Side, NEW n \in Conn, st.conn[n].q[x] # <<>>
  PROVE  Popped(st, Pop(st, x, n), x, n)
<1> DEFINE new == Pop(st, x, n)
<1> SUFFICES Popped(st, new, x, n)
  OBVIOUS
<1> DEFINE k == st.conn[n]
           q2 == [k.q EXCEPT ![x] = Tail(k.q[x])]
           k2 == [k EXCEPT !.q = q2]
<1>1. k \in Chan /\ k.q \in Queues /\ k.open \in SUBSET Side /\ k.cut \in BOOLEAN
  BY Tables DEF Chan
<1>2. /\ k.q \in [Side -> Seq(ToMaster \cup ToSlave)] /\ \A y \in Side : k.q[y] \in Seq(To(y))
      /\ k.q[x] # <<>> /\ Tail(k.q[x]) \in Seq(To(x)) /\ Head(k.q[x]) \in To(x)
  <2>1. k.q \in [Side -> Seq(ToMaster \cup ToSlave)] /\ \A y \in Side : k.q[y] \in Seq(To(y))
    BY <1>1 DEF Queues
  <2> QED BY <2>1, TailProps
<1>3. q2 \in Queues /\ q2[x] = Tail(k.q[x]) /\ q2[Peer(x)] = k.q[Peer(x)]
  <2>1. Tail(k.q[x]) \in Seq(ToMaster \cup ToSlave)
    BY <1>2, TailProps
  <2> QED BY <1>2, <2>1, Sides DEF Queues
<1>4. k2 \in Chan /\ k2.open = k.open /\ k2.cut = k.cut /\ k2.q = q2
  BY <1>1, <1>3 DEF Chan
<1>5. new = SetConn(st, n, k2)
  BY DEF Pop, SetConn
<1> HIDE DEF k2, new
<1>7. new \in State /\ Keep(st, new, Fields \ {"conn"})
      /\ new.conn[n] = k2 /\ \A j \in Conn : j # n => new.conn[j] = st.conn[j]
  <2>1. k2 \in Chan
    BY <1>4
  <2>2. /\ SetConn(st, n, k2) \in State
        /\ Keep(st, SetConn(st, n, k2), Fields \ {"conn"})
        /\ SetConn(st, n, k2).conn[n] = k2
        /\ \A j \in Conn : j # n => SetConn(st, n, k2).conn[j] = st.conn[j]
    BY <2>1, SetConnFacts
  <2> QED BY <2>2, <1>5
<1>8. ~Idle(k)
  BY <1>2, Sides DEF Idle
<1>9. ASSUME x = "s" \/ ~Accept(Head(k.q[x])) PROVE Frame(st, new, x)
  <2>1. /\ NoCreate(k.q[x]) => NoCreate(Tail(k.q[x]))
        /\ \A i : Creates(k.q[x], i) => Creates(Tail(k.q[x]), i)
        /\ \A v, i : LastSays(k.q[x], v, i) /\ ~Accept(Head(k.q[x]))
                       => LastSays(Tail(k.q[x]), v, i)
    BY <1>2, TailQueue
  <2>2. CASE x = "s"
    <3>1. Quieter(k, k2)
      BY <1>3, <1>4, <1>8, <2>1, <2>2, Sides DEF Quieter, Works
    <3> QED BY <3>1, <1>4, <1>5, ConnFrame
  <2>3. CASE x = "m" /\ ~Accept(Head(k.q[x]))
    <3>1. Quieter(k, k2)
      BY <1>3, <1>4, <1>8, <2>1, <2>3, Sides DEF Quieter, Works
    <3> QED BY <3>1, <1>4, <1>5, ConnFrame
  <2> QED BY <1>9, <2>2, <2>3 DEF Side
<1> QED BY <1>2, <1>3, <1>4, <1>7, <1>8, <1>9 DEF Popped

-----------------------------------------------------------------------------
\* The doors.
LEMMA KeepSide ==
  ASSUME NEW st, NEW new, NEW y,
         Keep(st, new, {"c", "mu", "ping", "stop"}),
         new.door[y] = st.door[y], new.pool[y] = st.pool[y]
  PROVE  SameSide(st, new, y)
BY DEF Keep, SameSide

LEMMA KeepQuiet ==
  ASSUME NEW st, NEW new, Keep(st, new, {"c", "conn", "nconn"}),
         \A y \in Side : SameIdx(st.up[y], new.up[y])
  PROVE  Quiet(st, new)
<1>1. new.c = st.c /\ new.conn = st.conn /\ new.nconn = st.nconn
  BY DEF Keep
<1> QED BY <1>1 DEF Quiet, Quieter, Calm

LEMMA Answers ==
  /\ \A i \in Idx : AnsIdx(i) \in Ans /\ AnsIdx(i).k = "idx" /\ AnsIdx(i).idx = i
  /\ \A d \in Llid : AnsConx(d) \in Ans /\ AnsConx(d).k = "conx"
  /\ AnsDeath \in Ans /\ AnsDeath.k = "death" /\ 0 \in Idx /\ 0 \in Llid
BY C2cAssumption DEF AnsIdx, AnsConx, AnsDeath, Ans, Idx, Llid

LEMMA AnswerFacts ==
  ASSUME NEW st \in State, NEW x \in Side, NEW a \in Ans
  PROVE  /\ Answer(st, x, a) \in State /\ Keep(st, Answer(st, x, a), Fields \ {"up"})
         /\ Answer(st, x, a).up[x] = Append(st.up[x], a)
         /\ Answer(st, x, a).up[Peer(x)] = st.up[Peer(x)]
         /\ a.k # "idx" => Frame(st, Answer(st, x, a), x)
<1> DEFINE new == Answer(st, x, a)
           up2 == [st.up EXCEPT ![x] = Append(st.up[x], a)]
<1>1. st.up \in [Side -> Seq(Ans)] /\ Append(st.up[x], a) \in Seq(Ans)
  BY Tables
<1>2. up2 \in [Side -> Seq(Ans)] /\ up2[x] = Append(st.up[x], a) /\ up2[Peer(x)] = st.up[Peer(x)]
  BY <1>1, Sides
<1>3. new = [st EXCEPT !.up = up2]
  BY DEF Answer
<1> HIDE DEF new, up2
<1>4. new \in State /\ Keep(st, new, Fields \ {"up"}) /\ new.up = up2
  BY <1>2, <1>3 DEF State, Keep, Fields
<1>5. ASSUME a.k # "idx" PROVE Frame(st, new, x)
  <2>1. SameIdx(st.up[x], Append(st.up[x], a))
    BY <1>1, <1>5, AppendAnswer
  <2>2. \A y \in Side : SameIdx(st.up[y], new.up[y])
    <3>1. SameIdx(st.up[Peer(x)], st.up[Peer(x)])
      BY DEF SameIdx
    <3> QED BY <2>1, <3>1, <1>2, <1>4, Sides
  <2>3. Quiet(st, new) /\ SameSide(st, new, Peer(x))
    BY <1>4, <2>2, KeepQuiet, KeepSide DEF Keep, Fields
  <2> QED BY <1>4, <2>3 DEF Frame
<1> QED BY <1>2, <1>4, <1>5 DEF new

\* The index of a record that is freed goes to the end of the pool.
LEMMA PoolGrows ==
  ASSUME NEW i \in FreeIdx, NEW pool \in Seq(FreeIdx), PoolOk(i, pool)
  PROVE  PoolOk(0, Append(pool, i)) /\ Append(pool, i) \in Seq(FreeIdx)
<1> DEFINE p == Append(pool, i)
<1>1. /\ p \in Seq(FreeIdx) /\ Len(p) = Len(pool) + 1 /\ Len(pool) \in Nat
      /\ p[Len(pool) + 1] = i /\ \A j \in 1 .. Len(pool) : p[j] = pool[j]
  BY AppendProps
<1>2. \A j \in 1 .. Len(pool) : pool[j] \in FreeIdx
  OBVIOUS
<1> HIDE DEF p
<1>3. \A k, j \in 1 .. Len(p) : p[k] = p[j] => k = j
  BY <1>1 DEF PoolOk
<1>4. \A j \in 1 .. Len(p) : p[j] # 0
  BY <1>1, <1>2 DEF FreeIdx
<1>5. \A v \in FreeIdx : \E j \in 1 .. Len(p) : p[j] = v
  <2> SUFFICES ASSUME NEW v \in FreeIdx PROVE \E j \in 1 .. Len(p) : p[j] = v
    OBVIOUS
  <2>1. CASE v = i
    BY <2>1, <1>1
  <2>2. ASSUME NEW j \in 1 .. Len(pool), pool[j] = v PROVE \E k \in 1 .. Len(p) : p[k] = v
    BY <2>2, <1>1
  <2> QED BY <2>1, <2>2 DEF PoolOk
<1> QED BY <1>1, <1>3, <1>4, <1>5 DEF PoolOk, p

\* The first index of the pool goes to a record.
LEMMA PoolGives ==
  ASSUME NEW pool \in Seq(FreeIdx), PoolOk(0, pool), pool # <<>>
  PROVE  PoolOk(Head(pool), Tail(pool)) /\ Tail(pool) \in Seq(FreeIdx) /\ Head(pool) \in FreeIdx
<1> DEFINE p == Tail(pool)
<1>1. /\ p \in Seq(FreeIdx) /\ Len(p) = Len(pool) - 1 /\ Len(pool) \in Nat \ {0}
      /\ \A j \in 1 .. Len(p) : p[j] = pool[j + 1]
      /\ Head(pool) = pool[1] /\ pool[1] \in FreeIdx
  BY TailProps
<1> HIDE DEF p
<1>2. \A k, j \in 1 .. Len(p) : p[k] = p[j] => k = j
  <2> SUFFICES ASSUME NEW k \in 1 .. Len(p), NEW j \in 1 .. Len(p), p[k] = p[j] PROVE k = j
    OBVIOUS
  <2>1. k + 1 \in 1 .. Len(pool) /\ j + 1 \in 1 .. Len(pool) /\ pool[k + 1] = pool[j + 1]
    BY <1>1
  <2>2. k + 1 = j + 1
    BY <2>1 DEF PoolOk
  <2> QED BY <2>2
<1>3. \A j \in 1 .. Len(p) : p[j] # pool[1]
  <2> SUFFICES ASSUME NEW j \in 1 .. Len(p), p[j] = pool[1] PROVE FALSE
    OBVIOUS
  <2>1. j + 1 \in 1 .. Len(pool) /\ 1 \in 1 .. Len(pool) /\ pool[j + 1] = pool[1]
    BY <1>1
  <2>2. j + 1 = 1
    BY <2>1 DEF PoolOk
  <2> QED BY <2>2
<1>4. \A v \in FreeIdx : v = pool[1] \/ \E j \in 1 .. Len(p) : p[j] = v
  <2> SUFFICES ASSUME NEW v \in FreeIdx, v # pool[1] PROVE \E j \in 1 .. Len(p) : p[j] = v
    OBVIOUS
  <2>1. v # 0
    BY DEF FreeIdx
  <2>2. PICK j \in 1 .. Len(pool) : pool[j] = v
    BY <2>1 DEF PoolOk
  <2>3. j - 1 \in 1 .. Len(p) /\ p[j - 1] = v
    BY <2>2, <1>1
  <2> QED BY <2>3
<1> QED BY <1>1, <1>2, <1>3, <1>4 DEF PoolOk, p

Freed(st, new, x) ==
    /\ new \in State /\ Frame(st, new, x)
    /\ Keep(st, new, Fields \ {"door", "pool", "tr"})
    /\ new.door[x].idx = 0
    /\ PoolOk(st.door[x].idx, st.pool[x]) => PoolOk(0, new.pool[x])

LEMMA DoorFreeFacts ==
  ASSUME NEW st \in State, NEW x \in Side
  PROVE  Freed(st, DoorFree(st, x), x)
<1> DEFINE r == st.door[x]
           door2 == [st.door EXCEPT ![x] = NoDoor]
           pool2 == [st.pool EXCEPT ![x] = Append(@, r.idx)]
           f == [st EXCEPT !.door[x] = NoDoor, !.pool[x] = Append(@, r.idx)]
           g == [f EXCEPT !.tr[r.dido].ctx = @ \ {x},
                          !.tr[r.dido].end[x] = IF @ = "door" THEN "none" ELSE @]
<1>1. /\ st.door \in [Side -> DoorRec] /\ r \in DoorRec /\ r.idx \in Idx /\ r.dido \in Llid
      /\ st.pool \in [Side -> Seq(FreeIdx)] /\ st.tr \in [Conn -> Traffic]
  BY Tables DEF DoorRec
<1>2. CASE r.idx = 0
  <2>1. Frame(st, st, x)
    BY FrameSelf
  <2>2. DoorFree(st, x) = st
    BY <1>2 DEF DoorFree
  <2> QED BY <1>2, <2>1, <2>2 DEF Freed, Keep
<1>3. CASE r.idx # 0
  <2>1. r.idx \in FreeIdx
    BY <1>1, <1>3, C2cAssumption DEF Idx, FreeIdx
  <2>2. /\ NoDoor \in DoorRec /\ NoDoor.idx = 0 /\ door2 \in [Side -> DoorRec]
        /\ door2[x] = NoDoor /\ door2[Peer(x)] = st.door[Peer(x)]
    BY <1>1, Answers, Sides DEF NoDoor, DoorRec
  <2>3. /\ pool2 \in [Side -> Seq(FreeIdx)] /\ pool2[x] = Append(st.pool[x], r.idx)
        /\ pool2[Peer(x)] = st.pool[Peer(x)]
    BY <1>1, <2>1, Sides
  <2>4. PoolOk(r.idx, st.pool[x]) => PoolOk(0, pool2[x])
    BY <1>1, <2>1, <2>3, PoolGrows
  <2>5. f \in State /\ Keep(st, f, Fields \ {"door", "pool"}) /\ f.door = door2 /\ f.pool = pool2
    <3>1. f = [[st EXCEPT !.door = door2] EXCEPT !.pool = pool2]
      BY Tables DEF State
    <3> HIDE DEF f, door2, pool2
    <3> QED BY <2>2, <2>3, <3>1 DEF State, Keep, Fields
  <2> HIDE DEF f, door2, pool2
  <2>6. ASSUME NEW new \in State, Keep(st, new, Fields \ {"door", "pool", "tr"}),
               new.door = door2, new.pool = pool2
        PROVE  Freed(st, new, x)
    <3>1. Quiet(st, new)
      <4>1. new.up = st.up /\ Keep(st, new, {"c", "conn", "nconn"})
        BY <2>6 DEF Keep, Fields
      <4> QED BY <4>1, KeepQuiet DEF SameIdx
    <3>2. SameSide(st, new, Peer(x))
      BY <2>2, <2>3, <2>6, KeepSide DEF Keep, Fields
    <3> QED BY <2>2, <2>4, <2>6, <3>1, <3>2 DEF Freed, Frame
  <2>7. CASE r.dido = 0
    <3>1. DoorFree(st, x) = f
      BY <1>3, <2>7 DEF DoorFree, f
    <3>2. Keep(st, f, Fields \ {"door", "pool", "tr"})
      BY <2>5 DEF Keep
    <3> QED BY <2>5, <2>6, <3>1, <3>2
  <2>8. CASE r.dido # 0
    <3>1. DoorFree(st, x) = g
      BY <1>3, <2>8 DEF DoorFree, f
    <3> DEFINE d == r.dido
               t == st.tr[d]
               t1 == [t EXCEPT !.ctx = @ \ {x}]
               end2 == [t1.end EXCEPT ![x] = IF @ = "door" THEN "none" ELSE @]
               t2 == [t1 EXCEPT !.end = end2]
               tr2 == [st.tr EXCEPT ![d] = t2]
    <3>2. d \in Conn /\ t \in Traffic
      BY <1>1, <2>8, C2cAssumption DEF Llid, Conn
    <3>3. t1 \in Traffic
      BY <3>2, Zenon DEF Traffic
    <3>4. end2 \in [Side -> {"none", "door", "proc"}]
      <4> HIDE DEF t1
      <4> QED BY <3>3 DEF Traffic
    <3>5. t2 \in Traffic
      <4> HIDE DEF t1, end2
      <4> QED BY <3>3, <3>4 DEF Traffic
    <3>6. tr2 \in [Conn -> Traffic]
      <4> HIDE DEF t2
      <4> QED BY <1>1, <3>5
    <3> DEFINE f1 == [f EXCEPT !.tr[d].ctx = @ \ {x}]
               tr1 == [f.tr EXCEPT ![d] = [f.tr[d] EXCEPT !.ctx = @ \ {x}]]
    <3>7. f.tr = st.tr
      BY <2>5 DEF Keep, Fields
    <3>8. f1.tr = tr1 /\ f1 \in State /\ Keep(f, f1, Fields \ {"tr"})
      <4>1. f1 = [f EXCEPT !.tr = tr1]
        OBVIOUS
      <4>2. tr1 \in [Conn -> Traffic]
        <5>1. tr1 = [st.tr EXCEPT ![d] = t1]
          BY <3>7
        <5> HIDE DEF tr1, t1
        <5> QED BY <5>1, <3>3, <1>1
      <4> HIDE DEF f1, tr1
      <4> QED BY <4>1, <4>2, <2>5 DEF State, Keep, Fields
    <3>9. g = [f1 EXCEPT !.tr = [f1.tr EXCEPT ![d] = [f1.tr[d] EXCEPT !.end =
                 [f1.tr[d].end EXCEPT ![x] = IF @ = "door" THEN "none" ELSE @]]]]
      BY Zenon
    <3>10. g = [f1 EXCEPT !.tr = [f1.tr EXCEPT ![d] = t2]]
      <4>1. f1.tr[d] = t1
        BY <3>2, <3>7, <3>8, <1>1
      <4> HIDE DEF g, f1, t1
      <4> QED BY <3>9, <4>1
    <3>11. g = [f1 EXCEPT !.tr = tr2]
      <4>1. [f1.tr EXCEPT ![d] = t2] = tr2
        <5> HIDE DEF t2, f1
        <5>1. f1.tr = [st.tr EXCEPT ![d] = t1]
          BY <3>7, <3>8
        <5> HIDE DEF t1
        <5> QED BY <5>1, <1>1, <3>2
      <4> HIDE DEF g, tr2, f1
      <4> QED BY <3>10, <4>1
    <3> HIDE DEF g, f1, tr1, tr2
    <3>12. g \in State /\ Keep(f1, g, Fields \ {"tr"})
      BY <3>6, <3>8, <3>11 DEF State, Keep, Fields
    <3>13. /\ Keep(st, g, Fields \ {"door", "pool", "tr"})
           /\ g.door = door2 /\ g.pool = pool2
      BY <2>5, <3>8, <3>12 DEF Keep, Fields
    <3> QED BY <2>6, <3>1, <3>12, <3>13
  <2> QED BY <2>7, <2>8
<1> QED BY <1>2, <1>3

LEMMA DoorAbortFacts ==
  ASSUME NEW st \in State, NEW x \in Side
  PROVE  /\ Frame(st, DoorAbort(st, x), x) /\ DoorAbort(st, x).door[x].idx = 0
         /\ Keep(st, DoorAbort(st, x), {"c", "mu", "ping", "stop"})
         /\ PoolOk(st.door[x].idx, st.pool[x]) => PoolOk(0, DoorAbort(st, x).pool[x])
<1> DEFINE a == Answer(st, x, AnsConx(0))
<1>1. AnsConx(0) \in Ans /\ AnsConx(0).k # "idx"
  BY Answers
<1>2. a \in State /\ Keep(st, a, Fields \ {"up"}) /\ Frame(st, a, x)
  BY <1>1, AnswerFacts
<1> HIDE DEF a
<1>3. Freed(a, DoorFree(a, x), x) /\ DoorAbort(st, x) = DoorFree(a, x)
  BY <1>2, DoorFreeFacts DEF DoorAbort, a
<1>4. Frame(st, DoorFree(a, x), x)
  BY <1>2, <1>3, FrameTrans DEF Freed
<1>5. a.door = st.door /\ a.pool = st.pool
  BY <1>2 DEF Keep, Fields
<1>6. Keep(st, DoorFree(a, x), {"c", "mu", "ping", "stop"})
  BY <1>2, <1>3 DEF Keep, Freed, Fields
<1> QED BY <1>3, <1>4, <1>5, <1>6 DEF Freed

Asked(st, new, x) ==
    /\ new \in State /\ Keep(st, new, Fields \ {"door", "pool", "up"})
    /\ SameSide(st, new, Peer(x))
    /\ \E i \in Idx : new.up[x] = Append(st.up[x], AnsIdx(i))
    /\ new.up[Peer(x)] = st.up[Peer(x)]
    /\ PoolOk(st.door[x].idx, st.pool[x]) => PoolOk(new.door[x].idx, new.pool[x])

LEMMA ReqIdxFacts ==
  ASSUME NEW st \in State, NEW x \in Side
  PROVE  Asked(st, ReqIdx(st, x), x)
<1>1. /\ st.door \in [Side -> DoorRec] /\ st.door[x] \in DoorRec /\ st.door[x].idx \in Idx
      /\ st.pool \in [Side -> Seq(FreeIdx)] /\ st.pool[x] \in Seq(FreeIdx)
  BY Tables DEF DoorRec
<1>2. ASSUME NEW a \in State, NEW i \in Idx, Keep(st, a, Fields \ {"door", "pool"}),
             a.door[Peer(x)] = st.door[Peer(x)], a.pool[Peer(x)] = st.pool[Peer(x)],
             PoolOk(st.door[x].idx, st.pool[x]) => PoolOk(a.door[x].idx, a.pool[x])
      PROVE  Asked(st, Answer(a, x, AnsIdx(i)), x)
  <2> DEFINE new == Answer(a, x, AnsIdx(i))
  <2>1. AnsIdx(i) \in Ans
    BY Answers
  <2>2. /\ new \in State /\ Keep(a, new, Fields \ {"up"})
        /\ new.up[x] = Append(a.up[x], AnsIdx(i)) /\ new.up[Peer(x)] = a.up[Peer(x)]
    BY <2>1, AnswerFacts
  <2> HIDE DEF new
  <2>3. a.up = st.up /\ new.door = a.door /\ new.pool = a.pool
    BY <1>2, <2>2 DEF Keep, Fields
  <2>4. Keep(st, new, Fields \ {"door", "pool", "up"}) /\ Keep(st, new, {"c", "mu", "ping", "stop"})
    BY <1>2, <2>2 DEF Keep, Fields
  <2>5. SameSide(st, new, Peer(x))
    BY <1>2, <2>3, <2>4, KeepSide
  <2>6. Asked(st, new, x)
    BY <1>2, <2>2, <2>3, <2>4, <2>5 DEF Asked
  <2> QED BY <2>6 DEF new
<1>3. CASE st.door[x].idx # 0
  <2>1. ReqIdx(st, x) = Answer(st, x, AnsIdx(st.door[x].idx))
    BY <1>3 DEF ReqIdx
  <2> QED BY <1>1, <1>2, <2>1 DEF Keep
<1>4. CASE st.door[x].idx = 0 /\ st.pool[x] = <<>>
  <2>1. ReqIdx(st, x) = Answer(st, x, AnsIdx(0))
    BY <1>4 DEF ReqIdx
  <2> QED BY <1>2, <2>1, Answers DEF Keep
<1>5. CASE st.door[x].idx = 0 /\ st.pool[x] # <<>>
  <2> DEFINE i == Head(st.pool[x])
             r == [NoDoor EXCEPT !.idx = i]
             door2 == [st.door EXCEPT ![x] = r]
             pool2 == [st.pool EXCEPT ![x] = Tail(@)]
             a == [st EXCEPT !.door[x] = r, !.pool[x] = Tail(@)]
  <2>1. /\ Tail(st.pool[x]) \in Seq(FreeIdx) /\ i \in FreeIdx
        /\ PoolOk(0, st.pool[x]) => PoolOk(i, Tail(st.pool[x]))
    BY <1>1, <1>5, PoolGives, TailProps
  <2>2. i \in Idx
    BY <2>1 DEF Idx, FreeIdx
  <2>3. r \in DoorRec /\ r.idx = i
    BY <2>2, Answers DEF NoDoor, DoorRec
  <2>4. /\ door2 \in [Side -> DoorRec] /\ door2[x] = r /\ door2[Peer(x)] = st.door[Peer(x)]
        /\ pool2 \in [Side -> Seq(FreeIdx)] /\ pool2[x] = Tail(st.pool[x])
        /\ pool2[Peer(x)] = st.pool[Peer(x)]
    <3> HIDE DEF r
    <3> QED BY <1>1, <2>1, <2>3, Sides
  <2>5. ReqIdx(st, x) = Answer(a, x, AnsIdx(i))
    BY <1>5 DEF ReqIdx
  <2>6. a = [[st EXCEPT !.door = door2] EXCEPT !.pool = pool2]
    BY Tables DEF State
  <2> HIDE DEF a, r, door2, pool2
  <2>7. a \in State /\ Keep(st, a, Fields \ {"door", "pool"}) /\ a.door = door2 /\ a.pool = pool2
    BY <2>4, <2>6 DEF State, Keep, Fields
  <2>8. PoolOk(st.door[x].idx, st.pool[x]) => PoolOk(a.door[x].idx, a.pool[x])
    BY <1>5, <2>1, <2>3, <2>4, <2>7
  <2> QED BY <1>2, <2>2, <2>4, <2>5, <2>7, <2>8
<1> QED BY <1>3, <1>4, <1>5

Joined(st, new, x) ==
    /\ Frame(st, new, x) /\ Keep(st, new, Fields \ {"door", "up"})
    /\ new.door[x].idx = st.door[x].idx

LEMMA ReqConxFacts ==
  ASSUME NEW st \in State, NEW x \in Side, NEW i \in Idx
  PROVE  Joined(st, ReqConx(st, x, i), x)
<1>1. st.door \in [Side -> DoorRec] /\ st.door[x] \in DoorRec
  BY Tables
<1>2. CASE st.door[x].idx = 0
  <2>1. ReqConx(st, x, i) = Answer(st, x, AnsConx(0))
    BY <1>2 DEF ReqConx
  <2>2. AnsConx(0) \in Ans /\ AnsConx(0).k # "idx"
    BY Answers
  <2>3. /\ Frame(st, Answer(st, x, AnsConx(0)), x)
        /\ Keep(st, Answer(st, x, AnsConx(0)), Fields \ {"up"})
    BY <2>2, AnswerFacts
  <2> QED BY <2>1, <2>3 DEF Joined, Keep, Fields
<1>3. CASE st.door[x].idx # 0
  <2> DEFINE new == ReqConx(st, x, i)
             con2 == x = "m"
             r1 == [st.door[x] EXCEPT !.peer = i]
             r2 == [r1 EXCEPT !.con = con2]
             door1 == [st.door EXCEPT ![x] = r1]
             door2 == [door1 EXCEPT ![x] = r2]
             a == [st EXCEPT !.door[x].peer = i]
  <2>1. con2 \in BOOLEAN
    OBVIOUS
  <2>2. new = [a EXCEPT !.door[x].con = con2]
    BY <1>3 DEF ReqConx
  <2> HIDE DEF con2, new
  <2>3. r1 \in DoorRec /\ r1.idx = st.door[x].idx
    BY <1>1 DEF DoorRec
  <2>4. r2 \in DoorRec /\ r2.idx = r1.idx
    <3> HIDE DEF r1
    <3> QED BY <2>1, <2>3 DEF DoorRec
  <2>5. /\ door1 \in [Side -> DoorRec] /\ door1[x] = r1 /\ door1[Peer(x)] = st.door[Peer(x)]
    <3> HIDE DEF r1
    <3> QED BY <1>1, <2>3, Sides
  <2>6. /\ door2 \in [Side -> DoorRec] /\ door2[x] = r2 /\ door2[Peer(x)] = st.door[Peer(x)]
    <3> HIDE DEF r2, door1, r1
    <3> QED BY <2>4, <2>5, Sides
  <2>7. a = [st EXCEPT !.door = door1]
    OBVIOUS
  <2>8. a.door = door1 /\ a \in State /\ Keep(st, a, Fields \ {"door"})
    <3> HIDE DEF a, door1
    <3> QED BY <2>5, <2>7 DEF State, Keep, Fields
  <2>9. new = [a EXCEPT !.door = [a.door EXCEPT ![x] = [a.door[x] EXCEPT !.con = con2]]]
    BY <2>2
  <2> HIDE DEF a
  <2>10. new = [a EXCEPT !.door = door2]
    <3> HIDE DEF r1, door1
    <3> QED BY <2>5, <2>8, <2>9
  <2> HIDE DEF r1, r2, door1, door2
  <2>11. new \in State /\ Keep(a, new, Fields \ {"door"}) /\ new.door = door2
    BY <2>6, <2>8, <2>10 DEF State, Keep, Fields
  <2>12. Keep(st, new, Fields \ {"door", "up"}) /\ new.up = st.up /\ new.pool = st.pool
    BY <2>8, <2>11 DEF Keep, Fields
  <2>13. Quiet(st, new)
    BY <2>12, KeepQuiet DEF SameIdx, Keep, Fields
  <2>14. SameSide(st, new, Peer(x))
    BY <2>6, <2>11, <2>12, KeepSide DEF Keep, Fields
  <2>15. Joined(st, new, x)
    BY <2>3, <2>4, <2>6, <2>11, <2>12, <2>13, <2>14 DEF Joined, Frame
  <2> QED BY <2>15 DEF new
<1> QED BY <1>2, <1>3

-----------------------------------------------------------------------------
\* The end of a link.
LEMMA NoRecords ==
  /\ NoC2c \in Link /\ NoC2c.llid = 0 /\ NoC2c.st = "none" /\ NoC2c.timer = "none" /\ ~NoC2c.con
  /\ NoMu \in Endp /\ NoMu.st = "none" /\ NoMu.fd = 0 /\ ~NoMu.dying
BY C2cAssumption DEF NoC2c, NoMu, Link, Endp, States, Llid, Idx

LEMMA C2cFreeFacts ==
  ASSUME NEW st \in State, NEW x \in Side
  PROVE  LET new == C2cFree(st, x)
         IN  /\ Frame(st, new, x) /\ new.mu = st.mu /\ new.ping = st.ping
             /\ ~Exists(st, x) => new = st
             /\ Exists(st, x) => new.c[x] = NoC2c /\ new.stop[x] # <<>> /\ new.door[x].idx = 0
             /\ PoolOk(st.door[x].idx, st.pool[x]) => PoolOk(new.door[x].idx, new.pool[x])
<1> DEFINE told == IF x = "m" THEN Send(st, x, Delete) ELSE st
           b == [told EXCEPT !.c[x] = NoC2c, !.stop[x] = Append(@, st.c[x].llid)]
<1>1. told \in State /\ Frame(st, told, x) /\ Keep(st, told, Fields \ {"conn"})
  <2>1. CASE x = "m"
    <3>1. Delete \in To(Peer(x)) /\ Plain(Delete)
      BY <2>1, PingIsPlain, Sides
    <3> QED BY <2>1, <3>1, SendFacts DEF Frame
  <2>2. CASE x # "m"
    BY <2>2, FrameSelf DEF Keep
  <2> QED BY <2>1, <2>2
<1> HIDE DEF told
<1>2. CASE ~Exists(st, x)
  <2>1. C2cFree(st, x) = st
    BY <1>2 DEF C2cFree
  <2> QED BY <1>2, <2>1, FrameSelf
<1>3. CASE Exists(st, x)
  <2>1. C2cFree(st, x) = DoorFree(b, x)
    BY <1>3 DEF C2cFree, told
  <2> DEFINE c2 == [told.c EXCEPT ![x] = NoC2c]
             stop2 == [told.stop EXCEPT ![x] = Append(@, st.c[x].llid)]
  <2>2. told.c \in Links /\ told.stop \in [Side -> Seq(Llid)] /\ st.c[x].llid \in Llid
    BY <1>1, Tables, LinkType
  <2>3. c2 \in Links /\ c2[x] = NoC2c /\ c2[Peer(x)] = told.c[Peer(x)]
    BY <2>2, NoRecords, Sides DEF Links
  <2>4. /\ stop2 \in [Side -> Seq(Llid)] /\ stop2[x] # <<>>
        /\ stop2[Peer(x)] = told.stop[Peer(x)]
    BY <2>2, Sides
  <2>5. b = [[told EXCEPT !.c = c2] EXCEPT !.stop = stop2]
    BY <1>1 DEF State
  <2> HIDE DEF b, c2, stop2
  <2>6. b \in State /\ Keep(told, b, Fields \ {"c", "stop"}) /\ b.c = c2 /\ b.stop = stop2
    BY <1>1, <2>3, <2>4, <2>5 DEF State, Keep, Fields
  <2>7. Frame(told, b, x)
    <3>1. /\ b.nconn = told.nconn /\ b.conn = told.conn /\ b.up = told.up /\ b.mu = told.mu
          /\ b.ping = told.ping /\ b.door = told.door /\ b.pool = told.pool
      BY <2>6 DEF Keep, Fields
    <3>2. \A y \in Side : Calm(told.c[y], b.c[y])
      BY <2>3, <2>6, NoRecords, Sides DEF Calm
    <3>3. b.c["m"].con => told.c["m"].con
      BY <2>3, <2>6, NoRecords, Sides
    <3>4. Quiet(told, b)
      BY <3>1, <3>2, <3>3 DEF Quiet, Quieter, SameIdx
    <3> QED BY <2>3, <2>4, <2>6, <3>1, <3>4 DEF Frame, SameSide
  <2> DEFINE new == DoorFree(b, x)
  <2>8. Freed(b, new, x)
    BY <2>6, DoorFreeFacts
  <2> HIDE DEF new
  <2>9. Frame(st, new, x)
    BY <1>1, <2>7, <2>8, FrameTrans DEF Freed
  <2>10. /\ new.c = c2 /\ new.stop = stop2 /\ new.mu = st.mu /\ new.ping = st.ping
         /\ b.door = st.door /\ b.pool = st.pool
    BY <1>1, <2>6, <2>8 DEF Freed, Keep, Fields
  <2>11. C2cFree(st, x) = new
    BY <2>1 DEF new
  <2> QED BY <1>3, <2>3, <2>4, <2>8, <2>9, <2>10, <2>11 DEF Freed
<1> QED BY <1>2, <1>3

\* What is left of a link that is freed is as it should be.
LEMMA FreeLocal ==
  ASSUME NEW st \in State, NEW x \in Side, Weak(st, x), ~Exists(st, x) => Stopped(st, x)
  PROVE  Frame(st, C2cFree(st, x), x) /\ Local(C2cFree(st, x), x)
<1> DEFINE new == C2cFree(st, x)
<1> SUFFICES Frame(st, new, x) /\ Local(new, x)
  OBVIOUS
<1>1. /\ Frame(st, new, x) /\ new.mu = st.mu /\ new.ping = st.ping
      /\ ~Exists(st, x) => new = st
      /\ Exists(st, x) => new.c[x] = NoC2c /\ new.stop[x] # <<>> /\ new.door[x].idx = 0
      /\ PoolOk(st.door[x].idx, st.pool[x]) => PoolOk(new.door[x].idx, new.pool[x])
  BY C2cFreeFacts
<1> HIDE DEF new
<1>2. CASE Exists(st, x)
  BY <1>1, <1>2, NoRecords DEF Local, Weak, Watch, Stopped, Exists
<1>3. CASE ~Exists(st, x)
  BY <1>1, <1>3, NoRecords DEF Local, Weak, Watch
<1> QED BY <1>2, <1>3

\* A change of the endpoint.
SetMu(st, x, r) == [st EXCEPT !.mu[x] = r]

LEMMA EndpFrame ==
  ASSUME NEW st \in State, NEW x \in Side, NEW r \in Endp
  PROVE  /\ Frame(st, SetMu(st, x, r), x)
         /\ Keep(st, SetMu(st, x, r), Fields \ {"mu"})
         /\ SetMu(st, x, r).mu[x] = r
<1> DEFINE mu2 == [st.mu EXCEPT ![x] = r]
           new == SetMu(st, x, r)
<1> SUFFICES Frame(st, new, x) /\ Keep(st, new, Fields \ {"mu"}) /\ new.mu[x] = r
  OBVIOUS
<1>1. /\ mu2 \in [Side -> Endp] /\ mu2[x] = r /\ mu2[Peer(x)] = st.mu[Peer(x)]
      /\ new = [st EXCEPT !.mu = mu2]
  BY Tables, Sides DEF SetMu
<1> HIDE DEF new, mu2
<1>2. new \in State /\ Keep(st, new, Fields \ {"mu"}) /\ new.mu = mu2
  BY <1>1 DEF State, Keep, Fields
<1>3. Quiet(st, new)
  BY <1>2, KeepQuiet DEF SameIdx, Keep, Fields
<1> QED BY <1>1, <1>2, <1>3 DEF Frame, SameSide, Keep, Fields

LEMMA MuendpFreeFacts ==
  ASSUME NEW st \in State, NEW x \in Side, Weak(st, x)
  PROVE  Frame(st, MuendpFree(st, x), x) /\ Local(MuendpFree(st, x), x)
<1> DEFINE new == MuendpFree(st, x)
<1> SUFFICES Frame(st, new, x) /\ Local(new, x)
  OBVIOUS
<1>1. CASE st.mu[x].st = "none"
  <2>1. new = st /\ ~Exists(st, x) /\ st.c[x] = NoC2c
    BY <1>1 DEF MuendpFree, Weak
  <2>2. Frame(st, st, x)
    BY FrameSelf
  <2> HIDE DEF new
  <2> QED BY <1>1, <2>1, <2>2, NoRecords DEF Local, Watch, Stopped
<1>2. CASE st.mu[x].st # "none"
  <2> DEFINE a == C2cFree(st, x)
  <2>1. /\ Frame(st, a, x) /\ a.mu = st.mu /\ a.ping = st.ping
        /\ ~Exists(st, x) => a = st
        /\ Exists(st, x) => a.c[x] = NoC2c /\ a.stop[x] # <<>> /\ a.door[x].idx = 0
        /\ PoolOk(st.door[x].idx, st.pool[x]) => PoolOk(a.door[x].idx, a.pool[x])
    BY C2cFreeFacts
  <2>2. new = SetMu(a, x, NoMu)
    BY <1>2 DEF MuendpFree, SetMu
  <2> HIDE DEF new, a
  <2>3. a \in State
    BY <2>1 DEF Frame
  <2>4. /\ Frame(a, SetMu(a, x, NoMu), x)
        /\ Keep(a, SetMu(a, x, NoMu), Fields \ {"mu"}) /\ SetMu(a, x, NoMu).mu[x] = NoMu
    BY <2>3, NoRecords, EndpFrame
  <2>5. Frame(a, new, x) /\ Keep(a, new, Fields \ {"mu"}) /\ new.mu[x] = NoMu
    BY <2>2, <2>4
  <2>6. Frame(st, new, x)
    BY <2>1, <2>5, FrameTrans
  <2>7. new.c = a.c /\ new.door = a.door /\ new.pool = a.pool
    BY <2>5 DEF Keep, Fields
  <2>8. a.c[x] = NoC2c /\ a.door[x].idx = 0 /\ PoolOk(0, a.pool[x])
    <3>1. a.c[x] = NoC2c
      BY <2>1 DEF Weak
    <3>2. st.door[x].idx # 0 => Exists(st, x)
      BY DEF Weak
    <3>3. a.door[x].idx = 0
      BY <2>1, <3>2
    <3>4. PoolOk(a.door[x].idx, a.pool[x])
      BY <2>1 DEF Weak
    <3> QED BY <3>1, <3>3, <3>4
  <2> QED BY <2>5, <2>6, <2>7, <2>8, NoRecords DEF Local, Weak, Watch, Stopped, Exists
<1> QED BY <1>1, <1>2

LEMMA EndpStopFacts ==
  ASSUME NEW st \in State, NEW x \in Side, Weak(st, x), Watch(st, x),
         NEW new \in EndpStop(st, x)
  PROVE  Frame(st, new, x) /\ Local(new, x)
<1>1. CASE st.mu[x].st = "none" \/ st.mu[x].dying
  <2>1. new = st
    BY <1>1 DEF EndpStop
  <2> QED BY <1>1, <2>1, FrameSelf DEF Local, Stopped
<1>2. CASE ~(st.mu[x].st = "none" \/ st.mu[x].dying)
  <2>1. CASE new = MuendpFree(st, x)
    BY <2>1, MuendpFreeFacts
  <2>2. CASE st.mu[x].st = "born" /\ new = [st EXCEPT !.mu[x].dying = TRUE]
    <3> DEFINE r == [st.mu[x] EXCEPT !.dying = TRUE]
    <3>0. st.mu[x] \in Endp
      BY Tables
    <3>1. r \in Endp /\ r.st = "born" /\ r.dying
      BY <2>2, <3>0 DEF Endp
    <3>2. new = SetMu(st, x, r)
      BY <2>2 DEF SetMu
    <3> HIDE DEF r
    <3>3. /\ Frame(st, SetMu(st, x, r), x)
          /\ Keep(st, SetMu(st, x, r), Fields \ {"mu"}) /\ SetMu(st, x, r).mu[x] = r
      BY <3>1, EndpFrame
    <3>4. Frame(st, new, x) /\ Keep(st, new, Fields \ {"mu"}) /\ new.mu[x] = r
      BY <3>2, <3>3
    <3>5. new.c = st.c /\ new.door = st.door /\ new.pool = st.pool /\ new.ping = st.ping
      BY <3>4 DEF Keep, Fields
    <3> QED BY <3>1, <3>4, <3>5 DEF Local, Weak, Watch, Stopped, Exists
  <2> QED BY <1>2, <2>1, <2>2 DEF EndpStop
<1> QED BY <1>1, <1>2

-----------------------------------------------------------------------------
\* Changes of one field.
SetC(st, x, r) == [st EXCEPT !.c[x] = r]
SetPing(st, x, k) == [st EXCEPT !.ping[x] = k]
SetStop(st, x, q) == [st EXCEPT !.stop[x] = q]
SetUp(st, x, u) == [st EXCEPT !.up[x] = u]
SetDoor(st, x, r) == [st EXCEPT !.door[x] = r]
SetTr(st, d, t) == [st EXCEPT !.tr[d] = t]

\* x may have the state of a link r.
InRole(x, r) == (x = "m" => r.st # "sidx") /\ (x = "s" => r.st \notin {"midx", "zero"})

LEMMA RoleKept ==
  ASSUME NEW st \in State, NEW x \in Side
  PROVE  InRole(x, st.c[x])
BY LinkType DEF InRole, Side

LEMMA SetCFacts ==
  ASSUME NEW st \in State, NEW x \in Side, NEW r \in Link, InRole(x, r)
  PROVE  /\ SetC(st, x, r) \in State /\ Keep(st, SetC(st, x, r), Fields \ {"c"})
         /\ SetC(st, x, r).c[x] = r /\ SetC(st, x, r).c[Peer(x)] = st.c[Peer(x)]
         /\ Calm(st.c[x], r) /\ (r.con => st.c[x].con) => Frame(st, SetC(st, x, r), x)
<1> DEFINE c2 == [st.c EXCEPT ![x] = r]
           new == SetC(st, x, r)
<1>1. st.c \in Links
  BY Tables
<1>2. c2 \in Links /\ c2[x] = r /\ c2[Peer(x)] = st.c[Peer(x)]
  BY <1>1, Sides DEF Links, InRole
<1>3. new = [st EXCEPT !.c = c2]
  BY DEF SetC
<1> HIDE DEF new, c2
<1>4. new \in State /\ Keep(st, new, Fields \ {"c"}) /\ new.c = c2
  BY <1>2, <1>3 DEF State, Keep, Fields
<1>5. ASSUME Calm(st.c[x], r), r.con => st.c[x].con PROVE Frame(st, new, x)
  <2>1. /\ new.nconn = st.nconn /\ new.conn = st.conn /\ new.up = st.up /\ new.mu = st.mu
        /\ new.ping = st.ping /\ new.door = st.door /\ new.pool = st.pool /\ new.stop = st.stop
    BY <1>4 DEF Keep, Fields
  <2>2. \A y \in Side : Calm(st.c[y], new.c[y])
    BY <1>2, <1>4, <1>5, Sides DEF Calm
  <2>3. new.c["m"].con => st.c["m"].con
    BY <1>2, <1>4, <1>5, Sides
  <2>4. Quiet(st, new)
    BY <2>1, <2>2, <2>3 DEF Quiet, Quieter, SameIdx
  <2> QED BY <1>2, <1>4, <2>1, <2>4 DEF Frame, SameSide
<1> QED BY <1>2, <1>4, <1>5 DEF new

LEMMA SetPingFacts ==
  ASSUME NEW st \in State, NEW x \in Side, NEW k \in Nat
  PROVE  /\ Frame(st, SetPing(st, x, k), x) /\ Keep(st, SetPing(st, x, k), Fields \ {"ping"})
         /\ SetPing(st, x, k).ping[x] = k
<1> DEFINE ping2 == [st.ping EXCEPT ![x] = k]
           new == SetPing(st, x, k)
<1>1. /\ ping2 \in [Side -> Nat] /\ ping2[x] = k /\ ping2[Peer(x)] = st.ping[Peer(x)]
      /\ new = [st EXCEPT !.ping = ping2]
  BY Tables, Sides DEF SetPing
<1> HIDE DEF new, ping2
<1>2. new \in State /\ Keep(st, new, Fields \ {"ping"}) /\ new.ping = ping2
  BY <1>1 DEF State, Keep, Fields
<1>3. Quiet(st, new)
  BY <1>2, KeepQuiet DEF SameIdx, Keep, Fields
<1>4. Frame(st, new, x)
  BY <1>1, <1>2, <1>3 DEF Frame, SameSide, Keep, Fields
<1> QED BY <1>1, <1>2, <1>4 DEF new

LEMMA SetStopFacts ==
  ASSUME NEW st \in State, NEW x \in Side, NEW q \in Seq(Llid)
  PROVE  /\ Frame(st, SetStop(st, x, q), x) /\ Keep(st, SetStop(st, x, q), Fields \ {"stop"})
<1> DEFINE stop2 == [st.stop EXCEPT ![x] = q]
           new == SetStop(st, x, q)
<1>1. /\ stop2 \in [Side -> Seq(Llid)] /\ stop2[Peer(x)] = st.stop[Peer(x)]
      /\ new = [st EXCEPT !.stop = stop2]
  BY Tables, Sides DEF SetStop
<1> HIDE DEF new, stop2
<1>2. new \in State /\ Keep(st, new, Fields \ {"stop"}) /\ new.stop = stop2
  BY <1>1 DEF State, Keep, Fields
<1>3. Quiet(st, new)
  BY <1>2, KeepQuiet DEF SameIdx, Keep, Fields
<1>4. Frame(st, new, x)
  BY <1>1, <1>2, <1>3 DEF Frame, SameSide, Keep, Fields
<1> QED BY <1>2, <1>4 DEF new

LEMMA SetUpFacts ==
  ASSUME NEW st \in State, NEW x \in Side, NEW u \in Seq(Ans)
  PROVE  /\ SetUp(st, x, u) \in State /\ Keep(st, SetUp(st, x, u), Fields \ {"up"})
         /\ SetUp(st, x, u).up[x] = u /\ SetUp(st, x, u).up[Peer(x)] = st.up[Peer(x)]
         /\ SameIdx(st.up[x], u) => Frame(st, SetUp(st, x, u), x)
<1> DEFINE up2 == [st.up EXCEPT ![x] = u]
           new == SetUp(st, x, u)
<1>1. /\ up2 \in [Side -> Seq(Ans)] /\ up2[x] = u /\ up2[Peer(x)] = st.up[Peer(x)]
      /\ new = [st EXCEPT !.up = up2]
  BY Tables, Sides DEF SetUp
<1> HIDE DEF new, up2
<1>2. new \in State /\ Keep(st, new, Fields \ {"up"}) /\ new.up = up2
  BY <1>1 DEF State, Keep, Fields
<1>3. ASSUME SameIdx(st.up[x], u) PROVE Frame(st, new, x)
  <2>1. \A y \in Side : SameIdx(st.up[y], new.up[y])
    <3>1. SameIdx(st.up[Peer(x)], st.up[Peer(x)])
      BY DEF SameIdx
    <3> QED BY <1>1, <1>2, <1>3, <3>1, Sides
  <2>2. Quiet(st, new) /\ SameSide(st, new, Peer(x))
    BY <1>2, <2>1, KeepQuiet, KeepSide DEF Keep, Fields
  <2> QED BY <1>2, <2>2 DEF Frame
<1> QED BY <1>1, <1>2, <1>3 DEF new

LEMMA SetDoorFacts ==
  ASSUME NEW st \in State, NEW x \in Side, NEW r \in DoorRec
  PROVE  /\ Frame(st, SetDoor(st, x, r), x) /\ Keep(st, SetDoor(st, x, r), Fields \ {"door"})
         /\ SetDoor(st, x, r).door[x] = r
<1> DEFINE door2 == [st.door EXCEPT ![x] = r]
           new == SetDoor(st, x, r)
<1>1. /\ door2 \in [Side -> DoorRec] /\ door2[x] = r /\ door2[Peer(x)] = st.door[Peer(x)]
      /\ new = [st EXCEPT !.door = door2]
  BY Tables, Sides DEF SetDoor
<1> HIDE DEF new, door2
<1>2. new \in State /\ Keep(st, new, Fields \ {"door"}) /\ new.door = door2
  BY <1>1 DEF State, Keep, Fields
<1>3. Quiet(st, new)
  BY <1>2, KeepQuiet DEF SameIdx, Keep, Fields
<1>4. Frame(st, new, x)
  BY <1>1, <1>2, <1>3 DEF Frame, SameSide, Keep, Fields
<1> QED BY <1>1, <1>2, <1>4 DEF new

\* What the invariant does not read.
Silent == {"restart", "tr", "nadd", "ntr", "nupset"}

LEMMA SilentFrame ==
  ASSUME NEW st \in State, NEW new \in State, NEW x \in Side, Keep(st, new, Fields \ Silent)
  PROVE  Frame(st, new, x)
<1>1. Quiet(st, new)
  BY KeepQuiet DEF SameIdx, Keep, Fields, Silent
<1>2. SameSide(st, new, Peer(x))
  BY KeepSide DEF Keep, Fields, Silent
<1> QED BY <1>1, <1>2 DEF Frame

LEMMA SetTrFacts ==
  ASSUME NEW st \in State, NEW d \in Conn, NEW t \in Traffic, NEW x \in Side
  PROVE  /\ Frame(st, SetTr(st, d, t), x) /\ Keep(st, SetTr(st, d, t), Fields \ {"tr"})
         /\ SetTr(st, d, t).tr[d] = t
<1> DEFINE tr2 == [st.tr EXCEPT ![d] = t]
           new == SetTr(st, d, t)
<1>1. tr2 \in [Conn -> Traffic] /\ tr2[d] = t /\ new = [st EXCEPT !.tr = tr2]
  BY Tables DEF SetTr
<1> HIDE DEF new, tr2
<1>2. new \in State /\ Keep(st, new, Fields \ {"tr"}) /\ new.tr = tr2
  BY <1>1 DEF State, Keep, Fields
<1>3. Frame(st, new, x)
  BY <1>2, SilentFrame DEF Keep, Silent
<1> QED BY <1>1, <1>2, <1>3 DEF new

\* The same records of an end.
LEMMA SameLocal ==
  ASSUME NEW st, NEW new, NEW x,
         Keep(st, new, {"c", "mu", "ping", "stop", "door", "pool"})
  PROVE  /\ Weak(st, x) => Weak(new, x)
         /\ Watch(st, x) => Watch(new, x)
         /\ Stopped(st, x) => Stopped(new, x)
         /\ Exists(st, x) <=> Exists(new, x)
<1>1. /\ new.c = st.c /\ new.mu = st.mu /\ new.ping = st.ping
      /\ new.stop = st.stop /\ new.door = st.door /\ new.pool = st.pool
  BY DEF Keep
<1> QED BY <1>1 DEF Weak, Watch, Stopped, Exists

LEMMA Parts ==
  ASSUME PeerInv
  PROVE  /\ w \in State /\ Shared(w)
         /\ \A x \in Side : Local(w, x) /\ Weak(w, x) /\ Watch(w, x) /\ Stopped(w, x)
BY DEF PeerInv, Good, Local

LEMMA Stays ==
  ASSUME PeerInv, NEW x \in Side, Frame(w, w', x), Local(w', x)
  PROVE  PeerInv'
<1>1. Good(w')
  BY FrameGood DEF PeerInv
<1> QED BY <1>1 DEF PeerInv

-----------------------------------------------------------------------------
\* Each action keeps the invariant.
LEMMA SilentStep ==
  ASSUME PeerInv, NEW st \in State, NEW x \in Side, Keep(w, st, Fields \ Silent)
  PROVE  Frame(w, st, x) /\ Local(st, x) /\ Weak(st, x) /\ Watch(st, x) /\ Stopped(st, x)
<1>1. Frame(w, st, x)
  BY Parts, SilentFrame
<1>2. Keep(w, st, {"c", "mu", "ping", "stop", "door", "pool"})
  BY DEF Keep, Fields, Silent
<1> QED BY <1>1, <1>2, Parts, SameLocal DEF Local

\* The counters.
LEMMA Counted ==
  ASSUME NEW st \in State, NEW k \in Nat
  PROVE  /\ [st EXCEPT !.restart = k] \in State
         /\ Keep(st, [st EXCEPT !.restart = k], Fields \ {"restart"})
         /\ [st EXCEPT !.nadd = k] \in State
         /\ Keep(st, [st EXCEPT !.nadd = k], Fields \ {"nadd"})
         /\ [st EXCEPT !.nupset = k] \in State
         /\ Keep(st, [st EXCEPT !.nupset = k], Fields \ {"nupset"})
<1>1. [st EXCEPT !.restart = k] \in State /\ Keep(st, [st EXCEPT !.restart = k], Fields \ {"restart"})
  BY DEF State, Keep, Fields
<1>2. [st EXCEPT !.nadd = k] \in State /\ Keep(st, [st EXCEPT !.nadd = k], Fields \ {"nadd"})
  BY DEF State, Keep, Fields
<1>3. [st EXCEPT !.nupset = k] \in State /\ Keep(st, [st EXCEPT !.nupset = k], Fields \ {"nupset"})
  BY DEF State, Keep, Fields
<1> QED BY <1>1, <1>2, <1>3

LEMMA LocalAddSatFacts ==
  ASSUME NEW st \in State, Local(st, "m")
  PROVE  Frame(st, LocalAddSat(st), "m") /\ Local(LocalAddSat(st), "m")
<1> DEFINE r == [NoMu EXCEPT !.st = "wait"]
           q == [NoC2c EXCEPT !.st = "zero", !.timer = "try"]
           a == SetMu(st, "m", r)
           new == LocalAddSat(st)
<1>0. "m" \in Side
  BY Sides
<1>1. CASE st.mu["m"].st # "none"
  BY <1>0, <1>1, FrameSelf DEF LocalAddSat
<1>2. CASE st.mu["m"].st = "none"
  <2>1. r \in Endp /\ r.st = "wait"
    BY NoRecords DEF NoMu, Endp
  <2>2. q \in Link /\ q.st = "zero" /\ q.timer = "try" /\ q.llid = 0 /\ ~q.con /\ InRole("m", q)
    BY NoRecords DEF NoC2c, Link, States, InRole
  <2>3. new = SetC(a, "m", q)
    BY <1>2 DEF LocalAddSat, SetC, SetMu
  <2> HIDE DEF new, r, q
  <2>4. Frame(st, a, "m") /\ Keep(st, a, Fields \ {"mu"}) /\ a.mu["m"] = r
    BY <1>0, <2>1, EndpFrame
  <2>5. a \in State
    BY <2>4 DEF Frame
  <2> HIDE DEF a
  <2>6. Calm(a.c["m"], q)
    BY <2>2 DEF Calm
  <2>7. /\ Frame(a, SetC(a, "m", q), "m") /\ Keep(a, SetC(a, "m", q), Fields \ {"c"})
        /\ SetC(a, "m", q).c["m"] = q
    BY <1>0, <2>2, <2>5, <2>6, SetCFacts
  <2>8. Frame(a, new, "m") /\ Keep(a, new, Fields \ {"c"}) /\ new.c["m"] = q
    BY <2>3, <2>7
  <2>9. Frame(st, new, "m")
    BY <1>0, <2>4, <2>8, FrameTrans
  <2>10. new.mu["m"] = r /\ new.door = st.door /\ new.pool = st.pool
    BY <2>4, <2>8 DEF Keep, Fields
  <2>11. st.door["m"].idx = 0
    BY <1>2 DEF Local, Weak
  <2>12. Local(new, "m")
    BY <2>1, <2>2, <2>8, <2>10, <2>11 DEF Local, Weak, Watch, Stopped, Exists
  <2> QED BY <2>9, <2>12 DEF new
<1> QED BY <1>1, <1>2

LEMMA AddSatPart ==
  ASSUME PeerInv, AddSat PROVE PeerInv'
<1> DEFINE a == LocalAddSat(w)
<1>0. "m" \in Side /\ w \in State
  BY Sides, Parts
<1>1. Frame(w, a, "m") /\ Local(a, "m") /\ w' = [a EXCEPT !.nadd = @ + 1]
  BY <1>0, Parts, LocalAddSatFacts DEF AddSat
<1>2. a \in State
  BY <1>1 DEF Frame
<1> HIDE DEF a
<1>3. w' \in State /\ Keep(a, w', Fields \ {"nadd"})
  <2>1. a.nadd + 1 \in Nat
    BY <1>2, Tables
  <2> QED BY <1>1, <1>2, <2>1, Counted
<1>4. Frame(a, w', "m") /\ Local(w', "m")
  <2>1. Keep(a, w', {"c", "mu", "ping", "stop", "door", "pool"}) /\ Keep(a, w', Fields \ Silent)
    BY <1>3 DEF Keep, Fields, Silent
  <2> QED BY <1>0, <1>1, <1>2, <1>3, <2>1, SameLocal, SilentFrame DEF Local
<1>5. Frame(w, w', "m")
  BY <1>0, <1>1, <1>4, FrameTrans
<1> QED BY <1>0, <1>4, <1>5, Stays

LEMMA TimerRestartPart ==
  ASSUME PeerInv, TimerRestart PROVE PeerInv'
<1> DEFINE a == [w EXCEPT !.restart = @ - 1]
<1>0. "m" \in Side /\ w \in State
  BY Sides, Parts
<1>1. a \in State /\ Keep(w, a, Fields \ Silent)
  <2>1. w.restart - 1 \in Nat
    BY <1>0, Tables DEF TimerRestart
  <2> QED BY <1>0, <2>1, Counted DEF Keep, Silent
<1>2. w' = LocalAddSat(a)
  BY DEF TimerRestart
<1> HIDE DEF a
<1>3. Frame(w, a, "m") /\ Local(a, "m")
  BY <1>0, <1>1, SilentStep
<1>4. Frame(a, w', "m") /\ Local(w', "m")
  BY <1>1, <1>2, <1>3, LocalAddSatFacts
<1>5. Frame(w, w', "m")
  BY <1>0, <1>3, <1>4, FrameTrans
<1> QED BY <1>0, <1>4, <1>5, Stays

LEMMA DelSatPart ==
  ASSUME PeerInv, NEW x \in Side, DelSat(x) PROVE PeerInv'
<1> DEFINE a == [w EXCEPT !.nupset = @ + 1]
<1>0. w \in State
  BY Parts
<1>1. a \in State /\ Keep(w, a, Fields \ Silent)
  <2>1. w.nupset + 1 \in Nat
    BY <1>0, Tables
  <2> QED BY <1>0, <2>1, Counted DEF Keep, Silent
<1>2. w' \in EndpStop(a, x)
  BY DEF DelSat
<1> HIDE DEF a
<1>3. Frame(w, a, x) /\ Weak(a, x) /\ Watch(a, x)
  BY <1>1, SilentStep
<1>4. Frame(a, w', x) /\ Local(w', x)
  BY <1>1, <1>2, <1>3, EndpStopFacts
<1>5. Frame(w, w', x)
  BY <1>3, <1>4, FrameTrans
<1> QED BY <1>4, <1>5, Stays

\* Before a trial nothing of an earlier one is under way to the master.
LEMMA TrialShared ==
  ASSUME NEW st \in State, Shared(st), st.up["m"] = <<>>, NEW r \in Link, InRole("m", r),
         r.llid = st.c["m"].llid, r.master_idx = st.c["m"].master_idx,
         r.slave_idx = st.c["m"].slave_idx
  PROVE  Shared(SetC(st, "m", r))
<1> DEFINE new == SetC(st, "m", r)
<1>0. "m" \in Side /\ "s" \in Side /\ Peer("m") = "s"
  BY Sides
<1>1. /\ new \in State /\ Keep(st, new, Fields \ {"c"}) /\ new.c["m"] = r
      /\ new.c["s"] = st.c["s"]
  <2>1. /\ new \in State /\ Keep(st, new, Fields \ {"c"}) /\ new.c["m"] = r
        /\ new.c[Peer("m")] = st.c[Peer("m")]
    BY <1>0, SetCFacts
  <2> QED BY <1>0, <2>1
<1> HIDE DEF new
<1>2. new.conn = st.conn /\ new.nconn = st.nconn /\ new.up = st.up
  BY <1>1 DEF Keep, Fields
<1>3. ~HasIdx(new.up["m"]) /\ OneIdx(new.up["m"])
  BY <1>2 DEF HasIdx, OneIdx
<1>4. Shared(new)
  BY <1>1, <1>2, <1>3 DEF Shared
<1> QED BY <1>4 DEF new

LEMMA TimerC2cPart ==
  ASSUME PeerInv, NEW x \in Side, TimerC2c(x) PROVE PeerInv'
<1> DEFINE r == [w.c[x] EXCEPT !.timer = "none"]
           e == SetC(w, x, r)
<1>0. w \in State /\ w.c[x] \in Link /\ Weak(w, x) /\ Watch(w, x) /\ Stopped(w, x) /\ Shared(w)
  BY Parts, LinkType
<1>1. /\ r \in Link /\ r.st = w.c[x].st /\ r.timer = "none" /\ r.con = w.c[x].con
      /\ InRole(x, r) /\ Calm(w.c[x], r)
  <2>1. /\ r \in Link /\ r.st = w.c[x].st /\ r.timer = "none" /\ r.con = w.c[x].con
        /\ r.llid = w.c[x].llid /\ r.master_idx = w.c[x].master_idx
        /\ r.slave_idx = w.c[x].slave_idx
    BY <1>0 DEF Link
  <2> HIDE DEF r
  <2> QED BY <1>0, <2>1, RoleKept DEF InRole, Calm
<1> HIDE DEF r
<1>2. Exists(w, x)
  BY <1>0, NoRecords DEF TimerC2c, Weak
<1>3. CASE w.c[x].timer # "try"
  <2>1. w' = C2cFree(e, x)
    BY <1>3 DEF TimerC2c, SetC, r
  <2>2. Frame(w, e, x) /\ Keep(w, e, Fields \ {"c"}) /\ e.c[x] = r /\ e \in State
    BY <1>0, <1>1, SetCFacts
  <2> HIDE DEF e
  <2>3. e.mu = w.mu /\ e.door = w.door /\ e.pool = w.pool
    BY <2>2 DEF Keep, Fields
  <2>4. Exists(e, x) /\ Weak(e, x)
    BY <1>0, <1>1, <1>2, <2>2, <2>3 DEF Weak, Exists
  <2>5. Frame(e, w', x) /\ Local(w', x)
    BY <2>1, <2>2, <2>4, FreeLocal
  <2>6. Frame(w, w', x)
    BY <2>2, <2>5, FrameTrans
  <2> QED BY <2>5, <2>6, Stays
<1>4. CASE w.c[x].timer = "try"
  <2> DEFINE p == [w.c[x] EXCEPT !.con = TRUE]
  <2>1. /\ p \in Link /\ p.st = w.c[x].st /\ p.timer = "try" /\ p.llid = 0
        /\ w.c[x].llid = 0 /\ p.master_idx = w.c[x].master_idx
        /\ p.slave_idx = w.c[x].slave_idx
    BY <1>0, <1>4 DEF Link, Weak
  <2>2. w' = SetC(w, x, p)
    BY <1>0, <1>4, <2>1 DEF TimerC2c, SetC
  <2> HIDE DEF p
  <2>3. InRole(x, p)
    BY <1>0, <2>1, RoleKept DEF InRole
  <2>4. /\ w' \in State /\ Keep(w, w', Fields \ {"c"}) /\ w'.c[x] = p
        /\ w'.c[Peer(x)] = w.c[Peer(x)]
        /\ p.con => w.c[x].con \/ x = "m"  \/ x = "s"
    BY <1>0, <2>1, <2>2, <2>3, SetCFacts DEF Side
  <2>5. /\ w'.mu = w.mu /\ w'.door = w.door /\ w'.pool = w.pool /\ w'.ping = w.ping
        /\ w'.stop = w.stop /\ w'.conn = w.conn /\ w'.up = w.up /\ w'.nconn = w.nconn
    BY <2>4 DEF Keep, Fields
  <2>6. Local(w', x)
    BY <1>0, <1>2, <1>4, <2>1, <2>4, <2>5 DEF Local, Weak, Watch, Stopped, Exists
  <2>7. Local(w', Peer(x))
    BY Parts, Sides, <2>4, <2>5 DEF Local, Weak, Watch, Stopped, Exists
  <2>8. Shared(w')
    <3>1. CASE x = "m"
      <4>1. w.up["m"] = <<>>
        BY <1>4, Sides DEF TimerC2c, Settled
      <4> QED BY <1>0, <2>1, <2>2, <2>3, <3>1, <4>1, TrialShared
    <3>2. CASE x = "s"
      <4>1. /\ w'.c["m"] = w.c["m"] /\ w'.c["s"].llid = 0
        BY <2>1, <2>4, <3>2, Sides
      <4>2. 0 <= w.nconn
        BY <1>0, Tables, C2cAssumption DEF Llid
      <4> QED BY <1>0, <2>5, <4>1, <4>2 DEF Shared
    <3> QED BY <3>1, <3>2 DEF Side
  <2>9. \A y \in Side : Local(w', y)
    BY <2>6, <2>7, Sides
  <2>10. Good(w')
    BY <2>4, <2>8, <2>9 DEF Good
  <2> QED BY <2>10 DEF PeerInv
<1> QED BY <1>3, <1>4

LEMMA EndpGonePart ==
  ASSUME PeerInv, NEW x \in Side, EndpGone(x) \/ EndpErr(x) PROVE PeerInv'
<1>1. w \in State /\ Weak(w, x) /\ w' = MuendpFree(w, x)
  BY Parts DEF EndpGone, EndpErr
<1>2. Frame(w, w', x) /\ Local(w', x)
  BY <1>1, MuendpFreeFacts
<1> QED BY <1>2, Stays

LEMMA TimerGlobtopoFreePart ==
  ASSUME PeerInv, NEW x \in Side, TimerGlobtopoFree(x) PROVE PeerInv'
<1> DEFINE q == w.stop[x]
           a == SetStop(w, x, Tail(q))
           b == TimerLlidFree(a, x, Head(q))
<1>0. w \in State /\ Weak(w, x) /\ Watch(w, x)
  BY Parts
<1>1. Tail(q) \in Seq(Llid) /\ Head(q) \in Llid
  <2>1. q \in Seq(Llid) /\ q # <<>>
    BY <1>0, Tables DEF TimerGlobtopoFree
  <2> QED BY <2>1, TailProps
<1>2. w' \in EndpStop(b, x)
  BY DEF TimerGlobtopoFree, SetStop
<1>3. Frame(w, a, x) /\ Keep(w, a, Fields \ {"stop"})
  BY <1>0, <1>1, SetStopFacts
<1>4. a \in State
  BY <1>3 DEF Frame
<1> HIDE DEF a
<1>5. Weak(a, x) /\ Watch(a, x)
  <2>1. a.c = w.c /\ a.mu = w.mu /\ a.door = w.door /\ a.pool = w.pool /\ a.ping = w.ping
    BY <1>3 DEF Keep, Fields
  <2> QED BY <1>0, <2>1 DEF Weak, Watch, Exists
<1>6. Frame(a, b, x) /\ Weak(b, x) /\ Watch(b, x)
  <2>1. CASE Head(q) = 0
    <3>1. b = a
      BY <2>1 DEF TimerLlidFree
    <3> QED BY <1>4, <1>5, <3>1, FrameSelf
  <2>2. CASE Head(q) # 0
    <3>1. b = Close(a, x, Head(q)) /\ Head(q) \in Conn
      BY <1>1, <2>2, C2cAssumption DEF TimerLlidFree, Llid, Conn
    <3>2. /\ Frame(a, Close(a, x, Head(q)), x)
          /\ Keep(a, Close(a, x, Head(q)), Fields \ {"conn"})
      BY <1>4, <3>1, CloseFacts
    <3>3. Keep(a, b, {"c", "mu", "ping", "stop", "door", "pool"})
      BY <3>1, <3>2 DEF Keep, Fields
    <3> QED BY <1>5, <3>1, <3>2, <3>3, SameLocal
  <2> QED BY <2>1, <2>2
<1>7. b \in State
  BY <1>6 DEF Frame
<1> HIDE DEF b
<1>8. Frame(b, w', x) /\ Local(w', x)
  BY <1>2, <1>6, <1>7, EndpStopFacts
<1>9. Frame(w, w', x)
  <2>1. Frame(w, b, x)
    BY <1>3, <1>6, FrameTrans
  <2> QED BY <1>8, <2>1, FrameTrans
<1> QED BY <1>8, <1>9, Stays

\* A step of the doors, which leaves the switches alone.
LEMMA DoorRecordStep ==
  ASSUME PeerInv, NEW x \in Side, Frame(w, w', x), Keep(w, w', {"c", "mu", "ping", "stop"}),
         w'.door[x].idx \in {0, w.door[x].idx},
         PoolOk(w.door[x].idx, w.pool[x]) => PoolOk(w'.door[x].idx, w'.pool[x])
  PROVE  PeerInv'
<1>1. /\ w'.c = w.c /\ w'.mu = w.mu /\ w'.ping = w.ping /\ w'.stop = w.stop
  BY DEF Keep
<1>2. Local(w', x)
  BY <1>1, Parts DEF Local, Weak, Watch, Stopped, Exists
<1> QED BY <1>2, Stays

LEMMA DoorConnectPart ==
  ASSUME PeerInv, DoorConnect PROVE PeerInv'
<1>0. "m" \in Side /\ "s" \in Side /\ w \in State
  BY Sides, Parts
<1>1. CASE w' = DoorAbort(w, "m")
  BY <1>0, <1>1, DoorAbortFacts, DoorRecordStep
<1>2. CASE w.ntr < MaxConn /\ w' # DoorAbort(w, "m")
  <2> DEFINE d == w.ntr + 1
             t == [end |-> [x \in Side |-> "door"], ctx |-> {"m"},
                   msg |-> "hello", idx |-> w.door["m"].peer]
             a == [w EXCEPT !.ntr = d]
             r1 == [a.door["m"] EXCEPT !.con = FALSE]
             b == SetDoor(a, "m", r1)
             r2 == [b.door["m"] EXCEPT !.dido = d]
             c == SetDoor(b, "m", r2)
  <2>1. d \in Conn /\ d \in Llid
    BY <1>0, <1>2, Tables, C2cAssumption DEF Llid, Conn
  <2>2. w.door["m"] \in DoorRec
    BY <1>0, Tables
  <2>3. w' = SetTr(c, d, t)
    <3>1. w' = [w EXCEPT !.ntr = d, !.door["m"].con = FALSE, !.door["m"].dido = d, !.tr[d] = t]
      BY <1>2 DEF DoorConnect
    <3> HIDE DEF d, t
    <3> QED BY <3>1 DEF SetDoor, SetTr
  <2> HIDE DEF d
  <2>5. t \in Traffic
    <3>1. [x \in Side |-> "door"] \in [Side -> {"none", "door", "proc"}]
      OBVIOUS
    <3>2. w.door["m"].peer \in Idx
      BY <2>2 DEF DoorRec
    <3> QED BY <1>0, <3>1, <3>2 DEF Traffic
  <2> HIDE DEF t
  <2>6. a \in State /\ Keep(w, a, Fields \ {"ntr"})
    BY <1>0, <2>1 DEF State, Keep, Fields
  <2>7. Frame(w, a, "m")
    BY <1>0, <2>6, SilentFrame DEF Keep, Silent
  <2>8. a.door = w.door
    BY <2>6 DEF Keep, Fields
  <2>9. r1 \in DoorRec /\ r1.idx = w.door["m"].idx
    BY <2>2, <2>8 DEF DoorRec
  <2> HIDE DEF a, r1
  <2>10. Frame(a, b, "m") /\ Keep(a, b, Fields \ {"door"}) /\ b.door["m"] = r1
    BY <1>0, <2>6, <2>9, SetDoorFacts
  <2>11. b \in State
    BY <2>10 DEF Frame
  <2>12. r2 \in DoorRec /\ r2.idx = w.door["m"].idx
    <3> HIDE DEF b
    <3> QED BY <2>1, <2>9, <2>10 DEF DoorRec
  <2> HIDE DEF b, r2
  <2>13. Frame(b, c, "m") /\ Keep(b, c, Fields \ {"door"}) /\ c.door["m"] = r2
    BY <1>0, <2>11, <2>12, SetDoorFacts
  <2>14. c \in State
    BY <2>13 DEF Frame
  <2> HIDE DEF c
  <2>15. Frame(c, w', "m") /\ Keep(c, w', Fields \ {"tr"})
    BY <1>0, <2>1, <2>3, <2>5, <2>14, SetTrFacts
  <2>16. Frame(w, w', "m")
    <3>1. Frame(w, b, "m")
      BY <1>0, <2>7, <2>10, FrameTrans
    <3>2. Frame(w, c, "m")
      BY <1>0, <2>13, <3>1, FrameTrans
    <3> QED BY <1>0, <2>15, <3>2, FrameTrans
  <2>17. /\ Keep(w, w', {"c", "mu", "ping", "stop"})
         /\ w'.door["m"].idx = w.door["m"].idx /\ w'.pool = w.pool
    BY <2>6, <2>10, <2>12, <2>13, <2>15 DEF Keep, Fields
  <2> QED BY <1>0, <2>16, <2>17, DoorRecordStep
<1> QED BY <1>1, <1>2 DEF DoorConnect

\* A change of a traffic connection, then an answer or none.
LEMMA TrafficStep ==
  ASSUME PeerInv, NEW x \in Side, NEW d \in Conn, NEW t \in Traffic, NEW a \in Ans,
         a.k # "idx", w' = SetTr(w, d, t) \/ w' = Answer(SetTr(w, d, t), x, a)
  PROVE  PeerInv'
<1> DEFINE e == SetTr(w, d, t)
<1>0. w \in State
  BY Parts
<1>1. Frame(w, e, x) /\ Keep(w, e, Fields \ {"tr"})
  BY <1>0, SetTrFacts
<1>2. e \in State
  BY <1>1 DEF Frame
<1> HIDE DEF e
<1>3. CASE w' = e
  BY <1>1, <1>3, DoorRecordStep DEF Keep, Fields
<1>4. CASE w' = Answer(e, x, a)
  <2>1. Frame(e, w', x) /\ Keep(e, w', Fields \ {"up"})
    BY <1>2, <1>4, AnswerFacts
  <2>2. Frame(w, w', x)
    BY <1>1, <2>1, FrameTrans
  <2>3. Keep(w, w', {"c", "mu", "ping", "stop"}) /\ w'.door = w.door /\ w'.pool = w.pool
    BY <1>1, <2>1 DEF Keep, Fields
  <2> QED BY <2>2, <2>3, DoorRecordStep
<1> QED BY <1>3, <1>4 DEF e

LEMMA ConxAnswers ==
  ASSUME NEW d \in Conn
  PROVE  AnsConx(d) \in Ans /\ AnsConx(d).k # "idx" /\ AnsDeath \in Ans /\ AnsDeath.k # "idx"
<1>1. d \in Llid
  BY C2cAssumption DEF Conn, Llid
<1> QED BY <1>1, Answers

LEMMA DoorHelloPart ==
  ASSUME PeerInv, NEW d \in Conn, DoorHello(d) PROVE PeerInv'
<1> DEFINE t1 == [w.tr[d] EXCEPT !.msg = "none", !.idx = 0]
           r == [w.door["s"] EXCEPT !.dido = d]
           t2 == [t1 EXCEPT !.msg = "reply", !.ctx = @ \cup {"s"}]
           e == SetTr(w, d, t1)
<1>0. "s" \in Side /\ w \in State /\ w.tr[d] \in Traffic /\ w.door["s"] \in DoorRec
  BY Parts, Sides, Tables
<1>1. t1 \in Traffic
  BY <1>0, Answers DEF Traffic
<1>2. CASE w' = e
  <2> HIDE DEF t1
  <2> QED BY <1>0, <1>1, <1>2, ConxAnswers, TrafficStep
<1>3. CASE w' = Answer([e EXCEPT !.tr[d].msg = "reply", !.tr[d].ctx = @ \cup {"s"},
                                 !.door["s"].dido = d], "s", AnsConx(d))
  <2>1. t2 \in Traffic
    <3> HIDE DEF t1
    <3> QED BY <1>0, <1>1 DEF Traffic
  <2>2. r \in DoorRec /\ r.idx = w.door["s"].idx
    <3>1. d \in Llid
      BY C2cAssumption DEF Conn, Llid
    <3> QED BY <1>0, <3>1 DEF DoorRec
  <2> DEFINE f == [e EXCEPT !.tr[d].msg = "reply", !.tr[d].ctx = @ \cup {"s"}]
             g == [f EXCEPT !.door["s"].dido = d]
  <2>3. e \in State /\ e.tr[d] = t1 /\ Frame(w, e, "s") /\ Keep(w, e, Fields \ {"tr"})
    <3> HIDE DEF t1
    <3> QED BY <1>0, <1>1, SetTrFacts DEF Frame
  <2>4. f = SetTr(e, d, t2)
    <3> HIDE DEF e, t1
    <3>1. f = [e EXCEPT !.tr[d] = [e.tr[d] EXCEPT !.msg = "reply", !.ctx = @ \cup {"s"}]]
      BY <2>3 DEF State
    <3> QED BY <2>3, <3>1 DEF SetTr
  <2>5. w' = Answer(g, "s", AnsConx(d))
    BY <1>3
  <2> HIDE DEF e, f, t2, t1
  <2>6. Frame(e, f, "s") /\ Keep(e, f, Fields \ {"tr"})
    BY <1>0, <2>1, <2>3, <2>4, SetTrFacts
  <2>7. f \in State /\ f.door = w.door
    BY <2>3, <2>6 DEF Frame, Keep, Fields
  <2>8. g = SetDoor(f, "s", r)
    BY <2>7 DEF SetDoor
  <2> HIDE DEF g, r
  <2>9. Frame(f, g, "s") /\ Keep(f, g, Fields \ {"door"}) /\ g.door["s"] = r
    BY <1>0, <2>2, <2>7, <2>8, SetDoorFacts
  <2>10. g \in State
    BY <2>9 DEF Frame
  <2>11. Frame(g, w', "s") /\ Keep(g, w', Fields \ {"up"})
    BY <1>0, <2>5, <2>10, ConxAnswers, AnswerFacts
  <2>12. Frame(w, w', "s")
    <3>1. Frame(w, f, "s")
      BY <1>0, <2>3, <2>6, FrameTrans
    <3>2. Frame(w, g, "s")
      BY <1>0, <2>9, <3>1, FrameTrans
    <3> QED BY <1>0, <2>11, <3>2, FrameTrans
  <2>13. /\ Keep(w, w', {"c", "mu", "ping", "stop"}) /\ w'.pool = w.pool
         /\ w'.door["s"].idx = w.door["s"].idx
    BY <2>2, <2>3, <2>6, <2>9, <2>11 DEF Keep, Fields
  <2> QED BY <1>0, <2>12, <2>13, DoorRecordStep
<1>4. e = [w EXCEPT !.tr[d].msg = "none", !.tr[d].idx = 0]
  BY <1>0 DEF SetTr, State
<1> HIDE DEF e
<1> QED BY <1>2, <1>3, <1>4 DEF DoorHello

LEMMA DoorReplyPart ==
  ASSUME PeerInv, NEW d \in Conn, DoorReply(d) PROVE PeerInv'
<1> DEFINE t1 == [w.tr[d] EXCEPT !.msg = "none"]
           e == SetTr(w, d, t1)
<1>0. "m" \in Side /\ w \in State /\ w.tr[d] \in Traffic
  BY Parts, Sides, Tables
<1>1. t1 \in Traffic
  BY <1>0 DEF Traffic
<1>2. w' = e \/ w' = Answer(e, "m", AnsConx(d))
  BY DEF DoorReply, Maybe, SetTr
<1> HIDE DEF t1
<1> QED BY <1>0, <1>1, <1>2, ConxAnswers, TrafficStep

LEMMA TrafficErrPart ==
  ASSUME PeerInv, NEW x \in Side, NEW d \in Conn, TrafficErr(x, d) PROVE PeerInv'
<1> DEFINE e1 == [w.tr[d].end EXCEPT ![x] = "none"]
           t1 == [w.tr[d] EXCEPT !.end = e1]
           t2 == [t1 EXCEPT !.msg = "none", !.idx = 0]
           e == [w EXCEPT !.tr[d].end[x] = "none", !.tr[d].msg = "none", !.tr[d].idx = 0]
<1>0. w \in State /\ w.tr \in [Conn -> Traffic] /\ w.tr[d] \in Traffic
  BY Parts, Tables
<1>1. e1 \in [Side -> {"none", "door", "proc"}]
  BY <1>0 DEF Traffic
<1>2. t1 \in Traffic
  <2> HIDE DEF e1
  <2> QED BY <1>0, <1>1 DEF Traffic
<1>3. t2 \in Traffic
  <2> HIDE DEF t1
  <2> QED BY <1>2, Answers DEF Traffic
<1>4. e = SetTr(w, d, t2)
  <2> DEFINE f == [w EXCEPT !.tr[d].end[x] = "none"]
  <2>1. f = SetTr(w, d, t1)
    BY DEF SetTr
  <2>2. f.tr[d] = t1 /\ f \in State
    <3> HIDE DEF t1, f
    <3> QED BY <1>0, <1>2, <2>1, SetTrFacts DEF Frame
  <2>3. e = [f EXCEPT !.tr[d] = [f.tr[d] EXCEPT !.msg = "none", !.idx = 0]]
    BY <1>0 DEF State
  <2>4. e = [f EXCEPT !.tr[d] = t2]
    <3> HIDE DEF f, t1, e
    <3> QED BY <2>2, <2>3
  <2>5. [f EXCEPT !.tr[d] = t2] = [w EXCEPT !.tr[d] = t2]
    <3> HIDE DEF t1, t2
    <3>1. f = [w EXCEPT !.tr = [w.tr EXCEPT ![d] = t1]]
      BY <2>1 DEF SetTr
    <3> HIDE DEF f
    <3> QED BY <3>1, <1>0 DEF State
  <2> HIDE DEF e, f, t2
  <2> QED BY <2>4, <2>5 DEF SetTr
<1>5. w' = e \/ w' = Answer(e, x, AnsDeath) \/ w' = DoorAbort(e, x)
  BY DEF TrafficErr, Maybe
<1> HIDE DEF t2, e
<1>6. CASE w' = e \/ w' = Answer(e, x, AnsDeath)
  BY <1>3, <1>4, <1>6, ConxAnswers, TrafficStep
<1>7. CASE w' = DoorAbort(e, x)
  <2>1. Frame(w, e, x) /\ Keep(w, e, Fields \ {"tr"}) /\ e \in State
    BY <1>0, <1>3, <1>4, SetTrFacts DEF Frame
  <2>2. /\ Frame(e, w', x) /\ w'.door[x].idx = 0
        /\ Keep(e, w', {"c", "mu", "ping", "stop"})
        /\ PoolOk(e.door[x].idx, e.pool[x]) => PoolOk(0, w'.pool[x])
    BY <1>7, <2>1, DoorAbortFacts
  <2>3. Frame(w, w', x)
    BY <2>1, <2>2, FrameTrans
  <2>4. Keep(w, w', {"c", "mu", "ping", "stop"}) /\ e.door = w.door /\ e.pool = w.pool
    BY <2>1, <2>2 DEF Keep, Fields
  <2> QED BY <2>2, <2>3, <2>4, DoorRecordStep
<1> QED BY <1>5, <1>6, <1>7

LEMMA Muc2cEndsPart ==
  ASSUME PeerInv, NEW x \in Side, NEW d \in Conn, Muc2cEnds(x, d) PROVE PeerInv'
<1> DEFINE e1 == [w.tr[d].end EXCEPT ![x] = "none"]
           t1 == [w.tr[d] EXCEPT !.end = e1]
<1>0. w \in State /\ w.tr[d] \in Traffic
  BY Parts, Tables
<1>1. e1 \in [Side -> {"none", "door", "proc"}]
  BY <1>0 DEF Traffic
<1>2. t1 \in Traffic
  <2> HIDE DEF e1
  <2> QED BY <1>0, <1>1 DEF Traffic
<1>3. w' = Answer(SetTr(w, d, t1), x, AnsDeath)
  BY DEF Muc2cEnds, SetTr
<1> HIDE DEF t1
<1> QED BY <1>2, <1>3, ConxAnswers, TrafficStep

LEMMA ResetPart ==
  ASSUME PeerInv, NEW n \in Conn, Reset(n) PROVE PeerInv'
<1> DEFINE a == [w EXCEPT !.nupset = @ + 1]
           qq == [x \in Side |-> <<>>]
           k == w.conn[n]
           k2 == [k EXCEPT !.cut = TRUE, !.q = qq]
<1>0. w \in State /\ "m" \in Side /\ "s" \in Side /\ k \in Chan
  BY Parts, Sides, Tables
<1>1. a \in State /\ Keep(w, a, Fields \ {"nupset"})
  <2>1. w.nupset + 1 \in Nat
    BY <1>0, Tables
  <2> QED BY <1>0, <2>1, Counted
<1>2. w' = [a EXCEPT !.conn[n].cut = TRUE, !.conn[n].q = qq]
  BY DEF Reset
<1> HIDE DEF a
<1>3. Frame(w, a, "m") /\ Local(a, "m")
  BY <1>0, <1>1, SilentStep DEF Keep, Silent
<1>4. qq \in Queues /\ qq["m"] = <<>> /\ qq["s"] = <<>>
  <2>1. \A x \in Side : <<>> \in Seq(To(x)) /\ <<>> \in Seq(ToMaster \cup ToSlave)
    OBVIOUS
  <2> QED BY <1>0, <2>1 DEF Queues
<1> HIDE DEF qq
<1>5. k2 \in Chan /\ k2.open = k.open /\ k2.cut /\ k2.q = qq
  BY <1>0, <1>4 DEF Chan
<1>6. a.conn = w.conn
  BY <1>1 DEF Keep, Fields
<1>7. w' = SetConn(a, n, k2)
  BY <1>1, <1>2, <1>6 DEF SetConn, State
<1> HIDE DEF k2
<1>8. Quieter(a.conn[n], k2)
  BY <1>4, <1>5, <1>6, EmptyQueue DEF Quieter, Works, Idle
<1>9. Frame(a, w', "m") /\ Keep(a, w', Fields \ {"conn"})
  BY <1>0, <1>1, <1>5, <1>7, <1>8, ConnFrame, SetConnFacts
<1>10. Local(w', "m")
  <2>1. Keep(a, w', {"c", "mu", "ping", "stop", "door", "pool"})
    BY <1>9 DEF Keep, Fields
  <2> QED BY <1>3, <2>1, SameLocal DEF Local
<1>11. Frame(w, w', "m")
  BY <1>0, <1>3, <1>9, FrameTrans
<1> QED BY <1>0, <1>10, <1>11, Stays

\* The record of the doors goes, the endpoint is born.
LEMMA Born ==
  ASSUME PeerInv, NEW x \in Side, w.mu[x].st = "ready",
         NEW r \in Endp, r.st = "born", r.dying = w.mu[x].dying,
         NEW st, Frame(SetMu(w, x, r), st, x), Keep(SetMu(w, x, r), st, {"c", "mu", "ping", "stop"}),
         st.door[x].idx \in {0, w.door[x].idx},
         PoolOk(w.door[x].idx, w.pool[x]) => PoolOk(st.door[x].idx, st.pool[x]),
         w' = st
  PROVE  PeerInv'
<1> DEFINE a == SetMu(w, x, r)
<1>0. w \in State /\ w.mu[x] \in Endp
  BY Parts, Tables
<1>1. Frame(w, a, x) /\ Keep(w, a, Fields \ {"mu"}) /\ a.mu[x] = r
  BY <1>0, EndpFrame
<1>2. Frame(a, w', x) /\ Keep(a, w', {"c", "mu", "ping", "stop"})
  OBVIOUS
<1> HIDE DEF a
<1>3. w'.c = w.c /\ w'.mu[x] = r /\ w'.ping = w.ping /\ w'.stop = w.stop
  BY <1>1, <1>2 DEF Keep, Fields
<1>5. Local(w', x)
  BY <1>3, Parts DEF Local, Weak, Watch, Stopped, Exists
<1>6. Frame(w, w', x)
  BY <1>1, <1>2, FrameTrans
<1> QED BY <1>5, <1>6, Stays

LEMMA FdReadyDoorsClonePart ==
  ASSUME PeerInv, NEW x \in Side, FdReadyDoorsClone(x) PROVE PeerInv'
<1> DEFINE r == [w.mu[x] EXCEPT !.st = "born"]
           e == SetMu(w, x, r)
           d == w.mu[x].fd
           f == [e EXCEPT !.tr[d].end[x] = "proc"]
<1>0. w \in State /\ w.mu[x] \in Endp /\ w.mu[x].st = "ready"
  BY Parts, Tables DEF FdReadyDoorsClone
<1>1. r \in Endp /\ r.st = "born" /\ r.dying = w.mu[x].dying
  BY <1>0 DEF Endp
<1>2. d \in Conn
  <2>1. d # 0 /\ d \in Llid
    BY <1>0, Parts DEF Weak, Endp
  <2> QED BY <2>1, C2cAssumption DEF Llid, Conn
<1>3. e \in State /\ Keep(w, e, Fields \ {"mu"})
  <2> HIDE DEF r
  <2> QED BY <1>0, <1>1, EndpFrame DEF Frame
<1>4. w' = e \/ w' = DoorFree(f, x) \/ w' = Answer(DoorFree(e, x), x, AnsDeath)
  BY DEF FdReadyDoorsClone, SetMu
<1>5. f = SetTr(e, d, [e.tr[d] EXCEPT !.end = [e.tr[d].end EXCEPT ![x] = "proc"]])
  <2> HIDE DEF e, d
  <2> QED BY DEF SetTr
<1> DEFINE e1 == [e.tr[d].end EXCEPT ![x] = "proc"]
           t == [e.tr[d] EXCEPT !.end = e1]
<1> HIDE DEF e, f, d
<1>6. e.door = w.door /\ e.pool = w.pool
  BY <1>3 DEF Keep, Fields
<1>7. CASE w' = e
  <2>1. Frame(e, w', x) /\ Keep(e, w', {"c", "mu", "ping", "stop"})
    BY <1>3, <1>7, FrameSelf DEF Keep
  <2> HIDE DEF r
  <2> QED BY <1>0, <1>1, <1>6, <1>7, <2>1, Born DEF r, e
<1>8. CASE w' = DoorFree(f, x)
  <2>1. e.tr[d] \in Traffic
    BY <1>2, <1>3, Tables
  <2>2. e1 \in [Side -> {"none", "door", "proc"}]
    BY <2>1 DEF Traffic
  <2>3. t \in Traffic
    <3> HIDE DEF e1
    <3> QED BY <2>1, <2>2 DEF Traffic
  <2>4. Frame(e, f, x) /\ Keep(e, f, Fields \ {"tr"}) /\ f \in State
    <3>1. f = SetTr(e, d, t)
      BY <1>5
    <3> HIDE DEF t
    <3> QED BY <3>1, <1>2, <1>3, <2>3, SetTrFacts DEF Frame
  <2>5. Freed(f, w', x)
    BY <1>8, <2>4, DoorFreeFacts
  <2>6. Frame(e, w', x)
    BY <2>4, <2>5, FrameTrans DEF Freed
  <2>7. /\ Keep(e, w', {"c", "mu", "ping", "stop"}) /\ w'.door[x].idx = 0
        /\ PoolOk(w.door[x].idx, w.pool[x]) => PoolOk(0, w'.pool[x])
    BY <1>6, <2>4, <2>5 DEF Freed, Keep, Fields
  <2> QED BY <1>0, <1>1, <2>6, <2>7, Born DEF e
<1>9. CASE w' = Answer(DoorFree(e, x), x, AnsDeath)
  <2> DEFINE g == DoorFree(e, x)
  <2>1. Freed(e, g, x)
    BY <1>3, DoorFreeFacts
  <2>2. w' = Answer(g, x, AnsDeath)
    BY <1>9
  <2> HIDE DEF g
  <2>3. Frame(g, w', x) /\ Keep(g, w', Fields \ {"up"})
    BY <2>1, <2>2, Answers, AnswerFacts DEF Freed
  <2>4. Frame(e, w', x)
    BY <2>1, <2>3, FrameTrans DEF Freed
  <2>5. /\ Keep(e, w', {"c", "mu", "ping", "stop"}) /\ w'.door[x].idx = 0
        /\ PoolOk(w.door[x].idx, w.pool[x]) => PoolOk(0, w'.pool[x])
    BY <1>6, <2>1, <2>3 DEF Freed, Keep, Fields
  <2> QED BY <1>0, <1>1, <2>4, <2>5, Born DEF e
<1> QED BY <1>4, <1>7, <1>8, <1>9

LEMMA PeerErrPart ==
  ASSUME PeerInv, NEW x \in Side, NEW n \in Conn, PeerErr(x, n) PROVE PeerInv'
<1> DEFINE e == Close(w, x, n)
           f == MuendpFree(e, "m")
<1>0. w \in State /\ "m" \in Side
  BY Parts, Sides
<1>1. w' = e \/ (x = "m" /\ w' = [f EXCEPT !.restart = @ + 1])
  BY DEF PeerErr
<1>2. Frame(w, e, x) /\ Keep(w, e, Fields \ {"conn"})
  BY <1>0, CloseFacts
<1> HIDE DEF e
<1>3. Keep(w, e, {"c", "mu", "ping", "stop", "door", "pool"}) /\ e \in State
  BY <1>2 DEF Keep, Fields, Frame
<1>4. Weak(e, x) /\ Watch(e, x) /\ Stopped(e, x)
  BY <1>3, Parts, SameLocal
<1>5. CASE w' = e
  BY <1>2, <1>4, <1>5, Stays DEF Local
<1>6. CASE x = "m" /\ w' = [f EXCEPT !.restart = @ + 1]
  <2>1. Frame(e, f, x) /\ Local(f, x)
    BY <1>3, <1>4, <1>6, MuendpFreeFacts
  <2>2. f \in State
    BY <2>1 DEF Frame
  <2> HIDE DEF f
  <2>3. w' \in State /\ Keep(f, w', Fields \ {"restart"})
    <3>1. f.restart + 1 \in Nat
      BY <2>2, Tables
    <3> QED BY <1>6, <2>2, <3>1, Counted
  <2>4. Frame(f, w', x) /\ Local(w', x)
    <3>1. Keep(f, w', {"c", "mu", "ping", "stop", "door", "pool"}) /\ Keep(f, w', Fields \ Silent)
      BY <2>3 DEF Keep, Fields, Silent
    <3> QED BY <2>1, <2>2, <2>3, <3>1, SameLocal, SilentFrame DEF Local
  <2>5. Frame(w, w', x)
    <3>1. Frame(w, f, x)
      BY <1>2, <2>1, FrameTrans
    <3> QED BY <2>4, <3>1, FrameTrans
  <2> QED BY <2>4, <2>5, Stays
<1> QED BY <1>1, <1>5, <1>6

\* What is left of a lost link.
LEMMA LostLink ==
  ASSUME NEW c \in Link, NEW x
  PROVE  /\ Lost(c, x) \in Link /\ Lost(c, x).st = "recon" /\ Lost(c, x).llid = 0
         /\ Lost(c, x).con = c.con
<1> DEFINE c1 == [c EXCEPT !.st = "recon"]
           c2 == [c1 EXCEPT !.llid = 0]
           c3 == [c2 EXCEPT !.count = 0]
           c4 == [c3 EXCEPT !.master_idx = 0]
           c5 == [c4 EXCEPT !.slave_idx = 0]
           v == IF x = "m" THEN "try" ELSE c.timer
           c6 == [c5 EXCEPT !.timer = v]
<1>0. /\ "recon" \in States /\ 0 \in Llid /\ 0 \in 0 .. MAX_PING + 1 /\ 0 \in Idx
      /\ v \in {"none", "try", "idx", "create", "conx"}
  BY C2cAssumption DEF States, Llid, Idx, Link
<1>1. c1 \in Link /\ c1.st = "recon" /\ c1.con = c.con /\ c1.timer = c.timer
  BY <1>0 DEF Link
<1> HIDE DEF c1
<1>2. c2 \in Link /\ c2.st = "recon" /\ c2.con = c.con /\ c2.timer = c.timer /\ c2.llid = 0
  BY <1>0, <1>1 DEF Link
<1> HIDE DEF c2
<1>3. c3 \in Link /\ c3.st = "recon" /\ c3.con = c.con /\ c3.timer = c.timer /\ c3.llid = 0
  BY <1>0, <1>2 DEF Link
<1> HIDE DEF c3
<1>4. c4 \in Link /\ c4.st = "recon" /\ c4.con = c.con /\ c4.timer = c.timer /\ c4.llid = 0
  BY <1>0, <1>3 DEF Link
<1> HIDE DEF c4
<1>5. c5 \in Link /\ c5.st = "recon" /\ c5.con = c.con /\ c5.timer = c.timer /\ c5.llid = 0
  BY <1>0, <1>4 DEF Link
<1>6. Lost(c, x) = [c5 EXCEPT !.timer = IF x = "m" THEN "try" ELSE @]
  BY DEF Lost, c1, c2, c3, c4
<1> HIDE DEF c5
<1>7. Lost(c, x) = c6
  BY <1>5, <1>6
<1> HIDE DEF v
<1>8. c6 \in Link /\ c6.st = "recon" /\ c6.con = c.con /\ c6.llid = 0
  BY <1>0, <1>5 DEF Link
<1> QED BY <1>7, <1>8

LEMMA PingTimerPart ==
  ASSUME PeerInv, NEW x \in Side, PingTimer(x) PROVE PeerInv'
<1> DEFINE c == w.c[x]
           e == SetPing(w, x, w.ping[x] - 1)
<1>0. /\ w \in State /\ c \in Link /\ c.count \in 0 .. MAX_PING + 1
      /\ c.llid \in Llid /\ Weak(w, x) /\ Watch(w, x) /\ Stopped(w, x)
      /\ InRole(x, c) /\ MAX_PING \in Nat /\ Peer(x) \in Side
  BY Parts, LinkType, RoleKept, Sides, C2cAssumption DEF Link
<1>1. w.ping[x] - 1 \in Nat
  BY <1>0, Tables DEF PingTimer
<1>2. Frame(w, e, x) /\ Keep(w, e, Fields \ {"ping"}) /\ e \in State
  BY <1>0, <1>1, SetPingFacts DEF Frame
<1>3. CASE ~Exists(w, x)
  <2>1. w' = e
    BY <1>3 DEF PingTimer, SetPing
  <2> HIDE DEF e
  <2>2. e.c = w.c /\ e.mu = w.mu /\ e.stop = w.stop /\ e.door = w.door /\ e.pool = w.pool
    BY <1>2 DEF Keep, Fields
  <2>3. w.c[x].llid = 0
    BY <1>0, <1>3, NoRecords DEF Weak
  <2>4. Local(w', x)
    BY <1>0, <2>1, <2>2, <2>3 DEF Local, Weak, Watch, Stopped, Exists
  <2> QED BY <1>2, <2>1, <2>4, Stays
<1>4. CASE Exists(w, x) /\ c.count < MAX_PING
  <2> DEFINE r == [c EXCEPT !.count = @ + 1]
             a == SetC(w, x, r)
  <2>1. w' = Send(a, x, Ping)
    BY <1>4 DEF PingTimer, SetC
  <2>2. /\ r \in Link /\ r.st = c.st /\ r.llid = c.llid /\ r.timer = c.timer /\ r.con = c.con
        /\ r.master_idx = c.master_idx /\ r.slave_idx = c.slave_idx
    <3>1. c.count + 1 \in 0 .. MAX_PING + 1
      BY <1>0, <1>4
    <3> QED BY <1>0, <3>1 DEF Link
  <2> HIDE DEF r
  <2>3. InRole(x, r) /\ Calm(w.c[x], r)
    BY <1>0, <2>2 DEF InRole, Calm
  <2>4. Frame(w, a, x) /\ Keep(w, a, Fields \ {"c"}) /\ a.c[x] = r /\ a \in State
    BY <1>0, <2>2, <2>3, SetCFacts DEF Frame
  <2> HIDE DEF a
  <2>5. Frame(a, w', x) /\ Keep(a, w', Fields \ {"conn"})
    BY <1>0, <2>1, <2>4, PingIsPlain, SendFacts
  <2>6. Frame(w, w', x)
    BY <2>4, <2>5, FrameTrans
  <2>7. /\ w'.c[x] = r /\ w'.mu = w.mu /\ w'.stop = w.stop /\ w'.door = w.door
        /\ w'.pool = w.pool /\ w'.ping = w.ping
    BY <2>4, <2>5 DEF Keep, Fields
  <2>8. Local(w', x)
    BY <1>0, <1>4, <2>2, <2>7 DEF Local, Weak, Watch, Stopped, Exists
  <2> QED BY <2>6, <2>8, Stays
<1>5. CASE Exists(w, x) /\ ~(c.count < MAX_PING) /\ c.llid = 0
  <2> DEFINE r == [c EXCEPT !.st = "recon", !.count = MAX_PING + 1]
  <2>1. /\ r \in Link /\ r.st = "recon" /\ r.llid = 0 /\ r.timer = c.timer /\ r.con = c.con
    <3> DEFINE r1 == [c EXCEPT !.st = "recon"]
    <3>1. "recon" \in States /\ MAX_PING + 1 \in 0 .. MAX_PING + 1
      BY <1>0 DEF States
    <3> DEFINE N == MAX_PING + 1
    <3>2. r1 \in Link /\ r1.st = "recon" /\ r1.llid = 0 /\ r1.timer = c.timer /\ r1.con = c.con
      BY <1>0, <1>5, <3>1 DEF Link
    <3> HIDE DEF r1
    <3>3. r = [r1 EXCEPT !.count = MAX_PING + 1]
      BY DEF r1
    <3> HIDE DEF r
    <3> QED BY <3>1, <3>2, <3>3 DEF Link
  <2>2. e.c = w.c /\ e.mu = w.mu /\ e.stop = w.stop /\ e.door = w.door /\ e.pool = w.pool
    BY <1>2 DEF Keep, Fields
  <2>3. w' = SetC(e, x, r)
    <3>1. w' = [e EXCEPT !.c[x].st = "recon", !.c[x].count = MAX_PING + 1]
      BY <1>5 DEF PingTimer, SetPing
    <3> HIDE DEF e
    <3> QED BY <1>2, <2>2, <3>1, Tables DEF SetC, State, Links
  <2> HIDE DEF r, e
  <2>4. InRole(x, r) /\ Calm(e.c[x], r) /\ (r.con => e.c[x].con)
    BY <2>1, <2>2 DEF InRole, Calm
  <2>5. Frame(e, w', x) /\ Keep(e, w', Fields \ {"c"}) /\ w'.c[x] = r
    BY <1>2, <2>1, <2>3, <2>4, SetCFacts
  <2>6. Frame(w, w', x)
    BY <1>2, <2>5, FrameTrans
  <2>7. w'.mu = w.mu /\ w'.stop = w.stop /\ w'.door = w.door /\ w'.pool = w.pool
    BY <2>2, <2>5 DEF Keep, Fields
  <2>8. Local(w', x)
    BY <1>0, <1>5, <2>1, <2>5, <2>7 DEF Local, Weak, Watch, Stopped, Exists
  <2> QED BY <2>6, <2>8, Stays
<1>6. CASE Exists(w, x) /\ ~(c.count < MAX_PING) /\ c.llid # 0
  <2> DEFINE r == Lost(c, x)
             f == Close(e, x, c.llid)
  <2>1. /\ r \in Link /\ r.st = "recon" /\ r.llid = 0 /\ r.con = c.con
    BY <1>0, LostLink
  <2>2. w' = SetC(f, x, r)
    BY <1>6 DEF PingTimer, SetPing, SetC
  <2>3. c.llid \in Conn
    BY <1>0, <1>6, C2cAssumption DEF Llid, Conn
  <2> HIDE DEF e, r
  <2>4. Frame(e, f, x) /\ Keep(e, f, Fields \ {"conn"}) /\ f \in State
    BY <1>2, <2>3, CloseFacts DEF Frame
  <2> HIDE DEF f
  <2>5. f.c = w.c /\ f.mu = w.mu /\ f.stop = w.stop /\ f.door = w.door /\ f.pool = w.pool
    BY <1>2, <2>4 DEF Keep, Fields
  <2>6. InRole(x, r) /\ Calm(f.c[x], r) /\ (r.con => f.c[x].con)
    BY <2>1, <2>5 DEF InRole, Calm
  <2>7. Frame(f, w', x) /\ Keep(f, w', Fields \ {"c"}) /\ w'.c[x] = r
    BY <2>1, <2>2, <2>4, <2>6, SetCFacts
  <2>8. Frame(w, w', x)
    <3>1. Frame(w, f, x)
      BY <1>2, <2>4, FrameTrans
    <3> QED BY <2>7, <3>1, FrameTrans
  <2>9. w'.mu = w.mu /\ w'.stop = w.stop /\ w'.door = w.door /\ w'.pool = w.pool
    BY <2>5, <2>7 DEF Keep, Fields
  <2>10. Local(w', x)
    BY <1>0, <1>6, <2>1, <2>7, <2>9 DEF Local, Weak, Watch, Stopped, Exists
  <2> QED BY <2>8, <2>10, Stays
<1> QED BY <1>3, <1>4, <1>5, <1>6

LEMMA RecvConxPart ==
  ASSUME PeerInv, NEW x \in Side, w.up[x] # <<>>,
         NEW st, st = SetUp(w, x, Tail(w.up[x])),
         Head(w.up[x]).k = "conx", w' = RecvConx(st, x, Head(w.up[x]).fd)
  PROVE  PeerInv'
<1> DEFINE d == Head(w.up[x]).fd
           r == [st.c[x] EXCEPT !.timer = "none"]
           mu2 == IF st.mu[x].st = "wait"
                  THEN [st.mu[x] EXCEPT !.st = "ready", !.fd = d] ELSE st.mu[x]
           a == SetC(st, x, r)
           b == SetPing(a, x, a.ping[x] + 1)
           f == SetMu(b, x, mu2)
<1>0. w \in State /\ w.up[x] \in Seq(Ans) /\ Weak(w, x) /\ Watch(w, x) /\ Stopped(w, x)
  BY Parts, Tables
<1>1. /\ Tail(w.up[x]) \in Seq(Ans) /\ Head(w.up[x]) \in Ans
      /\ SameIdx(w.up[x], Tail(w.up[x]))
  BY <1>0, TailAnswer
<1>2. Frame(w, st, x) /\ Keep(w, st, Fields \ {"up"}) /\ st \in State
  BY <1>0, <1>1, SetUpFacts
<1>3. Weak(st, x) /\ Watch(st, x) /\ Stopped(st, x)
  <2>1. Keep(w, st, {"c", "mu", "ping", "stop", "door", "pool"})
    BY <1>2 DEF Keep, Fields
  <2> QED BY <1>0, <2>1, SameLocal
<1>4. CASE ~Exists(st, x) \/ d = 0
  <2>1. w' = st
    BY <1>4 DEF RecvConx
  <2> QED BY <1>2, <1>3, <2>1, Stays DEF Local
<1>5. CASE Exists(st, x) /\ d # 0
  <2>1. st.c[x] \in Link /\ st.mu[x] \in Endp /\ d \in Llid /\ InRole(x, st.c[x])
    BY <1>1, <1>2, LinkType, RoleKept, Tables DEF Ans
  <2>2. /\ r \in Link /\ r.st = st.c[x].st /\ r.timer = "none" /\ r.llid = st.c[x].llid
        /\ r.con = st.c[x].con /\ r.master_idx = st.c[x].master_idx
        /\ r.slave_idx = st.c[x].slave_idx
    BY <2>1 DEF Link
  <2>3. /\ mu2 \in Endp /\ (mu2.st = "none" <=> st.mu[x].st = "none")
        /\ (mu2.st = "ready" => mu2.fd # 0) /\ mu2.dying = st.mu[x].dying
    BY <1>3, <1>5, <2>1, Zenon DEF Endp, Weak
  <2> HIDE DEF d
  <2>4. w' = f
    <3> DEFINE a1 == [st EXCEPT !.c[x].timer = "none"]
               b1 == [a1 EXCEPT !.ping[x] = @ + 1]
               f1 == [b1 EXCEPT !.mu[x] = IF @.st = "wait"
                              THEN [@ EXCEPT !.st = "ready", !.fd = d] ELSE @]
    <3>1. w' = f1
      BY <1>5 DEF RecvConx, d
    <3>2. a1 = a
      BY DEF SetC
    <3>3. b1 = b
      <4> HIDE DEF a1, a
      <4> QED BY <3>2 DEF SetPing
    <3>4. b.mu = st.mu
      <4>1. Keep(st, a, Fields \ {"c"}) /\ a \in State
        <5> HIDE DEF r
        <5>1. InRole(x, r)
          BY <2>1, <2>2 DEF InRole
        <5> QED BY <1>2, <2>2, <5>1, SetCFacts
      <4> HIDE DEF a
      <4>2. a.ping[x] + 1 \in Nat
        BY <4>1, Tables
      <4>3. Keep(a, b, Fields \ {"ping"})
        BY <4>1, <4>2, SetPingFacts
      <4> QED BY <4>1, <4>3 DEF Keep, Fields
    <3>5. f1 = [b1 EXCEPT !.mu[x] = IF b1.mu[x].st = "wait"
                              THEN [b1.mu[x] EXCEPT !.st = "ready", !.fd = d] ELSE b1.mu[x]]
      OBVIOUS
    <3> HIDE DEF b1, b, a1, a, f1
    <3> QED BY <3>1, <3>3, <3>4, <3>5 DEF SetMu
  <2> HIDE DEF r, mu2
  <2>5. InRole(x, r) /\ Calm(st.c[x], r)
    BY <2>1, <2>2 DEF InRole, Calm
  <2>6. Frame(st, a, x) /\ Keep(st, a, Fields \ {"c"}) /\ a.c[x] = r /\ a \in State
    BY <1>2, <2>2, <2>5, SetCFacts
  <2> HIDE DEF a
  <2>7. a.ping[x] + 1 \in Nat /\ a.ping[x] + 1 > 0
    <3>1. a.ping[x] \in Nat
      BY <2>6, Tables
    <3> QED BY <3>1
  <2>8. Frame(a, b, x) /\ Keep(a, b, Fields \ {"ping"}) /\ b.ping[x] > 0 /\ b \in State
    BY <2>6, <2>7, SetPingFacts DEF Frame
  <2> HIDE DEF b
  <2>9. Frame(b, f, x) /\ Keep(b, f, Fields \ {"mu"}) /\ f.mu[x] = mu2
    BY <2>3, <2>8, EndpFrame
  <2> HIDE DEF f
  <2>10. /\ w'.c[x] = r /\ w'.ping[x] > 0 /\ w'.mu[x] = mu2 /\ w'.stop = st.stop
         /\ w'.door = st.door /\ w'.pool = st.pool
    BY <2>4, <2>6, <2>8, <2>9 DEF Keep, Fields
  <2>11. Local(w', x)
    BY <1>3, <1>5, <2>2, <2>3, <2>10, Zenon DEF Local, Weak, Watch, Stopped, Exists
  <2>12. Frame(w, w', x)
    <3>1. Frame(w, a, x)
      BY <1>2, <2>6, FrameTrans
    <3>2. Frame(w, b, x)
      BY <2>8, <3>1, FrameTrans
    <3> QED BY <2>4, <2>9, <3>2, FrameTrans
  <2> QED BY <2>11, <2>12, Stays
<1> QED BY <1>4, <1>5

-----------------------------------------------------------------------------
\* The part of the invariant that both ends share, in two.
Linked(st) ==
    LET m == st.c["m"]
        s == st.c["s"]
        k == st.conn[m.llid]
    IN  /\ m.llid <= st.nconn /\ s.llid <= st.nconn
        /\ \A n \in Conn : n > st.nconn => Idle(st.conn[n])
        /\ OneIdx(st.up["m"])
        /\ m.con => ~HasIdx(st.up["m"])
        /\ m.llid # 0 /\ HasIdx(st.up["m"]) => s.llid # m.llid /\ NoCreate(k.q["s"])
        /\ m.llid # 0 => Creates(k.q["s"], m.master_idx)
        /\ m.llid # 0 /\ m.llid = s.llid => m.master_idx = s.master_idx
Says(st) ==
    LET m == st.c["m"]
        s == st.c["s"]
        k == st.conn[m.llid]
    IN  m.llid # 0 /\ m.llid = s.llid /\ Works(k) /\ ~HasIdx(st.up["s"])
        => LastSays(k.q["m"], m.slave_idx, s.slave_idx)

LEMMA SharedParts ==
  ASSUME NEW st PROVE Shared(st) <=> Linked(st) /\ Says(st)
BY DEF Shared, Linked, Says

LEMMA FrameLinked ==
  ASSUME NEW st \in State, NEW new, NEW x \in Side, Frame(st, new, x), Linked(st)
  PROVE  Linked(new) /\ (Says(st) => Says(new))
<1>1. new \in State /\ Quiet(st, new)
  BY DEF Frame
<1>2. /\ \A y \in Side : st.c[y].llid \in Nat /\ new.c[y].llid \in Nat
      /\ \A y \in Side : st.c[y].llid # 0 => st.c[y].llid \in Conn
      /\ st.c["m"].master_idx \in Idx /\ st.c["m"].slave_idx \in Idx
      /\ st.c["s"].slave_idx \in Idx /\ st.nconn \in Nat
  BY <1>1, LinkType, Tables, Sides, C2cAssumption DEF Llid, Conn
<1>3. Linked(new)
  BY <1>1, <1>2, Sides DEF Linked, Quiet, Quieter, SameIdx, Calm
<1>4. Says(st) => Says(new)
  BY <1>1, <1>2, Sides DEF Says, Quiet, Quieter, SameIdx, Calm
<1> QED BY <1>3, <1>4

LEMMA FramePeer ==
  ASSUME NEW st, NEW new, NEW x \in Side, Frame(st, new, x), Local(st, Peer(x))
  PROVE  Local(new, Peer(x))
BY Sides DEF Frame, SameSide, Local, Weak, Watch, Stopped, Exists

\* A link that is freed has nothing to agree on.
LEMMA FreedGood ==
  ASSUME NEW st \in State, NEW x \in Side, Weak(st, x), Exists(st, x),
         Local(st, Peer(x)), Linked(st)
  PROVE  Good(C2cFree(st, x)) /\ C2cFree(st, x).c[x] = NoC2c
<1> DEFINE new == C2cFree(st, x)
<1>1. Frame(st, new, x) /\ Local(new, x) /\ new.c[x] = NoC2c
  BY FreeLocal, C2cFreeFacts
<1> HIDE DEF new
<1>2. Local(new, Peer(x)) /\ Linked(new) /\ new \in State
  BY <1>1, FramePeer, FrameLinked DEF Frame
<1>3. Says(new)
  BY <1>1, NoRecords DEF Says, Side
<1>4. \A y \in Side : Local(new, y)
  BY <1>1, <1>2, Sides
<1> QED BY <1>1, <1>2, <1>3, <1>4, SharedParts DEF Good, new

LEMMA RecvPingPart ==
  ASSUME PeerInv, NEW x \in Side, NEW st \in State, Frame(w, st, x),
         Keep(w, st, Fields \ {"conn"}), w' = RecvPing(st, x)
  PROVE  PeerInv'
<1>1. Weak(st, x) /\ Watch(st, x) /\ Stopped(st, x)
  <2>1. Keep(w, st, {"c", "mu", "ping", "stop", "door", "pool"})
    BY DEF Keep, Fields
  <2> QED BY <2>1, Parts, SameLocal
<1>2. CASE ~Exists(st, x)
  BY <1>1, <1>2, Stays DEF RecvPing, Local
<1>3. CASE Exists(st, x)
  <2> DEFINE r1 == [st.c[x] EXCEPT !.st = "peered"]
             r == [r1 EXCEPT !.count = 0]
  <2>0. st.c[x] \in Link /\ 0 \in 0 .. MAX_PING + 1 /\ "peered" \in States
    BY LinkType, C2cAssumption DEF States
  <2>1. /\ r1 \in Link /\ r1.st = "peered" /\ r1.llid = st.c[x].llid
        /\ r1.timer = st.c[x].timer /\ r1.con = st.c[x].con
        /\ r1.master_idx = st.c[x].master_idx /\ r1.slave_idx = st.c[x].slave_idx
    BY <2>0 DEF Link
  <2>2. /\ r \in Link /\ r.st = "peered" /\ r.llid = st.c[x].llid
        /\ r.timer = st.c[x].timer /\ r.con = st.c[x].con
        /\ r.master_idx = st.c[x].master_idx /\ r.slave_idx = st.c[x].slave_idx
    <3> HIDE DEF r1
    <3> QED BY <2>0, <2>1 DEF Link
  <2>3. w' = SetC(st, x, r)
    <3>1. w' = [st EXCEPT !.c[x].st = "peered", !.c[x].count = 0]
      BY <1>3 DEF RecvPing
    <3> QED BY <3>1, Tables DEF SetC, State, Links
  <2> HIDE DEF r
  <2>4. InRole(x, r) /\ Calm(st.c[x], r) /\ (r.con => st.c[x].con)
    BY <2>2 DEF InRole, Calm
  <2>5. Frame(st, w', x) /\ Keep(st, w', Fields \ {"c"}) /\ w'.c[x] = r
    <3>1. /\ Frame(st, SetC(st, x, r), x) /\ Keep(st, SetC(st, x, r), Fields \ {"c"})
          /\ SetC(st, x, r).c[x] = r
      BY <2>2, <2>4, SetCFacts
    <3> QED BY <2>3, <3>1
  <2>6. /\ w'.mu = st.mu /\ w'.stop = st.stop /\ w'.door = st.door /\ w'.pool = st.pool
        /\ w'.ping = st.ping
    BY <2>5 DEF Keep, Fields
  <2>7. Local(w', x)
    BY <1>1, <1>3, <2>2, <2>5, <2>6 DEF Local, Weak, Watch, Stopped, Exists
  <2>8. Frame(w, w', x)
    BY <2>5, FrameTrans
  <2> QED BY <2>7, <2>8, Stays
<1> QED BY <1>2, <1>3

LEMMA RecvDeletePart ==
  ASSUME PeerInv, NEW x \in Side, NEW st \in State, Frame(w, st, x),
         Keep(w, st, Fields \ {"conn"}), w' = C2cFree(st, x)
  PROVE  PeerInv'
<1>1. Weak(st, x) /\ Watch(st, x) /\ Stopped(st, x)
  <2>1. Keep(w, st, {"c", "mu", "ping", "stop", "door", "pool"})
    BY DEF Keep, Fields
  <2> QED BY <2>1, Parts, SameLocal
<1>2. Frame(st, w', x) /\ Local(w', x)
  BY <1>1, FreeLocal
<1>3. Frame(w, w', x)
  BY <1>2, FrameTrans
<1> QED BY <1>2, <1>3, Stays

LEMMA RecvDeathPart ==
  ASSUME PeerInv, NEW x \in Side, w.up[x] # <<>>, Head(w.up[x]).k # "idx",
         w' = MuendpFree(SetUp(w, x, Tail(w.up[x])), x)
  PROVE  PeerInv'
<1> DEFINE st == SetUp(w, x, Tail(w.up[x]))
<1>0. w \in State /\ w.up[x] \in Seq(Ans)
  BY Parts, Tables
<1>1. Tail(w.up[x]) \in Seq(Ans) /\ SameIdx(w.up[x], Tail(w.up[x]))
  BY <1>0, TailAnswer
<1>2. Frame(w, st, x) /\ Keep(w, st, Fields \ {"up"}) /\ st \in State
  BY <1>0, <1>1, SetUpFacts
<1> HIDE DEF st
<1>3. Weak(st, x)
  <2>1. Keep(w, st, {"c", "mu", "ping", "stop", "door", "pool"})
    BY <1>2 DEF Keep, Fields
  <2> QED BY <2>1, Parts, SameLocal
<1>4. Frame(st, w', x) /\ Local(w', x)
  BY <1>2, <1>3, MuendpFreeFacts DEF st
<1>5. Frame(w, w', x)
  BY <1>2, <1>4, FrameTrans
<1> QED BY <1>4, <1>5, Stays

\* The doors are asked for an index; what the rest of the state is.
LEMMA AskedFacts ==
  ASSUME NEW st \in State, NEW x \in Side, NEW new, Asked(st, new, x)
  PROVE  /\ new \in State /\ new.c = st.c /\ new.mu = st.mu /\ new.ping = st.ping
         /\ new.stop = st.stop /\ new.conn = st.conn /\ new.nconn = st.nconn
         /\ SameSide(st, new, Peer(x)) /\ HasIdx(new.up[x])
         /\ ~HasIdx(st.up[x]) => OneIdx(new.up[x])
         /\ new.up[Peer(x)] = st.up[Peer(x)]
         /\ PoolOk(st.door[x].idx, st.pool[x]) => PoolOk(new.door[x].idx, new.pool[x])
<1>1. /\ new.c = st.c /\ new.mu = st.mu /\ new.ping = st.ping
      /\ new.stop = st.stop /\ new.conn = st.conn /\ new.nconn = st.nconn
  BY DEF Asked, Keep, Fields
<1>2. PICK i \in Idx : new.up[x] = Append(st.up[x], AnsIdx(i))
  BY DEF Asked
<1>3. st.up[x] \in Seq(Ans) /\ AnsIdx(i) \in Ans /\ AnsIdx(i).k = "idx"
  BY Tables, Answers
<1>4. HasIdx(new.up[x]) /\ (~HasIdx(st.up[x]) => OneIdx(new.up[x]))
  BY <1>2, <1>3, AppendAnswer
<1> QED BY <1>1, <1>4 DEF Asked

LEMMA SetCTwice ==
  ASSUME NEW st \in State, NEW x \in Side, NEW r, NEW q
  PROVE  SetC(SetC(st, x, r), x, q) = SetC(st, x, q)
BY Tables, Zenon DEF SetC, State, Links

LEMMA PeerConnectPart ==
  ASSUME PeerInv, PeerConnect PROVE PeerInv'
<1> DEFINE n == w.nconn + 1
           r0 == [w.c["m"] EXCEPT !.con = FALSE]
           e == SetC(w, "m", r0)
           a == [e EXCEPT !.nconn = n]
           k == [a.conn[n] EXCEPT !.open = Side]
           b == SetConn(a, n, k)
           r1 == [b.c["m"] EXCEPT !.llid = n]
           b1 == SetC(b, "m", r1)
           r2 == [b1.c["m"] EXCEPT !.st = "midx"]
           b2 == SetC(b1, "m", r2)
           r3 == [b2.c["m"] EXCEPT !.timer = "idx"]
           f == SetC(b2, "m", r3)
<1>0. /\ w \in State /\ "m" \in Side /\ "s" \in Side /\ Peer("m") = "s" /\ Shared(w)
      /\ Local(w, "m") /\ Local(w, "s") /\ w.c["m"] \in Link /\ InRole("m", w.c["m"])
      /\ w.c["m"].con /\ w.nconn \in Nat /\ n \in Conn /\ n \in Llid
  <2>1. /\ w \in State /\ "m" \in Side /\ "s" \in Side /\ Peer("m") = "s" /\ Shared(w)
        /\ Local(w, "m") /\ Local(w, "s") /\ w.c["m"] \in Link /\ InRole("m", w.c["m"])
        /\ w.c["m"].con
    BY Parts, Sides, LinkType, RoleKept DEF PeerConnect
  <2>2. w.nconn \in Nat /\ n \in Conn /\ n \in Llid
    BY <2>1, Tables, C2cAssumption DEF PeerConnect, Llid, Conn
  <2> QED BY <2>1, <2>2
<1>1. w' = e \/ w' = ReqIdx(f, "m")
  <2> HIDE DEF n
  <2> QED BY DEF PeerConnect, n, SetC, SetConn
<1> HIDE DEF n
<1>2. /\ r0 \in Link /\ r0.st = w.c["m"].st /\ r0.llid = w.c["m"].llid
      /\ r0.timer = w.c["m"].timer /\ ~r0.con
      /\ r0.master_idx = w.c["m"].master_idx /\ r0.slave_idx = w.c["m"].slave_idx
  BY <1>0 DEF Link
<1> HIDE DEF r0
<1>3. InRole("m", r0) /\ Calm(w.c["m"], r0)
  BY <1>0, <1>2 DEF InRole, Calm
<1>4. /\ Frame(w, e, "m") /\ Keep(w, e, Fields \ {"c"}) /\ e.c["m"] = r0 /\ e \in State
      /\ e.c["s"] = w.c["s"]
  <2>1. /\ Frame(w, e, "m") /\ Keep(w, e, Fields \ {"c"}) /\ e.c["m"] = r0 /\ e \in State
        /\ e.c[Peer("m")] = w.c[Peer("m")]
    BY <1>0, <1>2, <1>3, SetCFacts
  <2> QED BY <1>0, <2>1
<1> HIDE DEF e
<1>5. Exists(w, "m")
  BY <1>0, NoRecords DEF Local, Weak
<1>6. CASE w' = e
  <2>1. Local(e, "m")
    BY <1>0, <1>2, <1>4, <1>5 DEF Local, Weak, Watch, Stopped, Exists, Keep, Fields
  <2> QED BY <1>0, <1>4, <1>6, <2>1, Stays
<1>7. CASE w' = ReqIdx(f, "m")
  <2>1. a \in State /\ Keep(e, a, Fields \ {"nconn"}) /\ a.nconn = n
    BY <1>0, <1>4 DEF State, Keep, Fields
  <2> HIDE DEF a
  <2>2. a.conn[n] \in Chan /\ a.conn[n] = w.conn[n]
    BY <1>0, <1>4, <2>1, Tables DEF Keep, Fields
  <2>3. k \in Chan /\ k.open = Side /\ k.q = w.conn[n].q
    BY <2>2 DEF Chan
  <2> HIDE DEF k
  <2>4. /\ b \in State /\ Keep(a, b, Fields \ {"conn"}) /\ b.conn[n] = k
        /\ \A j \in Conn : j # n => b.conn[j] = a.conn[j]
    <3>1. a \in State /\ n \in Conn /\ k \in Chan
      BY <1>0, <2>1, <2>3
    <3>2. b \in State /\ Keep(a, b, Fields \ {"conn"}) /\ b.conn[n] = k
      BY <3>1, SetConnFacts
    <3>3. \A j \in Conn : j # n => b.conn[j] = a.conn[j]
      BY <3>1, SetConnFacts
    <3> QED BY <3>2, <3>3
  <2> HIDE DEF b
  <2>5. b.c = e.c /\ b.c["m"] = r0 /\ b.c["s"] = w.c["s"]
    BY <1>4, <2>1, <2>4 DEF Keep, Fields
  <2>6. r1 \in Link /\ ~r1.con /\ r1.llid = n /\ InRole("m", r1)
    <3>1. r1 \in Link /\ ~r1.con /\ r1.llid = n /\ r1.st = r0.st
      BY <1>0, <1>2, <2>5 DEF Link
    <3> HIDE DEF r1
    <3> QED BY <1>3, <3>1 DEF InRole
  <2> HIDE DEF r1
  <2>7. b1 \in State /\ b1.c["m"] = r1
    BY <1>0, <2>4, <2>6, SetCFacts
  <2> HIDE DEF b1
  <2>8. r2 \in Link /\ ~r2.con /\ r2.llid = n /\ r2.st = "midx" /\ InRole("m", r2)
    <3>1. r2 \in Link /\ ~r2.con /\ r2.llid = n /\ r2.st = "midx"
      BY <2>6, <2>7 DEF Link, States
    <3> HIDE DEF r2
    <3> QED BY <3>1 DEF InRole
  <2> HIDE DEF r2
  <2>9. b2 = SetC(b, "m", r2)
    BY <1>0, <2>4, SetCTwice DEF b2, b1
  <2>10. b2 \in State /\ b2.c["m"] = r2
    <3> HIDE DEF b2
    <3> QED BY <1>0, <2>4, <2>8, <2>9, SetCFacts
  <2> HIDE DEF b2
  <2>11. /\ r3 \in Link /\ ~r3.con /\ r3.llid = n /\ r3.st = "midx" /\ r3.timer = "idx"
         /\ InRole("m", r3)
    <3>1. /\ r3 \in Link /\ ~r3.con /\ r3.llid = n /\ r3.st = "midx" /\ r3.timer = "idx"
      BY <2>8, <2>10 DEF Link
    <3> HIDE DEF r3
    <3> QED BY <3>1 DEF InRole
  <2> HIDE DEF r3
  <2>12. f = SetC(b, "m", r3)
    BY <1>0, <2>4, <2>9, SetCTwice
  <2> HIDE DEF f
  <2>13. /\ f \in State /\ Keep(b, f, Fields \ {"c"}) /\ f.c["m"] = r3
         /\ f.c["s"] = w.c["s"]
    <3>1. /\ f \in State /\ Keep(b, f, Fields \ {"c"}) /\ f.c["m"] = r3
          /\ f.c[Peer("m")] = b.c[Peer("m")]
      <4>1. b \in State /\ "m" \in Side /\ r3 \in Link /\ InRole("m", r3)
        BY <1>0, <2>4, <2>11
      <4>2. /\ SetC(b, "m", r3) \in State /\ Keep(b, SetC(b, "m", r3), Fields \ {"c"})
            /\ SetC(b, "m", r3).c["m"] = r3
            /\ SetC(b, "m", r3).c[Peer("m")] = b.c[Peer("m")]
        BY <4>1, SetCFacts
      <4> QED BY <2>12, <4>2
    <3> QED BY <1>0, <2>5, <3>1
  <2>14. /\ f.mu = w.mu /\ f.ping = w.ping /\ f.stop = w.stop /\ f.door = w.door
         /\ f.pool = w.pool /\ f.up = w.up /\ f.nconn = n /\ f.conn = b.conn
    BY <1>4, <2>1, <2>4, <2>13 DEF Keep, Fields
  <2>15. Asked(f, w', "m")
    BY <1>0, <1>7, <2>13, ReqIdxFacts
  <2>16. ~HasIdx(w.up["m"])
    BY <1>0 DEF Shared
  <2>17. /\ w' \in State /\ w'.c = f.c /\ w'.mu = f.mu /\ w'.ping = f.ping
         /\ w'.stop = f.stop /\ w'.conn = b.conn /\ w'.nconn = n
         /\ SameSide(f, w', "s") /\ OneIdx(w'.up["m"])
         /\ PoolOk(f.door["m"].idx, f.pool["m"]) => PoolOk(w'.door["m"].idx, w'.pool["m"])
    BY <1>0, <2>13, <2>14, <2>15, <2>16, AskedFacts
  <2>18. Local(w', "m")
    BY <1>0, <1>5, <2>11, <2>13, <2>14, <2>17 DEF Local, Weak, Watch, Stopped, Exists
  <2>19. Local(w', "s")
    BY <1>0, <2>13, <2>14, <2>17 DEF Local, Weak, Watch, Stopped, Exists, SameSide
  <2>20. Idle(w.conn[n]) /\ \A j \in Conn : j > n => Idle(w'.conn[j])
    <3>1. \A j \in Conn : j > w.nconn => Idle(w.conn[j])
      BY <1>0 DEF Shared
    <3>2. n > w.nconn /\ \A j \in Conn : j > n => j > w.nconn /\ j # n
      BY <1>0 DEF n, Conn
    <3>3. \A j \in Conn : a.conn[j] = w.conn[j]
      BY <1>4, <2>1 DEF Keep, Fields
    <3> QED BY <1>0, <2>4, <2>17, <3>1, <3>2, <3>3
  <2>21. w'.conn[n].q["s"] = <<>> /\ NoCreate(<<>>) /\ \A i : Creates(<<>>, i)
    BY <2>3, <2>4, <2>17, <2>20, EmptyQueue DEF Idle
  <2>22. w.c["s"].llid <= n /\ w.c["s"].llid # n /\ n <= n
    <3>1. w.c["s"].llid \in Nat /\ w.c["s"].llid <= w.nconn
      BY <1>0, LinkType, C2cAssumption DEF Shared, Llid
    <3> QED BY <1>0, <3>1 DEF n
  <2>23. Shared(w')
    BY <2>11, <2>13, <2>17, <2>20, <2>21, <2>22 DEF Shared
  <2>24. \A y \in Side : Local(w', y)
    BY <2>18, <2>19 DEF Side
  <2> QED BY <2>17, <2>23, <2>24 DEF PeerInv, Good
<1> QED BY <1>1, <1>6, <1>7, Zenon

-----------------------------------------------------------------------------
\* What gives the indexes.
LEMMA NoCreateCreates ==
  ASSUME NEW q, NoCreate(q) PROVE \A i : Creates(q, i)
BY DEF NoCreate, Creates

\* An index and the timer that goes with it.
SetMaster(st, x, i) == [st EXCEPT !.c[x].master_idx = i, !.c[x].timer = "create"]

LEMMA SetMasterFacts ==
  ASSUME NEW st \in State, NEW x \in Side, NEW i \in Idx
  PROVE  LET new == SetMaster(st, x, i)
         IN  /\ new \in State /\ Keep(st, new, Fields \ {"c"})
             /\ new.c[Peer(x)] = st.c[Peer(x)]
             /\ new.c[x].st = st.c[x].st /\ new.c[x].llid = st.c[x].llid
             /\ new.c[x].con = st.c[x].con
             /\ new.c[x].timer = "create" /\ new.c[x].master_idx = i
             /\ new.c[x].slave_idx = st.c[x].slave_idx
<1> DEFINE r1 == [st.c[x] EXCEPT !.master_idx = i]
           r == [r1 EXCEPT !.timer = "create"]
           new == SetMaster(st, x, i)
<1>0. st.c[x] \in Link /\ InRole(x, st.c[x]) /\ st.c \in Links
  BY LinkType, RoleKept, Tables
<1>1. /\ r1 \in Link /\ r1.st = st.c[x].st /\ r1.llid = st.c[x].llid
      /\ r1.con = st.c[x].con /\ r1.master_idx = i
      /\ r1.slave_idx = st.c[x].slave_idx
  BY <1>0 DEF Link
<1>2. new = SetC(st, x, r)
  BY Tables DEF SetMaster, SetC, State, Links
<1> HIDE DEF r1
<1>3. /\ r \in Link /\ r.st = r1.st /\ r.llid = r1.llid /\ r.con = r1.con
      /\ r.timer = "create" /\ r.master_idx = r1.master_idx /\ r.slave_idx = r1.slave_idx
  BY <1>1 DEF Link
<1> HIDE DEF r, new
<1>4. InRole(x, r)
  BY <1>0, <1>1, <1>3 DEF InRole
<1>5. /\ SetC(st, x, r) \in State /\ Keep(st, SetC(st, x, r), Fields \ {"c"})
      /\ SetC(st, x, r).c[x] = r /\ SetC(st, x, r).c[Peer(x)] = st.c[Peer(x)]
  BY <1>3, <1>4, SetCFacts
<1>6. /\ new \in State /\ Keep(st, new, Fields \ {"c"})
      /\ new.c[x] = r /\ new.c[Peer(x)] = st.c[Peer(x)]
  BY <1>2, <1>5
<1> QED BY <1>1, <1>3, <1>6 DEF new

SetSlave(st, x, i) == [st EXCEPT !.c[x].slave_idx = i, !.c[x].timer = "conx"]

LEMMA SetSlaveFacts ==
  ASSUME NEW st \in State, NEW x \in Side, NEW i \in Idx
  PROVE  LET new == SetSlave(st, x, i)
         IN  /\ new \in State /\ Keep(st, new, Fields \ {"c"})
             /\ new.c[Peer(x)] = st.c[Peer(x)]
             /\ new.c[x].st = st.c[x].st /\ new.c[x].llid = st.c[x].llid
             /\ new.c[x].con = st.c[x].con
             /\ new.c[x].timer = "conx" /\ new.c[x].slave_idx = i
             /\ new.c[x].master_idx = st.c[x].master_idx
<1> DEFINE r1 == [st.c[x] EXCEPT !.slave_idx = i]
           r == [r1 EXCEPT !.timer = "conx"]
           new == SetSlave(st, x, i)
<1>0. st.c[x] \in Link /\ InRole(x, st.c[x]) /\ st.c \in Links
  BY LinkType, RoleKept, Tables
<1>1. /\ r1 \in Link /\ r1.st = st.c[x].st /\ r1.llid = st.c[x].llid
      /\ r1.con = st.c[x].con /\ r1.slave_idx = i
      /\ r1.master_idx = st.c[x].master_idx
  BY <1>0 DEF Link
<1>2. new = SetC(st, x, r)
  BY Tables DEF SetSlave, SetC, State, Links
<1> HIDE DEF r1
<1>3. /\ r \in Link /\ r.st = r1.st /\ r.llid = r1.llid /\ r.con = r1.con
      /\ r.timer = "conx" /\ r.slave_idx = r1.slave_idx /\ r.master_idx = r1.master_idx
  BY <1>1 DEF Link
<1> HIDE DEF r, new
<1>4. InRole(x, r)
  BY <1>0, <1>1, <1>3 DEF InRole
<1>5. /\ SetC(st, x, r) \in State /\ Keep(st, SetC(st, x, r), Fields \ {"c"})
      /\ SetC(st, x, r).c[x] = r /\ SetC(st, x, r).c[Peer(x)] = st.c[Peer(x)]
  BY <1>3, <1>4, SetCFacts
<1>6. /\ new \in State /\ Keep(st, new, Fields \ {"c"})
      /\ new.c[x] = r /\ new.c[Peer(x)] = st.c[Peer(x)]
  BY <1>2, <1>5
<1> QED BY <1>1, <1>3, <1>6 DEF new

\* The timer of a link.
LEMMA NoTimer ==
  ASSUME NEW st \in State, NEW x \in Side, Weak(st, x), Exists(st, x), Linked(st)
  PROVE  LET e == [st EXCEPT !.c[x].timer = "none"]
         IN  /\ e \in State /\ Keep(st, e, Fields \ {"c"}) /\ Frame(st, e, x)
             /\ e.c[Peer(x)] = st.c[Peer(x)] /\ Weak(e, x) /\ Exists(e, x) /\ Linked(e)
             /\ e.c[x].st = st.c[x].st /\ e.c[x].llid = st.c[x].llid
             /\ e.c[x].master_idx = st.c[x].master_idx
             /\ e.c[x].slave_idx = st.c[x].slave_idx
<1> DEFINE r == [st.c[x] EXCEPT !.timer = "none"]
           e == [st EXCEPT !.c[x].timer = "none"]
<1>1. st.c[x] \in Link
  BY LinkType
<1>2. /\ r \in Link /\ r.st = st.c[x].st /\ r.timer = "none" /\ r.con = st.c[x].con
      /\ r.llid = st.c[x].llid /\ r.master_idx = st.c[x].master_idx
      /\ r.slave_idx = st.c[x].slave_idx
  BY <1>1 DEF Link
<1>3. e = SetC(st, x, r)
  BY DEF SetC
<1> HIDE DEF r, e
<1>4. InRole(x, r) /\ Calm(st.c[x], r) /\ (r.con => st.c[x].con)
  BY <1>2, RoleKept DEF InRole, Calm
<1>5. /\ SetC(st, x, r) \in State /\ Keep(st, SetC(st, x, r), Fields \ {"c"})
      /\ SetC(st, x, r).c[x] = r /\ SetC(st, x, r).c[Peer(x)] = st.c[Peer(x)]
      /\ Frame(st, SetC(st, x, r), x)
  BY <1>2, <1>4, SetCFacts
<1>6. /\ e \in State /\ Keep(st, e, Fields \ {"c"}) /\ e.c[x] = r
      /\ e.c[Peer(x)] = st.c[Peer(x)] /\ Frame(st, e, x)
  BY <1>3, <1>5
<1>7. e.mu = st.mu /\ e.door = st.door /\ e.pool = st.pool
  BY <1>6 DEF Keep, Fields
<1>8. Exists(e, x) /\ Weak(e, x)
  BY <1>2, <1>6, <1>7 DEF Weak, Exists
<1>9. Linked(e)
  BY <1>6, FrameLinked
<1> QED BY <1>2, <1>6, <1>8, <1>9 DEF e

\* What is sent on the channel of an end.
LEMMA OnChannel ==
  ASSUME NEW st \in State, NEW x \in Side, Channel(st, x), NEW msg \in To(Peer(x))
  PROVE  st.c[x].llid \in Conn /\ Sent(st, Send(st, x, msg), x, st.c[x].llid, msg)
<1>1. st.c[x].llid \in Conn
  BY LinkType, C2cAssumption DEF Channel, Llid, Conn
<1>2. Sent(st, SendOn(st, x, st.c[x].llid, msg), x, st.c[x].llid, msg)
  BY <1>1, SendOnFacts
<1> QED BY <1>1, <1>2 DEF Send

LEMMA CreateKinds ==
  ASSUME NEW i \in Idx, NEW j \in Idx
  PROVE  /\ CreateReq(i) \in To("s") /\ CreateReq(i).k = "create" /\ CreateReq(i).master_idx = i
         /\ Ack(i, j, 0) \in To("m") /\ Ack(i, j, 0).slave_idx = j /\ Accept(Ack(i, j, 0))
         /\ Ack(i, j, 0) # Ping /\ Ack(0, 0, 1) \in To("m") /\ Plain(Ack(0, 0, 1))
<1>1. CreateReq(i) \in To("s") /\ CreateReq(i).k = "create" /\ CreateReq(i).master_idx = i
  BY DEF CreateReq, To, ToSlave
<1>2. /\ Ack(i, j, 0) \in To("m") /\ Ack(i, j, 0).slave_idx = j /\ Accept(Ack(i, j, 0))
      /\ Ack(0, 0, 1) \in To("m")
  BY Answers DEF Ack, To, ToMaster, Accept
<1>3. Ack(i, j, 0).k # Ping.k /\ Plain(Ack(0, 0, 1))
  BY DEF Ack, Ping, Plain, Accept
<1> QED BY <1>1, <1>2, <1>3

\* rx_c2c_resp_idx_from_doors at the master: the slave is asked for a link.
LEMMA MasterIdx ==
  ASSUME NEW e \in State, Linked(e), Channel(e, "m"), NEW i \in Idx,
         ~HasIdx(e.up["m"]), e.c["s"].llid # e.c["m"].llid,
         NoCreate(e.conn[e.c["m"].llid].q["s"]),
         Weak(e, "m"), Exists(e, "m"), Local(e, "s")
  PROVE  Good(SetMaster(Send(e, "m", CreateReq(i)), "m", i))
<1> DEFINE g == Send(e, "m", CreateReq(i))
           n == e.c["m"].llid
           new == SetMaster(g, "m", i)
<1>0. "m" \in Side /\ "s" \in Side /\ Peer("m") = "s"
  BY Sides
<1>1. n \in Conn /\ Sent(e, g, "m", n, CreateReq(i))
  BY <1>0, OnChannel, CreateKinds
<1> HIDE DEF g
<1>2. /\ g \in State /\ Keep(e, g, Fields \ {"conn"})
      /\ \A k \in Conn : k # n => g.conn[k] = e.conn[k]
      /\ \/ g.conn[n].q["s"] = e.conn[n].q["s"]
         \/ g.conn[n].q["s"] = Append(e.conn[n].q["s"], CreateReq(i))
  BY <1>0, <1>1, Zenon DEF Sent
<1>4. /\ new \in State /\ Keep(g, new, Fields \ {"c"}) /\ new.c["s"] = g.c["s"]
      /\ new.c["m"].st = g.c["m"].st /\ new.c["m"].llid = g.c["m"].llid
      /\ new.c["m"].timer = "create" /\ new.c["m"].master_idx = i
  <2>1. /\ new \in State /\ Keep(g, new, Fields \ {"c"}) /\ new.c[Peer("m")] = g.c[Peer("m")]
        /\ new.c["m"].st = g.c["m"].st /\ new.c["m"].llid = g.c["m"].llid
        /\ new.c["m"].timer = "create" /\ new.c["m"].master_idx = i
    <3>1. g \in State /\ "m" \in Side /\ i \in Idx
      BY <1>0, <1>2, Zenon
    <3> QED BY <3>1, SetMasterFacts, Zenon
  <2> QED BY <1>0, <2>1
<1> HIDE DEF new
<1>5. /\ g.c = e.c /\ new.mu = e.mu /\ new.ping = e.ping /\ new.stop = e.stop
      /\ new.door = e.door /\ new.pool = e.pool /\ new.up = e.up /\ new.nconn = e.nconn
      /\ new.conn = g.conn
  BY <1>2, <1>4, Zenon DEF Keep, Fields
<1>6. Local(new, "m")
  BY <1>4, <1>5 DEF Local, Weak, Watch, Stopped, Exists
<1>7. Local(new, "s")
  BY <1>4, <1>5 DEF Local, Weak, Watch, Stopped, Exists
<1>8. Creates(new.conn[n].q["s"], i)
  <2>1. e.conn[n].q["s"] \in Seq(To("s"))
    BY <1>0, <1>1, Tables DEF Chan, Queues
  <2>2. Creates(e.conn[n].q["s"], i)
    BY NoCreateCreates
  <2>3. Creates(Append(e.conn[n].q["s"], CreateReq(i)), i)
    <3> DEFINE q == e.conn[n].q["s"]
               a == CreateReq(i)
               S == To("s")
    <3>1. q \in Seq(S) /\ a \in S /\ a.master_idx = i /\ Creates(q, i)
      BY <2>1, <2>2, CreateKinds, Zenon
    <3> HIDE DEF q, a, S
    <3>2. \A v : Creates(q, v) /\ (a.k = "create" => a.master_idx = v) => Creates(Append(q, a), v)
      BY <3>1, AppendQueue
    <3> QED BY <3>1, <3>2, Zenon DEF q, a
  <2> QED BY <1>2, <1>5, <2>2, <2>3, Zenon
<1>9. n <= e.nconn /\ \A k \in Conn : k > e.nconn => k # n
  <2>1. n <= e.nconn /\ n \in Nat /\ e.nconn \in Nat
    BY <1>1, Tables, C2cAssumption DEF Linked, Conn, Llid
  <2> QED BY <2>1 DEF Conn
<1>10. Linked(new) /\ Says(new)
  <2>1. \A k \in Conn : k > new.nconn => Idle(new.conn[k])
    BY <1>2, <1>5, <1>9, Zenon DEF Linked
  <2>2. OneIdx(new.up["m"]) /\ ~HasIdx(new.up["m"]) /\ new.c["s"].llid <= new.nconn
        /\ new.c["m"].llid = n /\ new.c["s"].llid # n
    BY <1>4, <1>5 DEF Linked
  <2> QED BY <1>4, <1>5, <1>8, <1>9, <2>1, <2>2, Zenon DEF Linked, Says
<1>11. \A y \in Side : Local(new, y)
  BY <1>6, <1>7 DEF Side
<1> QED BY <1>4, <1>10, <1>11, SharedParts DEF Good, new, g

\* At the slave: the master is told, which makes its view the last word.
LEMMA SlaveIdx ==
  ASSUME NEW e \in State, Linked(e), Channel(e, "s"), NEW i \in Idx,
         Weak(e, "s"), Exists(e, "s"), Local(e, "m")
  PROVE  Good(SetSlave(Send(e, "s", Ack(e.c["s"].master_idx, i, 0)), "s", i))
<1> DEFINE a == Ack(e.c["s"].master_idx, i, 0)
           g == Send(e, "s", a)
           n == e.c["s"].llid
           new == SetSlave(g, "s", i)
<1>0. "m" \in Side /\ "s" \in Side /\ Peer("s") = "m" /\ e.c["s"].master_idx \in Idx
  BY Sides, LinkType
<1>1. a \in To("m") /\ a.slave_idx = i /\ Accept(a) /\ a # Ping
  BY <1>0, CreateKinds
<1> HIDE DEF a
<1>2. n \in Conn /\ Sent(e, g, "s", n, a)
  BY <1>0, <1>1, OnChannel
<1> HIDE DEF g
<1>3. /\ g \in State /\ Keep(e, g, Fields \ {"conn"})
      /\ \A k \in Conn : k # n => g.conn[k] = e.conn[k]
      /\ g.conn[n].open = e.conn[n].open /\ g.conn[n].cut = e.conn[n].cut
      /\ g.conn[n].q["s"] = e.conn[n].q["s"]
      /\ Works(e.conn[n]) => g.conn[n].q["m"] = Append(e.conn[n].q["m"], a)
  BY <1>0, <1>1, <1>2, Zenon DEF Sent
<1>4. /\ new \in State /\ Keep(g, new, Fields \ {"c"}) /\ new.c["m"] = g.c["m"]
      /\ new.c["s"].st = g.c["s"].st /\ new.c["s"].llid = g.c["s"].llid
      /\ new.c["s"].timer = "conx" /\ new.c["s"].slave_idx = i
      /\ new.c["s"].master_idx = g.c["s"].master_idx
  <2>1. g \in State /\ "s" \in Side /\ i \in Idx
    BY <1>0, <1>3, Zenon
  <2>2. /\ new \in State /\ Keep(g, new, Fields \ {"c"}) /\ new.c[Peer("s")] = g.c[Peer("s")]
        /\ new.c["s"].st = g.c["s"].st /\ new.c["s"].llid = g.c["s"].llid
        /\ new.c["s"].timer = "conx" /\ new.c["s"].slave_idx = i
        /\ new.c["s"].master_idx = g.c["s"].master_idx
    BY <2>1, SetSlaveFacts, Zenon
  <2> QED BY <1>0, <2>2
<1> HIDE DEF new
<1>5. /\ g.c = e.c /\ new.mu = e.mu /\ new.ping = e.ping /\ new.stop = e.stop
      /\ new.door = e.door /\ new.pool = e.pool /\ new.up = e.up /\ new.nconn = e.nconn
      /\ new.conn = g.conn
  BY <1>3, <1>4, Zenon DEF Keep, Fields
<1>6. Local(new, "m") /\ Local(new, "s")
  <2>1. Local(new, "m")
    BY <1>4, <1>5 DEF Local, Weak, Watch, Stopped, Exists
  <2>2. Local(new, "s")
    BY <1>4, <1>5 DEF Local, Weak, Watch, Stopped, Exists
  <2> QED BY <2>1, <2>2
<1>7. n <= e.nconn /\ \A k \in Conn : k > e.nconn => k # n
  <2>1. n <= e.nconn /\ n \in Nat /\ e.nconn \in Nat
    BY <1>2, Tables, C2cAssumption DEF Linked, Conn, Llid
  <2> QED BY <2>1 DEF Conn
<1>8. \A k \in Conn : new.conn[k].q["s"] = e.conn[k].q["s"]
  BY <1>3, <1>5, Zenon
<1>9. Linked(new)
  <2>1. \A k \in Conn : k > new.nconn => Idle(new.conn[k])
    BY <1>3, <1>5, <1>7, Zenon DEF Linked
  <2>2. new.c["m"] = e.c["m"] /\ (e.c["m"].llid # 0 => e.c["m"].llid \in Conn)
    BY <1>0, <1>4, <1>5, LinkType, C2cAssumption DEF Llid, Conn
  <2> QED BY <1>4, <1>5, <1>8, <2>1, <2>2 DEF Linked
<1>10. Says(new)
  <2> SUFFICES ASSUME new.c["m"].llid = n, Works(new.conn[n])
               PROVE  LastSays(new.conn[n].q["m"], new.c["m"].slave_idx, i)
    BY <1>4, <1>5 DEF Says
  <2>1. Works(e.conn[n])
    BY <1>3, <1>5, Zenon DEF Works
  <2>2. new.conn[n].q["m"] = Append(e.conn[n].q["m"], a)
    BY <1>3, <1>5, <2>1, Zenon
  <2>3. e.conn[n].q["m"] \in Seq(To("m"))
    BY <1>0, <1>2, Tables DEF Chan, Queues
  <2>4. \A v : LastSays(Append(e.conn[n].q["m"], a), v, i)
    BY <1>1, <2>3, AppendQueue
  <2> QED BY <2>2, <2>4, Zenon
<1>11. \A y \in Side : Local(new, y)
  BY <1>6 DEF Side
<1> QED BY <1>4, <1>9, <1>10, <1>11, SharedParts DEF Good, new, g, a

LEMMA JoinGood ==
  ASSUME NEW h, Good(h), NEW x \in Side, NEW i \in Idx
  PROVE  Good(ReqConx(h, x, i))
<1> DEFINE new == ReqConx(h, x, i)
<1>1. h \in State /\ Local(h, x)
  BY DEF Good
<1>2. Joined(h, new, x)
  BY <1>1, ReqConxFacts
<1> HIDE DEF new
<1>3. /\ Frame(h, new, x) /\ new.c = h.c /\ new.mu = h.mu /\ new.ping = h.ping
      /\ new.stop = h.stop /\ new.pool = h.pool /\ new.door[x].idx = h.door[x].idx
  BY <1>2 DEF Joined, Keep, Fields
<1>4. Local(new, x)
  BY <1>1, <1>3 DEF Local, Weak, Watch, Stopped, Exists
<1>5. Good(new)
  BY <1>3, <1>4, FrameGood
<1> QED BY <1>5 DEF new

\* The answer of the doors is taken from the queue.
LEMMA IdxTaken ==
  ASSUME PeerInv, NEW x \in Side, w.up[x] # <<>>, Head(w.up[x]).k = "idx"
  PROVE  LET st == SetUp(w, x, Tail(w.up[x]))
         IN  /\ st \in State /\ Keep(w, st, Fields \ {"up"}) /\ Linked(st)
             /\ \A y \in Side : Local(st, y)
             /\ x = "m" => Says(st) /\ ~HasIdx(st.up["m"]) /\ HasIdx(w.up["m"])
<1> DEFINE st == SetUp(w, x, Tail(w.up[x]))
<1>0. w \in State /\ w.up[x] \in Seq(Ans) /\ Shared(w) /\ "m" \in Side /\ "s" \in Side
  BY Parts, Tables, Sides
<1>1. /\ Tail(w.up[x]) \in Seq(Ans)
      /\ HasIdx(Tail(w.up[x])) => HasIdx(w.up[x])
      /\ OneIdx(w.up[x]) => OneIdx(Tail(w.up[x]))
      /\ HasIdx(w.up[x]) /\ (OneIdx(w.up[x]) => ~HasIdx(Tail(w.up[x])))
  BY <1>0, TailAnswer
<1>2. /\ st \in State /\ Keep(w, st, Fields \ {"up"}) /\ st.up[x] = Tail(w.up[x])
      /\ st.up[Peer(x)] = w.up[Peer(x)]
  BY <1>0, <1>1, SetUpFacts
<1> HIDE DEF st
<1>3. st.c = w.c /\ st.conn = w.conn /\ st.nconn = w.nconn
  BY <1>2 DEF Keep, Fields
<1>4. \A y \in Side : Local(st, y)
  <2> SUFFICES ASSUME NEW y \in Side PROVE Local(st, y)
    OBVIOUS
  <2>1. Keep(w, st, {"c", "mu", "ping", "stop", "door", "pool"})
    BY <1>2 DEF Keep, Fields
  <2> QED BY <2>1, Parts, SameLocal DEF Local
<1>5. CASE x = "m"
  <2>1. OneIdx(w.up["m"]) /\ st.up["s"] = w.up["s"]
    BY <1>0, <1>2, <1>5, Sides DEF Shared
  <2>2. OneIdx(st.up["m"]) /\ ~HasIdx(st.up["m"]) /\ HasIdx(w.up["m"])
    BY <1>1, <1>2, <1>5, <2>1
  <2>3. Linked(st) /\ Says(st)
    <3>1. Linked(st)
      BY <1>0, <1>3, <2>2 DEF Shared, Linked
    <3>2. Says(st)
      BY <1>0, <1>3, <2>1 DEF Shared, Says
    <3> QED BY <3>1, <3>2
  <2> QED BY <1>2, <1>4, <2>2, <2>3 DEF st
<1>6. CASE x = "s"
  <2>1. st.up["m"] = w.up["m"]
    BY <1>2, <1>6, Sides
  <2>2. Linked(st)
    BY <1>0, <1>3, <2>1 DEF Shared, Linked
  <2> QED BY <1>2, <1>4, <1>6, <2>2 DEF st
<1> QED BY <1>5, <1>6 DEF Side

LEMMA RecvIdxPart ==
  ASSUME PeerInv, NEW x \in Side, w.up[x] # <<>>, Head(w.up[x]).k = "idx",
         w' = RecvIdx(SetUp(w, x, Tail(w.up[x])), x, Head(w.up[x]).idx)
  PROVE  PeerInv'
<1> DEFINE st == SetUp(w, x, Tail(w.up[x]))
           i == Head(w.up[x]).idx
           e == [st EXCEPT !.c[x].timer = "none"]
<1>0. w \in State /\ w.up[x] \in Seq(Ans) /\ Shared(w) /\ Peer(x) \in Side /\ "s" \in Side
  BY Parts, Tables, Sides
<1>1. i \in Idx
  <2>1. Head(w.up[x]) \in Ans
    BY <1>0, TailAnswer
  <2> QED BY <2>1 DEF Ans
<1>2. /\ st \in State /\ Keep(w, st, Fields \ {"up"}) /\ Linked(st)
      /\ \A y \in Side : Local(st, y)
      /\ x = "m" => Says(st) /\ ~HasIdx(st.up["m"]) /\ HasIdx(w.up["m"])
  BY IdxTaken
<1>3. w' = RecvIdx(st, x, i)
  OBVIOUS
<1> HIDE DEF st, i
<1>4. CASE ~Exists(st, x)
  <2>1. w' = st
    BY <1>3, <1>4, Zenon DEF RecvIdx
  <2>2. Says(st)
    <3>1. st.c[x].llid = 0
      BY <1>2, <1>4, NoRecords DEF Local, Weak
    <3> QED BY <3>1 DEF Says, Side
  <2> QED BY <1>2, <2>1, <2>2, SharedParts DEF PeerInv, Good
<1>5. CASE Exists(st, x)
  <2>0. Weak(st, x) /\ Local(st, Peer(x))
    BY <1>0, <1>2 DEF Local
  <2>1. /\ e \in State /\ Keep(st, e, Fields \ {"c"}) /\ Frame(st, e, x)
        /\ e.c[Peer(x)] = st.c[Peer(x)] /\ Weak(e, x) /\ Exists(e, x) /\ Linked(e)
        /\ e.c[x].st = st.c[x].st /\ e.c[x].llid = st.c[x].llid
        /\ e.c[x].master_idx = st.c[x].master_idx
    BY <1>2, <1>5, <2>0, NoTimer
  <2>2. Local(e, Peer(x))
    BY <2>0, <2>1, FramePeer
  <2>3. \/ w' = C2cFree(e, x)
        \/ /\ Channel(st, x) /\ st.c[x].st = "midx"
           /\ w' = [Send(e, x, CreateReq(i)) EXCEPT !.c[x].master_idx = i,
                                                     !.c[x].timer = "create"]
        \/ /\ Channel(st, x) /\ st.c[x].st = "sidx"
           /\ w' = ReqConx([Send(e, x, Ack(st.c[x].master_idx, i, 0)) EXCEPT
                        !.c[x].slave_idx = i, !.c[x].timer = "conx"], x, st.c[x].master_idx)
    BY <1>3, <1>5, Zenon DEF RecvIdx
  <2> HIDE DEF e
  <2>4. CASE w' = C2cFree(e, x)
    BY <2>1, <2>2, <2>4, FreedGood DEF PeerInv
  <2>5. e.conn = st.conn /\ e.up = st.up /\ st.conn = w.conn /\ st.c = w.c
    BY <1>2, <2>1 DEF Keep, Fields
  <2>6. Channel(st, x) => Channel(e, x)
    BY <2>1, <2>5 DEF Channel
  <2>7. CASE /\ Channel(st, x) /\ st.c[x].st = "midx"
             /\ w' = [Send(e, x, CreateReq(i)) EXCEPT !.c[x].master_idx = i,
                                                     !.c[x].timer = "create"]
    <3>1. x = "m"
      BY <1>2, <2>7, LinkType DEF Side
    <3>2. w' = SetMaster(Send(e, "m", CreateReq(i)), "m", i)
      BY <2>7, <3>1 DEF SetMaster
    <3>3. ~HasIdx(e.up["m"]) /\ HasIdx(w.up["m"])
      BY <1>2, <2>5, <3>1
    <3>4. e.c["s"] = w.c["s"] /\ e.c["m"].llid = w.c["m"].llid /\ w.c["m"].llid # 0
      BY <2>1, <2>5, <2>7, <3>1, Sides DEF Channel
    <3>5. e.c["s"].llid # e.c["m"].llid /\ NoCreate(e.conn[e.c["m"].llid].q["s"])
      BY <1>0, <2>5, <3>3, <3>4 DEF Shared
    <3>6. Channel(e, "m") /\ Weak(e, "m") /\ Exists(e, "m") /\ Local(e, "s")
      BY <2>1, <2>2, <2>6, <2>7, <3>1, Sides
    <3> QED BY <1>1, <2>1, <3>2, <3>3, <3>5, <3>6, MasterIdx, Zenon DEF PeerInv
  <2>8. CASE /\ Channel(st, x) /\ st.c[x].st = "sidx"
             /\ w' = ReqConx([Send(e, x, Ack(st.c[x].master_idx, i, 0)) EXCEPT
                        !.c[x].slave_idx = i, !.c[x].timer = "conx"], x, st.c[x].master_idx)
    <3>1. x = "s"
      BY <1>2, <2>8, LinkType DEF Side
    <3> DEFINE h == SetSlave(Send(e, "s", Ack(e.c["s"].master_idx, i, 0)), "s", i)
    <3>2. w' = ReqConx(h, "s", e.c["s"].master_idx)
      <4>1. st.c[x].master_idx = e.c["s"].master_idx
        BY <2>1, <3>1
      <4> QED BY <2>8, <3>1, <4>1 DEF SetSlave
    <3>3. Channel(e, "s") /\ Weak(e, "s") /\ Exists(e, "s") /\ Local(e, "m")
      BY <2>1, <2>2, <2>6, <2>8, <3>1, Sides
    <3>4. Good(h)
      BY <1>1, <2>1, <3>3, SlaveIdx
    <3>5. e.c["s"].master_idx \in Idx
      BY <1>0, <2>1, LinkType
    <3> HIDE DEF h
    <3> QED BY <1>0, <3>2, <3>4, <3>5, JoinGood DEF PeerInv
  <2> QED BY <2>3, <2>4, <2>7, <2>8
<1> QED BY <1>4, <1>5

\* recv_c2c_ack_peer_create: what the slave said last is the master's view.
LEMMA AckTaken ==
  ASSUME PeerInv, NEW n \in Conn, w.conn[n].q["m"] # <<>>
  PROVE  LET st == Pop(w, "m", n)
         IN  /\ st \in State /\ Keep(w, st, Fields \ {"conn"}) /\ Linked(st)
             /\ \A y \in Side : Local(st, y)
             /\ st.conn[n].open = w.conn[n].open /\ st.conn[n].cut = w.conn[n].cut
             /\ st.conn[n].q["m"] = Tail(w.conn[n].q["m"])
             /\ w.conn[n].q["m"] \in Seq(To("m"))
             /\ ~Accept(Head(w.conn[n].q["m"])) => Frame(w, st, "m")
<1> DEFINE st == Pop(w, "m", n)
<1>0. w \in State /\ Shared(w) /\ "m" \in Side /\ "s" \in Side /\ Peer("m") = "s"
  BY Parts, Sides
<1>1. /\ st \in State /\ Keep(w, st, Fields \ {"conn"})
      /\ \A k \in Conn : k # n => st.conn[k] = w.conn[k]
      /\ st.conn[n].open = w.conn[n].open /\ st.conn[n].cut = w.conn[n].cut
      /\ st.conn[n].q[Peer("m")] = w.conn[n].q[Peer("m")]
      /\ st.conn[n].q["m"] = Tail(w.conn[n].q["m"])
      /\ w.conn[n].q["m"] \in Seq(To("m"))
      /\ ~Idle(w.conn[n])
      /\ ~Accept(Head(w.conn[n].q["m"])) => Frame(w, st, "m")
  <2>1. Popped(w, st, "m", n)
    BY <1>0, PopFacts
  <2> HIDE DEF st
  <2> QED BY <2>1 DEF Popped
<1> HIDE DEF st
<1>2. st.c = w.c /\ st.up = w.up /\ st.nconn = w.nconn
  BY <1>1 DEF Keep, Fields
<1>3. \A y \in Side : Local(st, y)
  <2> SUFFICES ASSUME NEW y \in Side PROVE Local(st, y)
    OBVIOUS
  <2>1. Keep(w, st, {"c", "mu", "ping", "stop", "door", "pool"})
    BY <1>1 DEF Keep, Fields
  <2> QED BY <2>1, Parts, SameLocal DEF Local
<1>4. Linked(st)
  <2>1. \A k \in Conn : k > w.nconn => Idle(w.conn[k]) /\ k # n
    BY <1>0, <1>1 DEF Shared
  <2>2. \A k \in Conn : k > st.nconn => Idle(st.conn[k])
    BY <1>1, <1>2, <2>1
  <2>3. \A k \in Conn : st.conn[k].q["s"] = w.conn[k].q["s"]
    BY <1>0, <1>1
  <2>4. w.c["m"].llid # 0 => w.c["m"].llid \in Conn
    BY <1>0, LinkType, C2cAssumption DEF Llid, Conn
  <2>5. st.c["m"].llid # 0 =>
          st.conn[st.c["m"].llid].q["s"] = w.conn[w.c["m"].llid].q["s"]
    BY <1>2, <2>3, <2>4
  <2> QED BY <1>0, <1>2, <2>2, <2>5 DEF Shared, Linked
<1> QED BY <1>1, <1>3, <1>4 DEF st

LEMMA RecvAckPart ==
  ASSUME PeerInv, NEW n \in Conn, w.conn[n].q["m"] # <<>>,
         Head(w.conn[n].q["m"]).k = "ack",
         w' = RecvAck(Pop(w, "m", n), n, Head(w.conn[n].q["m"]))
  PROVE  PeerInv'
<1> DEFINE st == Pop(w, "m", n)
           q == w.conn[n].q["m"]
           a == Head(q)
           j == a.slave_idx
           h == SetSlave(st, "m", j)
<1>0. w \in State /\ Shared(w) /\ "m" \in Side /\ "s" \in Side /\ Peer("m") = "s" /\ n # 0
  BY Parts, Sides, C2cAssumption DEF Conn
<1>1. /\ st \in State /\ Keep(w, st, Fields \ {"conn"}) /\ Linked(st)
      /\ \A y \in Side : Local(st, y)
      /\ st.conn[n].open = w.conn[n].open /\ st.conn[n].cut = w.conn[n].cut
      /\ st.conn[n].q["m"] = Tail(q) /\ q \in Seq(To("m"))
  BY AckTaken
<1>2. j \in Idx /\ a.k = "ack"
  <2>1. a \in To("m") /\ a.k = "ack"
    BY <1>1, TailProps
  <2> QED BY <2>1 DEF To, ToMaster
<1>3. \/ w' = st /\ ~Exists(st, "m")
      \/ w' = C2cFree(st, "m") /\ Exists(st, "m")
      \/ /\ Exists(st, "m") /\ a.status = 0 /\ n = st.c["m"].llid
         /\ w' = ReqConx(h, "m", j)
  BY DEF RecvAck, SetSlave
<1> HIDE DEF st, h
<1>4. CASE w' = st /\ ~Exists(st, "m")
  <2>1. Says(st)
    <3>1. st.c["m"].llid = 0
      BY <1>0, <1>1, <1>4, NoRecords DEF Local, Weak
    <3> QED BY <3>1 DEF Says
  <2> QED BY <1>1, <1>4, <2>1, SharedParts DEF PeerInv, Good
<1>5. CASE w' = C2cFree(st, "m") /\ Exists(st, "m")
  <2>1. Weak(st, "m") /\ Local(st, Peer("m"))
    BY <1>0, <1>1 DEF Local
  <2> QED BY <1>0, <1>1, <1>5, <2>1, FreedGood DEF PeerInv
<1>6. CASE /\ Exists(st, "m") /\ a.status = 0 /\ n = st.c["m"].llid
           /\ w' = ReqConx(h, "m", j)
  <2>1. /\ h \in State /\ Keep(st, h, Fields \ {"c"}) /\ h.c["s"] = st.c["s"]
        /\ h.c["m"].st = st.c["m"].st /\ h.c["m"].llid = st.c["m"].llid
        /\ h.c["m"].con = st.c["m"].con
        /\ h.c["m"].timer = "conx" /\ h.c["m"].slave_idx = j
        /\ h.c["m"].master_idx = st.c["m"].master_idx
    <3>1. st \in State /\ "m" \in Side /\ j \in Idx
      BY <1>0, <1>1, <1>2
    <3>2. /\ h \in State /\ Keep(st, h, Fields \ {"c"}) /\ h.c[Peer("m")] = st.c[Peer("m")]
          /\ h.c["m"].st = st.c["m"].st /\ h.c["m"].llid = st.c["m"].llid
          /\ h.c["m"].con = st.c["m"].con
          /\ h.c["m"].timer = "conx" /\ h.c["m"].slave_idx = j
          /\ h.c["m"].master_idx = st.c["m"].master_idx
      <4> HIDE DEF j
      <4> QED BY <3>1, SetSlaveFacts, ZenonT(60) DEF h
    <3> QED BY <1>0, <3>2
  <2>2. /\ h.mu = st.mu /\ h.ping = st.ping /\ h.stop = st.stop /\ h.door = st.door
        /\ h.pool = st.pool /\ h.up = st.up /\ h.nconn = st.nconn /\ h.conn = st.conn
        /\ st.c = w.c /\ st.up = w.up
    BY <1>1, <2>1 DEF Keep, Fields
  <2>3. Local(h, "m") /\ Local(h, "s")
    <3>1. Local(h, "m")
      BY <1>0, <1>1, <1>6, <2>1, <2>2, Zenon DEF Local, Weak, Watch, Stopped, Exists
    <3>2. Local(h, "s")
      BY <1>0, <1>1, <2>1, <2>2 DEF Local, Weak, Watch, Stopped, Exists
    <3> QED BY <3>1, <3>2
  <2>4. Linked(h)
    BY <1>1, <2>1, <2>2 DEF Linked
  <2>5. Says(h)
    <3> SUFFICES ASSUME n = w.c["s"].llid, Works(w.conn[n]), ~HasIdx(w.up["s"])
                 PROVE  LastSays(Tail(q), j, w.c["s"].slave_idx)
      BY <1>1, <1>6, <2>1, <2>2, Zenon DEF Says, Works
    <3>1. w.c["m"].llid = n /\ n # 0
      BY <1>0, <1>6, <2>2, Zenon
    <3>2. LastSays(q, w.c["m"].slave_idx, w.c["s"].slave_idx)
      BY <1>0, <3>1, Zenon DEF Shared
    <3>3. Accept(a)
      BY <1>2, <1>6, Zenon DEF Accept
    <3> QED BY <1>1, <3>2, <3>3, TailQueue, Zenon
  <2>6. Good(h)
    BY <2>1, <2>3, <2>4, <2>5, SharedParts DEF Good, Side
  <2> QED BY <1>0, <1>2, <1>6, <2>6, JoinGood, Zenon DEF PeerInv
<1> QED BY <1>3, <1>4, <1>5, <1>6

\* recv_c2c_peer_create: a slave with the master's index, which asks its doors.
LEMMA SlaveJoins ==
  ASSUME NEW st, Good(st), NEW n \in Conn, n <= st.nconn, NEW i \in Idx,
         st.c["m"].llid = n => st.c["m"].master_idx = i,
         st.c["m"].llid = n => ~HasIdx(st.up["m"]),
         NEW h \in State, Keep(st, h, Fields \ {"c", "mu"}), h.c["m"] = st.c["m"],
         h.mu["m"] = st.mu["m"], h.c["s"].st = "sidx", h.c["s"].llid = n,
         h.c["s"].master_idx = i, h.c["s"].timer = "idx",
         h.mu["s"].st # "none", h.mu["s"].st = "ready" => h.mu["s"].fd # 0,
         NEW new, Asked(h, new, "s")
  PROVE  Good(new)
<1>0. /\ st \in State /\ Shared(st) /\ Local(st, "m") /\ Local(st, "s")
      /\ "m" \in Side /\ "s" \in Side /\ Peer("s") = "m" /\ n # 0
  BY Sides, C2cAssumption DEF Good, Conn
<1>1. /\ new \in State /\ new.c = h.c /\ new.mu = h.mu /\ new.ping = h.ping
      /\ new.stop = h.stop /\ new.conn = h.conn /\ new.nconn = h.nconn
      /\ SameSide(h, new, "m") /\ HasIdx(new.up["s"])
      /\ new.up["m"] = h.up["m"]
      /\ PoolOk(h.door["s"].idx, h.pool["s"]) => PoolOk(new.door["s"].idx, new.pool["s"])
  BY <1>0, AskedFacts
<1>2. /\ h.ping = st.ping /\ h.stop = st.stop /\ h.conn = st.conn /\ h.nconn = st.nconn
      /\ h.up = st.up /\ h.door = st.door /\ h.pool = st.pool
  BY DEF Keep, Fields
<1>3. Local(new, "m")
  BY <1>0, <1>1, <1>2 DEF Local, Weak, Watch, Stopped, Exists, SameSide
<1>4. Local(new, "s")
  BY <1>0, <1>1, <1>2 DEF Local, Weak, Watch, Stopped, Exists
<1>5. Linked(new)
  BY <1>0, <1>1, <1>2 DEF Shared, Linked
<1>6. Says(new)
  BY <1>1 DEF Says
<1>7. \A y \in Side : Local(new, y)
  BY <1>3, <1>4 DEF Side
<1> QED BY <1>1, <1>5, <1>6, <1>7, SharedParts DEF Good

LEMMA RecvCreatePart ==
  ASSUME PeerInv, NEW n \in Conn, w.conn[n].q["s"] # <<>>,
         Head(w.conn[n].q["s"]).k = "create",
         w' = RecvCreate(Pop(w, "s", n), n, Head(w.conn[n].q["s"]).master_idx)
  PROVE  PeerInv'
<1> DEFINE st == Pop(w, "s", n)
           q == w.conn[n].q["s"]
           i == Head(q).master_idx
           c == st.c["s"]
           f == C2cFree(st, "s")
           a == Ack(0, 0, 1)
           r == [c EXCEPT !.st = "sidx", !.llid = n, !.master_idx = i, !.timer = "idx"]
           p == [NoC2c EXCEPT !.st = "sidx", !.llid = n, !.master_idx = i, !.timer = "idx"]
           mu2 == [NoMu EXCEPT !.st = "wait"]
           h == [st EXCEPT !.c["s"] = p, !.mu["s"] = mu2]
<1>0. w \in State /\ Shared(w) /\ "m" \in Side /\ "s" \in Side /\ Peer("s") = "m" /\ n # 0
  BY Parts, Sides, C2cAssumption DEF Conn
<1>1. /\ st \in State /\ Keep(w, st, Fields \ {"conn"}) /\ Frame(w, st, "s")
      /\ st.conn[n].q["s"] = Tail(q) /\ q \in Seq(To("s")) /\ Head(q) \in To("s")
      /\ ~Idle(w.conn[n])
  <2>1. Popped(w, st, "s", n)
    BY <1>0, PopFacts
  <2> HIDE DEF st
  <2> QED BY <2>1 DEF Popped
<1>2. \/ /\ c.st = "recon"
         /\ w' = ReqIdx(SetC(st, "s", r), "s")
      \/ Exists(st, "s") /\ w' = SendOn(f, "s", n, a)
      \/ st.mu["s"].st # "none" /\ w' = SendOn(st, "s", n, a)
      \/ ~Exists(st, "s") /\ st.mu["s"].st = "none" /\ w' = ReqIdx(h, "s")
  BY DEF RecvCreate, SetC
<1> HIDE DEF st, h, a, f
<1>3. st.c = w.c /\ st.up = w.up /\ st.nconn = w.nconn
  BY <1>1 DEF Keep, Fields
<1>4. Local(st, "s") /\ Good(st)
  <2>1. Keep(w, st, {"c", "mu", "ping", "stop", "door", "pool"})
    BY <1>1 DEF Keep, Fields
  <2>2. Local(st, "s")
    BY <1>0, <2>1, Parts, SameLocal DEF Local
  <2> QED BY <1>0, <1>1, <2>2, FrameGood DEF PeerInv
<1>5. i \in Idx /\ ~NoCreate(q)
  <2>1. Head(q).k = "create" /\ Head(q) \in To("s")
    BY <1>1
  <2>2. i \in Idx
    BY <2>1 DEF To, ToSlave
  <2>3. ~NoCreate(q)
    BY <1>1, <2>1, TailQueue
  <2> QED BY <2>2, <2>3
<1>6. n <= st.nconn /\ n \in Llid
  <2>1. n \in Nat /\ w.nconn \in Nat /\ n \in Llid
    BY <1>0, Tables, C2cAssumption DEF Conn, Llid
  <2>2. ~(n > w.nconn)
    BY <1>0, <1>1 DEF Shared
  <2> QED BY <1>3, <2>1, <2>2
<1>7. st.c["m"].llid = n => st.c["m"].master_idx = i /\ ~HasIdx(st.up["m"])
  <2> SUFFICES ASSUME w.c["m"].llid = n
               PROVE  w.c["m"].master_idx = i /\ ~HasIdx(w.up["m"])
    BY <1>3
  <2>1. Creates(q, w.c["m"].master_idx)
    BY <1>0 DEF Shared
  <2>2. w.c["m"].master_idx = i
    BY <1>1, <2>1, TailQueue
  <2>3. ~HasIdx(w.up["m"])
    BY <1>0, <1>5 DEF Shared
  <2> QED BY <2>2, <2>3
<1>8. CASE c.st = "recon" /\ w' = ReqIdx(SetC(st, "s", r), "s")
  <2> DEFINE h1 == SetC(st, "s", r)
  <2>1. /\ r \in Link /\ r.st = "sidx" /\ r.llid = n /\ r.master_idx = i
        /\ r.timer = "idx"
    <3> DEFINE c1 == [c EXCEPT !.st = "sidx"]
               c2 == [c1 EXCEPT !.llid = n]
               c3 == [c2 EXCEPT !.master_idx = i]
               c4 == [c3 EXCEPT !.timer = "idx"]
    <3>0. c \in Link /\ "sidx" \in States
      BY <1>0, <1>1, LinkType DEF States
    <3>1. r = c4
      OBVIOUS
    <3> HIDE DEF c, r, i
    <3>2. c1 \in Link /\ c1.st = "sidx"
      BY <3>0 DEF Link
    <3> HIDE DEF c1
    <3>3. c2 \in Link /\ c2.st = "sidx" /\ c2.llid = n
      BY <1>6, <3>2 DEF Link
    <3> HIDE DEF c2
    <3>4. c3 \in Link /\ c3.st = "sidx" /\ c3.llid = n /\ c3.master_idx = i
      BY <1>5, <3>3 DEF Link
    <3> HIDE DEF c3
    <3>5. /\ c4 \in Link /\ c4.st = "sidx" /\ c4.llid = n /\ c4.master_idx = i
          /\ c4.timer = "idx"
      BY <3>4 DEF Link
    <3> QED BY <3>1, <3>5
  <2> HIDE DEF r
  <2>2. InRole("s", r)
    BY <2>1 DEF InRole
  <2>3. /\ h1 \in State /\ Keep(st, h1, Fields \ {"c"}) /\ h1.c["s"] = r
        /\ h1.c["m"] = st.c["m"]
    <3>1. st \in State /\ "s" \in Side /\ r \in Link /\ InRole("s", r)
      BY <1>0, <1>1, <1>4, <2>1, <2>2 DEF Good
    <3>2. /\ h1 \in State /\ Keep(st, h1, Fields \ {"c"}) /\ h1.c["s"] = r
          /\ h1.c[Peer("s")] = st.c[Peer("s")]
      BY <3>1, SetCFacts DEF h1
    <3> QED BY <1>0, <3>2
  <2> HIDE DEF h1
  <2>4. Keep(st, h1, Fields \ {"c", "mu"}) /\ h1.mu = st.mu
    BY <2>3 DEF Keep, Fields
  <2>5. h1.mu["s"].st # "none" /\ (h1.mu["s"].st = "ready" => h1.mu["s"].fd # 0)
    BY <1>4, <1>8, <2>4 DEF Local, Weak, Exists, c
  <2>6. Asked(h1, w', "s")
    BY <1>0, <1>8, <2>3, ReqIdxFacts DEF h1
  <2> HIDE DEF c
  <2>7. /\ h1.c["s"].st = "sidx" /\ h1.c["s"].llid = n /\ h1.c["s"].master_idx = i
        /\ h1.c["s"].timer = "idx" /\ h1.mu["m"] = st.mu["m"]
    BY <2>1, <2>3, <2>4
  <2> QED BY <1>4, <1>5, <1>6, <1>7, <2>3, <2>4, <2>5, <2>6, <2>7, SlaveJoins, Zenon DEF PeerInv
<1>11. CASE ~Exists(st, "s") /\ st.mu["s"].st = "none" /\ w' = ReqIdx(h, "s")
  <2> DEFINE g == SetMu(st, "s", mu2)
  <2>1. /\ p \in Link /\ p.st = "sidx" /\ p.llid = n /\ p.master_idx = i
        /\ p.timer = "idx" /\ InRole("s", p)
    <3>1. i \in Idx /\ n \in Llid
      BY <1>5, <1>6
    <3> HIDE DEF i
    <3> QED BY <3>1, NoRecords DEF NoC2c, Link, States, InRole
  <2>2. mu2 \in Endp /\ mu2.st = "wait"
    BY NoRecords DEF NoMu, Endp
  <2>3. h = SetC(g, "s", p)
    BY <1>0, <1>1, Tables DEF h, SetC, SetMu
  <2> HIDE DEF p, mu2, h
  <2>4. /\ g \in State /\ Keep(st, g, Fields \ {"mu"}) /\ g.mu["s"] = mu2
        /\ g.mu["m"] = st.mu["m"]
    <3>1. st \in State /\ "s" \in Side /\ mu2 \in Endp
      BY <1>0, <1>4, <2>2 DEF Good
    <3>2. Frame(st, g, "s") /\ Keep(st, g, Fields \ {"mu"}) /\ g.mu["s"] = mu2
      BY <3>1, EndpFrame DEF g
    <3> QED BY <1>0, <3>2 DEF Frame, SameSide
  <2> HIDE DEF g
  <2>5. /\ h \in State /\ Keep(g, h, Fields \ {"c"}) /\ h.c["s"] = p
        /\ h.c["m"] = g.c["m"]
    <3>1. "s" \in Side
      BY <1>0
    <3>2. /\ SetC(g, "s", p) \in State /\ Keep(g, SetC(g, "s", p), Fields \ {"c"})
          /\ SetC(g, "s", p).c["s"] = p /\ SetC(g, "s", p).c[Peer("s")] = g.c[Peer("s")]
      BY <2>1, <2>4, <3>1, SetCFacts
    <3> QED BY <1>0, <2>3, <3>2
  <2>6. Keep(st, h, Fields \ {"c", "mu"}) /\ h.mu = g.mu /\ g.c = st.c
    BY <2>4, <2>5 DEF Keep, Fields
  <2>7. Asked(h, w', "s")
    BY <1>0, <1>11, <2>5, ReqIdxFacts
  <2>8. /\ h.c["s"].st = "sidx" /\ h.c["s"].llid = n /\ h.c["s"].master_idx = i
        /\ h.c["s"].timer = "idx" /\ h.mu["m"] = st.mu["m"] /\ h.c["m"] = st.c["m"]
        /\ h.mu["s"].st # "none" /\ (h.mu["s"].st = "ready" => h.mu["s"].fd # 0)
    BY <2>1, <2>2, <2>4, <2>5, <2>6
  <2> QED BY <1>4, <1>5, <1>6, <1>7, <2>5, <2>6, <2>7, <2>8, SlaveJoins, Zenon DEF PeerInv
<1>9. CASE Exists(st, "s") /\ w' = SendOn(f, "s", n, a)
  <2>1. a \in To("m") /\ Plain(a)
    BY Answers, CreateKinds DEF a
  <2>2. Good(f)
    <3>1. Weak(st, "s") /\ Local(st, Peer("s")) /\ Linked(st)
      BY <1>0, <1>4, SharedParts DEF Good, Local
    <3> QED BY <1>0, <1>1, <1>9, <3>1, FreedGood DEF f
  <2>3. Frame(f, w', "s") /\ Keep(f, w', Fields \ {"conn"})
    BY <1>0, <1>9, <2>1, <2>2, SendPlain DEF Good
  <2>4. Local(w', "s")
    <3>1. Keep(f, w', {"c", "mu", "ping", "stop", "door", "pool"})
      BY <2>3, Zenon DEF Keep, Fields
    <3> QED BY <1>0, <2>2, <3>1, SameLocal DEF Good, Local
  <2> QED BY <1>0, <2>2, <2>3, <2>4, FrameGood, Zenon DEF PeerInv
<1>10. CASE st.mu["s"].st # "none" /\ w' = SendOn(st, "s", n, a)
  <2>1. a \in To("m") /\ Plain(a)
    BY Answers, CreateKinds DEF a
  <2>3. Frame(st, w', "s") /\ Keep(st, w', Fields \ {"conn"})
    BY <1>0, <1>1, <1>10, <2>1, SendPlain
  <2>4. Local(w', "s")
    <3>1. Keep(st, w', {"c", "mu", "ping", "stop", "door", "pool"})
      BY <2>3 DEF Keep, Fields
    <3> QED BY <1>0, <1>4, <3>1, SameLocal DEF Local
  <2> QED BY <1>0, <1>4, <2>3, <2>4, FrameGood, Zenon DEF PeerInv
<1> QED BY <1>2, <1>8, <1>9, <1>10, <1>11, Zenon

\* A message of the other switch, by its type.
LEMMA RecvPart ==
  ASSUME PeerInv, NEW x \in Side, NEW n \in Conn, Recv(x, n) PROVE PeerInv'
<1> DEFINE st == Pop(w, x, n)
           a == Head(w.conn[n].q[x])
<1>0. w \in State /\ w.conn[n].q[x] # <<>>
  BY Parts DEF Recv
<1>1. /\ st \in State /\ Keep(w, st, Fields \ {"conn"}) /\ a \in To(x)
      /\ x = "s" \/ ~Accept(a) => Frame(w, st, x)
  <2>1. Popped(w, st, x, n)
    BY <1>0, PopFacts
  <2> HIDE DEF st
  <2> QED BY <2>1 DEF Popped
<1>2. w' = CASE a.k = "ping" -> RecvPing(st, x)
             [] a.k = "delete" -> C2cFree(st, x)
             [] a.k = "create" -> RecvCreate(st, n, a.master_idx)
             [] a.k = "ack" -> RecvAck(st, n, a)
  BY DEF Recv, Pop
<1>3. \/ a.k = "ping"
      \/ (x = "s" /\ a.k = "delete")
      \/ (x = "s" /\ a.k = "create")
      \/ (x = "m" /\ a.k = "ack")
  BY <1>1 DEF To, ToMaster, ToSlave, Side
<1>4. CASE a.k = "ping"
  <2>1. w' = RecvPing(st, x)
    BY <1>2, <1>4
  <2>2. Frame(w, st, x)
    BY <1>1, <1>4 DEF Accept
  <2> HIDE DEF st
  <2> QED BY <1>1, <2>1, <2>2, RecvPingPart
<1>5. CASE x = "s" /\ a.k = "delete"
  <2>1. w' = C2cFree(st, x)
    BY <1>2, <1>5
  <2>2. Frame(w, st, x)
    BY <1>1, <1>5
  <2> HIDE DEF st
  <2> QED BY <1>1, <2>1, <2>2, RecvDeletePart
<1>6. CASE x = "s" /\ a.k = "create"
  <2>1. w' = RecvCreate(Pop(w, "s", n), n, Head(w.conn[n].q["s"]).master_idx)
    BY <1>2, <1>6
  <2> QED BY <1>0, <1>6, <2>1, RecvCreatePart
<1>7. CASE x = "m" /\ a.k = "ack"
  <2>1. w' = RecvAck(Pop(w, "m", n), n, Head(w.conn[n].q["m"]))
    BY <1>2, <1>7
  <2> QED BY <1>0, <1>7, <2>1, RecvAckPart
<1> QED BY <1>3, <1>4, <1>5, <1>6, <1>7

\* An answer of the doors, by its type.
LEMMA RecvDoorPart ==
  ASSUME PeerInv, NEW x \in Side, RecvDoor(x) PROVE PeerInv'
<1> DEFINE st == SetUp(w, x, Tail(w.up[x]))
           a == Head(w.up[x])
<1>0. w \in State /\ w.up[x] # <<>> /\ w.up[x] \in Seq(Ans)
  BY Parts, Tables DEF RecvDoor
<1>1. w' = CASE a.k = "idx" -> RecvIdx(st, x, a.idx)
             [] a.k = "conx" -> RecvConx(st, x, a.fd)
             [] a.k = "death" -> MuendpFree(st, x)
  BY <1>0, Tables DEF RecvDoor, SetUp
<1>2. a.k \in {"idx", "conx", "death"}
  <2>1. a \in Ans
    BY <1>0, TailAnswer
  <2> QED BY <2>1 DEF Ans
<1>3. CASE a.k = "idx"
  BY <1>0, <1>1, <1>3, RecvIdxPart
<1>4. CASE a.k = "conx"
  BY <1>0, <1>1, <1>4, RecvConxPart
<1>5. CASE a.k = "death"
  BY <1>0, <1>1, <1>5, RecvDeathPart
<1> QED BY <1>2, <1>3, <1>4, <1>5

LEMMA SwitchStepPart ==
  ASSUME PeerInv, NEW x \in Side, PeerSwitchStep(x) PROVE PeerInv'
<1>1. CASE TimerC2c(x)
  BY <1>1, TimerC2cPart
<1>2. CASE RecvDoor(x)
  BY <1>2, RecvDoorPart
<1>3. CASE PingTimer(x)
  BY <1>3, PingTimerPart
<1>4. CASE TimerGlobtopoFree(x)
  BY <1>4, TimerGlobtopoFreePart
<1>5. CASE EndpGone(x) \/ EndpErr(x)
  BY <1>5, EndpGonePart
<1>6. CASE FdReadyDoorsClone(x)
  BY <1>6, FdReadyDoorsClonePart
<1>7. CASE \E n \in Conn : Recv(x, n) \/ PeerErr(x, n)
  <2> PICK n \in Conn : Recv(x, n) \/ PeerErr(x, n)
    BY <1>7
  <2>1. CASE Recv(x, n)
    BY <2>1, RecvPart
  <2>2. CASE PeerErr(x, n)
    BY <2>2, PeerErrPart
  <2> QED BY <2>1, <2>2
<1> QED BY <1>1, <1>2, <1>3, <1>4, <1>5, <1>6, <1>7 DEF PeerSwitchStep

LEMMA PeerStep ==
  PeerInv /\ [PeerNext]_w => PeerInv'
<1> SUFFICES ASSUME PeerInv, [PeerNext]_w PROVE PeerInv'
  OBVIOUS
<1>1. CASE AddSat
  BY <1>1, AddSatPart
<1>2. CASE TimerRestart
  BY <1>2, TimerRestartPart
<1>3. CASE PeerConnect
  BY <1>3, PeerConnectPart
<1>4. CASE DoorConnect
  BY <1>4, DoorConnectPart
<1>5. ASSUME NEW x \in Side, PeerSwitchStep(x) \/ DelSat(x) PROVE PeerInv'
  <2>1. CASE PeerSwitchStep(x)
    BY <2>1, SwitchStepPart
  <2>2. CASE DelSat(x)
    BY <2>2, DelSatPart
  <2> QED BY <1>5, <2>1, <2>2
<1>6. ASSUME NEW d \in Conn, DoorHello(d) \/ DoorReply(d) \/ Reset(d) PROVE PeerInv'
  <2>1. CASE DoorHello(d)
    BY <2>1, DoorHelloPart
  <2>2. CASE DoorReply(d)
    BY <2>2, DoorReplyPart
  <2>3. CASE Reset(d)
    BY <2>3, ResetPart
  <2> QED BY <1>6, <2>1, <2>2, <2>3
<1>7. ASSUME NEW d \in Conn, NEW x \in Side, TrafficErr(x, d) \/ Muc2cEnds(x, d)
      PROVE  PeerInv'
  <2>1. CASE TrafficErr(x, d)
    BY <2>1, TrafficErrPart
  <2>2. CASE Muc2cEnds(x, d)
    BY <2>2, Muc2cEndsPart
  <2> QED BY <1>7, <2>1, <2>2
<1>8. CASE UNCHANGED w
  BY <1>8 DEF PeerInv
<1> QED BY <1>1, <1>2, <1>3, <1>4, <1>5, <1>6, <1>7, <1>8 DEF PeerNext

\* The pool the doors begin with has every index once.
LEMMA FirstPool ==
  LET pool == [i \in 1 .. MAX_C2C_IDX - 1 |-> i]
  IN  pool \in Seq(FreeIdx) /\ PoolOk(0, pool)
<1> DEFINE pool == [i \in 1 .. MAX_C2C_IDX - 1 |-> i]
<1>1. MAX_C2C_IDX - 1 \in Nat
  BY C2cAssumption
<1>2. pool \in Seq(FreeIdx) /\ Len(pool) = MAX_C2C_IDX - 1
  BY <1>1 DEF FreeIdx
<1>3. \A i \in 1 .. Len(pool) : pool[i] = i
  BY <1>2
<1> HIDE DEF pool
<1>4. PoolOk(0, pool)
  BY <1>1, <1>2, <1>3 DEF PoolOk, FreeIdx
<1> QED BY <1>2, <1>4 DEF pool

LEMMA FirstState ==
  PeerInit => PeerInv
<1> SUFFICES ASSUME PeerInit PROVE Good(w)
  BY DEF PeerInv
<1> DEFINE pool == [i \in 1 .. MAX_C2C_IDX - 1 |-> i]
           k0 == [open |-> {}, cut |-> FALSE, q |-> [x \in Side |-> <<>>]]
           t0 == [end |-> [x \in Side |-> "none"], ctx |-> {}, msg |-> "none", idx |-> 0]
<1>0. /\ "m" \in Side /\ "s" \in Side
      /\ pool \in Seq(FreeIdx) /\ PoolOk(0, pool)
  BY Sides, FirstPool
<1>1. /\ w.c = [x \in Side |-> NoC2c] /\ w.mu = [x \in Side |-> NoMu]
      /\ w.ping = [x \in Side |-> 0] /\ w.stop = [x \in Side |-> <<>>]
      /\ w.restart = 0 /\ w.door = [x \in Side |-> NoDoor]
      /\ w.pool = [x \in Side |-> pool] /\ w.up = [x \in Side |-> <<>>]
      /\ w.conn = [n \in Conn |-> k0] /\ w.tr = [d \in Conn |-> t0]
      /\ w.nadd = 0 /\ w.nconn = 0 /\ w.ntr = 0 /\ w.nupset = 0
  BY DEF PeerInit
<1>2. w = [c |-> w.c, mu |-> w.mu, ping |-> w.ping, stop |-> w.stop, restart |-> w.restart,
           door |-> w.door, pool |-> w.pool, up |-> w.up, conn |-> w.conn, tr |-> w.tr,
           nadd |-> w.nadd, nconn |-> w.nconn, ntr |-> w.ntr, nupset |-> w.nupset]
  BY DEF PeerInit
<1> HIDE DEF pool
<1>3. w.c \in Links
  BY <1>0, <1>1, NoRecords DEF Links
<1>4. NoDoor \in DoorRec /\ NoDoor.idx = 0 /\ 0 \in Llid
  BY C2cAssumption DEF NoDoor, DoorRec, Idx, Llid
<1>5. k0 \in Chan /\ Idle(k0)
  <2>1. \A x \in Side : <<>> \in Seq(To(x)) /\ <<>> \in Seq(ToMaster \cup ToSlave)
    OBVIOUS
  <2>2. [x \in Side |-> <<>>] \in Queues
    BY <2>1 DEF Queues
  <2> QED BY <1>0, <2>2 DEF Chan, Idle
<1>6. t0 \in Traffic
  BY C2cAssumption DEF Traffic, Idx
<1> HIDE DEF k0, t0
<1>7. w \in State
  <2>1. w.mu \in [Side -> Endp] /\ w.ping \in [Side -> Nat] /\ w.stop \in [Side -> Seq(Llid)]
    BY <1>1, NoRecords
  <2>2. w.door \in [Side -> DoorRec] /\ w.pool \in [Side -> Seq(FreeIdx)] /\ w.up \in [Side -> Seq(Ans)]
    BY <1>0, <1>1, <1>4
  <2>3. w.conn \in [Conn -> Chan] /\ w.tr \in [Conn -> Traffic]
    BY <1>1, <1>5, <1>6
  <2>4. w.restart \in Nat /\ w.nadd \in Nat /\ w.nconn \in Llid /\ w.ntr \in Llid /\ w.nupset \in Nat
    BY <1>1, <1>4
  <2> QED BY <1>2, <1>3, <2>1, <2>2, <2>3, <2>4 DEF State
<1>8. \A x \in Side : Local(w, x)
  BY <1>0, <1>1, <1>4, NoRecords DEF Local, Weak, Watch, Stopped, Exists
<1>9. Linked(w)
  <2>1. w.c["m"].llid = 0 /\ w.c["s"].llid = 0 /\ ~w.c["m"].con
    BY <1>0, <1>1, NoRecords
  <2>2. \A n \in Conn : Idle(w.conn[n])
    BY <1>1, <1>5
  <2>3. OneIdx(w.up["m"])
    BY <1>0, <1>1 DEF OneIdx
  <2>4. ~HasIdx(w.up["m"])
    BY <1>0, <1>1 DEF HasIdx
  <2> QED BY <1>1, <2>1, <2>2, <2>3, <2>4 DEF Linked
<1>10. Says(w)
  BY <1>0, <1>1, NoRecords DEF Says
<1> QED BY <1>7, <1>8, <1>9, <1>10, SharedParts DEF Good

-----------------------------------------------------------------------------
\* What the invariant says of the properties.

LEMMA PeerInvOwner ==
  PeerInv => EndpHasOwner
<1> SUFFICES ASSUME PeerInv PROVE EndpHasOwner
  OBVIOUS
<1>1. w \in State /\ \A x \in Side : Weak(w, x) /\ Stopped(w, x)
  BY Parts
<1>2. PeerTypeOK
  <2>1. \A x \in Side : /\ w.c[x].st \in States /\ w.c[x].llid \in Llid
                        /\ w.c[x].count \in 0 .. MAX_PING + 1
                        /\ w.c[x].timer \in {"none", "try", "idx", "create", "conx"}
    BY <1>1, LinkType DEF Link
  <2>2. \A x \in Side : w.mu[x] \in Endp /\ w.door[x] \in DoorRec
    BY <1>1, Tables
  <2>3. \A x \in Side : w.ping[x] \in Nat /\ w.stop[x] \in Seq(Llid)
    BY <1>1, Tables
  <2>4. w.restart \in Nat
    BY <1>1, Tables
  <2>5. \A x \in Side : w.mu[x].st \in {"none", "wait", "ready", "born"} /\ w.door[x].idx \in Idx
    BY <2>2 DEF Endp, DoorRec
  <2> QED BY <2>1, <2>3, <2>4, <2>5 DEF PeerTypeOK, Llid, Idx
<1> QED BY <1>1, <1>2 DEF EndpHasOwner, Weak, Stopped

LEMMA PeerInvWatched ==
  PeerInv => Watched
BY Parts DEF Watched, Watch

\* A pool without duplicates is as long as the set of its indexes is large.
LEMMA PoolSize ==
  ASSUME NEW pool \in Seq(FreeIdx), NEW idx, PoolOk(idx, pool)
  PROVE  Cardinality({pool[i] : i \in DOMAIN pool}) = Len(pool)
<1> DEFINE free == {pool[i] : i \in DOMAIN pool}
           f == [i \in 1 .. Len(pool) |-> pool[i]]
<1>1. Len(pool) \in Nat /\ DOMAIN pool = 1 .. Len(pool)
  OBVIOUS
<1>2. f \in Bijection(1 .. Len(pool), free)
  <2>1. f \in [1 .. Len(pool) -> free]
    BY <1>1
  <2>2. \A i, j \in 1 .. Len(pool) : f[i] = f[j] => i = j
    BY DEF PoolOk
  <2>3. \A v \in free : \E i \in 1 .. Len(pool) : f[i] = v
    BY <1>1
  <2> HIDE DEF f, free
  <2> QED BY <2>1, <2>2, <2>3 DEF Bijection, Injection, Surjection, IsInjective
<1>3. IsFiniteSet(1 .. Len(pool)) /\ Cardinality(1 .. Len(pool)) = Len(pool)
  BY <1>1, FS_Interval
<1> HIDE DEF f, free
<1>4. Cardinality(free) = Cardinality(1 .. Len(pool))
  BY <1>2, <1>3, FS_Bijection DEF ExistsBijection
<1> QED BY <1>3, <1>4 DEF free

LEMMA PeerInvHeld ==
  PeerInv => IndexHeldOnce
<1> SUFFICES ASSUME PeerInv, NEW x \in Side
             PROVE  LET held == IF w.door[x].idx = 0 THEN {} ELSE {w.door[x].idx}
                        free == {w.pool[x][i] : i \in DOMAIN w.pool[x]}
                    IN  /\ held # {} => Exists(w, x)
                        /\ held \cap free = {} /\ held \cup free = 1 .. MAX_C2C_IDX - 1
                        /\ Cardinality(free) = Len(w.pool[x])
  BY DEF IndexHeldOnce
<1> DEFINE held == IF w.door[x].idx = 0 THEN {} ELSE {w.door[x].idx}
           free == {w.pool[x][i] : i \in DOMAIN w.pool[x]}
<1>1. w \in State /\ Weak(w, x) /\ w.pool[x] \in Seq(FreeIdx) /\ w.door[x] \in DoorRec
  BY Parts, Tables
<1>2. PoolOk(w.door[x].idx, w.pool[x]) /\ (w.door[x].idx # 0 => Exists(w, x))
  BY <1>1 DEF Weak
<1>3. w.door[x].idx \in Idx
  BY <1>1 DEF DoorRec
<1>4. DOMAIN w.pool[x] = 1 .. Len(w.pool[x]) /\ \A i \in 1 .. Len(w.pool[x]) : w.pool[x][i] \in FreeIdx
  BY <1>1
<1>5. held \cap free = {}
  BY <1>2, <1>4 DEF PoolOk
<1>6. held \cup free = FreeIdx
  <2>1. held \subseteq FreeIdx
    BY <1>3, C2cAssumption DEF Idx, FreeIdx
  <2>2. free \subseteq FreeIdx
    BY <1>4
  <2>3. FreeIdx \subseteq held \cup free
    <3> SUFFICES ASSUME NEW v \in FreeIdx PROVE v \in held \cup free
      OBVIOUS
    <3>1. v = w.door[x].idx \/ \E i \in 1 .. Len(w.pool[x]) : w.pool[x][i] = v
      BY <1>2 DEF PoolOk
    <3>2. v # 0
      BY DEF FreeIdx
    <3> QED BY <1>4, <3>1, <3>2
  <2> QED BY <2>1, <2>2, <2>3
<1>7. Cardinality(free) = Len(w.pool[x])
  BY <1>1, <1>2, PoolSize
<1> QED BY <1>2, <1>5, <1>6, <1>7 DEF FreeIdx

LEMMA PeerInvAgree ==
  PeerInv => IndexesAgree
<1> SUFFICES ASSUME PeerInv PROVE IndexesAgree
  OBVIOUS
<1>1. Shared(w) /\ IndexHeldOnce
  BY Parts, PeerInvHeld
<1>2. \A v, i : LastSays(<<>>, v, i) => v = 0 \/ v = i
  <2>1. Len(<<>>) = 0
    OBVIOUS
  <2> QED BY <2>1 DEF LastSays
<1>3. w.up["s"] = <<>> => ~HasIdx(w.up["s"])
  BY DEF HasIdx
<1> QED BY <1>1, <1>2, <1>3 DEF IndexesAgree, Shared, Works

\* PeerInv holds in every behaviour of the two switches (c2c.c, c2c_utils.c,
\* endp_mngt.c) and their doors, whatever is cut, lost or deleted.
THEOREM PeerInvariant ==
  PeerSpec => []PeerInv
BY FirstState, PeerStep, PTL DEF PeerSpec

\* A link has its endpoint, so that c2c_create_master_begin never makes a second
\* record of one name, and an endpoint whose link was freed will be stopped.
THEOREM EndpHasOwnerHolds ==
  PeerSpec => []EndpHasOwner
BY PeerInvariant, PeerInvOwner, PTL

\* A link of c2c.c that has a connection has its own timer or a ping timer, which
\* will find the connection lost.
THEOREM WatchedHolds ==
  PeerSpec => []Watched
BY PeerInvariant, PeerInvWatched, PTL

\* Two ends with a working connection agree on the indexes their doors join, and
\* the doors neither lose an index of their pool nor give it twice.
THEOREM IndexesAgreeHolds ==
  PeerSpec => []IndexesAgree
BY PeerInvariant, PeerInvAgree, PTL

=============================================================================
