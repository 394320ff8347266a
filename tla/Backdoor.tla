------------------------------ MODULE Backdoor ------------------------------
(***************************************************************************)
(* How the agent inside a machine is started and reached.  The switch      *)
(* types at the console of the guest until a shell answers, starts the     *)
(* agent from there and hears from it which port it uses (qhvc0.c).  It    *)
(* tells the doors, which ping the agent over that port and say when it    *)
(* is lost (doorways/src/llid_backdoor.c).  The port is a virtio port the  *)
(* doors open themselves, or the console itself: then the switch relays    *)
(* it over connections the doors make (hvc).                               *)
(*                                                                         *)
(* One machine name, created several times.  The doors process may die;    *)
(* doorways_mngt.c starts it again.                                        *)
(*                                                                         *)
(* Abstractions.  What the guest writes is received at once; a command of  *)
(* the switch waits in the guest.  Delays are left out: any armed timer    *)
(* may expire, but the timers of a machine have expired, and the ends of   *)
(* its connections are noticed, when its name comes back.  What is slower  *)
(* than a timer many times longer is a fault, see Fault.  Two PING_KO in a *)
(* row are one.  Channel numbers are not used again while a table has      *)
(* them.  The traffic of the clients, reboot, halt and freeze requests and *)
(* statistics are left out, and backdoor_connected, which nothing reads.   *)
(***************************************************************************)
EXTENDS Integers, Sequences, FiniteSets

CONSTANTS
    Port,            \* the ports a guest may have: a subset of {"vport", "hvc"}
    MAX_FAIL,        \* 25: heartbeats without a word of the agent
    MaxHvc,          \* bound: relay connections at a time
    MaxQueue,        \* bound: messages on their way, each way
    MaxLife,         \* bound: machines of the name
    MaxFault         \* bound: faults, see Fault

ASSUME BackdoorAssumption ==
    /\ Port \subseteq {"vport", "hvc"} /\ Port # {}
    /\ {MAX_FAIL, MaxHvc, MaxQueue} \subseteq Nat \ {0}
    /\ {MaxLife, MaxFault} \subseteq Nat

VARIABLES
    vm,              \* t_vm: its state and VM_FLAG_CLOONIX_AGENT_PING_OK
    cvm,             \* t_qhvc0_vm of the switch
    guest,           \* qemu, the shell of its console and the agent
    ctl,             \* the connection between switch and doors
    bvm,             \* t_backdoor_vm of the doors, its timers and its client
    hvc,             \* the relay connections
    aux              \* counters, and what happened

vars == <<vm, cvm, guest, ctl, bvm, hvc, aux>>

Hvc == 1 .. MaxHvc

NoCvm == [on |-> FALSE, timer |-> FALSE, ready |-> FALSE, con |-> FALSE,
          read |-> FALSE, hb |-> FALSE, auto |-> "min", t2 |-> 0,
          handshake |-> FALSE, listen |-> FALSE, door |-> 0]
NoGuest == [on |-> FALSE, todo |-> {}, starting |-> FALSE, agent |-> "none",
            port |-> "vport", sent |-> FALSE]
NoBvm == [on |-> FALSE, life |-> 0, llid |-> "none", hvc |-> 0, used |-> FALSE,
          up |-> FALSE, ping |-> "no", fail |-> 0, fresh |-> FALSE,
          connect |-> FALSE, hb |-> FALSE, release |-> FALSE]
NoCtl == [up |-> FALSE, cmds |-> <<>>, evts |-> <<>>]

Init ==
    /\ vm = [st |-> "none", ok |-> FALSE]
    /\ cvm = NoCvm
    /\ guest = NoGuest
    /\ ctl = [NoCtl EXCEPT !.up = TRUE]
    /\ bvm = NoBvm
    /\ hvc = [n \in Hvc |-> [door |-> "none", sw |-> "none"]]
    /\ aux = [life |-> 0, fault |-> 0, broken |-> FALSE]

\* What goes wrong outside of the two processes, a bounded number of times.
Fault == aux.fault < MaxFault /\ aux' = [aux EXCEPT !.fault = @ + 1]
\* One that the code does not recover from.
Breaks ==
    /\ aux.fault < MaxFault
    /\ aux' = [aux EXCEPT !.fault = @ + 1, !.broken = TRUE]

-----------------------------------------------------------------------------
\* Messages between the switch and the doors; none passes while the doors are
\* away.

Tell(c, msgs) == IF c.up THEN [c EXCEPT !.cmds = @ \o msgs] ELSE c

AddVm(path) == [k |-> "add", path |-> path, life |-> aux.life]
Cmd(k) == [k |-> k]

Event(c, e) ==
    IF e = "ko" /\ c.evts # <<>> /\ c.evts[Len(c.evts)] = "ko" THEN c
    ELSE [c EXCEPT !.evts = Append(@, e)]

\* The bound on the messages on their way.
Room == Len(ctl'.evts) <= MaxQueue /\ Len(ctl'.cmds) <= MaxQueue

\* working_backdoor_llid and working_backdoor_hvc0_llid
Working(b) ==
    IF b.used THEN b.hvc # 0 /\ hvc[b.hvc].door = "open" ELSE b.llid = "open"

\* Whether a ping gets to the agent, and its answer back.
PingArrives ==
    /\ guest.agent = "run" /\ bvm.life = aux.life
    /\ IF bvm.used THEN guest.port = "hvc" /\ cvm.con /\ hvc[bvm.hvc].sw = "open"
       ELSE guest.port = "vport"
AgentHeard ==
    /\ guest.agent = "run" /\ Working(bvm) /\ bvm.life = aux.life
    /\ IF bvm.used THEN /\ guest.port = "hvc" /\ cvm.con
                        /\ cvm.auto = "hvc" /\ cvm.door = bvm.hvc
       ELSE guest.port = "vport"

-----------------------------------------------------------------------------
\* The automaton of the switch: qhvc0.c

UpVport == <<Cmd("up_vport")>>
UpHvc == <<Cmd("up_hvc"), AddVm("hvc")>>

\* entry_in_state_automaton_1: back to the shell.
Restarted(c) == [c EXCEPT !.auto = "first_try"]

\* Mutant: arm_cloonix_agent_handshake_timeout is not called.
Waiting_NotArmed(c, st) == [c EXCEPT !.auto = st]

\* entry_in_state_automaton_3 and 4 wait for the agent, for some time.
Waiting(c, st) == [c EXCEPT !.auto = st, !.handshake = TRUE]

\* vm_rx_cb and qhvc0_rx: the guest, now g, has written tok on its console.
\* Its first word starts the heartbeat.
Rx(g, tok) ==
    LET c == IF cvm.read THEN cvm
             ELSE [Restarted(cvm) EXCEPT !.read = TRUE, !.hb = TRUE]
        To(st) == cvm' = [c EXCEPT !.auto = st]
        ToWait(st) == cvm' = Waiting(c, st)
    IN  \/ ~cvm.con /\ guest' = g /\ UNCHANGED <<cvm, ctl>>
        \/ /\ cvm.con /\ c.auto = "first_try" /\ tok = "ls"
           /\ cvm' = [c EXCEPT !.auto = "after_first", !.t2 = @ + 1]
           /\ guest' = g /\ UNCHANGED ctl
        \/ /\ cvm.con /\ c.auto = "launch" /\ tok = "up"
           /\ ToWait("agent_req") /\ guest' = g /\ UNCHANGED ctl
        \/ /\ cvm.con /\ c.auto = "agent_req" /\ tok = "req_vport"
           /\ To("vport") /\ guest' = g /\ ctl' = Tell(ctl, UpVport)
        \/ /\ cvm.con /\ c.auto = "agent_req" /\ tok = "req_hvc"
           /\ ToWait("wait_hvc") /\ UNCHANGED ctl
           /\ guest' = [g EXCEPT !.todo = @ \cup {"resp"}]
        \/ /\ cvm.con /\ c.auto = "wait_hvc" /\ tok = "ack" /\ guest' = g
           /\ \/ cvm' = [c EXCEPT !.auto = "hvc", !.listen = TRUE]
                 /\ ctl' = Tell(ctl, UpHvc)
              \/ To("failure") /\ UNCHANGED ctl
        \/ /\ cvm.con /\ guest' = g /\ cvm' = c /\ UNCHANGED ctl
           /\ <<c.auto, tok>> \notin
                {<<"first_try", "ls">>, <<"launch", "up">>, <<"agent_req", "req_vport">>,
                 <<"agent_req", "req_hvc">>, <<"wait_hvc", "ack">>}

\* qhvc0_begin_qemu_unix and doors_send_add_vm of the creation.
Create ==
    /\ vm.st = "none" /\ aux.life < MaxLife
    /\ ctl.cmds = <<>> /\ ~bvm.release
    /\ \A n \in Hvc : hvc[n].door = "none" <=> hvc[n].sw = "none"
    /\ vm' = [st |-> "live", ok |-> FALSE]
    /\ cvm' = [NoCvm EXCEPT !.on = TRUE, !.timer = TRUE]
    /\ ctl' = Tell(ctl, <<[AddVm("vport") EXCEPT !.life = @ + 1]>>)
    /\ aux' = [aux EXCEPT !.life = @ + 1]
    /\ UNCHANGED <<guest, bvm, hvc>>

\* vm_release: relays other than the last keep a pointer to the record.
SwitchReleased ==
    [n \in Hvc |-> [hvc[n] EXCEPT !.sw =
        IF n = cvm.door \/ @ = "pending" THEN "none"
        ELSE IF @ = "open" THEN "stale" ELSE @]]

\* machine_death
MachineDeath ==
    /\ vm.st = "live"
    /\ vm' = [vm EXCEPT !.st = "dying"]
    /\ ctl' = Tell(ctl, <<Cmd("del")>>)
    /\ cvm' = NoCvm
    /\ hvc' = SwitchReleased
    /\ UNCHANGED <<guest, bvm, aux>>

\* cfg_unset_vm, once qemu has ended.
Unset ==
    /\ vm.st = "dying" /\ ~guest.on
    /\ vm' = [st |-> "none", ok |-> FALSE]
    /\ UNCHANGED <<cvm, guest, ctl, bvm, hvc, aux>>

\* timer_cvm_connect_qhvc0 waits for the pid of qemu, waits again, connects: once.
TimerConnect ==
    /\ cvm.timer /\ guest.on
    /\ \/ ~cvm.ready /\ cvm' = [cvm EXCEPT !.ready = TRUE] /\ UNCHANGED aux
       \/ /\ cvm.ready
          /\ \/ cvm' = [cvm EXCEPT !.timer = FALSE, !.con = TRUE] /\ UNCHANGED aux
             \/ cvm' = [cvm EXCEPT !.timer = FALSE] /\ Breaks
    /\ UNCHANGED <<vm, guest, ctl, bvm, hvc>>

\* err_llid_retry does not try again.
ConsoleErr ==
    /\ cvm.con
    /\ IF guest.on THEN Breaks ELSE UNCHANGED aux
    /\ cvm' = [cvm EXCEPT !.con = FALSE, !.hb = FALSE]
    /\ UNCHANGED <<vm, guest, ctl, bvm, hvc>>

\* timer_ga_heartbeat of the switch types a command, and again when it got no
\* answer for so many heartbeats: while the script runs only by a fault.
TimerHeartbeat ==
    /\ cvm.hb /\ cvm.con
    /\ cvm.auto \in {"first_try", "launch"}
    /\ guest' = [guest EXCEPT !.todo =
                    @ \cup {IF cvm.auto = "launch" THEN "start" ELSE "ls"}]
    /\ IF cvm.auto = "launch" /\ guest.starting THEN Fault ELSE UNCHANGED aux
    /\ UNCHANGED <<vm, cvm, ctl, bvm, hvc>>

\* timer_entry_in_state_automaton_2
TimerAutomaton2 ==
    /\ cvm.t2 > 0
    /\ cvm' = [cvm EXCEPT !.t2 = @ - 1,
                          !.auto = IF @ = "after_first" THEN "launch" ELSE @]
    /\ UNCHANGED <<vm, guest, ctl, bvm, hvc, aux>>

\* cloonix_handshake_timeout with the id of the last one armed.  It takes thirty
\* seconds: it expires while the guest, a message or a ping is under way
\* only by a fault.
Early ==
    \/ cvm.auto \in {"agent_req", "wait_hvc"} /\ guest.agent \in {"new", "ask"}
    \/ ctl.cmds \o ctl.evts # <<>>
    \/ bvm.up /\ AgentHeard /\ ~bvm.fresh

\* Mutant: timeout_cloonix_agent_handshake is left.
HandshakeTimeout_KeepsFlag ==
    /\ cvm.handshake
    /\ IF Early THEN Fault ELSE UNCHANGED aux
    /\ cvm' = IF cvm.auto \in {"vport", "hvc"} THEN cvm ELSE Restarted(cvm)
    /\ UNCHANGED <<vm, guest, ctl, bvm, hvc>>

HandshakeTimeout ==
    /\ cvm.handshake
    /\ IF Early THEN Fault ELSE UNCHANGED aux
    /\ LET c == [cvm EXCEPT !.handshake = FALSE]
       IN  cvm' = IF cvm.auto \in {"vport", "hvc"} THEN c ELSE Restarted(c)
    /\ UNCHANGED <<vm, guest, ctl, bvm, hvc>>

\* doors_recv_event and qhvc0_event_backdoor
PingKoRestarts ==
    /\ cvm.auto \notin {"launch", "first_try", "after_first"}
    /\ ~cvm.handshake

RecvEvent ==
    /\ ctl.evts # <<>>
    /\ LET e == Head(ctl.evts)
           k == [ctl EXCEPT !.evts = Tail(@)]
       IN  \/ ~cvm.on /\ ctl' = k /\ UNCHANGED <<vm, cvm>>
           \/ /\ cvm.on /\ vm' = [vm EXCEPT !.ok = (e = "ok")]
              /\ IF e = "ko" /\ PingKoRestarts
                 THEN cvm' = Restarted(cvm) /\ ctl' = Tell(k, <<Cmd("down")>>)
                 ELSE ctl' = k /\ UNCHANGED cvm
    /\ Room
    /\ UNCHANGED <<guest, bvm, hvc, aux>>

\* Mutant: the relay of the console is forgotten.
Reinit_Vport == IF cvm.auto = "vport" THEN UpVport ELSE <<>>

\* What qhvc0_reinit_vm_in_doorways adds for the port in use.
Reinit ==
    CASE cvm.auto = "vport" -> UpVport
      [] cvm.auto = "hvc" -> UpHvc
      [] OTHER -> <<>>

\* doorways_err_cb, timer_doorways_connect and qhvc0_reinit_vm_in_doorways.  The
\* server ends after a hundred connections that fail: left out.
DoorsRestart ==
    /\ ~ctl.up
    /\ LET k == [NoCtl EXCEPT !.up = TRUE]
       IN  ctl' = IF cvm.on THEN Tell(k, <<AddVm("vport")>> \o Reinit) ELSE k
    /\ cvm' = IF cvm.on /\ cvm.auto \notin {"vport", "hvc"} THEN Restarted(cvm) ELSE cvm
    /\ UNCHANGED <<vm, guest, bvm, hvc, aux>>

\* door2ag_fd_event_cb: the last relay is the one that is used.
RelayAccept(n) ==
    /\ hvc[n].sw = "pending"
    /\ hvc' = [hvc EXCEPT ![n].sw = "open"]
    /\ cvm' = [cvm EXCEPT !.door = n]
    /\ UNCHANGED <<vm, guest, ctl, bvm, aux>>

\* rx_door2ag_cb at the end of a relay, whichever it is.
RelayErr(n) ==
    /\ hvc[n].sw \in {"open", "stale"} /\ hvc[n].door = "none"
    /\ hvc' = [hvc EXCEPT ![n].sw = "none"]
    /\ cvm' = IF hvc[n].sw = "open" THEN [cvm EXCEPT !.door = 0] ELSE cvm
    /\ UNCHANGED <<vm, guest, ctl, bvm, aux>>

-----------------------------------------------------------------------------
\* The guest: the shell of the console, and the agent (cloonix_agent.c,
\* use_hvc_console.c).

GuestBoots ==
    /\ vm.st = "live" /\ cvm.timer /\ ~guest.on
    /\ \E p \in Port : guest' = [NoGuest EXCEPT !.on = TRUE, !.port = p]
    /\ UNCHANGED <<vm, cvm, ctl, bvm, hvc, aux>>

QemuEnds ==
    /\ guest.on /\ ~cvm.timer
    /\ IF vm.st = "dying" THEN UNCHANGED aux ELSE Breaks
    /\ guest' = NoGuest
    /\ UNCHANGED <<vm, cvm, ctl, bvm, hvc>>

\* The prompt that answers the first line typed.
ShellPrompt ==
    /\ guest.on /\ cvm.con /\ ~cvm.read
    /\ Rx(guest, "prompt")
    /\ UNCHANGED <<vm, bvm, hvc, aux>>

ShellLs ==
    /\ guest.on /\ "ls" \in guest.todo
    /\ Rx([guest EXCEPT !.todo = @ \ {"ls"}], "ls")
    /\ UNCHANGED <<vm, bvm, hvc, aux>>

\* The script kills the agent and starts another.
ShellStarts ==
    /\ guest.on /\ "start" \in guest.todo
    /\ guest' = [guest EXCEPT !.todo = @ \ {"start"}, !.starting = TRUE,
                              !.agent = "new", !.sent = FALSE]
    /\ UNCHANGED <<vm, cvm, ctl, bvm, hvc, aux>>

ShellUp ==
    /\ guest.starting
    /\ Rx([guest EXCEPT !.starting = FALSE], "up")
    /\ UNCHANGED <<vm, bvm, hvc, aux>>

\* An agent on the console competes with the shell for what is typed.
ConsoleStolen ==
    /\ guest.port = "hvc" /\ guest.agent \in {"ask", "run"}
    /\ \E t \in guest.todo : guest' = [guest EXCEPT !.todo = @ \ {t}]
    /\ UNCHANGED <<vm, cvm, ctl, bvm, hvc, aux>>

\* use_hvc_console: the request for the virtio port is written once, after two
\* seconds: before the script has ended only by a fault.
AgentAsks ==
    /\ guest.agent \in {"new", "ask"}
    /\ IF guest.starting THEN Fault ELSE UNCHANGED aux
    /\ \/ guest.port = "vport" /\ Rx([guest EXCEPT !.agent = "run"], "req_vport")
       \/ guest.port = "hvc" /\ Rx([guest EXCEPT !.agent = "ask"], "req_hvc")
    /\ UNCHANGED <<vm, bvm, hvc>>

AgentAcks ==
    /\ guest.agent = "ask" /\ "resp" \in guest.todo
    /\ Rx([guest EXCEPT !.agent = "run", !.todo = @ \ {"resp"}], "ack")
    /\ UNCHANGED <<vm, bvm, hvc, aux>>

AgentDies ==
    /\ guest.agent = "run" /\ Fault
    /\ guest' = [guest EXCEPT !.agent = "none", !.sent = FALSE]
    /\ UNCHANGED <<vm, cvm, ctl, bvm, hvc>>

-----------------------------------------------------------------------------
\* The doors: llid_backdoor.c and llid_traffic.c

\* llid_backdoor_cloonix_down_and_not_running
Down(b) == [b EXCEPT !.connect = FALSE, !.up = FALSE]

\* The end of the process: its connections close.
Dies ==
    /\ ctl' = NoCtl
    /\ bvm' = NoBvm
    /\ hvc' = [n \in Hvc |-> [hvc[n] EXCEPT !.door = "none"]]

DoorsCrash ==
    /\ ctl.up /\ Fault /\ Dies
    /\ UNCHANGED <<vm, cvm, guest>>

\* action_bvm_connect_backdoor; giving up after 30 tries is a fault.  Once the
\* doors use a relay the code keeps this channel in the place of the relay's
\* (llid_setup); here the two are kept apart.
Connect(b) ==
    IF b.llid = "none" /\ guest.on /\ b.life = aux.life
    THEN bvm' = [b EXCEPT !.llid = "open", !.connect = FALSE] /\ UNCHANGED aux
    ELSE IF b.llid = "open" THEN bvm' = [b EXCEPT !.connect = FALSE] /\ UNCHANGED aux
    ELSE \/ bvm' = [b EXCEPT !.connect = TRUE] /\ UNCHANGED aux
         \/ bvm' = [b EXCEPT !.connect = FALSE] /\ Breaks

\* llid_backdoor_begin_unix: a record that is there, and does not use the
\* console, ignores the path.  plug_to_backdoor_hvc0_llid forgets the relay it
\* had without closing it.
Free(n) == hvc[n] = [door |-> "none", sw |-> "none"] /\ n # bvm.hvc
Begin(c) ==
    IF ~bvm.on
    THEN Connect([NoBvm EXCEPT !.on = TRUE, !.life = c.life, !.hb = TRUE])
         /\ UNCHANGED hvc
    ELSE IF bvm.used /\ c.path = "hvc" /\ cvm.listen
    THEN \E n \in Hvc : /\ Free(n) /\ \A i \in 1 .. n - 1 : ~Free(i)
                        /\ hvc' = [hvc EXCEPT ![n] = [door |-> "open", sw |-> "pending"]]
                        /\ bvm' = [bvm EXCEPT !.hvc = n, !.up = TRUE]
                        /\ UNCHANGED aux
    ELSE UNCHANGED <<bvm, hvc, aux>>

\* differed_vm_release: the record is found again by its channel.
Deleted(b) == [b EXCEPT !.connect = FALSE, !.hb = FALSE, !.release = (b.llid # "none")]

\* doors_recv_command, doors_recv_add_vm and doors_recv_del_vm
RecvCommand ==
    /\ ctl.cmds # <<>>
    /\ LET c == Head(ctl.cmds)
           Set(b) == bvm' = b /\ UNCHANGED <<hvc, aux>>
       IN  /\ ctl' = [ctl EXCEPT !.cmds = Tail(@)]
           /\ CASE c.k = "add" -> Begin(c)
                [] c.k # "add" /\ ~bvm.on -> Set(bvm)
                [] c.k = "up_vport" /\ bvm.on ->
                       Set([bvm EXCEPT !.up = TRUE, !.used = FALSE])
                [] c.k = "up_hvc" /\ bvm.on -> Set([bvm EXCEPT !.used = TRUE])
                [] c.k = "down" /\ bvm.on -> Set(Down(bvm))
                [] c.k = "del" /\ bvm.on -> Set(Deleted(bvm))
    /\ UNCHANGED <<vm, cvm, guest>>

\* timer_bvm_connect_backdoor
TimerPlug ==
    /\ bvm.connect
    /\ Connect(bvm)
    /\ UNCHANGED <<vm, cvm, guest, ctl, hvc>>

\* timer_vm_release, vm_end_release and llid_unsetup: a relay that is not in use
\* stays open and keeps a pointer to the record.
TimerRelease ==
    /\ bvm.release
    /\ bvm' = NoBvm
    /\ hvc' = [n \in Hvc |-> [hvc[n] EXCEPT !.door =
                  IF bvm.used /\ n = bvm.hvc THEN "none"
                  ELSE IF @ = "open" THEN "lost" ELSE @]]
    /\ UNCHANGED <<vm, cvm, guest, ctl, aux>>

\* timer_ga_heartbeat and action_ga_heartbeat_on_working_llid; an agent that has
\* the ping and can be heard stays silent that long only by a fault.
TimerPing ==
    /\ bvm.hb /\ bvm.up /\ Working(bvm)
    /\ LET fail == IF bvm.fresh THEN 0 ELSE bvm.fail + 1
           b == [bvm EXCEPT !.fresh = FALSE, !.fail = fail]
       IN  IF fail <= MAX_FAIL THEN bvm' = b /\ UNCHANGED <<ctl, aux>>
           ELSE /\ bvm' = [b EXCEPT !.fail = 0, !.ping = "ko"]
                /\ ctl' = Event(ctl, "ko")
                /\ IF guest.sent /\ AgentHeard THEN Fault ELSE UNCHANGED aux
    /\ guest' = [guest EXCEPT !.sent = PingArrives]
    /\ Room
    /\ UNCHANGED <<vm, cvm, hvc>>

\* rx_from_agent_conclusion: the answer to the last ping, wanted or not.
Pong ==
    /\ guest.sent /\ AgentHeard
    /\ guest' = [guest EXCEPT !.sent = FALSE]
    /\ bvm' = [bvm EXCEPT !.ping = "ok", !.fresh = TRUE]
    /\ ctl' = IF bvm.ping = "ok" THEN ctl ELSE Event(ctl, "ok")
    /\ Room
    /\ UNCHANGED <<vm, cvm, hvc, aux>>

\* rx_pktbuf_get_paylen: the doors themselves consider the agent down.
SyncLost ==
    /\ AgentHeard /\ Breaks
    /\ bvm' = [Down(bvm) EXCEPT !.ping = "ko"]
    /\ ctl' = Event(ctl, "ko")
    /\ Room
    /\ UNCHANGED <<vm, cvm, guest, hvc>>

\* vm_rx_cb and vm_err_cb when qemu closes the virtio port: it is not opened again.
PlugErr ==
    /\ bvm.llid = "open"
    /\ IF guest.on /\ bvm.life = aux.life THEN Breaks ELSE UNCHANGED aux
    /\ bvm' = [Down(bvm) EXCEPT !.llid = "closed"]
    /\ UNCHANGED <<vm, cvm, guest, ctl, hvc>>

\* vm_rx_cb when the switch closes a relay, of the record or of a freed one:
\* then the name it reads is any.
RelayEnds(n) ==
    /\ hvc[n].door \in {"open", "lost"} /\ hvc[n].sw = "none"
    /\ hvc' = [hvc EXCEPT ![n].door = "none"]
    /\ \/ bvm' = IF bvm.on THEN Down(bvm) ELSE bvm
       \/ hvc[n].door = "lost" /\ UNCHANGED bvm
    /\ UNCHANGED <<vm, cvm, guest, ctl, aux>>

-----------------------------------------------------------------------------
SwitchStep ==
    \/ TimerConnect \/ TimerHeartbeat \/ TimerAutomaton2 \/ HandshakeTimeout
    \/ RecvEvent \/ DoorsRestart
    \/ \E n \in Hvc : RelayAccept(n) \/ RelayErr(n)

GuestStep ==
    \/ GuestBoots \/ ShellPrompt \/ ShellLs \/ ShellStarts \/ ShellUp
    \/ AgentAsks \/ AgentAcks

DoorsStep ==
    \/ RecvCommand \/ TimerPlug \/ TimerRelease \/ TimerPing \/ Pong
    \/ \E n \in Hvc : RelayEnds(n)

Next ==
    \/ Create \/ MachineDeath \/ Unset \/ SwitchStep \/ GuestStep \/ DoorsStep
    \/ ConsoleErr \/ QemuEnds \/ ConsoleStolen \/ AgentDies
    \/ DoorsCrash \/ SyncLost \/ PlugErr

Spec == Init /\ [][Next]_vars

\* The timers of both processes expire, what is sent is received, the doors are
\* started again, and the guest answers.
FairSpec ==
    /\ Spec
    /\ WF_vars(TimerConnect) /\ WF_vars(TimerHeartbeat) /\ WF_vars(TimerAutomaton2)
    /\ SF_vars(HandshakeTimeout) /\ WF_vars(RecvEvent) /\ WF_vars(DoorsRestart)
    /\ WF_vars(ShellPrompt) /\ WF_vars(ShellLs) /\ WF_vars(ShellStarts)
    /\ WF_vars(ShellUp) /\ WF_vars(AgentAsks)
    /\ WF_vars(RecvCommand) /\ WF_vars(TimerPlug) /\ WF_vars(TimerPing) /\ WF_vars(Pong)

-----------------------------------------------------------------------------
\* Properties.

Autos == {"min", "first_try", "after_first", "launch", "agent_req", "wait_hvc",
          "hvc", "vport", "failure"}

\* The records hold what their types say.
TypeOK ==
    /\ vm.st \in {"none", "live", "dying"} /\ vm.ok \in BOOLEAN
    /\ cvm.auto \in Autos /\ cvm.t2 \in Nat /\ cvm.door \in 0 .. MaxHvc
    /\ guest.agent \in {"none", "new", "ask", "run"} /\ guest.port \in {"vport", "hvc"}
    /\ bvm.llid \in {"none", "open", "closed"} /\ bvm.ping \in {"no", "ok", "ko"}
    /\ bvm.fail \in 0 .. MAX_FAIL /\ bvm.hvc \in 0 .. MaxHvc

\* Once the events are handled, what the clients are told of the agent is what
\* the doors have found out about it, since they were started.
FlagAgrees ==
    ctl.up /\ ctl.evts = <<>> /\ cvm.on /\ bvm.life = aux.life =>
        /\ bvm.ping = "ok" => vm.ok
        /\ bvm.ping = "ko" => ~vm.ok

\* Once the doors have handled their commands they know the machines the switch
\* knows, by the port the agent asked for, whenever the doors died: and they
\* forget a machine that is gone, but one they had never reached.
DoorsFollow ==
    /\ FlagAgrees
    /\ ctl.up /\ ctl.cmds = <<>> =>
        /\ cvm.on => bvm.on
        /\ cvm.auto = "vport" => ~bvm.used
        /\ cvm.auto = "hvc" => bvm.used
        /\ bvm.on /\ ~cvm.on => bvm.release \/ bvm.llid = "none"

\* While the console works, the automaton waits for nothing that a timer does
\* not end.
RetryIsDue ==
    /\ TypeOK
    /\ cvm.con /\ cvm.read =>
        /\ cvm.auto \in {"agent_req", "wait_hvc"} => cvm.handshake
        /\ cvm.auto = "after_first" => cvm.t2 > 0
        /\ cvm.auto \in {"first_try", "launch"} => cvm.hb

\* An agent on the virtio port is reached in the end, whenever the agent or the
\* doors died, were slow or raced with a timer: if the doors that run have
\* opened the port.
Undisturbed ==
    /\ cvm.on /\ guest.on /\ ~aux.broken /\ guest.port = "vport"
    /\ bvm.on => bvm.llid = "open" /\ bvm.life = aux.life
AgentReached == <>[]Undisturbed => <>[]vm.ok
=============================================================================
