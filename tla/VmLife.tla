------------------------------- MODULE VmLife -------------------------------
(***************************************************************************)
(* The life of a virtual machine in the server: from the add request to    *)
(* its answer, and from the death of the machine to the moment its name,   *)
(* its number and its directories may be used again (machine_create.c,     *)
(* qemu_automaton.c, utils_cmd_line_maker.c, cdrom_creation_clone.c,       *)
(* cfg_store.c, eventfull.c and the requests of recv_from_client.c).       *)
(*                                                                         *)
(* The whole life is driven by timers and by deaths of clones that find    *)
(* the machine BY NAME when they end, and a name is used again.  Each add  *)
(* request has a number, its "instance", so that the model can tell the    *)
(* machine a timer was armed for from the one it finds.                    *)
(*                                                                         *)
(* The handlers call each other and share one set of tables: they are      *)
(* operators from the server's state to the set of its states after the    *)
(* call.  machine_death is called by the clients, by qmp, by the watch on  *)
(* /proc and by stale timers of these: here anyone may call it any time.   *)
(***************************************************************************)
EXTENDS Integers, FiniteSets, Bags

CONSTANTS
    Name,              \* names a client may give to a machine
    MAX_VM,            \* machines are numbered 1 .. MAX_VM - 1
    MAX_ZOMBIE,        \* MAX_VM - 5 in the code: more zombies end the server
    MaxAdd,            \* bound: add requests that get a number
    MaxDeath,          \* bound: calls of machine_death from outside
    D10, D200, D400    \* delays in beats; only their order matters

\* The delays are in the order of the code's.
ASSUME VmAssumption ==
    /\ IsFiniteSet(Name)
    /\ {MAX_VM, MAX_ZOMBIE, MaxAdd, MaxDeath} \subseteq Nat /\ MAX_VM > 1
    /\ {D10, D200, D400} \subseteq Nat /\ 0 < D10 /\ D10 < D200 /\ D200 < D400

VmId == 1 .. MAX_VM - 1
Inst == 1 .. MaxAdd

\* state is that of wake_up_eths, "free" when there is none; locked_vm is set
\* and reset with it.  abort: its timer runs, and destroy_requested is set.
NoVm == [id |-> 0, inst |-> 0, state |-> "free", abort |-> FALSE,
         tbk |-> FALSE]

VARIABLES
    s,       \* the tables of the server, and the processes it started
    nadd,    \* add requests numbered so far
    ndeath,  \* calls of machine_death from outside so far
    cpkout   \* cprootfs_clone_death has left the server

vars == <<s, nadd, ndeath, cpkout>>

Init ==
    /\ s = [vm |-> [n \in Name |-> NoVm],          \* cfg.vm_head
            tab |-> {},                            \* vm_id_tab
            cursor |-> 1,                          \* glob_vm_id
            zombie |-> [n \in Name |-> 0],         \* name -> number, 0: none
            newborn |-> {},
            coherency |-> 0,                       \* glob_coherency
            qmp |-> {},          \* names with a record not asked to shut down
            timers |-> EmptyBag, clones |-> {},
            up |-> {},                             \* qemu processes that run
            pidfile |-> {},                        \* numbers with a pid file
            ans |-> [i \in Inst |-> {}],           \* what its client was told
            lost |-> {}, leaked |-> {},            \* history, see below
            kout |-> FALSE, hang |-> FALSE]
    /\ nadd = 0 /\ ndeath = 0 /\ cpkout = FALSE

-----------------------------------------------------------------------------
\* Timers, answers, processes.

\* left: the beats of a cutoff and of an erasure.  The other delays (1, 100, 500
\* and 4000 beats) are left open; a step of the automaton takes a beat at least
\* (Later).
Timer(k, n, ref, left) == [k |-> k, n |-> n, ref |-> ref, left |-> left]
Later == 1
Arm(st, k, n, ref, d) ==
    [st EXCEPT !.timers = @ (+) SetToBag({Timer(k, n, ref, d)})]
Clone(k, n, inst, id) == [k |-> k, n |-> n, inst |-> inst, id |-> id]
Launch(st, c) == [st EXCEPT !.clones = @ \cup {c}]

SendStatusKo(st, i) == [st EXCEPT !.ans[i] = @ \cup {"ko"}]
Kout(st) == [st EXCEPT !.kout = TRUE]

Exists(st, n) == st.vm[n].id # 0
Creating(st, n) == st.vm[n].state # "free"         \* wake_up_eths # NULL

\* utils_get_pid_of_machine: a process whose command line has the directory.
Running(st, id) == \E p \in st.up : p.id = id

-----------------------------------------------------------------------------
\* Numbers and zombies: cfg_store.c

\* Mutant: the zombies are not looked at.
IsZombieId_Never(st, id) == FALSE

IsZombieId(st, id) == \E n \in Name : st.zombie[n] = id

\* The numbers the cursor may stop at, and the first of them after c.
FreeIds(st) == {i \in VmId : i \notin st.tab /\ ~IsZombieId(st, i)}
NextId(st, c) ==
    LET after == {i \in FreeIds(st) : i > c}
        cand == IF after # {} THEN after ELSE FreeIds(st)
    IN CHOOSE i \in cand : \A j \in cand : i <= j

\* cfg_alloc_vm_id takes the number the cursor is at; the loop that moves the
\* cursor has no exit when every number is in use.
AllocId(st) ==
    LET a == [st EXCEPT !.tab = @ \cup {st.cursor}]
        next == NextId(a, st.cursor)
        Known(i) == \E n \in Name : st.vm[n].id = i
    IN  IF st.cursor \in st.tab THEN Kout(st)
        ELSE IF FreeIds(a) = {} THEN [a EXCEPT !.hang = TRUE]
        ELSE IF Known(st.cursor) \/ Known(next) \/ IsZombieId(st, st.cursor)
        THEN Kout(a)
        ELSE [a EXCEPT !.cursor = next]

FreeVmId(st, id) ==
    IF id \notin st.tab THEN Kout(st) ELSE [st EXCEPT !.tab = @ \ {id}]

AddZombie(st, n) ==
    LET z == [st EXCEPT !.zombie[n] = st.vm[n].id]
    IN  IF \/ IsZombieId(st, st.vm[n].id)
           \/ Cardinality({m \in Name : z.zombie[m] # 0}) > MAX_ZOMBIE
        THEN Kout(z) ELSE z
DelZombie(st, n) == [st EXCEPT !.zombie[n] = 0]

-----------------------------------------------------------------------------
\* Death of a machine: machine_create.c and utils_cmd_line_maker.c

\* qmp_end_qemu_unix returns 0 once, if a qemu was launched and answered; the
\* cutoff comes much later then.
QmpEndAndCutoff(st, n) ==
    {Arm(st, "cutoff", n, 0, D10)}
    \cup IF n \in st.qmp /\ st.vm[n].state \notin {"idle", "launch"}
         THEN {[Arm(st, "cutoff", n, 0, D400) EXCEPT !.qmp = @ \ {n}]}
         ELSE {}

\* A machine that is being created keeps vm_to_be_killed at 0 and is aborted
\* one beat later; the abort calls machine_death again.
MachineDeath(st, n) ==
    IF ~Exists(st, n) \/ st.vm[n].tbk THEN {st}
    ELSE {IF st.zombie[n] # 0 THEN [e EXCEPT !.vm[n].tbk = TRUE]
          ELSE IF Creating(st, n)
          THEN [AddZombie(e, n) EXCEPT !.vm[n].abort = TRUE]
          ELSE Arm([AddZombie(e, n) EXCEPT !.vm[n].tbk = TRUE],
                   "erase", n, st.vm[n].id, D200) : e \in QmpEndAndCutoff(st, n)}

FreeWakeUpEths(st, n) ==
    [st EXCEPT !.vm[n].state = "free", !.vm[n].abort = FALSE]

\* Mutant: the zombie made by the first call of machine_death stays.
FreeAndDelete_KeepsZombie(st, n) ==
    {SendStatusKo(d, st.vm[n].inst) : d \in MachineDeath(FreeWakeUpEths(st, n), n)}

\* Mutant: no answer.
FreeAndDelete_Silent(st, n) ==
    MachineDeath(FreeWakeUpEths(DelZombie(st, n), n), n)

FreeAndDelete(st, n) ==
    {SendStatusKo(d, st.vm[n].inst) :
        d \in MachineDeath(FreeWakeUpEths(DelZombie(st, n), n), n)}

FreeAndOk(st, n) ==
    [FreeWakeUpEths(st, n) EXCEPT !.ans[st.vm[n].inst] = @ \cup {"ok"}]

\* cfg_unset_vm and cfg_free_vm_id.  A machine still under creation is the
\* case the code reports as a BUG: `lost` keeps its name and instance.
UnsetVm(st, n) ==
    LET v == st.vm[n]
    IN  FreeVmId([st EXCEPT !.vm[n] = NoVm,
                     !.lost = @ \cup (IF Creating(st, n) THEN {<<n, v.inst>>}
                                      ELSE {})], v.id)

\* The process is killed, then the machine is unset, whatever its state.
DelayedVmCutoff(st, n) ==
    IF ~Exists(st, n) THEN st
    ELSE UnsetVm([st EXCEPT !.up = {p \in @ : p.id # st.vm[n].id}], n)

-----------------------------------------------------------------------------
\* Creation: qemu_automaton.c.

\* A failed clone, or a qemu that is not there after its launch: the client is
\* told, and told again by FreeAndDelete (utils_launched_vm_death, whose branch
\* for a machine without t_wake_up_eths no caller reaches).
CreationFails(st, n) ==
    IF Creating(st, n) THEN FreeAndDelete(SendStatusKo(st, st.vm[n].inst), n)
    ELSE {st}

\* Mutant: no timer finishes the creation.
QemuVmAutomaton_NoFinish(st, n) ==
    LET v == st.vm[n]
        To(x) == [st EXCEPT !.vm[n].state = x]
    IN  CASE v.state = "idle" -> {Arm(To("launch"), "static", n, v.inst, Later)}
          [] v.state = "launch" ->
               {Launch(Arm(To("connect"), "static", n, v.inst, Later),
                       Clone("launch", n, v.inst, v.id))}
          [] v.state = "connect" -> {[st EXCEPT !.qmp = @ \cup {n}]}
          [] OTHER -> {st}

\* One step of the automaton; a machine is persistent or evanescent.
QemuVmAutomaton(st, n) ==
    LET v == st.vm[n]
        To(x) == [st EXCEPT !.vm[n].state = x]
    IN  CASE v.state = "idle" ->
               {Arm(To("launch"), "static", n, v.inst, Later),
                Launch(To("launch"), Clone("cp", n, v.inst, v.id))}
          [] v.state = "launch" ->
               {Launch(Arm(To("connect"), "static", n, v.inst, Later),
                       Clone("launch", n, v.inst, v.id))}
          [] v.state = "connect" ->
               {[Arm(st, "finish", n, 0, 0) EXCEPT !.qmp = @ \cup {n}]}
          [] OTHER -> {st}

\* The timer of static_vm_timeout holds a pointer to wake_up_eths and nothing
\* cancels it.  When the structure was freed, the name read from it is whatever
\* the memory now holds: that of a machine created since, or no name at all.
StaticVmTimeout(st, t) ==
    IF st.vm[t.n].inst = t.ref /\ Creating(st, t.n)
    THEN QemuVmAutomaton(st, t.n)
    ELSE {st} \cup UNION {QemuVmAutomaton(st, m) : m \in Name}

\* utils_finish_vm_init
FinishVmInit(st, n) ==
    IF ~Creating(st, n) THEN {st}
    ELSE IF st.vm[n].abort \/ ~Running(st, st.vm[n].id)
    THEN FreeAndDelete(st, n)
    ELSE {FreeAndOk(st, n)}

\* timer_launch_end: the dtach socket has the name of the machine.
TimerLaunchEnd(st, n) ==
    IF \E p \in st.up : p.n = n THEN {st} ELSE CreationFails(st, n)

-----------------------------------------------------------------------------
\* Requests of the clients: recv_from_client.c

\* A name in use is refused; otherwise a number is taken, and a request that
\* fails its tests does not give it back (leaked).
RecvAddVm(n) ==
    /\ nadd < MaxAdd
    /\ s.zombie[n] = 0 /\ n \notin s.newborn /\ ~Exists(s, n)
    /\ nadd' = nadd + 1 /\ UNCHANGED <<ndeath, cpkout>>
    /\ LET id == s.cursor
           a == AllocId(s)
       IN  \/ /\ a.kout \/ a.hang
              /\ s' = a
           \/ /\ ~a.kout /\ ~a.hang
              /\ \/ s' = [SendStatusKo(a, nadd') EXCEPT !.leaked = @ \cup {id}]
                 \/ s' = Launch([a EXCEPT !.newborn = @ \cup {n},
                                          !.coherency = @ + 1],
                                Clone("mkdir", n, nadd', id))

\* machine_death: recv_del_vm, machine_recv_kill_clownix, timer_call_machine_death
\* of qmp.c at any time after a connection, timeout_delete_vm of eventfull.c.
CallMachineDeath(n) ==
    /\ Exists(s, n) /\ ~s.vm[n].tbk
    /\ ndeath < MaxDeath
    /\ ndeath' = ndeath + 1
    /\ s' \in MachineDeath(s, n)
    /\ UNCHANGED <<nadd, cpkout>>

-----------------------------------------------------------------------------
\* Deaths of the clones, in any order and after any time.

Ended(c) == [s EXCEPT !.clones = @ \ {c}]

\* The clone that looks for a backing file is followed by the one that makes the
\* directories: one clone here.  death_of_mkdir_clone with
\* run_linux_virtual_machine and start_lock_and_watchdog.  The number of a
\* failed creation is not freed.
MkdirDeath(c) ==
    /\ c.k = "mkdir"
    /\ LET e == [Ended(c) EXCEPT !.newborn = @ \ {c.n}, !.coherency = @ - 1]
           v == [NoVm EXCEPT !.id = c.id, !.inst = c.inst]
       IN  \/ s' = [SendStatusKo(e, c.inst) EXCEPT !.leaked = @ \cup {c.id}]
           \/ /\ c.id \in s.pidfile
              /\ s' \in MachineDeath(
                          SendStatusKo([e EXCEPT !.vm[c.n] = v], c.inst), c.n)
           \/ /\ c.id \notin s.pidfile
              /\ s' = Launch([e EXCEPT !.vm[c.n] = [v EXCEPT !.state = "idle"]],
                             [c EXCEPT !.k = "cdrom"])

\* The clone that makes the cdrom, with the 100 beats before the automaton
\* starts, and the clone that makes the derived disk.  Both find the machine by
\* name when they end.
CdromDeath(c) ==
    /\ c.k = "cdrom"
    /\ s' \in QemuVmAutomaton(Ended(c), c.n) \cup CreationFails(Ended(c), c.n)
CpDeath(c) ==
    /\ c.k = "cp"
    /\ s' \in QemuVmAutomaton(Ended(c), c.n) \cup CreationFails(Ended(c), c.n)

\* The launcher leaves a qemu and its pid file behind, or not.
LauncherDeath(c) ==
    /\ c.k = "launch"
    /\ LET e == Arm(Ended(c), "launchend", c.n, 0, 0)
       IN  s' \in {e, [e EXCEPT !.pidfile = @ \cup {c.id},
                                !.up = @ \cup {[n |-> c.n, id |-> c.id]}]}

\* Mutant: the zombie stays when the directories could not be removed.
RmdirDeath_KeepsZombie(c) ==
    /\ c.k = "rmdir"
    /\ s' \in {Ended(c), [DelZombie(Ended(c), c.n) EXCEPT !.pidfile = @ \ {c.id}]}

\* The directories are removed, or the third attempt failed too.
RmdirDeath(c) ==
    /\ c.k = "rmdir"
    /\ LET e == DelZombie(Ended(c), c.n)
       IN  IF s.zombie[c.n] = 0 THEN s' = Kout(s)
           ELSE s' \in {e, [e EXCEPT !.pidfile = @ \ {c.id}]}

\* cprootfs_clone_death: a clone that was killed or stopped after its OK has a
\* status, and the server leaves, if the machine of that name is being created.
\* A clone that says KO never ends with 0: the other KOUT is not met.
CpKout(c) ==
    /\ c.k = "cp" /\ Creating(s, c.n)
    /\ cpkout' = TRUE /\ UNCHANGED s

CloneDeath ==
    /\ \E c \in s.clones :
          \/ /\ \/ MkdirDeath(c) \/ CdromDeath(c) \/ CpDeath(c)
                \/ LauncherDeath(c) \/ RmdirDeath(c)
             /\ UNCHANGED cpkout
          \/ CpKout(c)
    /\ UNCHANGED <<nadd, ndeath>>

-----------------------------------------------------------------------------
\* Timers.

Timed(t) == t.k \in {"cutoff", "erase"}
Due == {t \in BagToSet(s.timers) : Timed(t) /\ t.left = 0}

Fire(t, e) ==
    CASE t.k = "static" -> s' \in StaticVmTimeout(e, t)
      [] t.k = "launchend" -> s' \in TimerLaunchEnd(e, t.n)
      [] t.k = "finish" -> s' \in FinishVmInit(e, t.n)
      [] t.k = "cutoff" -> s' = DelayedVmCutoff(e, t.n)
      [] t.k = "erase" -> s' = Launch(e, Clone("rmdir", t.n, 0, t.ref))

\* The timers that are due run one after the other, before anything else.
FireTimer ==
    /\ \E t \in IF Due # {} THEN Due ELSE BagToSet(s.timers) :
          t.left = 0 /\ Fire(t, [s EXCEPT !.timers = @ (-) SetToBag({t})])
    /\ UNCHANGED <<nadd, ndeath, cpkout>>

\* utils_vm_create_fct_abort
VmCreateAbort ==
    /\ \E n \in Name : s.vm[n].abort /\ s' \in FreeAndDelete(s, n)
    /\ UNCHANGED <<nadd, ndeath, cpkout>>

\* A beat passes: the aborts of the last one were done.
Beat ==
    /\ \E t \in BagToSet(s.timers) : t.left > 0
    /\ \A n \in Name : ~s.vm[n].abort
    /\ LET Still == {t \in DOMAIN s.timers : t.left = 0}
           Nearer == {[t EXCEPT !.left = @ - 1] : t \in DOMAIN s.timers \ Still}
       IN  s' = [s EXCEPT !.timers =
                    [t \in Still |-> @[t]]
                    (+) [t \in Nearer |-> @[[t EXCEPT !.left = @ + 1]]]]
    /\ UNCHANGED <<nadd, ndeath, cpkout>>

-----------------------------------------------------------------------------
\* The qemu processes and the agents.

\* A process ends by itself; its files stay.
QemuEnds ==
    /\ \E p \in s.up : s' = [s EXCEPT !.up = @ \ {p}]
    /\ UNCHANGED <<nadd, ndeath, cpkout>>

\* doors_recv_event, PING_OK: the agent answers, the creation is over.
PingOk ==
    /\ \E p \in s.up : Creating(s, p.n) /\ s' \in FinishVmInit(s, p.n)
    /\ UNCHANGED <<nadd, ndeath, cpkout>>

\* The server runs.
ServerUp == ~s.kout /\ ~s.hang /\ ~cpkout

Next ==
    /\ ServerUp
    /\ \/ FireTimer
       \/ /\ Due = {}
          /\ \/ \E n \in Name : RecvAddVm(n) \/ CallMachineDeath(n)
             \/ CloneDeath \/ VmCreateAbort \/ Beat
             \/ QemuEnds \/ PingOk

Spec == Init /\ [][Next]_vars

\* Time passes, timers fire and clones end; no client and no qemu need act.
Fairness ==
    /\ WF_vars(ServerUp /\ FireTimer)
    /\ WF_vars(ServerUp /\ Due = {} /\ VmCreateAbort)
    /\ WF_vars(ServerUp /\ Due = {} /\ CloneDeath)
    /\ WF_vars(ServerUp /\ Due = {} /\ Beat)

FairSpec == Spec /\ Fairness

-----------------------------------------------------------------------------
\* Properties.

Building == {c \in s.clones : c.k = "mkdir"}
Erasing  == {<<t.n, t.ref>> : t \in {u \in BagToSet(s.timers) : u.k = "erase"}}
            \cup {<<c.n, c.id>> : c \in {d \in s.clones : d.k = "rmdir"}}
LostName(n) == \E i \in Inst : <<n, i>> \in s.lost

\* Every table of the server holds what its type says.
TypeOK ==
    /\ s.vm \in [Name -> [id : 0 .. MAX_VM - 1, inst : 0 .. MaxAdd,
                          state : {"free", "idle", "launch", "connect"},
                          abort : BOOLEAN, tbk : BOOLEAN]]
    /\ s.tab \subseteq VmId /\ s.cursor \in VmId
    /\ s.zombie \in [Name -> 0 .. MAX_VM - 1] /\ s.newborn \subseteq Name
    /\ s.coherency \in 0 .. MaxAdd /\ s.qmp \subseteq Name
    /\ \A t \in BagToSet(s.timers) : t.n \in Name /\ t.left \in 0 .. D400
    /\ nadd \in 0 .. MaxAdd /\ ndeath \in 0 .. MaxDeath
    /\ cpkout \in BOOLEAN

\* A number is marked exactly while a machine or a creation holds it, apart from
\* those that recv_add_vm and death_of_mkdir_clone took and never gave back.
\* The KOUTs about numbers and zombies (cfg_store.c, death_of_rmdir_clone) are not
\* met, and the server hangs in cfg_alloc_vm_id only when every number is in use,
\* zombie or leaked.
NumbersAccounted ==
    /\ TypeOK
    /\ ~s.kout
    /\ IF s.hang THEN VmId \subseteq (s.tab \cup {s.zombie[n] : n \in Name})
       ELSE s.tab = s.leaked \cup {c.id : c \in Building}
                    \cup ({s.vm[n].id : n \in Name} \ {0})

\* No two machines have the same number, and the directories that are about to
\* be erased are never those of a machine that lives or is being built: erase
\* and creation find them by number alone (rmdir_clone, mkdir_clone).
DirsApart ==
    /\ NumbersAccounted
    /\ \A n, m \in Name :
          n # m /\ Exists(s, n) => s.vm[n].id # s.vm[m].id
    /\ \A c \in Building : \A n \in Name : s.vm[n].id # c.id
    /\ \A e \in Erasing :
          /\ \A c \in Building : c.id # e[2]
          /\ \A n \in Name : s.vm[n].id = e[2] => n = e[1] /\ s.vm[n].tbk

\* A machine that is marked to be killed has a timer that will cut it off, so
\* that its name and its number come back.
DyingIsCutOff ==
    \A n \in Name : s.vm[n].tbk =>
        \E t \in BagToSet(s.timers) : t.k = "cutoff" /\ t.n = n

\* A zombie has one reaper: an abort in one beat, or one erasure of its
\* directories.  Only a machine that was unset while it was being created stays
\* a zombie for ever.  An erasure finds its zombie (KOUT in
\* death_of_rmdir_clone).
ZombieHasReaper ==
    /\ DyingIsCutOff
    /\ \A n \in Name :
        /\ s.zombie[n] # 0 /\ ~LostName(n) =>
              s.vm[n].abort # (<<n, s.zombie[n]>> \in Erasing)
        /\ \A e \in Erasing : e[1] = n => s.zombie[n] = e[2]

\* The lock that delays the add lan requests is held by the creations under way
\* and by nothing else (KOUT in recv_coherency_unlock).
CoherencyExact == s.coherency = Cardinality(Building)

\* The client of an add request without an answer is still owed one by a
\* creation under way; only the case cfg_unset_vm reports as a BUG loses it.
\* No client is told both that its machine runs and that its creation failed,
\* though each has several paths that may come late.
AnswerOwed ==
    /\ CoherencyExact
    /\ \A i \in Inst : Cardinality(s.ans[i]) <= 1
    /\ \A i \in 1 .. nadd :
          s.ans[i] = {} /\ ~s.hang /\ ~s.kout =>
              \/ \E c \in Building : c.inst = i
              \/ \E n \in Name : s.vm[n].inst = i /\ Creating(s, n)
              \/ \E n \in Name : <<n, i>> \in s.lost

\* Every add request gets its answer, unless its machine was lost.
AddAnswered ==
    \A i \in Inst :
        (nadd >= i) ~> (\/ s.ans[i] # {} \/ s.hang \/ cpkout
                       \/ \E n \in Name : <<n, i>> \in s.lost)

\* The name of a machine that dies comes back: machine_death, its timers and
\* the clone that erases the directories leave neither machine nor zombie.
NameComesBack ==
    \A n \in Name :
        (s.vm[n].tbk \/ s.zombie[n] # 0) ~>
            (s.zombie[n] = 0 /\ ~Exists(s, n)) \/ LostName(n) \/ s.hang \/ cpkout

=============================================================================
