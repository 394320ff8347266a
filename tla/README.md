# cloonix: TLA+ models, checks and proofs

cloonix runs a network of virtual machines on one host. A server process
(`server/uml_cloonix_switch`) creates machines and *endpoints* (ethernet
interfaces, taps, nat, shapers `a2b`, captures, links to other servers `c2c`)
and attaches the endpoints to *LANs*. Every endpoint and every LAN is a process
of its own (`server/muswitch/mu*`); the server starts them, talks to them over
unix sockets and learns of their deaths from SIGCHLD. All programs but one are
single threads around a `select` or `epoll` loop: the only true concurrency inside
the server is a signal handler, and everything else is the order in which
messages, timers, closed sockets and deaths reach the loop. The shaper has two
threads, one for each LAN.

Paths below are relative to `src/cloonix/`.

## 1. Inventory

### 1.1 Components

| component | state | operations | module |
|---|---|---|---|
| timer wheel, `common/lib_io_clownix/src/clownix_timer.c` (same code in `server/muswitch/lib_ioc`) | `grape[]` lists, current beat, current ref | add, del, del_all, exists, beat and walk | ClownixTimer |
| attachment, `endp_evt.c` | `t_evendp`: slots with attached and waiting LAN, the client that waits | birth, death, add lan, del lan, connect ok/ko, LAN birth and death, `timer_evt` | EndpLan |
| endpoint processes, server side, `endp_mngt.c` | `t_priv_endp`: process, channel, stage of the dialog, awaited answer, LAN numbers | start, stop, beat, watchdog, answers, err_cb, death, free | EndpLan |
| LAN processes, server side, `mulan_mngt.c` | `t_mulan`, `t_zombie_kill` | start, beat, pid, listen ok/ko, quit, err_cb, death, zombie timer | EndpLan |
| endpoint processes, `muswitch/lib_muend` | connection of each slot, traffic socket, timer of the connection | connect, disconnect, timeout, loss, answers | EndpLan (what the server sees), LanRank; traffic not modelled |
| LAN processes, `muswitch/lib_mulan` | ranks of the connected endpoints | rank alloc, start, end, quit | LanRank |
| LAN numbers, `lan_to_name.c` | hash table of names, user counts | add, del, get by name, get by number | LanNames |
| jobs for the loop, `common/lib_io_clownix/src/job_for_select.c` | ring of free indices, marks, job table | request (in the signal handler), service | JobForSelect |
| clones, `pid_clone.c` | table of idents, highest ident, count | launch, harvest, messages, END_FORK_PID, kill | PidClone |
| requests of clients, `recv_from_client.c` | requests put aside while an endpoint is made | one handler for each request | EndpLan (add and del lan) |
| life of a machine: `machine_create.c`, `qemu_automaton.c`, `utils_cmd_line_maker.c`, `cfg_store.c`, `cdrom_creation_clone.c`, `qmp.c` | `t_vm`, automaton of the boot, numbers, zombies, newborns, coherency lock | add, kill, clones and their deaths, abort, cutoff, erasure | VmLife |
| agent of a machine: `qhvc0.c`, `cloonix_agent` | `t_qhvc0_vm`: automaton, handshake, relay | type at the console, handshake, timeout, relay, restart | Backdoor |
| saving and monitoring: `sav_vm.c`, `qmonitor.c` | | | not modelled |
| dialog with doors and mu processes, `murpc_dispatch.c`, `lib_rpct` | requests in flight | forward, answer, timeout | planned: MucliDialog |
| shaping, `muswitch/mua2b` | ring of delayed packets, tokens | enqueue, tick, loss, configuration | A2bSched |
| links between servers, `c2c.c`, `c2c_utils.c`, `doorways/src/c2c.c` | `t_sc2c` of a switch, `t_c2c` of the doors, pool of indexes | create, index, connection, ping, loss, restart, deletion | C2cPeer |
| traffic blocks, `lib_blkd` | queues, flow control levels | put, get, stop, start | planned: BlkdFlow |
| event loop and channels, `lib_io_clownix` | channels, queues, partial messages | read, write, framing, error | assumed: one callback at a time, order kept on a channel |
| channel accounting, `llid_trace.c` | kind of each channel | alloc, free, dispatch of errors | planned with the channels |
| request timeouts, `timeout_service.c`, `heartbeat.c` | requests in flight | alloc, free, trigger | planned |
| doorways: `doorways.c`, `llid_backdoor.c`, `doorways_mngt.c` | `t_backdoor_vm`: channels, ping status, timers | add, del, up, down, ping, start again | Backdoor; the relay of clients is not modelled, see 7 |
| nat, taps, captures, test endpoint | packets | | not modelled, see 7 |
| clients, message formats, layout, start and shutdown | presentation, text | | not modelled, see 7 |

`PROJECT.json` lists the same components with their files.

### 1.2 How they interact

- A client's *add lan* goes from `recv_from_client.c` to `endp_evt.c`. When the
  LAN does not exist, `mulan_mngt.c` starts a process through `pid_clone.c`;
  when it listens, `endp_evt_mulan_birth` lets the waiting slots connect:
  `endp_mngt.c` asks the endpoint process, whose answer leads back to
  `endp_evt_connect_OK/KO`, which answers the client and gets the LAN a number
  from `lan_to_name.c`.
- A process that ends is known twice: its channel closes (`*_err_cb`), and its
  SIGCHLD makes `job_for_select.c` call `pid_clone.c`, which calls the death
  callback of the component. Either may come first.
- A machine is made by a chain of clones (`mkdir`, cdrom, disk, launcher), each
  of which continues the chain from its death callback; then `qmp.c`, `qhvc0.c`
  and the doors are told of it. The switch and the doors exchange commands and
  events (`add_vm`, `UP_VPORT`, `PING_OK`, ...) over one channel, which breaks
  when the doors die and are started again.
- A link between two servers needs four processes: the switches talk over a
  connection of the master, the doors open a second one for the traffic.
- Everything that may not answer is guarded by a timer of the wheel, which
  carries a *name*, never a pointer, and is hardly ever cancelled: it looks the
  name up when it expires, and may find another object under it.

### 1.3 What is hard

- **Two records of one fact.** The LAN of a slot is held by `t_evendp` and by
  `t_priv_endp`; the users of a LAN are the slots that name it and a counter;
  a LAN exists as a record, a zombie mark and a process.
- **Ends.** Eight callbacks may end an endpoint, at any moment of its dialog,
  and `muendp_free` leaves the server (KOUT) if a slot still has a LAN.
- **Stale references.** Timers and obituaries carry names; the wheel and the
  loops save a next element before a callback; numbers of LANs are kept for long.
- **A signal handler** that shares an unlocked ring with the loop, and a signal
  that is not counted; **two threads** of the shaper that share a ring, half under
  a lock, and a counter under none.
- **Two channels for one dialog**: an endpoint and its LAN talk over one socket
  and send packets over another, and read them in any order.
- **Fixed tables**: ring of jobs, idents of clones, LAN numbers, zombies; all
  end the server when they are full, and the search for a machine number never
  ends.
- **Two automata that restart each other**: the switch starts an agent, the
  doors say that it is lost; each ignores the other for some time.
- **Partners that come back**: the doors with nothing, a peer with an old link.

What makes each component correct is stated as properties (section 3) and every
hazard found is in `PROJECT.json` under `hazards`, at its line, with the
properties that cover it or the reason why none does.

## 2. Modules and the code they model

One action is one whole callback of the server, one handler or one step of an
external process. Definitions keep the names of the code where they can, and
`map` in `PROJECT.json` gives the lines of each.

**ClownixTimer.** The wheel as one set of elements that carry their slot; the
order of a list is the order of `ref`, since elements are appended with growing
references. `due`, the beat the caller was told, is a history value. The walk of
a slot stops in phase `cb` while a callback runs: there, add, delete and delete
all are enabled as they are outside. A delay out of range and the deletion of a
timer that is not found are the KOUTs of the code. **TimerPromise** is what
callers rely on: each timeout runs once, at its beat, in order, unless cancelled.

**EndpLan.** `mu` is `t_priv_endp` with the existence of `t_evendp` (`born`), `sl`
a slot's share of both records, `lan` a LAN's record, zombie mark and process,
`pr` and `ps` the endpoint process and its connections, `et`, `lan_connect` and
`ko_timer` the armed timers. `lan_num` and `attached` are kept apart although
they should agree: that they do is a theorem. Delays are left out, so any armed
timer may expire at any moment, which covers every ratio of the delays in the
code. A request to a process is handled when it is sent and its answer waits in
`outbox`: the server sends at most one request at a time (`waiting_resp`), apart
from the type request, which is modelled with several. Processes may crash at
any step, ignore a quit request, and lose the connection to their LAN.
`endp_evt_del_lan` calls `mulan_test_stop` while the slot still names the LAN;
the call never stops a LAN there and is left out. An add lan request that finds
the coherency lock held waits in `chain`; the lock is VmLife's, so it is held or
free at any time here, and the requests of the chain are taken up in any order,
where the code takes all of them in one callback. In `RecvConnectOk/Ko` the answer
to a slot that waits for nothing goes to an uninitialised `llid` and `tid`
(`StrayAnswer`). These are what an earlier call left on the stack: of no client, of
any client, or out of range, which is the KOUT of `msg_exist_channel`. `strays` is
history: the requests that such an answer may have reached, until a new request
has their name.

**LanNames.** `lan_to_name.c` with its open addressing without tombstones, for
any hash function, and the two functions of `endp_mngt.c` that keep the numbers.
**LanUsers**: a LAN exists while some slot uses it.

**JobForSelect.** The handler is one action (SIGCHLD is blocked while it runs);
the loop's release of an index is one action per store, in the order of the
source, since the file is compiled without optimisation. `nb_used_jobs`, which
may lose an increment, is only printed and left out. **JobPromise**: every job is
run once, in order.

**PidClone.** The table of idents, the children as the kernel keeps them
(running, zombie, reaped, stopped), one pending SIGCHLD, the jobs as a counter,
`timer_clones_check`. `waitid` with `WSTOPPED | WCONTINUED` also returns
children that live. A death callback may launch one clone before the dead one's
ident is free, and the kernel may give it the pid just reaped; a pid is used
again only when the server has drained what its last holder sent.
**CloneDeaths**: a clone is reported once, after it ended or was stopped.

**VmLife.** The server's tables are one record `s`, and the handlers, which call
each other, are operators from a state to the set of states after the call:
`MachineDeath` is called by the requests, by qmp, by the watch on `/proc` and from
inside `FreeAndDelete`. An add request has a number, its instance, so that the model
can tell the machine a timer was meant for from the one it finds by name. `lost`,
`leaked` and `ans` are history. Timers of cutoff and erasure carry their beats, in
the order of the code's delays (10 < 200 < 400), because that order is what keeps
the directories of a dead machine apart from those of the next one; the others may
expire at any moment. `static_vm_timeout` reads freed memory when its machine is
gone: it steps the automaton of any machine, or of none. `kout` is the KOUTs about
numbers and zombies (`cfg_store.c`, `machine_create.c:97`), which are shown not to
be met as long as there is room for the zombies, and `cpkout` the one of
`cprootfs_clone_death`, which is: a copy clone that said OK and is then killed or
stopped has a status that is not 0 (`CpKout`). Its other KOUT, for a KO with status
0, needs a clone that fails and ends with 0, and the clone never does. Of
`utils_launched_vm_death` the branch for a machine without `t_wake_up_eths` is left
out, since no caller of these files reaches it.

**C2cPeer.** One name at both ends of a link: `c` is `t_sc2c`, `mu` the share of
`t_priv_endp` that matters, `door` the record of the doors with its `pool`, `up`
the answers of the doors on their way, `conn` and `tr` the connections between
the switches and between the doors. Connections break at any moment, and what
was sent is lost. The delays are left out but for one fact, `Settled`: what takes
10 beats at most has happened before a timer of 200 beats or more expires. Two
pings in a row are one. A freed record that the code still reads
(`peer_err_cb`, the contexts of a second connection) holds any name. An add request
has no guard but those of the code, that no link and no endpoint has the name.

**Backdoor.** The console automaton of `qhvc0.c` with its guest (`Rx` is one word of
the guest, received), the channel to the doors, their `t_backdoor_vm`, and the relay
connections by which the doors reach an agent on the console. One name, created
several times. What a timer of 30 seconds, or 25 heartbeats without an answer, can
overtake is a `Fault`; `MaxFault` bounds the faults of a behaviour. `Breaks` marks
the faults from which the code does not recover: a console or a port that closes
while qemu runs, thirty failed connections, a stream out of sync. Two things are
left out: once the doors use a relay, a virtio channel that opens is kept by the
code in the place of the relay's (`llid_backdoor.c:379-397`), where the model has
both; and the server ends after a hundred connections to the doors that fail
(`doorways_mngt.c:295-304`), where the model connects in the end.

**LanRank.** One LAN process and the slots of endpoints that connect to it, in
the dialog of which EndpLan shows only the outcome. A connection has a number;
`net` keeps for it which ends of its two sockets are open and what is under way
on the first, `ep` what a slot holds, `lan` the records, the table of ranks, the
chain of traffic channels and which pair of callbacks each channel has. Either
side may end, time out or disconnect at any point; an end loses what was not
read. `pend` counts the timers that still hold the current id of a slot, so that
one of an earlier connection may strike a later one. `Ready` is what the event
loop guarantees: the end of a connection is read before what its slot does next.

**A2bSched.** The direction from A to B of the shaper; the other is the same code
on the other side's data. Each thread stops between two accesses to what it
shares: the load and the store of `stored`, the lock of the ring, the slot and
the head. Time is relative (since the last date of the bucket, until the timer,
age of each packet), in units of which `MS` make a millisecond; it passes only
when both threads wait, and the timer is up to `Late` units late. Divisions cut
towards zero and products wrap, as in C. `pace` is history. Left out are a pipe
so full of wakes nobody read that `write` fails, which is a KOUT (`wake_tx.c:75-78`),
and an age above 2^31 microseconds, which the cast of `sched.c:153` makes negative.

`MC*` modules give constants their values, and the wheel its fairness.

## 3. Runs

| run | instance | checks | distinct states |
|---|---|---|---|
| timer | 3 slots, 5 beats, 4 timers | FiresAtDueBeat, SavedNextIsLive, LookupIsExact, ImplementsPromise, EveryTimeoutLeaves | 11563 |
| endp_users | 2 endpoints, 1 slot each, 1 LAN | NbUsersExact, SlotLanLives | 1588080 |
| endp_live | 1 endpoint, 2 slots, 1 LAN, 2 clients, fair timers | AttachConsistent, FreeFindsNoLan, AnsweredOnce, LanNameReusable, StopFrees, StartTimesOut | 258433 |
| lan_names | 4 names, 3 indices, 4 slots | NumberStands, ImplementsUsers | 3997 |
| jobs | 4 indices, 11 requests | IndexInOnePlace, ImplementsPromise, EveryRequestServed | 647 |
| clones | 2 launches, 2 pids, a message each, 1 stop, fair | MessagesBeforeReport, EachKnownOnce, ImplementsDeaths, EveryDeathReaped | 318429 |
| vm_life | 2 names, 2 numbers, 3 adds, 1 death from outside | DirsApart, ZombieHasReaper, AnswerOwed | 2671081 |
| vm_live | 1 name, 2 numbers, 2 adds, 3 deaths, fair | AddAnswered, NameComesBack | 124346 |
| c2c | 2 servers, 2 indexes, 2 connections of each kind, 1 upset | EndpHasOwner, Watched, IndexesAgree | 809108 |
| backdoor | 1 name created twice, both ports, 2 relays, 1 fault, fair | DoorsFollow, RetryIsDue, AgentReached | 941890 |
| lan_rank | 3 slots, 2 ranks, 3 connections | RanksApart, MembersExact, NeverStuck | 521766 |
| a2b | ring of 3, 3 packets, 1 command, fair | RingSound, FeedPace, DelayKept, Leaves | 309326 |

An invariant may be made of others that have a name of their own: NumberStands
includes LayoutAgrees, DirsApart NumbersAccounted, ZombieHasReaper DyingIsCutOff,
AnswerOwed CoherencyExact, IndexesAgree IndexHeldOnce, DoorsFollow FlagAgrees and
RanksApart GrantKept.

What they show:

- *timer*: whatever a callback adds or deletes in the slot that is being walked, the
  element saved before it is still the next one, a timer runs at the beat its caller
  was told, and one that was deleted never runs.
- *endp_users*: a LAN's count is its slots, and its death reaches all of them.
- *endp_live*: two clients on two slots of one endpoint, with timeouts, refusals,
  the coherency lock, LAN deaths, crashes and quits in every order. The two records
  of a slot agree and the KOUT of `muendp_free` is not reached. No client has two
  answers by the paths that know whom they answer; one that StrayAnswer may have
  reached is excepted, because it may well have two (section 5). A zombie name, a
  stopped endpoint and a request that started a LAN all come to an end although no
  process has to cooperate.
- *lan_names*: a table without tombstones stays right because both searches go
  through the whole table; the mutant that stops at a hole breaks it.
- *jobs*: the ring without a lock is right for this handler and this order of
  stores. One job before the limit the handler may meet an index that is in the ring
  and still marked, and leave: IndexInOnePlace states exactly that.
- *clones*: merged signals lose no death because the timer harvests too; messages
  come before the report although they take another way. A stop is taken for a death
  and reported as one, once; the table stays exact all the same, and EachKnownOnce
  includes that the loop of `timer_clones_check` over vanished clones finds none.
- *vm_life, vm_live*: a machine number is never that of directories still to be
  erased, though erasure comes 200 beats after a death and the number is free after
  10: the zombie keeps it. Every zombie has exactly one reaper, a machine marked to
  be killed is cut off, a client gets one verdict, through all the failures of a
  chain of clones and deaths from outside at any point. The one exception is what
  `cfg_unset_vm` logs as a BUG: the cutoff armed by the machine_death of a creation
  may unset a machine (`lost`) that is still being created; its client is never
  answered, and its name may stay a zombie. Numbers of failed requests are never
  given back (`leaked`), and when all are gone `cfg_alloc_vm_id` does not return
  (`hang`). No KOUT about numbers or zombies is met; that of a copy clone killed
  after its OK is (`cpkout`), and ends every promise.
- *c2c*: links and endpoints go together at both ends although each is found by name
  alone; the pool of the doors loses and doubles no index; an end that has a
  connection has a timer that will find it lost; and two ends of one connection
  agree on the indexes that their doors join, once the answers under way have come.
- *backdoor*: after a crash of the doors at any point, they learn each machine and
  the port in use; the flag of the clients is what the doors found; each wait of the
  automaton has its timer; and an agent on the virtio port is reached in the end if
  nothing in `Breaks` happened.
- *lan_rank*: a rank that was promised stays reserved until it is acknowledged or
  its channel ends, though several slots are asking, connect again or vanish; the
  table of ranks never keeps a freed record; packets go to the open channels of the
  slots that are connected and to no other, whichever of opening and acknowledgement
  is read first. When nothing is under way no slot is left half connected: none
  needs its timeout to get started, nor to let go of a LAN that ended.
- *a2b*: the ring is right with a reader that looks without the lock; the bucket
  gets at least a millisecond for each tick, however many wakes come between
  (`timer_sched` takes a date ahead, which makes up for the rounding), and never a
  whole one more than has passed, which over many ticks still allows nearly twice
  the rate (section 5); a packet is sent one millisecond early at most; what was put
  in the ring leaves, however wakes are merged, with a bucket larger than the
  packets.

### Bounds, and why they are enough

*Wheel*: with 3 slots each delay of 1 and 2 beats wraps within 5 beats, and 4 timers
give a slot two elements plus those a callback adds; the proofs hold for all sizes.
*EndpLan*: two slots give two requests to one endpoint and every "first slot" loop a
second one to skip; two endpoints give every loop over endpoints a second turn.
`ZombieRetimes` (3 in the code) is 1 or 0, since the count is compared only with its
limit. `MaxTypeReq` 1 and `MaxQuit` bound the messages and timers a beat adds each
time; `MaxCrash` 1 and `MaxStart` 1 let the process crash whenever it runs;
`MaxDelayed` 1 lets one request at a time wait for the coherency lock (the
invariants were checked once with two, 282233 states). The endpoint that is created
again, whose timers of its first life are still to come, was checked once with two
slots, two clients and a crash (safety) and with one slot and fair timers, as was a
second LAN started through one slot (`MaxSeq` 2), all three without waiting for the
lock. In endp_users endpoints end by stops, refusals and timers, to keep two of them
within reach. *LanNames*: two of four names collide at the last index, so that
probing wraps and holes occur on every probe sequence, and the table is filled.
*Jobs*: 11 requests take both ends of the ring around twice. *PidClone*: two deaths
merge in one signal, `MaxJobs` 3 lets the handler meet its limit, and either of the
two idents may go first (held once with three launches, 1222880 states). *VmLife*:
three adds over two names and two numbers make both a name and a number come back;
one outside death in any state is joined by those that failures cause; three of them
in vm_live, where one name suffices, since liveness is about one machine at a time.
*C2cPeer*: one link, one deletion or cut, and two connections give a link that is
lost and made again, with the messages of the first still under way (the invariants
were also checked once with two adds, 4329790 states, and with two upsets, 2303599);
`MAX_PING` 1 keeps the count compared only with its limit; two indexes show one lost
or doubled. *Backdoor*: two lives let the messages and the relays of the first meet
the second; two relays let one replace another; three messages each way, one fault.
`MAX_FAIL` 1 stands for 25 for the same reason as `MAX_PING`. *LanRank*: three slots
for two ranks make one of them be refused, or take a rank just freed; three
connections let a slot come back (held once with two slots and four connections,
2335472 states). *A2bSched*: three slots of the ring are filled and used again by
three packets (held once with four, 957916 states); `MS` 2 with a lateness of 1 is
the coarsest clock on which a wake may come with a tick, between two, and with a
late one; packets of two octets, a bucket of three, and a rate that makes the
product wrap in an int of 16 values. Symmetry is used for endpoints, slots and names
in runs without liveness.

`CHECK_DEADLOCK FALSE` is set because the bounds stop every system, and because
KOUT, which really ends the program, leaves no step. The run a2b
checks for deadlock: there time always goes on.

### Fairness

- Timers expire: `clownix_timer_beat` is called at each heartbeat of the select
  loop and ClownixTimer shows that a timer which is in the wheel leaves it
  (EveryTimeoutLeaves). So the timers of EndpLan and `timer_clones_check`, which
  arms itself again, are weakly fair.
- `MulanDeath` is weakly fair because PidClone shows that every death is reaped
  (EveryDeathReaped), and that rests on the pending signal being delivered and
  on JobForSelect serving each request (EveryRequestServed).
- The main loop of JobForSelect is fair: `select` reports a readable socket
  until it has been read.
- VmLife: timers, clones that end (PidClone reports each one) and beats are
  fair; no client, no qemu and no agent.
- Backdoor: timers, messages on the channel and the restart of the doors
  (`timer_doorways_connect` arms itself again) are fair, and here alone the guest
  too: the property is that an agent which answers is found. The handshake timer
  is strongly fair, since its action is disabled while it would be a fault to
  expire: it does expire when the message or the ping it waits for has come.
- A2bSched: both threads run, time passes and the timer, which arms itself again,
  is served.
- Otherwise no external process is fair: nobody has to answer, connect, quit or end.

All liveness properties except the KOUTs (`~Running`, `cpkout`) and the hang of
`cfg_alloc_vm_id`.

## 4. Proofs

Every safety property that the runs check is a theorem, for every value of the
constants that the named assumption of the component allows. Two `_proofs` modules
are about two components each: `EndpLan_proofs` about the LANs of the server and
their numbers, `Doors_proofs` about the two users of the doors. So that one module
may extend both, LanNames calls its initial states, steps and specification
`NamesInit`, `NamesNext`, `NamesSpec`, and C2cPeer `PeerInit`, `PeerNext`,
`PeerSpec`. Each proof has the same shape, for an inductive invariant `IInv`: `Init
=> IInv`, one lemma for each action (or group of alike actions) that keeps `IInv`,
`IInv => P` for each property, and a last temporal step. Where the component is
shown to implement an abstract specification, each of its steps is mapped to a step
of that specification or to none, under `IInv`.

| module | stated by a theorem |
|---|---|
| `ClownixTimer_proofs` | FiresAtDueBeat, NoneLate, SavedNextIsLive, LookupIsExact, and the refinement of TimerPromise |
| `EndpLan_proofs` | AttachConsistent, NbUsersExact, FreeFindsNoLan, AnsweredOnce, SlotLanLives |
| `EndpLan_proofs`, LanNames | NumberStands, and the refinement of LanUsers |
| `JobForSelect_proofs` | IndexInOnePlace, and the refinement of JobPromise |
| `PidClone_proofs` | MessagesBeforeReport, EachKnownOnce, and the refinement of CloneDeaths |
| `VmLife_proofs` | DirsApart, ZombieHasReaper, AnswerOwed |
| `LanRank_proofs` | RanksApart, MembersExact, NeverStuck |
| `A2bSched_proofs` | RingSound, FeedPace, DelayKept |
| `Doors_proofs`, Backdoor | DoorsFollow, RetryIsDue |
| `Doors_proofs`, C2cPeer | EndpHasOwner, Watched, IndexesAgree |

**ClownixTimer** (TimerAssumption: two slots or more). FiresAtDueBeat is not
inductive: an element met in the slot of the current beat could be one turn of
the wheel away. NoneLate bounds every due beat to less than one turn ahead, and
SlotInjective (two numbers less than a modulus apart with the same rest are
equal) then identifies slot and beat. NoneLate needs WalkCoversSlot: when the
walk ends nothing is left in its slot, which needs SavedNextIsLive for the step
over a callback. WheelImplementsPromise follows: a beat is a tick of the promise
because NoneLate says that nothing due is left, a callback is its `Fire` because
the walk meets the references of a slot in their order, and marking an element
is its `Cancel`.

**EndpLan** (EndpLanAssumption: finitely many endpoints and slots). `Inv` is the
conjunction of TypeOK, AttachConsistent, NbUsersExact and FreeFindsNoLan, and none
of the last three is inductive alone. `endp_evt_del_lan` returns early when
`lan_to_name.c` does not know the LAN; that the slot is emptied needs the exact
count (DelLanEmpties). The count needs the two records to agree, since one decides
whether the counter moves and the other which LAN it is (NbDelExact). That
`muendp_free` finds no LAN needs both, for each way an endpoint ends. AnsweredOnce
rests on `Inv` and on itself: a client is in one of the places that may answer it (a
slot, `timer_endp`, the chain), or was answered; the theorem says so of every
request but those that a StrayAnswer may have reached. SlotLanLives is false when
two slots of one endpoint have the same LAN (section 5), so LanOutlivesSlots has the
hypothesis `[]OneSlotPerLan`, which is what the loops over the endpoints need to
reach every slot; LanOutlivesSlot has none, for endpoints with one slot.

**LanNames** (LanNamesAssumption: any hash into the table, finitely many users).
`NamesInv` says that names are unique in the table, that an index has a name exactly
while it has users, that users and totals are counted, and that each user's
number has its name. A search goes round the whole table and stops at the nearest
place that holds the name, so the holes that deletions leave do not hide a name;
that names are unique then makes the place it finds the number the users hold.

**JobForSelect** (JobForSelectAssumption). `IInv` has a place for each index (the
free ring, the socket, the buffer, the hand of rx_ack between two of its stores)
and orders the requests across them. No index is lost because the two ends of the
ring are written by one side each, and `check_tab` is exact between stores.

**PidClone** (PidCloneAssumption). `IInv` has three parts: the counters of the
table; what each clone is known by, with one ident and one pid for every clone
that is not reported (pids come back); and what of its messages is still to
come. It is stated of the tables as parameters, so that the loop of
`pid_clone_harvest_death`, whose callbacks may launch clones, is followed step
by step within one action.

**VmLife** (VmAssumption: the order of the delays, finitely many names). The
handlers are operators on the tables of the server, and `Good(st, a)`, the
invariant of the tables `st` after `a` requests, is too: each handler is shown to
keep it, and an action is then a few lines. Its parts: numbers are marked by
whom they belong to and the cursor is at a free one; a name whose directories
are being made has no machine and no zombie; a zombie has at most one erasure
armed or running, with its number, and its machine is not being created any
more (without this part a second `machine_death` would arm a second erasure for a
name that has come back); a machine to be killed has its cutoff; each request
without an answer has one creation that owes it. That `cfg_add_zombie` meets
none of its KOUTs but one is part of the result; that one, more than `MAX_ZOMBIE`
zombies at once, ends the server in the code, so the theorems speak of
behaviours that do not meet it (`[]ZombiesFit`). VmSafety shows that the
hypothesis holds by itself with at most `MAX_ZOMBIE` names.

**LanRank** (RankAssumption). RanksApart, MembersExact and NeverStuck hold because
of where the dialog of each connection stands: `IInv` says which ends of its two
channels are open, which record and rank it has, and that one message at most is
under way, always the one its state calls for. Connections of one slot are
ordered: those before the last one have no end open while it has a record.

**A2bSched** (A2bAssumption: positive sizes and units, any configuration and any
commands with integer values). `IInv` says that the ring holds the packets that
were put and not taken in their order; that the producer has the lock from the
slot to the head and that what it found free stays free; that the consumer has the
tokens for the packet it decided to send; and it relates the date of the bucket
to what the wakes gave since the last tick, of which FeedPace is a part. DelayKept
is an action property, proved from the step that takes a packet.

**Backdoor** (BackdoorAssumption). What the switch knows and what the doors have
agree only once the commands under way have come, so `Follows` states what they
will agree on: a machine the switch has is in the doors or its `add` is the first
of the commands; one it has not is gone, is being released, was never reached, or
its `del` is the last; and the port of the agent is that of the last `up` under
way, or of the record when there is none. It is stated of the commands, the switch and the
record as parameters (`Serves`), so that the commands of one handler, and those a
restart of the doors has to send again, are followed one by one. That the flag of
the clients is right needs two more facts: the last event under way is the last
ping status the doors decided on, and the doors know no life of the machine that
has not begun, since an event of an earlier life is not for this one. RetryIsDue is
the part `Retry`, kept together with the state of the console (`SwitchSound`).

**C2cPeer** (C2cAssumption: two indexes or more). EndpHasOwner and Watched depend on
one end (`Local`): an end has its endpoint, its record when it has no link is the
empty one, the doors hold an index for a link only, the pool has the others once
each (`PoolOk`), and a timer of a trial is there only without a connection.
IndexesAgree depends on both and on everything under way between them (`Shared`):
connections that were not made yet are idle; the master has one index answer to
come at most, and while it has one, no create was sent on its connection and the
slave is not on it; a create carries the master's index; and the last acceptance
on the way to the master, or the master's own record when there is none, has the
slave's index (`LastSays`), except while an index answer of the slave's doors
is to come. Without the clause about creates the invariant is
not inductive: a slave that takes a create of an earlier trial would have another
index than its master. Most steps change one end and send nothing that promises
(`Frame`), and FrameGood shows once and for all that `Shared` outlives them; the
others (PeerConnect, the two index answers, the create, the ack) are followed
field by field. The helpers (`C2cFree`, `MuendpFree`, `ReqIdx`, `Send`) have lemmas of
their own that say what they change, and no action opens them.

Facts used in several places are lemmas cited by name (what arming or taking a
timer does to a bag, what the helpers return, which tables a handler leaves
alone). Where a handler has many fields, a lemma states which part of the tables
it changes, so that the parts of the invariant that do not read them are kept
without being opened.

Model-checked only:

- every liveness property (EveryTimeoutLeaves, LanNameReusable, StopFrees,
  StartTimesOut, EveryRequestServed, EveryDeathReaped, AddAnswered, NameComesBack,
  AgentReached, Leaves): liveness under fairness and ENABLED are out of the
  prover's reach;
- what would need induction over data: that is why sequences (the sockets and the
  channels) are handled by their heads, tails and ranges, and why the searches of
  LanNames are written with the least distance and not by recursion.

## 5. Where the code does not do what one would expect

These were met while modelling. The models do the steps as the code does them;
none is a property, since the property would be false.

- `endp_evt.c:521-532`, `549-557`: a connection answer that comes after the slot
  stopped waiting (its timer, the LAN's death) is logged as an error and then
  answered to an uninitialised `llid` and `tid`: nobody's, those of a client an
  earlier call left on the stack, which then has an answer to come that it already
  had, or ones that end the server.
- `qemu_automaton.c:130-132`: a copy clone that is killed or stopped after it has
  said OK ends the server (`pid_clone.c:395` gives both a status that is not 0).
- `pid_clone.c:395`: a clone that is stopped is reported dead, its ident is freed
  while it lives, and its real death is unknown.
- `pid_clone.c:490-504`: a clone that cannot connect back exits with status 0
  without having run its function.
- A request for a LAN that is starting has no timer of its own; the second of two
  slots of an endpoint that wait for one LAN is skipped by the loops over endpoints
  (so SlotLanLives is stated for one slot to an endpoint); an endpoint that dies
  does not answer its waiting clients; `fct_timeout_mulan` of a first connection
  closes the second one.
- `machine_create.c:154`: the cutoff of a machine that dies during its creation may
  unset it before the creation ends (`BUG` of `cfg_unset_vm`).
  `recv_from_client.c:981`, `machine_create.c:299`: numbers of failed creations stay
  taken. A failed clone makes two `status_ko` for one request.
- `c2c.c:86`: a ping makes a link peered in any state. `c2c.c:284`: each connection
  event adds a ping timer that lasts as long as a link of the name: one of an
  earlier link may find a new one lost while its doors connect, and leave the master
  without a timer. A slave that waits for its master has none either. An index
  answer of the doors is matched by name, so that one for an earlier link is
  acknowledged to the master before the right one. A master that restarts before its
  slave has missed three pings is refused.
- `qhvc0.c:1154`: a stream that is out of sync within thirty seconds of a handshake
  stops the pings of the doors while the switch ignores their `PING_KO`: the agent
  is not started again. `qhvc0.c:909`, `llid_backdoor.c:843`: a console or a port
  that closes is not opened again. `llid_backdoor.c:788`: the record of a machine
  that was never reached is not freed and is inherited by the next machine of the
  name.
- `lib_mulan/src/diag.c:91`: an endpoint whose traffic channel ends before the LAN
  has read its opening ends the whole LAN process if no other channel carries
  traffic. `lib_muend/src/diag.c:266`: the timer of a connection that was
  disconnected closes the next one.
- `mua2b/src/sched.c:65-77`: `stored` is changed by two threads without a lock, and
  keeps the packets that a full ring drops: the queue shrinks, or grows, for good.
  `config.c:94`: the loss asked for a direction is stored with the other side than
  its delay, queue and bucket, and applied to the packets of the other direction,
  against the help of the client (`client/ctrl/src/help.c:236-250`). `sched.c:200`:
  a tick sets the date of the bucket one millisecond ahead, a packet that wakes the
  thread sets it back, and the negative difference is cut to zero: the next tick
  counts two milliseconds, so that with one wake soon after each tick `brate`,
  "octets per second throughput", is nearly doubled. `sched.c:84`: a packet as large
  as the bucket blocks the queue. `sched.c:102`: the default bucket of 10 million
  octets overflows an int when multiplied by 1000.

## 6. Plan

Done: timer wheel, attachment, LAN numbers, jobs, clones, machines, links between
servers, backdoor, ranks, shaping.

Proved: the safety properties of all of these, and the four refinements of
abstract specifications (section 4). What is left to the runs is liveness.

Models that would come after: **BlkdFlow** (the queues of blocks and flow control),
**MucliDialog** (requests forwarded to another process), the channels with their
framing; EndpLan over the LanNames table, the PidClone obituaries and the LanRank
dialog in place of `nb_users`, `obituary` and `ps`.

## 7. Not modelled

Packet input and output (taps, captures, nat over a third-party TCP stack), the
relay of client connections through `doorways`, the clients and their drawing,
formatting and parsing of messages, layout, statistics, command lines and start-up:
input, output and text with next to no state of their own. qemu, spice, the kernel
and the programs that clones execute are external and appear only as the steps they
may take. Of the 106,000 lines of the repository most are of this kind (clients,
message formats, canvas, nat, test programs); the models cover the control of the
server, of the doors, of the LAN processes and of the shaper, so that only a small
share of all lines is mapped.

## 8. Running

    tlc -workers 2 -config MCEndpLan_live.cfg MCEndpLan
    tlapm EndpLan_proofs.tla

Every property has a mutant of the code next to the definition it mutates
(`Name_Variant`); `PROJECT.json` says which one breaks which property.
