# TLA+ verification of AmiTCP_NG

AmiTCP_NG is a 4.3BSD TCP/IP stack for AmigaOS, reached by programs as
`bsdsocket.library`. There is no kernel mode and no memory protection. One
network task owns the SANA-II devices and runs protocol input and all timers;
programs call into the library on their own tasks and stacks. Library calls
exclude each other with `syscall_semaphore`; they exclude the network task with
the spl calls, which in the production build are Exec's `Forbid()`. A task that
waits lets go of both, and every interesting failure of the stack starts there.

This directory holds models of the parts where that matters, the TLC runs that
check them, and proofs. Source paths below are relative to `src/src/`.

## 1. Inventory

| Component | State | Operations | Hard behaviour | What makes it correct |
|---|---|---|---|---|
| sleep/wakeup (`kern/kern_synch.c`, `sys/synch.h`) | sleep queues, a sleep context on the stack of each sleeper, timer requests, the priority boost of a call | `tsleep`, `wakeup`, `splnet`/`splx`, call entry and exit | a wakener writes into another task's frame; wakeup, time-out and reaping share one signal bit | no lost wakeup or time-out, no access to a dead frame, interrupts kept, the boost follows the call |
| socket layer (`kern/uipc_socket*.c`) | socket state, accept queues, buffers | `socreate`, `soclose`, `soaccept`, `sonewconn`, `sofree`, `sosend`, `soreceive` | a close lingers and sleeps while others use the table; the protocol frees sockets by itself | reference counts, queues consistent, no sleeper on freed memory, bytes in = bytes out |
| descriptor API (`api/amiga_generic.c`, `amiga_syscalls.c`, `amiga_api.c`) | descriptor tables of bases that tasks may share, released sockets, socket owners | `socket`, `accept`, `CloseSocket`, `Dup2Socket`, `ReleaseSocket`, `ObtainSocket`, `UL_Close`, shutdown | what a call looked up before a sleep is stale after it; programs exit half way | no leaked, dangling or doubly closed socket; no pointer to a freed base |
| WaitSelect (`api/amiga_generic.c`) | chains of select items on buffers, the task's `newselbuf` | `WaitSelect`, `selscan`, `selenter`, `selwakeup`, `unselect` | does not hold `syscall_semaphore`; one time-out over several sleeps | no missed event, chains hold only items of calls in progress, time-outs return |
| TCP (`netinet/tcp_*.c`) | `tcpcb`, reassembly queue, SACK board, timers | input, output, timers, user requests | loss, repetition, reordering, sequence wrap, closed windows | the stream is delivered once and in order; a FIN ends it after its last byte; what waits has a timer |
| IP (`netinet/ip_*.c`) | reassembly queues, options | input, `ip_reass`, `ip_slowtimo`, output, ICMP | overlapping fragments, eviction at a limit | a datagram is whole or absent; memory bounded; queues leave |
| UDP, raw, PCBs (`netinet/udp_usrreq.c`, `in_pcb.c`, `raw_ip.c`) | lists of control blocks | bind, lookup, notify | errors delivered to blocks that go away | best match, no use after free |
| ARP (`net/sana2arp.c`) | table of entries with one held packet each | resolve, input, age, evict | hold-down and clock steps; reuse of an entry | a held packet is sent or freed exactly once |
| SANA-II driver (`net/if_sana.c`) | I/O requests, reply port, send queue | poll, output, up, down, remove | requests come back after teardown; reads retired when mbufs are short | a request is in one place; the receive ring refills |
| packet capture (`net/bpf.c`, `bpf_filter.c`) | channels with store, hold and free buffers; filter programs | open, close, read, tap, ioctl; validate, run | a channel is closed and reopened under a sleeping reader; loads that straddle mbufs | buffers never lost or shared; records whole; a valid program stays in bounds |
| mbufs (`kern/uipc_mbuf.c`) | free lists, clusters with counts | get, free, copy, pullup, drain | pool exhaustion, shared clusters | no leak, no double free |
| routing (`net/route.c`, `radix.c`, `rtsock.c`) | tree, reference counts | lookup, add, delete | a route deleted while held | longest match, counts exact |
| network task (`kern/amiga_main.c`, `amiga_time.c`, `net/netisr.c`) | signals, netisr flags, callouts | main loop, timers, shutdown | signals are levels, not counts | work announced is done |
| resolver, DNS cache (`api/res_*.c`, `dns_cache.c`) | server list, cache | query, retry, insert, expire | late answers, eviction, clock wrap | answers match questions |
| DHCP, link-local (`api/amiga_roadshow_compat.c`) | lease, helper process | exchange, apply, retry, abort | late and refused offers, abort, offline | one lease applied, exchange ends |
| events (`kern/uipc_socket2.c`, `_GetSocketEvents`) | event bits and mask of a socket | raise, collect, accept, set the mask | bits merge; only new ones signal | a program that works as documented misses none |
| options and tunables (`kern/uipc_socket.c`, `kern/config_var.c`, Roadshow data) | options, reservations, defaults and who wrote them | `setsockopt`, start, `AddInterfaceTagList`, `ChangeRoadshowData` | several writers of one number, widths, dry pool | the last accepted value holds; numbers agree |
| logging, ARexx (`kern/amiga_log.c`, `amiga_rexx.c`, `subr_prf.c`) | a pool of messages, two ports | `vlog`, `log_poll`, start, stop | rendezvous that share a signal | messages come back; losses are reported |
| pure algorithms (`in_cksum.c`, `res_comp.c`, `accesscontrol.c`, ...) | none | checksum, names, answers, rules, addresses | odd mbufs, ends of buffers, pointers | equal to a reference definition; in bounds |
| rest (jump and error tables, `usergroup/`, `tools/`) | | | text and tables | |

They meet as follows: a program's call enters a socket operation under
`syscall_semaphore`, the socket layer calls the protocol's user request at
splnet, the protocol calls IP output and the driver; the network task calls
protocol input, which calls back `soisconnected`, `sorwakeup`, `sofree`, and
through those `wakeup`, `selwakeup` and `Signal` to the owner of a socket.

`PROJECT.json` lists the components with their status and the hazards with their
lines and the properties aimed at them. Hazards noted and not in that list:
`api_abandon_bases` unlinking a base whose `UL_Close` is asleep
(`api/amiga_api.c:1027`); shutdown of a listener under a sleeping acceptor
(`kern/uipc_socket.c:1149`); a second `connect` clearing the first one's
SS_ISCONNECTING (`api/amiga_syscalls.c:409`); `selscan` reading the table without
`syscall_semaphore` (`api/amiga_generic.c:612`); the descriptor's slot that has to
be cleared before `soclose` sleeps (`api/amiga_generic.c:876`); reuse of an evicted
ARP entry (`net/sana2arp.c:401`); shared cluster counts
(`kern/uipc_mbuf.c:1024`); expiry across the clock's wrap (`api/dns_cache.c:108`).

## 2. Plan

Every component of section 1 but the last has a module. The models are complete
as far as the abstractions of section 8 go; what remains is to prove more of what
the runs check. Done: the theorems of section 6, which are about sleep and wakeup,
the command helper, DHCP's helpers, events, the resolver, control blocks, descriptor
tables, the life and the owners of sockets, `WaitSelect`, IP reassembly, the log task,
the options of a socket and the tunables of the stack.

To prove next, in this order:

1. `Select`: the same theorem for calls that watch any number of conditions, whose
   chains need an induction in place of the case analysis of two.
2. `Sana`: `DriverSound`, and `Stack`: `StackSound`.

No module with an inductive argument in it uses a `RECURSIVE` operator.

## 3. Modules

`PROJECT.json`'s `map` gives the lines of every definition. Each module's header
says what it abstracts.

### Tasks, sockets and programs

**KernSynch.** `kern_synch.c` at the grain at which tasks can be switched. `pc`
says where an agent is; `forbid` and `spl` are Exec's nesting count; the two
semaphores are an owner and a FIFO. A sleep context is named by its task, and
`live` says whether the frame that holds it exists. `wakeup` is three steps
(obtain `sleep_semaphore`, clear `sc_wchan`, unlink and signal), `tsleep` is a
step per blocking point: enter, release, the loop of `tsleep_main`, unlink,
obtain `syscall_semaphore` again, reap the timer request.

**SockLife.** Each socket is a record of what the code branches on; the
protocol is TCP, reduced to the states the socket layer distinguishes. A call
is one step up to its sleep and one from its wakeup, which is what
`syscall_semaphore` and splnet give. `Home` and `Opener` say which task uses
and which opened a base. `Uses` switches calls on, and also the circumstances
the code does not survive (section 7), so that the other properties can be
stated of everything else.

**SockBuf**, over **Mbuf.** `Mbuf` is the pool: free list, chunks added on
demand, clusters with reference counts, and the operations on chains, each of
which may find the pool dry; `SockBuf` keeps socket buffers in such chains, with
`sbappend`, `sbcompress`, `sbdrop` and the loops of `sosend` and `soreceive`.
`soreceive` is one step to the choice of what to copy (`Copied` follows it), since
it lowers the level while it copies. With MSG_WAITALL it sleeps at the end of the
buffer and begins at its front again; `rd.base` says how much had been copied before
that, because a peek then meets the same octets (section 7).

**SockOpt.** The options, their mbuf, and the two reservations of `soreserve`
with widths kept.

**Events.** Event bits, the mask, the signal, and a program that follows the
documented loop.

**Select.** The chains are modelled as memory: `mem` holds the pointer at each
address (a chain's head or an item's `si_next`) and `prev` each `si_prev`, so
`unselect`'s store through a stale back pointer does what it does in the code.
`select_semaphore` is explicit, including the wait inside `selenter` that ends
the `Forbid()`. `tsleep_main` and `wakeup` are one step, as KernSynch justifies.

**Stack.** The library's first opener spawns the network process and waits for
it; timers, break signals, controller requests, closes and the two passes of the
shutdown.

**LogTask.** The pool of messages between the tasks that log, NETTRACE and the
task that starts and stops it; ARexx messages on the same loop.

**Tunables.** Who writes which number: machine, ENV:, configuration file,
interface tags, `ChangeRoadshowData`, the control port.

### Protocols

**Stream** is the promise of a connection: two byte streams without segments,
windows or a network. **Tcp** is two ends, each a `tcpcb` with its socket
buffers, and a set of segments in the network. `tcp_input` is `Deliver`, composed
from operators for each part of it in order: trimming, RST, SYN, ACK, window,
data, FIN. `tcp_output` is the function `Output` from a block to the possible
(block, segments) outcomes. Timers are armed or not and an armed timer may expire
at any time; the congestion window is any value of `Cwnds` whenever `tcp_output`
reads it. Sequence numbers are modulo `SeqSpace` and compared as in `tcp_seq.h`.
`StreamImplemented` is the refinement: `Promise == INSTANCE Stream WITH` what
each end has written, holds, has read and reports as the end, and the property is
`Promise!StreamSpec`.

**Sack.** The receiver's list and the sender's scoreboard, RFC 6675 recovery and
its pacing, rounds of `tcp_output`, and the time-out that discards the board.
`AckInput` has the ladder of `tcp_input` for acknowledgements of either side of
`snd_una`: in recovery each of them paces and sends (`DupAck`), old ones reset the
count of duplicates, and when SACK's precondition fails (`snd_nxt` behind `snd_max`
after a time-out) NewReno resends one segment at the third duplicate (`FastRexmt`)
and at each partial acknowledgement (`PartialAck`, `Resent`, `Deflated`).

**IpReass.** Queues of fragments with real offsets (in units of 8 bytes) and
data, and the walk, trimming and insertion of `ip_reass` in the code's order.
`out` records what the last arrival did.

**Ip.** `ipintr`'s queue, checks, options, forwarding, redirects, fragmentation
and ICMP. Every path accounts for the packets it takes: sent, given up, freed.

**Pcb.** UDP and raw control blocks, ephemeral ports with a random start and a
scan, the one-block cache, and notifications when an address goes. A search that
ends without a port moves the list head's cursor and fails the call: a bind to an
address has stored the address by then, an implicit bind has stored nothing. `dry`,
which the code does not have, remembers of a block that its bind ended so.

**Routes.** Interfaces, addresses, routes, and blocks that hold routes, pointing
at each other without counts except on routes; the radix tree as what it means.

**Arp.** The table with its chains and free list, the one held packet of an entry,
pacing by ages, confirmation by traffic.

**Sana.** One interface: a bag of requests, reply port, receive ring, probe after
offline, removal. **SanaHelper.** The process that issues commands a driver may
never return from. **Dhcp.** The helpers that acquire an address for one
interface and the link-local state they share with the network task.

**Bpf**, **BpfFilter.** Channels and their buffers; the filter machine, whose
program is chosen instruction by instruction as it is fetched.

**Names.** Lookups by a client over a server list others edit, the cache, stray
and late replies, and iterators over the database that a RESET frees. **Codec.**
The pure algorithms, each against its reference.

### Composition

`MCLink`, `MCData`, `MCInet` and `MCLive` put several components into one run. The
components there share no variable (where two meet in the code, one module holds
both sides: buffers over mbufs, routes with addresses and blocks, DHCP with the
link-local state of ARP), so an interleaving of two of them shows nothing either
does not show alone: `focus`, chosen initially, says which one moves.
`MCSockLife`, `MCKernSynch` and `MCTcp` only give constants their values.

## 4. Runs

| Run | Question | Instance |
|---|---|---|
| `synch_intr` | sleep and wakeup of two tasks that share a base, with interrupts and time-outs | 2 tasks, network task, 1 channel; the tasks' priorities lie on both sides of the network task's |
| `synch_live` | every timed and every woken sleep returns; wakeups keep to their channel | 1 task, network task, 2 channels in 1 bucket, fair |
| `sock_share` | sharers accept, receive, shut down and close | 1 base, 2 tasks, 3 sockets, 2 descriptors |
| `sock_dup` | `Dup2Socket` and copies across lingering closes | 1 base, 2 tasks, 2 sockets, 2 descriptors |
| `sock_pass` | sockets and listeners handed over, owners set, programs exit, the stack goes down | 2 bases, 3 sockets, backlog 1 |
| `tcp_data` | a connection opens, carries data over the sequence wrap, and is closed or aborted, with loss, reordering and retransmission; it implements `Stream` | 2 bytes, segments of up to 2, 2 segments in flight |
| `tcp_window` | windows that close and reopen, are probed, repeated and reordered, with shutdown and keepalive | 3 bytes, buffer of 2, segments of 1, 2 in flight |
| `tcp_wedge` | *violated*: data queued with no timer | 2 bytes, buffer of 1 |
| `link` | driver, helper, ARP, DHCP, start and stop of the stack | 2 requests, queue of 1, a device that ignores aborts; 2 clients, 2 starts; 2 addresses in a table of 1 chain entry, 2 packets; 2 helpers; 2 programs, 1 requester, both builds |
| `data` | buffers over mbufs, capture, filter, options, tunables, routes | 2 chunks of 2 mbufs and 1 cluster; 2 channels, 3 packets, 1 reader; programs of 3 instructions; 3 option calls; 4 tuning steps; 2 interfaces, 2 addresses, 3 routes, 4 calls |
| `inet` | IP, control blocks, SACK, events, codecs, log, resolver | 2 packets of a small set that covers each option, error and fragmentation; 2 UDP sockets with datagrams, 1 raw socket, and 3 UDP sockets for 2 ephemeral ports, one of which connects; 5 bytes in segments of 1, lists of 2 and 3 blocks; 3 sockets, 4 network events; all jobs over small alphabets; 2 messages, 2 writers, 2 lives; 2 servers, 1 cache slot |
| `live` | what must end does | as for `Select` (1 task, 2 buffers, two items at once), `IpReass` (3 datagrams, 2 queues of at most 3 fragments), `Names`, `Stack`, fair |

Why these bounds are enough for the questions asked: two sharers are the
smallest number that can disturb each other, a third task is only another
sharer; two descriptors let one be reissued while the other is in use; three
sockets are a listener, a queued and an accepted connection. Two buffers
distinguish a scan that finds the first from one that finds the second. Two
queues make the third datagram evict one; three fragments give a fragment a
predecessor and a successor to overlap with. Two segments in flight are what
reordering needs, and a sequence space of 16 with initial numbers two below the
end makes the first data byte wrap. A table of one ARP entry makes the second
address evict the first, and the second packet replaces the one held. One cluster
and two mbufs a chunk make every allocation fail somewhere. Two channels and
three packets let a channel be closed, reopened and filled under its reader. A
filter of three instructions has a jump over an instruction, and constants reach
past the end of a packet that is split. Five segments and three blocks overflow the
sender's board, two the receiver's. Three sockets on two ports leave one without. Two helpers are an old one and its
replacement; two starts let a caller sleep across a restart. One cache slot
makes every insertion an eviction. The counts of calls (`Max...`) are the bounds
on the length of a behaviour, large enough for make, use, remove and make again.
`MaxCount` bounds `ip_nfrags`, which the code lets grow (section 7).

`CHECK_DEADLOCK FALSE` is used where the system may stop: a connection that is
over, a stack that is down, a program that has exited or sleeps until a peer
speaks, a bound on calls that is used up. KernSynch has no such states and checks
for deadlock.

**Fairness.** KernSynch: strong for every step of a ready task, since another
task's `Forbid()` disables it again and again while Exec keeps rescheduling;
weak for the timer device's reply. Calls, wakeups and interrupts are under no
obligation. `live`: weak for the steps of a task inside `WaitSelect`, for the
timer's reply and for the network task's pending delivery; weak for `ip_slowtimo`,
which the network task's half-second timer calls; weak for the steps of a
client's own task inside a lookup, which include the time-out of its receive, so
silence ends; weak for the network task's loop, for the passes of its shutdown and
for the timer device, as long as there is one network process (`clash`, a second
process over the same globals, is not explored). No fairness is assumed of
programs, of servers or of the network.

## 5. Properties

The definitions carry their statements; a property that is a conjunction names
its parts, which have statements of their own.

- KernSynch: `TypeOK`, `QueueConsistent`, `NoDeadFrame`, `BoostFollowsCall`;
  `Delivered` (no wakeup or time-out is lost on a blocked task), `InterruptKept`,
  `WakesOnlyItsChannel`, `SleepReturns`.
- SockLife: `SocketsSound` (queues, sleepers, no panic), `DescriptorsSound`
  (counts exact, no dangling or leaked socket), `OwnersSound` (no pointer to a
  freed base), `ReturnKeepsDescriptors`.
- Tcp: `StreamImplemented`; `SequenceSound` (FIN after data, acknowledged implies
  received, outstanding implies timed); `SenderSound` (order of the send
  variables, one timer, inside the window offered); `WindowKept`.
- Link: `DriverSound` (requests accounted for, none outlives its interface, no
  reply left lying, the operator's wish obeyed by what the driver reports),
  `HelperSound`, `ArpSound`, `HelpersAccounted`, `StackSound`.
- Data: `BuffersSound`, `BpfSound`, `FilterSafe`, `OptionsKept`, `TunablesSound`,
  `RoutesAnchored`.
- Internet: `IpSound`, `PcbsSound`, `SackSound`, `EventsKept`, `CodecRight`,
  `LogSound`, `NamesSound`.
- Ends: `SelectSound`, `ReassSound`, `SelectReturns`, `QueuesLeave`, `LookupEnds`,
  `RequestAnswered`.

Every property of a passing run has a mutant of the modelled code that violates
it, such as a dropped guard, a missing reset or a swapped order; the mutants stand
before the definitions they replace. Types are checked for KernSynch only; the
other type invariants document the state.

## 6. Proofs

Eight modules hold theorems. Each extends its components' modules and proves their
properties for every value of the constants, from the named assumptions of that
module: no bound of a run is used, only that the bounds are numbers.

| Module | Theorems | Inductive invariant |
|---|---|---|
| `KernSynchProofs` | `SpecTypeOK`, `SpecQueueConsistent`, `SpecNoDeadFrame`, `SpecBoostFollowsCall` | `IInv` = `TypeOK`, `LockInv`, `FrameInv`, `MarkInv`, `QueueConsistent`, `BoostInv`, `BoostFollowsCall` |
| | `SpecDelivered`, `SpecInterruptKept`, `SpecWakesOnlyItsChannel` | `DeliverInv`, relative to `IInv`; the two action properties from `IInv` |
| `LinkProofs` | `SpecHelperSound` | `HelperInv` = `HelperTypes`, `Registered`, `ByeIsLast`, `HeldOnce`, `ClientsWait`, and a helper that is wedged was started too late to be waited for |
| | `SpecHelpersAccounted` | `DhcpInv` = `DhcpTypes`, `MessageOwned`, `InterlockHeld`, `RouteUsed` |
| `InetProofs` | `SpecEventsKept` | `EventsInv` = `EventsTypes`, `MaskKept`, `Signalled`, `AcceptDue` |
| | `SpecNamesSound` | `NamesInv` = `CacheOK`, `LooksOwn`, `CursorsKept` |
| | `SpecPcbsSound` | `PcbInv` = `PcbTypes`, `CacheListed`, `BlocksOK` |
| | `SpecLogSound` | `LogInv` = `LogTypes`, `Handshake`, `Pool`, `PortsSignalled`, `ScriptsWait`, `LossesSeen` |
| `SocketsProofs` | `SpecReturnKeepsDescriptors` | `TableInv` = `TableTypes`, `SlotsMarked`, `DupTargets` |
| | `SpecDescriptorsSound`, `SpecSocketsSound` | `LifeInv` = `SockInv`, `TablesTyped`, `RefsExact`, `CallsOK`, `Reasons`, no panic; relative to `TableInv` |
| `OwnersProofs` | `SpecOwnersSound` | `OwnInv` = `OwnerHolds`, `Placed`, `BasesOK`, `DupsMeant`; relative to `LifeInv` |
| `SelectProofs` | `SpecSelectSound` | `SelectInv` = `SelectTypes`, `SemOK`, `ChainsOK`, `Stale`, and for each task `CallOK`, `Asked`, `Linked`, `Tested`, `Woken` |
| `ReassProofs` | `SpecReassSound` | `ReassInv` = `QueuesOK` (of each queue `ListOK`, `Lacks` and its count; unique keys; the bounds), `DeliveredWhole` |
| `DataProofs` | `SpecOptionsKept` | `OptInv` = `OptTypes`, `SidesOK`, `AskedKept`, `Reservations` |
| | `SpecTunablesSound` | `TunInv` = `TunTypes`, `WindowsKept`, `RingsKept`, `PriKept` |

Every inductive invariant was first checked by TLC as an invariant of the run that
checks its property (`LifeInv` completely on the instance of `sock_share`; on those
of `sock_dup` and `sock_pass`, where it is costly to evaluate, as far as five minutes
go).

**Sleep and wakeup.** None of the properties is inductive alone. What protects a
sleep context against a wakener that has cleared `sc_wchan` and not yet unlinked is
not `sleep_semaphore`, which the sleeper does not take when it finds `sc_wchan`
clear, but one of two things: an application wakener holds `syscall_semaphore`,
which the sleeper needs before its frame can go, and the network task runs under
`Forbid()`. `IInv` says so: `LockInv` (who holds which lock at which `pc`),
`FrameInv` (a frame is live exactly in the steps of `tsleep`, and linked or
timed only in some of them), `MarkInv` (a marked context's owner is stopped, at
the latest, at `syscall_semaphore`, and is linked in that one bucket) and
`BoostInv` (the bookkeeping of a call in progress is its own task's, also when
sharers came in between). There is a lemma per conjunct with a step per action.
`DeliverInv` adds what ties signal bits to memory: a sleeper whose `sc_wchan` is
clear or whose timer has replied has its bit set, or a wakener that will set it.
Assumed: the network task is not an application task, null values are distinct
from real ones, hash, bases and priorities are functions of the right type.

**The command helper.** `Registered`: the public port is the latest helper's, which
has not been told to go. `ByeIsLast`: nothing is sent to a port behind the token
that ends its helper, so a helper that exits leaves no command behind. `HeldOnce`:
a request is with one helper, at work or at one place in its port. `ClientsWait`: a
helper has it only while its client waits for `BeginIO` or after that gave up. The
last part says that a port is given up only by a client that found it late.
`ClientsAssumption`: no client has the name of a state of a helper.

**DHCP.** `MessageOwned`: the application's message is with the one helper that
`aam_Reserved` names, and no other will reply to it. `InterlockHeld` and
`RouteUsed`: the reconfiguration interlock and the broadcast route are there while
a helper is at work that will take them away. `JobsAssumption`: no helper has the
null value's name.

**Events.** `MaskKept`: only what the mask asks for is recorded. `Signalled`: a
program that sleeps while bits stand has its signal. `AcceptDue`: a queued
connection is recorded or about to be accepted. `MasksAssumption`: masks are sets
of the known events.

**Names.** `CacheOK`: no two entries answer one question, and an entry's answer is
to its own. The cache is written at the end of a lookup with what the lookup holds,
so `LooksOwn` says the same of lookups under way; `CursorsKept` that an iterator
points into the generation of the list it is stamped with, also when the stamp is
stale.

**Control blocks.** The core is `LookupBest`, that `in_pcblookup` answers with a
block of the list that no other beats, and that a cached block which matches
exactly is as good. `BlocksOK`: a connected block has a local address, a block with a
local address has a port unless it is `dry`, and a block whose address is gone has been
told. The second part is not in `PcbsSound` and is what makes it inductive: a connect
takes over address and port as they are and binds only a block without address, so
what a connected block's port is worth was decided when its address was stored.
`PcbAssumption`: 0 is no address and no port, and the ephemeral ports are a range.

**Descriptor tables.** `ReturnKeepsDescriptors` says that a call which fails or
returns leaves every other descriptor alone. It rests on `SlotsMarked` (a slot in
use is marked in the base's bit mask) and `DupTargets` (a `Dup2Socket` asleep in the
close of its target has its target's slot reserved). It holds with every
circumstance of section 7 switched on.

**Sockets.** `SpecDescriptorsSound` and `SpecSocketsSound` are proved from
`SafeUses`: no program closes a socket on which another task sleeps
(`"closebusy"`), mbufs last in `accept` (`"mbufdry"`), and no `fdCallback` refuses a
new descriptor (`"fdcbfail"`). Section 7 shows for each of the three which part
fails without it. All other calls and failures are allowed, alone and together,
also in combinations no run has.

The properties are not inductive because `so_refcnt` says too little of a socket
without references: it may be freed, or be one that others still need. `RecOK`
tells four conditions apart by the socket's own record: `Held` (referenced, on no
queue), `Ending` (no reference, and a task asleep in its `soclose`), `Waiting`
(queued on a listener, `SS_NOFDREF` set) and `Orphan` (left to TCP, which will free
it). `Linked` makes `so_head` and the queues name each other. `RefsExact` is the
count as a cardinality of slots and released nodes. `CallsOK` says that what a call
sleeps on is held, or is what it closes, and that an ending socket has one closer;
without it `Ending` would not survive the second half of a close.

The protocol's steps and the halves of `soclose` are proved once on a socket map
`S` with a result `T`. `Undisturbed`, `Gentle` and `Kept` grade how far `T` may
differ from `S` for the other sockets and the sleepers, and an operation is composed
as the code composes it: drop the reference, start the close, finish it or sleep.
The lemmas about cardinality turn filling and emptying a slot into `ref + 1` and
`ref - 1`. `FiniteAssumption` (the bases are finite) makes the count a number.

**Owners.** `so_pgid` of a socket is a bare pointer, so `UL_Close` must leave none
behind. `OwnerHolds` says why it does: a socket that has an owner stands in the
owner's table, or is queued on a listener of the same owner. It is not inductive,
because closing the last slot in the owner's table clears `so_pgid` of that socket
and of nothing queued on it. `Placed` says that this slot was the only reference: all
references of a socket are slots of one table, or it is one released node; then the
listener dies with its queue. `BasesOK` says that a base which closes has one task,
which is in `UL_Close`, and that a freed base has an empty table; `DupsMeant` that
`Dup2Socket` is under way only where the instance has it. Assumed, as `OwnersSafe`:
`SafeUses`, no FIOSETOWN in favour of another base, and no listener that is copied,
or duplicated and then released; section 7 shows that without each of these
`OwnersSound` fails. Sockets that do not listen may be copied, duplicated and
released as they like.

**WaitSelect.** What was scanned is marked (`Asked`: `SB_SEL` is set or the buffer is
ready), what the second scan found not ready has an item at the head of its chain
unless the task was woken since (`Linked`), so a delivery finds it. `ChainsOK` is the
shape of the chains, including the half-unlinked one that `unselect` leaves when two
items of one call follow each other. The gap in `selenter`, between the test and the
link, is closed only by the order in `select_semaphore`: `Tested` says that if data
came in it, the task is ahead of the network task in the queue, and that the network
task is ahead only with a delivery of earlier data. `Woken` ties the time-out's reply
to a pending signal, or to a reason not to sleep. `Stale` says that a delivery whose
data was taken meanwhile concerns nobody. Assumed, as `OneSelector`: no two tasks
select on one buffer and nobody else takes its data (`Stealers` is empty); section 7
shows that without either a part of `SelectSound` fails. A call watches at most
`MaxItems`, two, conditions, which is the bound of the model and gives every chain a
call can make by itself. The loops of `unselect` and of the chain walk are recursive
functions; they are unrolled from an explicit witness for the function (`WalkIs`,
`UnselIs`) and not from an induction theorem. `NilAssumption` and `TasksAssumption`:
the null pointer is no item, and the tasks are finite.

**Reassembly.** Every fragment in a queue carries the data of its offset, and the
fragments of a queue are in order and disjoint (`ListOK`): the cut of `ip_reass`
against the predecessor, and of the successors against what arrived, keeps both,
whatever the overlap. `Lacks` says that some byte of the datagram is in no fragment
of a queue that waits. The test for completeness compares offsets and looks at the
last MF bit only; the proof shows that on such a list it fails exactly when a byte is
lacking, and that otherwise the data joined is the datagram, byte for byte.
`TotalLen`, `AllData` and `Unexpired` are recursive functions over a list; they are
unrolled from an explicit witness for the function and counted up with `CountUp`,
which is derived from the well-foundedness of `<` and takes a set where the
library's induction theorem takes an operator. Assumed are a size for every
datagram, pieces inside it (`PieceAssumption`: `ip_len` of a forged fragment that
reaches beyond its datagram is not modelled), and limits that are not zero.

**The log task.** `Pool`: while there is a pool, each of its messages is in one place
and there once. `Handshake` says where NETTRACE can be in each phase of start and
stop. `PortsSignalled`: a port with a message in it has its signal pending, or taken
in the pass under way and the port not yet emptied. `ScriptsWait`: an ARexx command
is answered once, by the task that has it. `LossesSeen` is what ties the counter of
losses to the report: in the first life of the task a loss finds `logReplyPort` empty
and leaves it so until the report, so that a message is on its way, and its arrival
brings the report about. That needs a pool of two messages (`LogAssumption`; the
smallest tier gives eight). The pool, the writers, the scripts and the number of
restarts are otherwise any.

**Options.** `AskedKept` says of each kind of option how its value follows from what
was asked; `Reservations` that a refused socket holds none. The arithmetic is that of
`sbreserve`: `CeilingIs`, dividing before multiplying keeps the ceiling below
`sb_max`, so doubling an accepted size does not wrap in 32 bits and `mbmax` covers
`hiwat` (`Reserved`); and `Accepted`, a negative SO_SNDBUF is a huge unsigned size,
which is refused. `SizesAssumption`: twice `sb_max` fits in 32 bits (no tier exceeds
2 MB), and an option's value is an `int`.

**Tunables.** `WindowsBacked` speaks of the stack as it is; what makes it inductive is
`WindowsKept`: `sb_max` never falls below the 64 KB of the smallest tier and always
backs a buffer of the machine's ceiling (`Tiers`, by the six tiers), and a window that
an interface file gave stands only while the override is set, which is what keeps a
later link from re-tuning it. Twice the larger window is enough for `sbreserve`
(`BackedTwice`), because 2048 of every 2176 bytes of `sb_max` count and a window is at
most half of it. For the rings, `LinkWindows` is the point of `ng_effective_window`:
the window that sized the rings, before the interface existed, is the one the
auto-tuning then stores, since both apply the speed, the ceiling and the override in
the same way, and the ceiling of a running stack is never zero; `RingsKept` then lasts
because the mbuf pool changes only at a start, when no interface is left.
`TunablesAssumption`: machines, interface files, devices and configuration files hold
numbers of their kind, none of them bounded.

Model-checked only:

- all liveness, which needs fairness and `ENABLED` and is outside the proof system's
  reach: `SleepReturns`, `SelectReturns`, `QueuesLeave`, `LookupEnds`,
  `RequestAnswered`; and the refinement `StreamImplemented` with the other TCP
  properties, whose step function is a composition of several hundred cases;
- properties about what a fold or a walk over a sequence leaves behind
  (`BuffersSound`, `BpfSound`, `SackSound`, `IpSound`, `ArpSound`):
  each needs induction over data, which the installed provers cannot instantiate;
- `CodecRight`: what the recursive algorithms compute for every input, for the same
  reason; `FilterSafe`, whose loads walk mbufs recursively;
- `DriverSound` and `StackSound`, which section 2 plans, and `RoutesAnchored`, which is
  within reach of the method.

## 7. Where code and comments disagree

Shown by a run of its own:

- `tcp_wedge` (`netinet/tcp_output.c:429`): an ACK owed at once while the peer's
  window is shut goes past the entry to persist state. Queued data has no timer;
  if the window update is lost, both ends wait for ever.

Found with the models and not given a run. The formula stands in the module named,
with what it quotes in the comment before it, and is reproduced by adding it as an
INVARIANT (or PROPERTY) of the run in parentheses:

| Formula | Where | What the code does |
|---|---|---|
| `CountExact`, IpReass (`live`) | `netinet/ip_input.c:771` | a completed reassembly does not decrement `ip_nfrags`; after eight reassembled datagrams every new queue evicts an old one |
| `NoNewOpeners`, Stack (`link`) | `kern/amiga_main.c:812` | after a break the stack starts to stop while the library is still listed, so new openers get in |
| `NotARouter`, Ip (`inet`, `Forwarding = FALSE`) | `netinet/ip_input.c:1337` | a packet with a source route is forwarded by a host that is no router |
| `OffEndRejects`, BpfFilter (`data`) | `net/bpf_filter.c:114-126` | `MINDEX` returns from `m_xword` and `m_xhalf` without setting the error; a load past the end of a chain gives 0 and the program may go on |
| `SessionKept`, Bpf (`data`) | `net/bpf.c:524` | a reader woken by a close goes on if the channel was opened again |
| `ErrorAnnounced`, Events (`inet`) | `kern/uipc_socket.c:1473-1476` | `soreceive` clears `so_error` and not `so_error_reported`; the same error later is not announced |
| `OverrideEnds`, Tunables (`data`, `MaxTunOps = 6`) | `api/amiga_roadshow_compat.c:1068-1072` | windows asked for by interface tags in one life of the stack keep the override set; after a restart the window does not follow the link |
| `ReportsOnlyLosses`, LogTask (`inet`) | `kern/amiga_log.c:1041-1044` | after a restart `GetLogMsgFail` is 0 and the static `TotalFail` is not |
| `NegativeIsDefinite`, Names (`inet`) | `api/gethostnamadr.c:566-570` | a transient failure in a search domain followed by "no such name" for the plain name is remembered |
| `AnswersFollowServers`, Names (`inet`) | `api/amiga_roadshow_compat.c:591-597` | an answer on its way when the cache is flushed is entered afterwards |
| `AddressesAttached`, Routes (`data`) | `net/if_sana.c:1859` | an address that was never numbered stays on `in_ifaddr` when its interface is removed, as `sana_scrub_inet` skips it |
| `LongestPrefix`, Routes (`data`) | `api/amiga_roadshow_compat.c:1370` | of a network route and a host route with equal keys the older, shorter one is found |
| `ConnectedHasPort`, Pcb (`inet`) | `netinet/in_pcb.c:478` | `in_pcbbind` stores the address before it looks for an ephemeral port; when it finds none the address stays, so the next connect does not bind and goes on with local port 0, the state which the comment at line 487 says the error is propagated to avoid. `PcbsSound` therefore promises a port only to a connected socket without that history (`dry`) |
| `PeekOnce`, SockBuf (`data`) | `kern/uipc_socket.c:1115` | the MSG_WAITALL loop does not test MSG_PEEK: a peek for more than the buffer holds sleeps, starts again at `sb_mb` and returns the octets at the front twice, where the description of `recv` (`api/auto_socket.c:731-734`) promises what a later receive will see. `BuffersSound` states the order of what a peek has copied since it last began at the front |
| `TuplesDistinct`, Pcb (`inet`) | `netinet/in_pcb.c:480-484` | `in_pcbbind` gives an anonymous port that a connected socket uses |
| `TrafficConfirms`, Arp (`link`, `Watched = {"h1"}`, `HwAddrs = {"h1", "h2"}`) | `net/sana2arp.c:148` | another station's packet is the first of each second and takes the one walk; a station whose traffic arrives is asked for again |
| `BowsOut`, Dhcp (`link`) | `api/amiga_roadshow_compat.c:4541-4546` | the retry loop passes its test, the operator sets an address, and the loop then removes it |
| `OperatorObeyed`, Sana (`link`) | `net/if_sana.c:2955` | a reconfiguration asked for earlier brings up an interface the operator has taken down |
| `ReadEnds`, SockBuf (with `SockBufFair`) | `kern/uipc_socket.c:1096-1105` | a read that peeks past its data need not end |
| `NoPanic`, SockLife (`sock_share` with `"mbufdry"` in `Uses`) | `api/amiga_syscalls.c:345` | `accept` with the pool dry skips `soaccept`; `SS_NOFDREF` stays set and the close panics |

Found the same way with the circumstance switched on, and kept out of the
passing runs by leaving it off. Each can be reproduced by adding it to a cfg:

- `"foreignowner"` in SockLife's `Uses`, `OwnerNotFreed`: FIOSETOWN stores any
  task's base in `so_pgid` (`api/amiga_generic.c:224`); `UL_Close` clears it only
  for sockets of its own table, so a freed base stays named.
- `"copy"` with `"listen"` over two bases, `OwnerNotFreed`: closing a listener of
  which a copy was released clears only the listener's `so_pgid`; the queued
  connections keep naming the base that is freed (`api/amiga_generic.c:852`).
- `"dup"` with `"release"` and `"listen"` over two bases, `OwnerNotFreed`: the same
  for a listener that was duplicated, and one descriptor of it released and obtained
  by another base, after its connections had queued.
- `"fdcbfail"`, `NoLeakedSocket`: `_socket` drops its only pointer to a new
  socket when `fdCallback` refuses (`api/amiga_syscalls.c:133`).
- `"closebusy"`, `SleeperSocketLive`: `CloseSocket` frees a socket on which a
  sharer is asleep (`api/amiga_generic.c:884`).
- `Stealers` not empty in Select, `NoMissedEvent` and `TimeoutKept`: the wait for
  `select_semaphore` in `selenter` opens the gap between the test and `SB_SEL`
  (`api/amiga_generic.c:650`), and the one time-out's reply may lie in the port
  with its signal consumed when the loop sleeps again (`api/amiga_generic.c:470`).
- Two tasks selecting on one buffer, `ChainsClean`: `unselect` does not hand its
  back pointer to the next item (`api/amiga_generic.c:682`), so an item of a
  finished call stays linked.
- `"nobufs"` in Tcp, `FinAfterData` and `OutputTimed`: when `m_copy` fails the
  header still carries the FIN, at the sequence number of unsent data
  (`netinet/tcp_output.c:698`); a failed send on an idle connection arms no timer
  (`netinet/tcp_output.c:920`).
- In IpReass a fragment refused at the cap of fragments has already trimmed and
  removed those behind it (`netinet/ip_input.c:700`), where the comment says that
  the partial reassembly is left intact.

## 8. Abstractions and what is not modelled

- KernSynch: spl levels are one level, as in the production build; statistics
  and log messages are left out.
- SockLife: whether a call is non-blocking is chosen freely; UDP sockets,
  `SS_ASYNC`, the SB_LOCK path of `sorflush` (MSG_WAITALL), FDCB_CHECK refusals,
  several opens of one base and the list `socketBaseList` are not modelled;
  SYN_SENT and SYN_RECEIVED are one state; a base's address is not reused.
- Select: closing a selected socket, EBADF and contention for `sleep_semaphore`
  are not modelled; a scan has at most `MaxItems` = 2 items.
- IpReass: keys of datagrams are abstract, header checks and options are left to
  the caller, `m_get` failure is a free choice.
- Tcp: `tcp_do_sack` and `tcp_do_rfc1323` are 0 (both are settings, SACK is on by
  default); no urgent data; one incarnation of a connection; the numeric values
  of timers and of the congestion window are abstracted as in section 3;
  `dupacks` saturates above the threshold; shutdown of the receiving side and
  connections aborted in a listener's queue are in SockLife, not here. The
  keepalive probe is sent only when nothing is under way (`Silence`), since it
  follows two hours without a segment. At most `MaxNet` segments are in flight: a step that would exceed it
  is taken with some of its segments lost where loss is on, and not at all
  otherwise.
- Mbuf, SockBuf: sizes are in units of a few octets, a packet header takes one unit;
  a behaviour of SockBuf looks at one buffer of three kinds.
- SockOpt: sizes keep their 32 bits as numbers below `Word`. Tunables: one option
  (`tcp.mssdflt`) stands for those that every writer may change.
- Events: one program owns the sockets and works the way the API asks.
- Stack: subsystems are started and stopped in one step each; a second process over
  the same globals (`clash`) is not explored further. LogTask: the text of a message.
- Sack: sequence numbers stay inside one window; the peer's window is open and holds
  all `Bytes`, so `snd_wnd` is `Bytes`; data flows one way, so every acknowledgement is
  a bare one with the same window.
- Ip: a checksum is right or wrong; one address on an Ethernet and the loopback. Every
  packet allocation of output, forwarding and ICMP may fail, also the header for a
  socket's options and the copy of a broadcast; that `ip_srcroute` alone finds no mbuf
  while the next allocation succeeds is left out.
- Pcb: a block's failed search (`dry`) is history, the code keeps no such field. The
  local address of a connection is any configured one, where the code asks the route.
  Routes: the radix tree is what it means, for each key a chain of routes; the mask
  annotations of its inner nodes are taken to be complete.
- Arp: times are ages, capped where the tests stop telling them apart. Sana: packets
  are counted, and buffers are a budget chosen anew for every step. Dhcp: what a lease
  says is left out.
- Bpf: a packet is its number and its size. BpfFilter: an octet has two values, a word
  is four octets.
- Names: datagrams and what a server says are chosen freely. Codec: an address is four
  octets below `Oct`; alphabets and lengths are small. `in_cksum` is the C function,
  the fallback for builds without `NG_CKSUM_ASM`; the default build links
  `in_cksum_asm.S` in its place, which is not modelled and which the code says to be
  equivalent (`netinet/in_cksum.c:100-106`). Names are too short for `dn_comp`'s test of a
  label's length.

Behaviour the models show and no comment of the code speaks of:

- SanaHelper: a request that cannot be allocated returns -1 before the test for a
  wedged device.
- Arp: `arptimer` follows the free list after `arptfree`; `free_arptable` drops held
  packets and permanent entries; SIOCSARP completes an entry and leaves the packet it
  held.
- Dhcp: `ng_ll_commit` clears a conflict seen after the last test; two helpers share
  the link-local state; an OFFER or NAK starts the count of polls again; a helper in
  its background retries keeps `ss_reconfiguring`, which an older one can clear.
- Routes: SIOCDIFADDR frees an address that other routes name; `rn_delete` does not
  look at the mask where there is one route; a loopback interface with a new address
  keeps the host route of the old one; `route_output` is compiled out.
- Events: a mask set after data came gives no event for it; an `accept` that fails has
  consumed FD_ACCEPT.
- Codec: `gethostbyaddr` writes behind `hostbuf`, inside the same allocation;
  `dn_expand` does not escape a backslash; `res_mkquery` compresses nothing; two stars
  in one octet of an access rule cancel.
- SockOpt: SO_RCVBUF may go below its floor and the low-water marks are not clamped.
- Tunables: TCPSND and TCPRCV of the configuration file neither set the override nor
  raise `sb_max`; MBUF CLUSTERSIZE outlives a restart; `iprequests` is cut to 16 bits.

Not modelled: `usergroup/` and `tools/`, which keep no state of the stack, and the
parts of components that `PROJECT.json` notes.
