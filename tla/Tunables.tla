------------------------------ MODULE Tunables ------------------------------
(***************************************************************************)
(* Where the numbers of the stack come from.  A start of the network task  *)
(* derives them from the machine (ng_ram_tier, ng_cpu_tune), then reads    *)
(* ENV: and the configuration file (kern/amiga_main.c); interfaces that    *)
(* are added later re-tune the TCP windows to the speed of their link or   *)
(* replace them, and size their request rings (AddInterfaceTagList,        *)
(* api/amiga_roadshow_compat.c; ssconfig, net/sana2config.c); tools change *)
(* options live (ChangeRoadshowData, the control port).  tcp.mssdflt       *)
(* stands for the options that every one of these may write.  The numbers  *)
(* are those of the code.                                                  *)
(***************************************************************************)
EXTENDS Integers, Sequences, FiniteSets, FiniteSetsExt, SequencesExt

CONSTANTS
  TunIfs,        \* interface names
  Machines,      \* [ram: megabytes, cpu020]
  Environments,  \* ENV: option name -> text, a text being [neg, digits]
  Configs,       \* configuration files: variable -> number
  Devices,       \* [opens, baud, mtu, wire]
  TagLists,      \* [ipreq, wreq, snd, rcv, mss, speed], 0 when a tag is absent
  SetValues,     \* numbers set live
  MaxTunOps      \* bound: operations

ASSUME TunablesAssumption ==
  /\ MaxTunOps \in Nat /\ Machines # {}
  /\ Machines \subseteq [ram : Nat, cpu020 : BOOLEAN]
  /\ TagLists \subseteq [ipreq : Nat, wreq : Nat, snd : Nat, rcv : Nat, mss : Nat, speed : Nat]
  /\ Devices \subseteq [opens : BOOLEAN, baud : Nat, mtu : Nat, wire : {"ether", "slip"}]
  /\ \A c \in Configs : /\ DOMAIN c \subseteq {"maxmem", "mcl", "pri", "snd", "rcv", "mss"}
                        /\ \A v \in DOMAIN c : c[v] \in IF v \in {"snd", "rcv"} THEN Nat ELSE Int
  /\ SetValues \subseteq Int

VARIABLES
  tun,       \* the global numbers
  override,  \* ng_tcp_user_override
  stackUp,   \* ng_stack_running
  taskPri,   \* the priority of the network task
  rings,     \* interface -> <<>> or <<[read, total, mtu, wire, asked, baud, win]>>
  handle,    \* the access of an option list held by a tool, or "none"
  machine, env,
  writer,    \* history: who last wrote the windows: tier, link, iface, config
  given,     \* history: the windows an interface file asked for, 0 for none
  priFrom,   \* history: who last wrote the priority since the start
  tunOps

tunvars == <<tun, override, stackUp, taskPri, rings, handle, machine, env, writer, given, priFrom, tunOps>>

Kb == 1024
Seg == 1460
MbufSize == 128
MinClSize == 204
LongMax == 2147483647
Clip(v, lo, hi) == Max({lo, Min({v, hi})})

-----------------------------------------------------------------------------
\* RAM in megabytes -> pool in KB, ceiling of a socket buffer, default window.
ng_ram_tier(ram) ==
  LET tier == CASE ram <= 1        -> <<128, 64, 11>>
                [] ram \in 2..4    -> <<256, 64, 42>>
                [] ram \in 5..16   -> <<1024, 256, 90>>
                [] ram \in 17..64  -> <<4096, 512, 180>>
                [] ram \in 65..128 -> <<8192, 1024, 359>>
                [] OTHER           -> <<16384, 2048, 718>>
      window == tier[3] * Seg
  IN  [maxmem |-> tier[1], sbmax |-> tier[2] * Kb, snd |-> window, rcv |-> window,
       ceiling |-> window, ipq |-> Clip(window \div 1500, 50, 256)]

ng_cpu_tune(cpu020) == [tstamp |-> cpu020, pri |-> IF cpu020 THEN 5 ELSE -1]

ng_task_pri_ok(v) == v \in -128..127

\* The number a text of ENV: gives; none when it has no digit or overflows.
ParseLong(text) ==
  LET step(acc, d) == IF acc = <<>> \/ acc[1] > (LongMax - d) \div 10 THEN <<>>
                      ELSE <<acc[1] * 10 + d>>
      v == FoldLeft(step, <<0>>, text.digits)
  IN  IF text.digits = <<>> \/ v = <<>> THEN <<>> ELSE <<IF text.neg THEN -v[1] ELSE v[1]>>

\* In the order of the table; both names of the priority are the same variable.
OptionTable == <<"task.priority", "task.controller.priority", "tcp.mssdflt",
                 "tcp.recvspace", "tcp.sendspace">>
AutoTuned == {"tcp.recvspace", "tcp.sendspace"}
Variable == [o \in {OptionTable[i] : i \in 1..5} |->
               CASE o = "tcp.mssdflt" -> "mss" [] o = "tcp.recvspace" -> "rcv"
                 [] o = "tcp.sendspace" -> "snd" [] OTHER -> "pri"]

\* One option over the numbers and the writer of the priority.
ng_apply_option(acc, o) ==
  LET v == IF o \in DOMAIN env /\ o \notin AutoTuned THEN ParseLong(env[o]) ELSE <<>>
  IN  IF v = <<>> \/ (Variable[o] = "pri" /\ ~ng_task_pri_ok(v[1])) THEN acc
      ELSE [t |-> [acc.t EXCEPT ![Variable[o]] = v[1]],
            from |-> IF Variable[o] = "pri" THEN "env" ELSE acc.from]

ng_apply_env_tunables(t, from) ==
  LET pri == ng_apply_option([t |-> t, from |-> from], OptionTable[1])
      ctl == ng_apply_option(pri, OptionTable[2])
      mss == ng_apply_option(ctl, OptionTable[3])
      rcv == ng_apply_option(mss, OptionTable[4])
  IN  ng_apply_option(rcv, OptionTable[5])

\* What the configuration accepts for a variable.
mb_check_conf(var, v) ==
  /\ var = "maxmem" => v > 32 /\ v <= 128 * Kb
  /\ var = "mcl" => v >= MinClSize /\ v <= 64 * Kb /\ v % 4 = 0
  /\ var = "pri" => ng_task_pri_ok(v)

TunablesInit ==
  /\ machine \in Machines /\ env \in Environments
  /\ tun = [maxmem |-> 256, mcl |-> 2048, sbmax |-> 65536, snd |-> 8192, rcv |-> 8192, ceiling |-> 0,
            ipq |-> 50, tstamp |-> FALSE, pri |-> 5, mss |-> 0]
  /\ override = FALSE /\ stackUp = FALSE /\ taskPri = 0 /\ handle = "none"
  /\ rings = [i \in TunIfs |-> <<>>]
  /\ writer = "none" /\ given = [snd |-> 0, rcv |-> 0] /\ priFrom = "none" /\ tunOps = 0

Operation == tunOps < MaxTunOps /\ tunOps' = tunOps + 1

\* A start that fails later leaves the numbers as they are.
StackStarts(config, succeeds) ==
  /\ Operation /\ ~stackUp
  /\ LET tier == ng_ram_tier(machine.ram)
         cpu == ng_cpu_tune(machine.cpu020)
         base == [v \in DOMAIN tun |-> IF v \in DOMAIN tier THEN tier[v]
                                       ELSE IF v \in DOMAIN cpu THEN cpu[v] ELSE tun[v]]
         e == ng_apply_env_tunables(base, "cpu")
         set == {v \in DOMAIN config : mb_check_conf(v, config[v])}
     IN  /\ tun' = [v \in DOMAIN tun |-> IF v \in set THEN config[v] ELSE e.t[v]]
         /\ writer' = IF set \cap {"snd", "rcv"} # {} THEN "config" ELSE "tier"
         /\ priFrom' = IF "pri" \in set THEN "config" ELSE e.from
         /\ stackUp' = succeeds
         /\ taskPri' = IF succeeds THEN tun'.pri ELSE taskPri
  /\ given' = [snd |-> 0, rcv |-> 0]
  /\ UNCHANGED <<override, rings, handle, machine, env>>

\* The teardown removes the interfaces.
StackStops ==
  /\ Operation /\ stackUp /\ stackUp' = FALSE /\ rings' = [i \in TunIfs |-> <<>>]
  /\ UNCHANGED <<tun, override, taskPri, handle, machine, env, writer, given, priFrom>>

-----------------------------------------------------------------------------
ng_speed_window(bps) ==
  CASE bps = 0                              -> 0
    [] bps > 0 /\ bps <= 12000000           -> 44 * Seg
    [] bps > 12000000 /\ bps <= 128000000   -> 359 * Seg
    [] OTHER                                -> 718 * Seg

\* The window of a link of this speed; its argument holds the current numbers.
ng_effective_window(t, forced, baud) ==
  IF forced \/ ng_speed_window(baud) = 0 THEN Max({t.snd, t.rcv})
  ELSE Min({ng_speed_window(baud), IF t.ceiling = 0 THEN Max({t.snd, t.rcv}) ELSE t.ceiling})

wire_defaults == [ether |-> [read |-> 16, write |-> 32, arp |-> 4],
                  slip  |-> [read |-> 8,  write |-> 8,  arp |-> 0]]

\* The rings of a new interface, sized before the windows are re-tuned.
ssconfig(t, forced, tags, dev) ==
  LET baud == IF tags.speed > 0 THEN tags.speed ELSE dev.baud
      mtu == IF dev.mtu = 0 THEN 1500 ELSE dev.mtu
      fit == ng_effective_window(t, forced, baud) \div mtu
      win == IF t.mcl = 0 THEN fit ELSE Min({fit, (t.maxmem * 256) \div t.mcl})
      size(asked, floor) == IF asked > 0 THEN asked ELSE Min({Max({win, floor}), 256})
      wd == wire_defaults[dev.wire]
      read == size(tags.ipreq, wd.read) % 65536      \* a 16-bit field
  IN  [read |-> read, total |-> Min({read + wd.arp + size(tags.wreq, wd.write), 65535}),
       mtu |-> mtu, wire |-> dev.wire, asked |-> tags.ipreq > 0, baud |-> baud, win |-> 0]

\* An interface file that gives a window; what it writes before the interface exists.
GivesWindow(tags) == tags.snd > 0 \/ tags.rcv > 0
FileNumbers(tags) ==
  LET snd == IF tags.snd > 0 THEN tags.snd ELSE tun.snd
      rcv == IF tags.rcv > 0 THEN tags.rcv ELSE tun.rcv
      mss == IF tags.mss > 0 THEN Min({tags.mss, 65535}) ELSE tun.mss
  IN  IF ~GivesWindow(tags) THEN [tun EXCEPT !.mss = mss]
      ELSE [tun EXCEPT !.snd = snd, !.rcv = rcv, !.mss = mss, !.sbmax = Max({@, 2 * snd, 2 * rcv})]

\* The auto-tuned window of a link: its speed, under the ceiling of the machine.
LinkWindow(t, baud) == Min({ng_speed_window(baud), IF t.ceiling = 0 THEN t.rcv ELSE t.ceiling})

AddInterfaceTagList(i, tags, dev) ==
  /\ Operation /\ stackUp /\ rings[i] = <<>>
  /\ LET t == FileNumbers(tags)
         forced == override \/ GivesWindow(tags)
         ring == ssconfig(t, forced, tags, dev)
         want == LinkWindow(t, ring.baud)
         retune == dev.opens /\ ~forced /\ want > 0
     IN  /\ override' = forced
         /\ tun' = IF retune THEN [t EXCEPT !.snd = want, !.rcv = want] ELSE t
         /\ rings' = IF dev.opens
                     THEN [rings EXCEPT ![i] = <<[ring EXCEPT !.win = Max({tun'.snd, tun'.rcv})]>>]
                     ELSE rings
         /\ writer' = IF GivesWindow(tags) THEN "iface" ELSE IF retune THEN "link" ELSE writer
         /\ given' = [snd |-> IF tags.snd > 0 THEN tags.snd ELSE given.snd,
                      rcv |-> IF tags.rcv > 0 THEN tags.rcv ELSE given.rcv]
  /\ UNCHANGED <<stackUp, taskPri, handle, machine, env, priFrom>>

\* Removing an interface restores no number.
RemoveInterface(i) ==
  /\ Operation /\ stackUp /\ rings[i] # <<>> /\ rings' = [rings EXCEPT ![i] = <<>>]
  /\ UNCHANGED <<tun, override, stackUp, taskPri, handle, machine, env, writer, given, priFrom>>

-----------------------------------------------------------------------------
ObtainRoadshowData(access) ==
  /\ Operation /\ stackUp /\ handle = "none" /\ handle' \in {access, "none"}
  /\ UNCHANGED <<tun, override, stackUp, taskPri, rings, machine, env, writer, given, priFrom>>

ReleaseRoadshowData ==
  /\ Operation /\ stackUp /\ handle # "none" /\ handle' = "none"
  /\ UNCHANGED <<tun, override, stackUp, taskPri, rings, machine, env, writer, given, priFrom>>

\* Mutant: the running task keeps its old priority.
ng_task_pri_changed_NextStart(v) ==
  IF ~ng_task_pri_ok(v) THEN UNCHANGED <<tun, taskPri, priFrom>>
  ELSE tun' = [tun EXCEPT !.pri = v] /\ priFrom' = "live" /\ UNCHANGED taskPri

ng_task_pri_changed(v) ==
  IF ~ng_task_pri_ok(v) THEN UNCHANGED <<tun, taskPri, priFrom>>
  ELSE /\ tun' = [tun EXCEPT !.pri = v] /\ priFrom' = "live"
       /\ taskPri' = IF stackUp THEN v ELSE taskPri

\* An auto-tuned option is accepted and left alone.
ChangeRoadshowData(o, v) ==
  /\ Operation /\ stackUp /\ handle # "none"
  /\ IF handle # "write" \/ o \in AutoTuned THEN UNCHANGED <<tun, taskPri, priFrom>>
     ELSE IF Variable[o] = "pri" THEN ng_task_pri_changed(v)
     ELSE tun' = [tun EXCEPT ![Variable[o]] = v] /\ UNCHANGED <<taskPri, priFrom>>
  /\ UNCHANGED <<override, stackUp, rings, handle, machine, env, writer, given>>

\* The variables of the configuration that may be written while the stack runs.
SetVariable(var, v) ==
  /\ Operation /\ stackUp
  /\ IF var = "pri" THEN ng_task_pri_changed(v) /\ UNCHANGED writer
     ELSE /\ v >= 0 /\ tun' = [tun EXCEPT ![var] = v] /\ UNCHANGED <<taskPri, priFrom>>
          /\ writer' = IF var \in {"snd", "rcv"} THEN "config" ELSE writer
  /\ given' = [x \in {"snd", "rcv"} |-> IF x = var THEN 0 ELSE given[x]]
  /\ UNCHANGED <<override, stackUp, rings, handle, machine, env>>

TunablesNext ==
  \/ \E c \in Configs, b \in BOOLEAN : StackStarts(c, b)
  \/ StackStops
  \/ \E i \in TunIfs, t \in TagLists, d \in Devices : AddInterfaceTagList(i, t, d)
  \/ \E i \in TunIfs : RemoveInterface(i)
  \/ \E a \in {"read", "write"} : ObtainRoadshowData(a)
  \/ ReleaseRoadshowData
  \/ \E o \in DOMAIN Variable, v \in SetValues : ChangeRoadshowData(o, v)
  \/ \E x \in {"snd", "rcv", "pri", "mss"}, v \in SetValues : SetVariable(x, v)

TunablesSpec == TunablesInit /\ [][TunablesNext]_tunvars

-----------------------------------------------------------------------------
\* sbreserve accepts a buffer of this size.
Reservable(cc) == cc <= (tun.sbmax \div (MbufSize + tun.mcl)) * tun.mcl

\* With clusters of the default size, and no configuration variable written
\* over a window, whatever interfaces come, go and ask for: a new socket gets both its
\* buffers, the windows are equal and inside what the RAM of the machine
\* allows until an interface file overrides them, and from then on they are
\* what the files last asked for, however fast the later links are.
WindowsBacked ==
  writer \notin {"config", "none"} /\ tun.mcl = 2048 =>
    /\ Reservable(tun.snd) /\ Reservable(tun.rcv)
    /\ writer # "iface" => tun.snd = tun.rcv /\ tun.snd <= tun.ceiling
    /\ writer = "iface" => /\ given.snd > 0 => tun.snd = given.snd
                           /\ given.rcv > 0 => tun.rcv = given.rcv

\* The read ring of an interface holds the window its sockets got when it was
\* added, in packets of its size, unless 256 requests, a quarter of the mbuf
\* pool or the default of the wire stops it.
RingCovers(r) ==
  /\ r.total \in r.read..65535
  /\ r.asked \/ r.read >= Min({r.win \div r.mtu, 256, (tun.maxmem * 256) \div tun.mcl})
  /\ r.asked \/ r.read <= Max({r.win \div r.mtu, wire_defaults[r.wire].read})
RingsCoverWindow == \A i \in TunIfs : rings[i] # <<>> => RingCovers(rings[i][1])

\* The priority comes from the most recent of the sources that gave a legal
\* one, in the order CPU, ENV:, configuration, live, and the network task of a
\* running stack runs at it.
PriorityKept ==
  /\ ng_task_pri_ok(tun.pri)
  /\ stackUp => taskPri = tun.pri
  /\ priFrom = "cpu" => tun.pri = ng_cpu_tune(machine.cpu020).pri

\* The numbers of the stack agree with each other and with who wrote them.
TunablesSound == WindowsBacked /\ RingsCoverWindow /\ PriorityKept

\* Once the stack was restarted, and nobody asked for other windows since, the
\* windows follow the link that was added last.
OverrideEnds ==
  \A i \in TunIfs :
    rings[i] # <<>> /\ writer \in {"tier", "link"} /\ rings[i][1].baud > 0 =>
      rings[i][1].win = Min({ng_speed_window(rings[i][1].baud), tun.ceiling})
=============================================================================
