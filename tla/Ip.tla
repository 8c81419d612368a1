--------------------------------- MODULE Ip ---------------------------------
(***************************************************************************)
(* IP above and below reassembly: ipintr, ip_dooptions and ip_forward      *)
(* (netinet/ip_input.c), ip_output with its fragments and options          *)
(* (netinet/ip_output.c), ICMP (netinet/ip_icmp.c), the loopback interface *)
(* (net/if_loop.c) and the output of raw sockets (netinet/raw_ip.c).       *)
(*                                                                         *)
(* Lengths are in bytes, as in the headers; what a packet carries is the   *)
(* interval of its sender's bytes.  A checksum is right or wrong.  The     *)
(* host has one address on an Ethernet and the loopback.  A handler's      *)
(* result is [sent, up, freed, made, error]: what it gave to an interface  *)
(* or to a protocol, and how many packets it freed and made.               *)
(***************************************************************************)
EXTENDS Integers, Sequences, FiniteSets, SequencesExt, FiniteSetsExt

CONSTANTS
  EthMtu,        \* the MTU of the Ethernet (the loopback's is larger than any packet here)
  Forwarding,    \* ipforwarding
  Redirects,     \* ipsendredirects
  EchoPolicy,    \* icmp_process_echo: "process", "ignore" or "drop"
  IpPackets,     \* what arrives from the Ethernet
  LocalPackets,  \* what a socket sends
  SockOpts,      \* the IP_OPTIONS a socket is given, as option lists
  IpQMax,        \* ifq_maxlen of ipintrq
  MaxIpEvents    \* bound: packets from outside

ASSUME IpAssumption ==
  /\ EthMtu \in Nat /\ EthMtu > 60 /\ IpQMax \in Nat \ {0} /\ MaxIpEvents \in Nat
  /\ Forwarding \in BOOLEAN /\ Redirects \in BOOLEAN /\ EchoPolicy \in {"process", "ignore", "drop"}

VARIABLES ipintrq, iplog, sockopt, lastout, ipevents

ipvars == <<ipintrq, iplog, sockopt, lastout, ipevents>>

-----------------------------------------------------------------------------
(* Addresses.  "far" is behind a gateway on the Ethernet, "near" is on it. *)

Mine == {"me", "lo"}
Broadcasts == {"subnet", "limited"}

rtalloc(d) ==
  CASE d = "lo" -> [ifp |-> "lo0", gw |-> FALSE, host |-> TRUE]
    [] d \in {"me", "near", "subnet"} -> [ifp |-> IF d = "me" THEN "lo0" ELSE "eth0", gw |-> FALSE, host |-> FALSE]
    [] d \in {"far", "class_e"} -> [ifp |-> "eth0", gw |-> TRUE, host |-> FALSE]
    [] OTHER -> [ifp |-> "none", gw |-> FALSE, host |-> FALSE]

in_canforward(d) == d \notin {"class_e", "any", "lo"}

-----------------------------------------------------------------------------
(* Packets.  An option is [k, len, ptr, next, flg]; only sr, rr and ts use ptr. *)

Opt(k, len, ptr, next) == [k |-> k, len |-> len, ptr |-> ptr, next |-> next]
OptLen(opts) == FoldSeq(LAMBDA o, n : o.len + n, 0, opts)
Hlen(p) == 20 + OptLen(p.opts)
Copied(o) == o.k \in {"lsrr", "ssrr"}

\* off and the interval [lo, hi) are of the payload; t is the ICMP type; why is the packet
\* an ICMP error is about.
Packet(src, dst, p, t, lo, hi, opts, ttl) ==
  [src |-> src, dst |-> dst, p |-> p, t |-> t, lo |-> lo, hi |-> hi, off |-> lo, mf |-> FALSE, df |-> FALSE,
   opts |-> opts, ttl |-> ttl, bcast |-> FALSE, rcvif |-> "eth0", good |-> TRUE, first |-> TRUE, why |-> <<>>]

IpLen(p) == Hlen(p) + p.hi - p.lo

Nothing == [sent |-> <<>>, up |-> <<>>, freed |-> 0, made |-> 0, error |-> "0"]
m_freem == [Nothing EXCEPT !.freed = 1]
Fails(e) == [m_freem EXCEPT !.error = e]
Then(r, s) == [sent |-> r.sent \o s.sent, up |-> r.up \o s.up, freed |-> r.freed + s.freed,
               made |-> r.made + s.made, error |-> r.error]

-----------------------------------------------------------------------------
(* ip_output *)

\* Options of a socket go in when the packet stays legal and a header can be had for them; the
\* first hop replaces the destination in either case.
ip_insertoptions(p, opt, mem) ==
  IF opt = <<>> \/ IpLen(p) + OptLen(opt.list) > 65535 THEN p
  ELSE [p EXCEPT !.opts = IF mem = 0 THEN @ ELSE opt.list, !.dst = IF opt.dst = "any" THEN @ ELSE opt.dst]

\* Options that later fragments repeat, padded with EOL.
ip_optcopy(opts) ==
  LET kept == SelectSeq(opts, Copied)
      pad == (4 - (OptLen(kept) % 4)) % 4
  IN IF pad = 0 THEN kept ELSE Append(kept, Opt("eol", pad, 0, "any"))

\* The fragments: the first keeps the options and every length but the last is a multiple of 8.
Cut(p, len) ==
  LET n == (p.hi - p.lo + len - 1) \div len
  IN [i \in 1..n |-> [p EXCEPT !.lo = p.lo + (i - 1) * len, !.off = p.off + (i - 1) * len,
                               !.hi = IF i = n THEN @ ELSE p.lo + i * len,
                               !.mf = @ \/ i < n, !.first = @ /\ i = 1,
                               !.opts = IF i = 1 THEN @ ELSE ip_optcopy(@)]]

Fragments(p, mtu) ==
  Cut(p, ((mtu - Hlen(p)) \div 8) * 8)

\* A limited broadcast goes out of every interface that can broadcast.
ip_broadcast_flood(p, allow, mem, up) ==
  IF ~allow THEN Fails("EACCES")
  ELSE IF ~up THEN Fails("ENETUNREACH")
  ELSE IF IpLen(p) > EthMtu THEN Fails("EMSGSIZE")
  ELSE IF mem = 0 THEN Fails("ENOBUFS")
  ELSE [m_freem EXCEPT !.made = 1, !.sent = <<[p EXCEPT !.bcast = TRUE, !.src = IF @ = "any" THEN "me" ELSE @]>>]

\* mem is how many packet headers can still be had; up, whether the interface takes packets.
SendFragments(frags, mem, up) ==
  IF Len(frags) - 1 > mem THEN [Nothing EXCEPT !.freed = mem + 1, !.made = mem, !.error = "ENOBUFS"]
  ELSE IF up THEN [Nothing EXCEPT !.sent = frags, !.made = Len(frags) - 1]
  ELSE [Nothing EXCEPT !.freed = Len(frags), !.made = Len(frags) - 1, !.error = "ENETDOWN"]

IpSend(p, mtu, mem, up) ==
  IF IpLen(p) <= mtu THEN IF up THEN [Nothing EXCEPT !.sent = <<p>>] ELSE Fails("ENETDOWN")
  ELSE IF p.df \/ mtu - Hlen(p) < 8 THEN Fails("EMSGSIZE")
  ELSE SendFragments(Fragments(p, mtu), mem, up)

OutBy(p, rt, allow, mem, ethup) ==
  LET up == ethup \/ rt.ifp = "lo0"
      mtu == IF rt.ifp = "lo0" THEN 65535 ELSE EthMtu
  IN IF rt.ifp = "none" THEN Fails("EHOSTUNREACH")
     ELSE IF p.dst = "subnet" /\ ~allow THEN Fails("EACCES")
     ELSE IF p.dst = "subnet" /\ IpLen(p) > EthMtu THEN Fails("EMSGSIZE")
     ELSE IpSend([p EXCEPT !.bcast = @ \/ p.dst = "subnet"], mtu, mem, up)

Output(p, forwarding, allow, mem, up) ==
  IF ~forwarding /\ p.dst = "limited" THEN ip_broadcast_flood(p, allow, mem, up)
  ELSE OutBy([p EXCEPT !.src = IF @ = "any" THEN "me" ELSE @], rtalloc(p.dst), allow, mem, up)

\* A packet that is forwarded keeps its fragment fields.  Options that fit before the packet
\* cost a header here as well: mem is any number.
ip_output(p, opt, forwarding, allow, mem, up) ==
  Output([ip_insertoptions(p, opt, mem) EXCEPT !.mf = @ /\ forwarding, !.off = IF forwarding THEN @ ELSE 0],
         forwarding, allow, IF opt = <<>> \/ mem = 0 THEN mem ELSE mem - 1, up)

-----------------------------------------------------------------------------
(* ICMP *)

InfoTypes == {"echo", "echoreply", "tstamp", "tstampreply", "ireq", "maskreq"}

\* The reply's options: a saved source route turned round, else the route and time records.
ReflectOpts(p, srcrt) ==
  LET rec == SelectSeq(p.opts, LAMBDA o : o.k \in {"rr", "ts"})
      list == (IF srcrt = <<>> THEN <<>> ELSE srcrt.list) \o rec
      odd == OptLen(list) % 4 # 0
  IN IF p.opts = <<>> THEN <<>>
     ELSE [dst |-> IF srcrt = <<>> THEN "any" ELSE srcrt.dst,
           list |-> IF odd THEN Append(list, Opt("eol", 1, 0, "any")) ELSE list]

\* The answer leaves from the address that was asked, or from the interface's, without options
\* when there is no mbuf to collect them in.
icmp_reflect(p, srcrt, mem, up) ==
  LET opt == IF mem = 0 THEN <<>> ELSE ReflectOpts(p, srcrt)
  IN ip_output([p EXCEPT !.dst = p.src, !.src = IF p.dst = "lo" THEN "lo" ELSE "me", !.ttl = 255, !.opts = <<>>,
                         !.bcast = FALSE],
               opt, FALSE, FALSE, IF opt = <<>> THEN mem ELSE mem - 1, up)

\* Never about a later fragment, an ICMP error or a broadcast.
icmp_error(p, type, mem, up) ==
  IF ~p.first \/ (p.p = "icmp" /\ type # "redirect" /\ p.t \notin InfoTypes) \/ p.bcast \/ mem = 0 THEN m_freem
  ELSE LET e == [Packet(p.src, p.dst, "icmp", type, 0, 16 + Hlen(p), <<>>, 255) EXCEPT !.why = <<p>>]
           r == icmp_reflect(e, <<>>, mem - 1, up)
       IN [r EXCEPT !.freed = @ + 1, !.made = @ + 1]

IcmpToRaw(p) == [Nothing EXCEPT !.up = <<[to |-> "raw", t |-> p.t]>>]

icmp_input(p, srcrt, mem, up) ==
  LET reply(t) == icmp_reflect([p EXCEPT !.t = t], srcrt, mem, up)
  IN CASE ~p.good -> m_freem
       [] p.t = "echo" /\ EchoPolicy = "process" -> reply("echoreply")
       [] p.t = "echo" /\ EchoPolicy = "drop" -> m_freem
       [] p.t \in {"unreach", "timxceed", "paramprob", "quench"} ->
            [IcmpToRaw(p) EXCEPT !.up = Append(@, [to |-> "ctlinput", t |-> p.t])]
       [] p.t = "redirect" -> [IcmpToRaw(p) EXCEPT !.up = Append(@, [to |-> "rtredirect", t |-> p.t])]
       [] OTHER -> IcmpToRaw(p)

-----------------------------------------------------------------------------
(* ip_forward: the packet goes on, and an error or a redirect goes back with a copy. *)

\* Mutant: the copy kept for an ICMP error is not freed when there is none to send.
ip_forward_LeakCopy(p, srcrt, mem, up) ==
  LET rt == rtalloc(p.dst)
      out == ip_output([p EXCEPT !.ttl = @ - 1], <<>>, TRUE, FALSE, IF mem > 0 THEN mem - 1 ELSE 0, up)
  IN IF p.bcast \/ ~in_canforward(p.dst) THEN m_freem
     ELSE IF p.ttl <= 1 THEN icmp_error(p, "timxceed", mem, up)
     ELSE IF rt.ifp = "none" THEN icmp_error(p, "unreach", mem, up)
     ELSE IF mem > 0 THEN [out EXCEPT !.made = @ + 1]
     ELSE out

\* What goes back for a packet that was tried: an error, a redirect, or the copy is freed.
SentOn(p, out, redirect, up) ==
  LET type == CASE out.error = "0" -> "redirect"
                [] out.error = "ENOBUFS" -> "quench"
                [] OTHER -> "unreach"
      back == IF out.error = "0" /\ ~redirect THEN m_freem ELSE icmp_error(p, type, 1, up)
  IN [Then(out, back) EXCEPT !.made = @ + 1]

ip_forward(p, srcrt, mem, up) ==
  LET rt == rtalloc(p.dst)
      Out(m) == ip_output([p EXCEPT !.ttl = @ - 1], <<>>, TRUE, FALSE, m, up)
      redirect == rt.ifp = p.rcvif /\ Redirects /\ ~srcrt /\ p.src = "near"
  IN IF p.bcast \/ ~in_canforward(p.dst) THEN m_freem
     ELSE IF p.ttl <= 1 THEN icmp_error(p, "timxceed", mem, up)
     ELSE IF rt.ifp = "none" THEN icmp_error(p, "unreach", mem, up)
     ELSE IF mem > 0 THEN SentOn(p, Out(mem - 1), redirect, up)
     ELSE Out(0)

-----------------------------------------------------------------------------
(* ip_dooptions.  s is [p, fwd, srcrt, bad, done, left]: the packet as it is being rewritten, *)
(* whether it is source-routed on, the route saved for replies, the error, the bytes left.    *)

RoomFor4(o) == o.ptr - 1 <= o.len - 4

save_rte(p, o) == [dst |-> o.next, list |-> <<[o EXCEPT !.ptr = 4]>>]

SourceRoute(s, i) ==
  LET o == s.p.opts[i]
  IN IF o.len < 3 \/ o.ptr < 4 THEN [s EXCEPT !.bad = "paramprob"]
     ELSE IF s.p.dst \notin Mine THEN IF o.k = "ssrr" THEN [s EXCEPT !.bad = "unreach"] ELSE s
     ELSE IF ~RoomFor4(o) THEN [s EXCEPT !.srcrt = save_rte(s.p, o)]
     ELSE IF rtalloc(o.next).ifp = "none" \/ (o.k = "ssrr" /\ rtalloc(o.next).gw) THEN [s EXCEPT !.bad = "unreach"]
     ELSE [s EXCEPT !.p.dst = o.next, !.p.opts[i].ptr = @ + 4, !.p.opts[i].next = "me", !.fwd = TRUE]

RecordRoute(s, i) ==
  LET o == s.p.opts[i]
  IN IF o.len < 3 \/ o.ptr < 4 THEN [s EXCEPT !.bad = "paramprob"]
     ELSE IF ~RoomFor4(o) THEN s
     ELSE IF rtalloc(s.p.dst).ifp = "none" THEN [s EXCEPT !.bad = "unreach"]
     ELSE [s EXCEPT !.p.opts[i].ptr = @ + 4]

\* next is the flag: "tsonly", "tsandaddr" or "prespec" (with an address that is not ours).
TimeStamp(s, i) ==
  LET o == s.p.opts[i]
  IN IF o.len < 5 \/ o.ptr < 5 THEN [s EXCEPT !.bad = "paramprob"]
     ELSE IF o.ptr > o.len - 4 THEN s
     ELSE IF o.next = "tsonly" THEN [s EXCEPT !.p.opts[i].ptr = @ + 4]
     ELSE IF o.ptr + 8 > o.len THEN [s EXCEPT !.bad = "paramprob"]
     ELSE IF o.next = "tsandaddr" THEN [s EXCEPT !.p.opts[i].ptr = @ + 8]
     ELSE s

DoOption(s, i) ==
  LET o == s.p.opts[i]
      t == CASE o.k \in {"lsrr", "ssrr"} -> SourceRoute(s, i)
             [] o.k = "rr" -> RecordRoute(s, i)
             [] o.k = "ts" -> TimeStamp(s, i)
             [] OTHER -> s
  IN IF s.bad # "no" \/ s.done THEN s
     ELSE IF o.k = "eol" THEN [s EXCEPT !.done = TRUE]
     ELSE IF o.k # "nop" /\ (o.len <= 0 \/ o.len > s.left) THEN [s EXCEPT !.bad = "paramprob"]
     ELSE [t EXCEPT !.left = @ - o.len]

ip_dooptions(p) ==
  LET s0 == [p |-> p, fwd |-> FALSE, srcrt |-> <<>>, bad |-> "no", done |-> FALSE, left |-> OptLen(p.opts)]
  IN FoldLeft(DoOption, s0, [i \in 1..Len(p.opts) |-> i])

\* ipintr: ours by address or broadcast, and forwarded or dropped otherwise.  UDP that is not
\* for a port that is open answers with an error, as every protocol's pr_input may.
Dispatch(p, srcrt, mem, up) ==
  IF p.dst \notin Mine \cup Broadcasts \cup {"any"}
    THEN IF Forwarding THEN ip_forward(p, FALSE, mem, up) ELSE m_freem
  ELSE IF p.mf \/ ~p.first THEN [Nothing EXCEPT !.up = <<[to |-> "reass", t |-> "none"]>>]
  ELSE IF p.p = "icmp" THEN icmp_input(p, srcrt, mem, up)
  ELSE IF p.t = "closed" THEN icmp_error([p EXCEPT !.bcast = @ \/ p.dst \in Broadcasts], "unreach", mem, up)
  ELSE [Nothing EXCEPT !.up = <<[to |-> p.p, t |-> p.t]>>]

Optioned(p, s, mem, up) ==
  IF s.bad # "no" THEN icmp_error(p, s.bad, mem, up)
  ELSE IF s.fwd THEN ip_forward(s.p, TRUE, mem, up)
  ELSE Dispatch(s.p, s.srcrt, mem, up)

ipintr(p, mem, up) == IF p.good THEN Optioned(p, ip_dooptions(p), mem, up) ELSE m_freem

-----------------------------------------------------------------------------
IpInit ==
  /\ ipintrq = <<>> /\ sockopt = <<>> /\ lastout = <<>> /\ ipevents = 0
  /\ iplog = [in |-> 0, made |-> 0, freed |-> 0, out |-> 0, up |-> 0, errors |-> 0]

ForMe(q) == rtalloc(q.dst).ifp = "lo0"

\* looutput: a packet to an address of ours comes in again, if the queue has room.
looutput(q, p) == IF Len(q) < IpQMax THEN Append(q, [p EXCEPT !.rcvif = "lo0", !.bcast = FALSE]) ELSE q

Account(q, r, p) ==
  LET loops == SelectSeq(r.sent, ForMe)
      q2 == FoldLeft(looutput, q, loops)
      dropped == Len(q) + Len(loops) - Len(q2)
  IN /\ ipintrq' = q2 /\ lastout' = [p |-> p, sent |-> r.sent]
     /\ iplog' = [iplog EXCEPT !.made = @ + r.made, !.freed = @ + r.freed + dropped,
                               !.out = @ + Len(r.sent) - Len(loops),
                               !.up = @ + (IF r.up = <<>> THEN 0 ELSE 1),
                               !.errors = @ + Cardinality({i \in DOMAIN r.sent : r.sent[i].why # <<>>})]

IpArrives ==
  /\ ipevents < MaxIpEvents /\ ipevents' = ipevents + 1
  /\ \E p \in IpPackets :
       IF Len(ipintrq) < IpQMax
       THEN ipintrq' = Append(ipintrq, p) /\ iplog' = [iplog EXCEPT !.in = @ + 1]
       ELSE UNCHANGED <<ipintrq, iplog>>
  /\ UNCHANGED <<sockopt, lastout>>

\* mem runs out somewhere between none and plenty.
NetIsr ==
  /\ ipintrq # <<>>
  /\ \E mem \in 0..5, up \in BOOLEAN : Account(Tail(ipintrq), ipintr(Head(ipintrq), mem, up), Head(ipintrq))
  /\ UNCHANGED <<sockopt, ipevents>>

\* A socket sends with its options (rip_output, udp_output).
rip_output ==
  /\ ipevents < MaxIpEvents /\ ipevents' = ipevents + 1
  /\ \E p \in LocalPackets, mem \in 0..4, up \in BOOLEAN :
       LET r == ip_output(p, sockopt, FALSE, TRUE, mem, up)
       IN Account(ipintrq, [r EXCEPT !.made = @ + 1], p)
  /\ UNCHANGED sockopt

\* setsockopt(IP_OPTIONS): the old ones go first, so a refused list leaves none.  The first
\* hop of a source route is taken out of the list.
ip_pcbopts(list) ==
  LET ok == /\ OptLen(list) % 4 = 0 /\ OptLen(list) <= 40
            /\ \A i \in DOMAIN list : list[i].k \in {"lsrr", "ssrr"} => list[i].len >= 7
      routes == {i \in DOMAIN list : list[i].k \in {"lsrr", "ssrr"}}
  IN IF list = <<>> \/ ~ok THEN <<>>
     ELSE IF routes = {} THEN [dst |-> "any", list |-> list]
     ELSE [dst |-> list[Min(routes)].next,
           list |-> [i \in DOMAIN list |-> IF i \in routes THEN [list[i] EXCEPT !.len = @ - 4, !.next = "near"] ELSE list[i]]]

ip_ctloutput ==
  /\ \E l \in SockOpts : sockopt' = ip_pcbopts(l)
  /\ UNCHANGED <<ipintrq, iplog, lastout, ipevents>>

IpNext == IpArrives \/ NetIsr \/ rip_output \/ ip_ctloutput

-----------------------------------------------------------------------------
\* Every packet is used exactly once: what came in and what was made is queued, out, with a
\* protocol or freed, on every error path of ip_output, ip_forward and icmp_error.
PacketsKept == iplog.in + iplog.made = Len(ipintrq) + iplog.out + iplog.up + iplog.freed

\* What ip_output puts on a wire fits it, and the pieces of one packet tile it: they start on
\* multiples of 8, only the last may end the datagram, and only the first has uncopied options.
FragmentsTile ==
  lastout # <<>> =>
    LET s == lastout.sent
        eth == SelectSeq(s, LAMBDA p : ~ForMe(p))
        same == {i \in DOMAIN s : s[i].why = <<>> /\ s[i].p = s[1].p /\ s[i].t = s[1].t}
    IN /\ \A i \in DOMAIN eth : IpLen(eth[i]) <= EthMtu
       /\ \A i \in same : i + 1 \in same =>
            /\ s[i].hi = s[i + 1].lo /\ s[i].mf /\ (s[i + 1].off - s[1].off) % 8 = 0
            /\ ~s[i + 1].first /\ \A k \in DOMAIN s[i + 1].opts : s[i + 1].opts[k].k # "rr"
       /\ \A i \in same : s[i].mf \/ i + 1 \notin same

\* An ICMP error answers something that may be answered: no error, later fragment or broadcast
\* is behind it, it goes to one host, and one packet causes at most one.
ErrorsQuiet ==
  lastout # <<>> =>
    LET e == {i \in DOMAIN lastout.sent : lastout.sent[i].why # <<>>}
        w(i) == lastout.sent[i].why[1]
    IN /\ Cardinality({lastout.sent[i].lo : i \in e}) = Cardinality(e) /\ Cardinality({w(i) : i \in e}) <= 1
       /\ \A i \in e : w(i).first /\ ~w(i).bcast /\ lastout.sent[i].dst \notin Broadcasts
                       /\ (w(i).p = "icmp" => w(i).t \in InfoTypes \/ lastout.sent[i].t = "redirect")

\* What is forwarded has used up some of its time to live, so loops of routers end.
TtlFalls ==
  lastout # <<>> =>
    \A i \in DOMAIN lastout.sent :
      LET p == lastout.sent[i] IN
        p.why = <<>> /\ p.src = lastout.p.src /\ lastout.p.src \notin Mine \cup {"any"} =>
          p.ttl < lastout.p.ttl /\ p.ttl > 0

\* IP keeps the packets it is given, on every path, and sends only what may be sent.
IpSound == PacketsKept /\ FragmentsTile /\ ErrorsQuiet /\ TtlFalls

\* "If not forwarding, just drop the packet" (ip_forward): a host that is no router sends only
\* packets of its own.
NotARouter ==
  ~Forwarding /\ lastout # <<>> => \A i \in DOMAIN lastout.sent : lastout.sent[i].src \in Mine
=============================================================================
