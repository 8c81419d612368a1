-------------------------------- MODULE Pcb --------------------------------
(***************************************************************************)
(* Internet protocol control blocks: binding, connecting and finding the   *)
(* socket a datagram is for (netinet/in_pcb.c, netinet/udp_usrreq.c), and  *)
(* raw sockets (netinet/raw_ip.c, net/raw_cb.c, net/raw_usrreq.c).  Every  *)
(* operation runs at splnet, so each is one step.                          *)
(*                                                                         *)
(* Address 0 is INADDR_ANY and port 0 no port.  Which local address a      *)
(* connection gets depends on the route; here any configured one.          *)
(***************************************************************************)
EXTENDS Naturals, Sequences, FiniteSets, SequencesExt

CONSTANTS
  Socks, RawSocks,  \* UDP and raw sockets
  Reuse,            \* [Socks -> SUBSET {"addr", "port"}]: SO_REUSEADDR, SO_REUSEPORT
  Locals,           \* the addresses interfaces may have
  Peers, PeerPorts, \* the stations datagrams come from and go to
  Ports,            \* the ports applications name
  Anon,             \* the ephemeral ports, a range of numbers
  RandTries,        \* NG_PORT_RANDTRIES
  ScanTries,        \* NG_PORT_SCANTRIES
  RcvMax            \* so_rcv, in datagrams

ASSUME PcbAssumption ==
  /\ RandTries \in Nat /\ ScanTries \in Nat /\ RcvMax \in Nat
  /\ 0 \notin Locals \cup Peers \cup PeerPorts \cup Ports \cup Anon
  /\ Anon # {} /\ \A p, q \in Anon : (p..q) \subseteq Anon

VARIABLES
  udb,     \* the control blocks, newest first
  upcb,    \* the fields of each
  cursor,  \* inp_lport of the list head: the last ephemeral port tried
  lastpcb, \* udp_last_inpcb
  local,   \* the configured addresses
  rcvq,    \* what each socket has received
  rawl, rawpcb

pvars == <<udb, upcb, cursor, lastpcb, local, rcvq, rawl, rawpcb>>

\* told: it had news that its address is gone; dry: its bind found no port.
Unbound == [laddr |-> 0, lport |-> 0, faddr |-> 0, fport |-> 0, told |-> FALSE, dry |-> FALSE]
RawUnbound == [proto |-> 0, laddr |-> 0, faddr |-> 0]
AnonMin == CHOOSE p \in Anon : \A q \in Anon : p <= q
AnonMax == CHOOSE p \in Anon : \A q \in Anon : p >= q

PcbInit ==
  /\ udb = <<>> /\ upcb = [s \in Socks |-> Unbound]
  /\ cursor = 0 /\ lastpcb = "udb"
  /\ local = Locals
  /\ rcvq = [s \in Socks \cup RawSocks |-> <<>>]
  /\ rawl = <<>> /\ rawpcb = [s \in RawSocks |-> RawUnbound]

rawvars == <<rawl, rawpcb>>

-----------------------------------------------------------------------------
(* in_pcblookup: the first block with the fewest wildcards.                *)

\* The wildcards of a match, 3 when there is none.
Wildcards(c, f, fp, l, lp) ==
  IF \/ c.lport # lp
     \/ c.laddr # 0 /\ l # 0 /\ c.laddr # l
     \/ c.faddr # 0 /\ f # 0 /\ (c.faddr # f \/ c.fport # fp)
  THEN 3
  ELSE (IF (c.laddr = 0) # (l = 0) THEN 1 ELSE 0)
       + (IF (c.faddr = 0) # (f = 0) THEN 1 ELSE 0)

in_pcblookup(f, fp, l, lp, wild) ==
  LET n(k) == Wildcards(upcb[udb[k]], f, fp, l, lp)
      hits == {k \in DOMAIN udb : IF wild THEN n(k) < 3 ELSE n(k) = 0}
      best == {k \in hits : \A m \in hits : n(k) < n(m) \/ (n(k) = n(m) /\ k <= m)}
  IN IF best = {} THEN "none" ELSE udb[CHOOSE k \in best : TRUE]

\* The ephemeral port: random steps, then a scan from where they ended.
\* The answer is [port, cursor], port 0 when none was found.
PortFree(l, q) == in_pcblookup(0, 0, l, q, FALSE) = "none"

Succ(q) == IF q < AnonMin \/ q = AnonMax THEN AnonMin ELSE q + 1
Scan(l, start) ==
  LET at[n \in 0..ScanTries] == IF n = 0 THEN start ELSE Succ(at[n - 1])
      hit == {n \in 1..ScanTries : PortFree(l, at[n])}
      first == CHOOSE n \in hit : \A k \in hit : n <= k
  IN IF hit = {} THEN [port |-> 0, cursor |-> at[ScanTries]]
     ELSE [port |-> at[first], cursor |-> at[first]]

Ephemeral(l) ==
  LET Steps == {p \in [1..RandTries -> Anon] :
                  \A n \in 1..RandTries :
                    p[n] # (IF n > 1 THEN p[n - 1]
                            ELSE IF cursor = 0 THEN AnonMin ELSE cursor)}
      Pick(p) == LET hit == {n \in 1..RandTries : PortFree(l, p[n])}
                     first == CHOOSE n \in hit : \A k \in hit : n <= k
                 IN IF hit = {} THEN Scan(l, p[RandTries])
                    ELSE [port |-> p[first], cursor |-> p[first]]
  IN {Pick(p) : p \in Steps}

-----------------------------------------------------------------------------
(* The requests of a UDP socket.                                           *)

Attach(s) ==
  /\ s \notin Range(udb)
  /\ udb' = <<s>> \o udb
  /\ upcb' = [upcb EXCEPT ![s] = Unbound]
  /\ UNCHANGED <<cursor, lastpcb, local, rcvq, rawvars>>

\* Mutant: the one-block cache keeps the block that goes away.
udp_detach_KeepCache(s) ==
  /\ \E n \in DOMAIN udb : udb[n] = s /\ udb' = RemoveAt(udb, n)
  /\ rcvq' = [rcvq EXCEPT ![s] = <<>>]
  /\ UNCHANGED <<upcb, cursor, local, rawvars, lastpcb>>

udp_detach(s) ==
  /\ lastpcb' = IF lastpcb = s THEN "udb" ELSE lastpcb
  /\ \E n \in DOMAIN udb : udb[n] = s /\ udb' = RemoveAt(udb, n)
  /\ rcvq' = [rcvq EXCEPT ![s] = <<>>]
  /\ UNCHANGED <<upcb, cursor, local, rawvars>>

\* The address stays when no port is found for it.
in_pcbbind(s, a, p) ==
  LET c == upcb[s]
      t == in_pcblookup(0, 0, a, p, Reuse[s] = {})
  IN /\ s \in Range(udb) /\ local # {}
     /\ c.lport = 0 /\ c.laddr = 0
     /\ a \in local \cup {0}
     /\ IF p # 0
          THEN /\ t # "none" => "port" \in Reuse[s] \cap Reuse[t]
               /\ upcb' = [upcb EXCEPT ![s].laddr = a, ![s].lport = p, ![s].told = FALSE]
               /\ UNCHANGED cursor
          ELSE \E e \in Ephemeral(a) :
                 /\ cursor' = e.cursor
                 /\ upcb' = [upcb EXCEPT ![s].laddr = a, ![s].lport = e.port, ![s].told = FALSE,
                                         ![s].dry = (a # 0 /\ e.port = 0)]
     /\ UNCHANGED <<udb, lastpcb, local, rcvq, rawvars>>

\* in_pcbconnect: the local addresses and ports it may choose.  The tuple is
\* looked up before an ephemeral port is chosen, and not again after.
ConnectAddrs(s, f, fp) ==
  {l \in IF upcb[s].laddr # 0 THEN {upcb[s].laddr} ELSE local :
     in_pcblookup(f, fp, l, upcb[s].lport, FALSE) = "none"}

\* Only a socket with neither address nor port is bound on the way.
ConnectPorts(s) ==
  IF upcb[s].laddr # 0 \/ upcb[s].lport # 0
  THEN {[port |-> upcb[s].lport, cursor |-> cursor]} ELSE Ephemeral(0)

\* Mutant: the failure of the bind on the way is discarded.
UdpConnect_Discard(s, f, fp) ==
  /\ s \in Range(udb) /\ upcb[s].faddr = 0
  /\ \E l \in ConnectAddrs(s, f, fp), e \in ConnectPorts(s) :
       /\ cursor' = e.cursor
       /\ upcb' = [upcb EXCEPT ![s].laddr = l, ![s].lport = e.port, ![s].faddr = f, ![s].fport = fp,
                               ![s].told = @ /\ upcb[s].laddr # 0]
  /\ UNCHANGED <<udb, lastpcb, local, rcvq, rawvars>>

\* A bind on the way that finds no port fails the call.
UdpConnect(s, f, fp) ==
  /\ s \in Range(udb) /\ upcb[s].faddr = 0
  /\ \E l \in ConnectAddrs(s, f, fp), e \in ConnectPorts(s) :
       /\ cursor' = e.cursor
       /\ upcb' = IF upcb[s].laddr = 0 /\ e.port = 0 THEN upcb
                  ELSE [upcb EXCEPT ![s] = [laddr |-> l, lport |-> e.port, faddr |-> f,
                                            fport |-> fp, told |-> @.told /\ @.laddr # 0,
                                            dry |-> @.dry]]
  /\ UNCHANGED <<udb, lastpcb, local, rcvq, rawvars>>

UdpDisconnect(s) ==
  /\ s \in Range(udb) /\ upcb[s].faddr # 0
  /\ upcb' = [upcb EXCEPT ![s].faddr = 0, ![s].fport = 0, ![s].laddr = 0, ![s].dry = FALSE]
  /\ UNCHANGED <<udb, cursor, lastpcb, local, rcvq, rawvars>>

\* udp_output with an address: connected for the length of the call; the
\* local port it was given stays.
UdpSendto(s, f, fp) ==
  /\ s \in Range(udb) /\ upcb[s].faddr = 0
  /\ ConnectAddrs(s, f, fp) # {}
  /\ \E e \in ConnectPorts(s) :
       upcb' = [upcb EXCEPT ![s].lport = e.port] /\ cursor' = e.cursor
  /\ UNCHANGED <<udb, lastpcb, local, rcvq, rawvars>>

-----------------------------------------------------------------------------
(* Datagrams and news from below.                                          *)

Deliver(q, S, d) == [s \in DOMAIN q |-> IF s \in S /\ Len(q[s]) < RcvMax
                                        THEN Append(q[s], d) ELSE q[s]]

\* What udp_input lets in: a UDP length of at least its header and at most
\* what came, and a right checksum or none.
UdpDatagrams == [len : 1..2, ulen : 0..2, sum : {"right", "wrong", "none"}]
UdpValid(d) == d.ulen \in 1..d.len /\ d.sum \in {"right", "none"}

\* A unicast datagram: the cached block if it is exactly this one, else the
\* best match, which is cached.
UdpInput(f, fp, l, lp, d) ==
  LET cached == /\ lastpcb # "udb"
                /\ upcb[lastpcb] = [laddr |-> l, lport |-> lp, faddr |-> f,
                                    fport |-> fp, told |-> upcb[lastpcb].told,
                                    dry |-> upcb[lastpcb].dry]
      s == IF cached THEN lastpcb ELSE in_pcblookup(f, fp, l, lp, TRUE)
      right == \A t \in Range(udb) :
                 Wildcards(upcb[t], f, fp, l, lp) >= Wildcards(upcb[s], f, fp, l, lp)
  IN /\ l \in local /\ UdpValid(d) /\ s # "none"
     /\ lastpcb' = s
     /\ rcvq' = Deliver(rcvq, {s}, right /\ d.sum # "wrong" /\ d.ulen <= d.len)
     /\ UNCHANGED <<udb, upcb, cursor, local, rawvars>>

\* A broadcast: every match in list order, up to and including the first
\* that shares its port with nobody.
UdpBroadcast(f, fp, lp) ==
  LET Match(s) == /\ upcb[s].lport = lp /\ upcb[s].laddr = 0
                  /\ upcb[s].faddr # 0 => upcb[s].faddr = f /\ upcb[s].fport = fp
      q == SelectSeq(udb, Match)
      closed == {n \in DOMAIN q : Reuse[q[n]] = {}}
      upto == IF closed = {} THEN Len(q)
              ELSE CHOOSE n \in closed : \A k \in closed : n <= k
  IN /\ q # <<>>
     /\ rcvq' = Deliver(rcvq, Range(SubSeq(q, 1, upto)), TRUE)
     /\ UNCHANGED <<udb, upcb, cursor, lastpcb, local, rawvars>>

UdpRecv(s) ==
  /\ rcvq[s] # <<>>
  /\ rcvq' = [rcvq EXCEPT ![s] = Tail(@)]
  /\ UNCHANGED <<udb, upcb, cursor, lastpcb, local, rawvars>>

\* in_ifdown_notify: the sockets with that address, and the unbound ones
\* when it was the last.
AddrGoes(a) ==
  /\ a \in local
  /\ local' = local \ {a}
  /\ upcb' = [s \in Socks |->
       IF s \in Range(udb) /\ (upcb[s].laddr = a \/ (local = {a} /\ upcb[s].laddr = 0))
       THEN [upcb[s] EXCEPT !.told = TRUE] ELSE upcb[s]]
  /\ UNCHANGED <<udb, cursor, lastpcb, rcvq, rawvars>>

AddrComes(a) ==
  /\ a \in Locals \ local
  /\ local' = local \cup {a}
  /\ UNCHANGED <<udb, upcb, cursor, lastpcb, rcvq, rawvars>>

\* udp_ctlinput: an ICMP error about a datagram of ours; local port 0 is any.
UdpCtlinput(f, fp, l, lp) ==
  LET hit == {s \in Range(udb) : /\ upcb[s].faddr = f /\ upcb[s].fport = fp
                                 /\ upcb[s].laddr = l /\ lp \in {0, upcb[s].lport}}
  IN /\ hit # {}
     /\ upcb' = [s \in Socks |-> IF s \in hit THEN [upcb[s] EXCEPT !.told = TRUE]
                                 ELSE upcb[s]]
     /\ UNCHANGED <<udb, cursor, lastpcb, local, rcvq, rawvars>>

-----------------------------------------------------------------------------
(* Raw sockets: every one that matches gets a copy.                        *)

RawAttach(s, proto) ==
  /\ s \notin Range(rawl)
  /\ rawl' = <<s>> \o rawl
  /\ rawpcb' = [rawpcb EXCEPT ![s] = [RawUnbound EXCEPT !.proto = proto]]
  /\ UNCHANGED <<udb, upcb, cursor, lastpcb, local, rcvq>>

RawDetach(s) ==
  /\ s \in Range(rawl)
  /\ rawl' = SelectSeq(rawl, LAMBDA t : t # s)
  /\ rcvq' = [rcvq EXCEPT ![s] = <<>>]
  /\ UNCHANGED <<udb, upcb, cursor, lastpcb, local, rawpcb>>

RawName(s, l, f) ==
  /\ s \in Range(rawl)
  /\ \/ l \in local /\ f = 0 /\ rawpcb' = [rawpcb EXCEPT ![s].laddr = l]
     \/ l = 0 /\ f # 0 /\ rawpcb' = [rawpcb EXCEPT ![s].faddr = f]
  /\ UNCHANGED <<udb, upcb, cursor, lastpcb, local, rcvq, rawl>>

raw_input(proto, f, l) ==
  LET hit == {s \in Range(rawl) :
                /\ rawpcb[s].proto \in {0, proto}
                /\ rawpcb[s].laddr \in {0, l} /\ rawpcb[s].faddr \in {0, f}}
  IN /\ l \in local /\ hit # {}
     /\ rcvq' = Deliver(rcvq, hit, TRUE)
     /\ UNCHANGED <<udb, upcb, cursor, lastpcb, local, rawvars>>

Requests ==
  \E s \in Socks :
    \/ Attach(s) \/ udp_detach(s) \/ UdpDisconnect(s)
    \/ \E a \in Locals \cup {0}, p \in Ports \cup {0} : in_pcbbind(s, a, p)
    \/ \E f \in Peers, fp \in PeerPorts : UdpConnect(s, f, fp) \/ UdpSendto(s, f, fp)

Arrivals ==
  \/ \E f \in Peers, fp \in PeerPorts, lp \in Ports \cup Anon \cup {0} :
       \/ UdpBroadcast(f, fp, lp)
       \/ \E l \in Locals : \/ \E d \in UdpDatagrams : UdpInput(f, fp, l, lp, d)
                            \/ UdpCtlinput(f, fp, l, lp)
  \/ \E a \in Locals : AddrGoes(a) \/ AddrComes(a)
  \/ \E f \in Peers, l \in Locals, pr \in 1..2 : raw_input(pr, f, l)

RawRequests ==
  \/ \E s \in RawSocks, pr \in 0..1 : RawAttach(s, pr) \/ RawDetach(s)
  \/ \E s \in RawSocks, l \in Locals \cup {0}, f \in Peers \cup {0} : RawName(s, l, f)

PcbNext == Requests \/ Arrivals \/ RawRequests
           \/ \E s \in Socks \cup RawSocks : UdpRecv(s)

PcbSpec == PcbInit /\ [][PcbNext]_pvars

-----------------------------------------------------------------------------
(* Invariant: the cached block is on the list, so no datagram is given to  *)
(* a socket that was closed; each datagram received was whole and was given *)
(* to a socket that matched it as well as any; a connected socket has a    *)
(* local address, and a local port unless it was bound to an address when  *)
(* no port was found; and a socket bound to an address that is gone has    *)
(* been told, whatever calls were made in between.                         *)
PcbsSound ==
  /\ lastpcb # "udb" => lastpcb \in Range(udb)
  /\ \A s \in Socks : \A n \in DOMAIN rcvq[s] : rcvq[s][n]
  /\ \A s \in Range(udb) :
       /\ upcb[s].faddr # 0 => upcb[s].laddr # 0 /\ (upcb[s].lport # 0 \/ upcb[s].dry)
       /\ upcb[s].laddr \notin local \cup {0} => upcb[s].told

(* No invariant: in_pcbconnect passes the failure of its own bind on, since    *)
(* otherwise there would be "a 'connected' PCB that no reply can ever      *)
(* match" (in_pcb.c:487-490).  A socket whose earlier bind to an address   *)
(* found no port has the address, so no bind is tried and it is connected  *)
(* with local port 0 all the same.                                         *)
ConnectedHasPort ==
  \A s \in Range(udb) : upcb[s].faddr # 0 => upcb[s].lport # 0

(* Invariant: in_pcbbind gives a socket that names no port "a free port"   *)
(* (the comment of in_pcbconnect): no two sockets end up with the same     *)
(* local and foreign address and port.                                     *)
TuplesDistinct ==
  \A s, t \in Range(udb) :
    /\ s # t /\ Reuse[s] = {} /\ Reuse[t] = {}
    /\ upcb[s].lport # 0 /\ upcb[s].faddr # 0
    => [upcb[s] EXCEPT !.told = FALSE] # [upcb[t] EXCEPT !.told = FALSE]
=============================================================================
