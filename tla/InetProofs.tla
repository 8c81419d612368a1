----------------------------- MODULE InetProofs -----------------------------
(***************************************************************************)
(* What is proved above IP: protocol control blocks, asynchronous events,  *)
(* name lookups and the log task, each for any number of sockets, tasks,   *)
(* names and messages.                                                     *)
(***************************************************************************)
EXTENDS Pcb, Events, Names, LogTask, SequenceTheorems, FiniteSetTheorems, TLAPS

-----------------------------------------------------------------------------
(***************************************************************************)
(* Protocol control blocks: PcbsSound, for any number of sockets, addresses*)
(* and ports.                                                              *)
(*                                                                         *)
(* The core is what in_pcblookup returns (LookupBest): a block of the list *)
(* that matches with the fewest wildcards, so that a datagram goes to the  *)
(* best match, and what the one-block cache holds is as good (ExactMatch). *)
(* A bound local address is either configured or its owner has been told,  *)
(* which connect keeps because it takes over an address with its news.  A  *)
(* connection takes over the port that came with the address, so what is   *)
(* known of the port of every block with an address has to be part of the  *)
(* invariant: it has one, unless its bind found none.                      *)
(***************************************************************************)

PcbFields == {"laddr", "lport", "faddr", "fport", "told", "dry"}

\* The list and the receive queues, which hold no misdelivered datagram.
PcbTypes == /\ udb \in Seq(Socks)
            /\ local \subseteq Locals
            /\ DOMAIN upcb = Socks
            /\ \A s \in Socks : DOMAIN upcb[s] = PcbFields
            /\ rcvq \in [Socks \cup RawSocks -> Seq({TRUE})]

CacheListed == lastpcb # "udb" => lastpcb \in Range(udb)

\* A block that is connected has a local address, one with a local address has
\* a port unless its bind found none, and one whose address is gone was told.
PcbOK(c, addrs) == /\ c.faddr # 0 => c.laddr # 0
                   /\ c.laddr # 0 => c.lport # 0 \/ c.dry
                   /\ c.laddr \notin addrs \cup {0} => c.told
BlocksOK == \A s \in Range(udb) : PcbOK(upcb[s], local)

\* The inductive invariant.
PcbInv == PcbTypes /\ CacheListed /\ BlocksOK

-----------------------------------------------------------------------------
(* The operators.                                                          *)

\* A match has between 0 and 2 wildcards; 3 stands for no match.
LEMMA WildcardsRange ==
  ASSUME NEW c, NEW f, NEW fp, NEW l, NEW lp
  PROVE  Wildcards(c, f, fp, l, lp) \in 0..3
  BY DEF Wildcards

\* A connected block with exactly these addresses and ports has none.
LEMMA ExactMatch ==
  ASSUME NEW c, NEW f, NEW fp, NEW l, NEW lp, f # 0, l # 0,
         c.laddr = l, c.lport = lp, c.faddr = f, c.fport = fp
  PROVE  Wildcards(c, f, fp, l, lp) = 0
  BY DEF Wildcards

\* in_pcblookup answers with a block of the list that no other beats.
LEMMA LookupBest ==
  ASSUME NEW f, NEW fp, NEW l, NEW lp,
         in_pcblookup(f, fp, l, lp, TRUE) # "none"
  PROVE  LET s == in_pcblookup(f, fp, l, lp, TRUE)
         IN /\ s \in Range(udb)
            /\ \A t \in Range(udb) : Wildcards(upcb[t], f, fp, l, lp)
                                      >= Wildcards(upcb[s], f, fp, l, lp)
<1> DEFINE n(k) == Wildcards(upcb[udb[k]], f, fp, l, lp)
           hits == {k \in DOMAIN udb : n(k) < 3}
           best == {k \in hits : \A m \in hits : n(k) < n(m) \/ (n(k) = n(m) /\ k <= m)}
           b == CHOOSE k \in best : TRUE
<1>1. best # {} /\ in_pcblookup(f, fp, l, lp, TRUE) = udb[b]
  BY DEF in_pcblookup
<1>2. b \in best
  BY <1>1
<1>3. \A k \in DOMAIN udb : n(k) \in 0..3
  BY WildcardsRange
<1>4. b \in DOMAIN udb /\ \A m \in hits : n(b) <= n(m)
  BY <1>2, <1>3
<1>5. \A k \in DOMAIN udb : n(k) >= n(b)
  <2> SUFFICES ASSUME NEW k \in DOMAIN udb PROVE n(k) >= n(b)
    OBVIOUS
  <2>1. CASE k \in hits
    BY <2>1, <1>3, <1>4
  <2>2. CASE k \notin hits
    BY <2>2, <1>3, <1>4
  <2> QED BY <2>1, <2>2
<1> HIDE DEF b
<1> QED BY <1>1, <1>4, <1>5 DEF Range

\* Unlinking the n-th block keeps every other one.
LEMMA RemoveKeepsOthers ==
  ASSUME NEW S, NEW q \in Seq(S), NEW n \in DOMAIN q
  PROVE  /\ RemoveAt(q, n) \in Seq(S)
         /\ Range(RemoveAt(q, n)) \subseteq Range(q)
         /\ \A x \in Range(q) : x # q[n] => x \in Range(RemoveAt(q, n))
<1> DEFINE a == SubSeq(q, 1, n - 1)
           z == SubSeq(q, n + 1, Len(q))
           r == a \o z
<1>1. /\ Len(q) \in Nat /\ DOMAIN q = 1..Len(q) /\ n \in 1..Len(q)
      /\ \A i \in 1..Len(q) : q[i] \in S
  BY LenProperties, ElementOfSeq
<1>2. /\ a \in Seq(S) /\ Len(a) = n - 1
      /\ \A i \in 1..(n - 1) : a[i] = q[i]
  BY <1>1, SubSeqProperties
<1>3. /\ z \in Seq(S) /\ Len(z) = Len(q) - n
      /\ \A i \in 1..(Len(q) - n) : z[i] = q[n + i]
  BY <1>1, SubSeqProperties
<1> HIDE DEF a, z
<1>4. /\ r \in Seq(S) /\ Len(r) = Len(q) - 1
      /\ \A i \in 1..(Len(q) - 1) : r[i] = IF i < n THEN q[i] ELSE q[i + 1]
  <2>1. r \in Seq(S) /\ Len(r) = (n - 1) + (Len(q) - n)
    BY <1>2, <1>3, ConcatProperties, SMTT(30)
  <2>2. \A i \in 1..((n - 1) + (Len(q) - n)) :
           r[i] = IF i <= n - 1 THEN a[i] ELSE z[i - (n - 1)]
    BY <1>2, <1>3, ConcatProperties, SMTT(30)
  <2> HIDE DEF r
  <2>3. \A i \in 1..(Len(q) - 1) : r[i] = IF i < n THEN q[i] ELSE q[i + 1]
    <3> SUFFICES ASSUME NEW i \in 1..(Len(q) - 1)
                 PROVE  r[i] = IF i < n THEN q[i] ELSE q[i + 1]
      OBVIOUS
    <3>1. r[i] = IF i <= n - 1 THEN a[i] ELSE z[i - (n - 1)]
      BY <2>2, <1>1
    <3>2. CASE i < n
      BY <3>1, <3>2, <1>1, <1>2
    <3>3. CASE i >= n
      <4>1. i - (n - 1) \in 1..(Len(q) - n) /\ n + (i - (n - 1)) = i + 1
        BY <3>3, <1>1
      <4> QED BY <4>1, <3>1, <3>3, <1>1, <1>3, SMTT(30)
    <3> QED BY <3>2, <3>3, <1>1
  <2>4. Len(r) = Len(q) - 1
    BY <2>1, <1>1
  <2> QED BY <2>1, <2>3, <2>4, Zenon
<1>5. RemoveAt(q, n) = r
  BY DEF RemoveAt, a, z
<1> HIDE DEF r
<1>6. DOMAIN r = 1..(Len(q) - 1)
  BY <1>4, LenProperties
<1>7. Range(r) \subseteq Range(q)
  BY <1>1, <1>4, <1>6 DEF Range
<1>8. ASSUME NEW x \in Range(q), x # q[n] PROVE x \in Range(r)
  <2>1. PICK k \in 1..Len(q) : q[k] = x
    BY <1>1 DEF Range
  <2>2. CASE k < n
    BY <2>1, <2>2, <1>1, <1>4, <1>6 DEF Range
  <2>3. CASE k > n
    <3>1. k - 1 \in 1..(Len(q) - 1) /\ ~(k - 1 < n) /\ (k - 1) + 1 = k
      BY <2>3, <1>1
    <3> QED BY <2>1, <3>1, <1>4, <1>6 DEF Range
  <2> QED BY <2>1, <2>2, <2>3, <1>8, <1>1
<1> QED BY <1>4, <1>5, <1>7, <1>8

\* A datagram that matched is appended or dropped: no queue gets another kind.
LEMMA DeliverSound ==
  ASSUME NEW T, NEW q \in [T -> Seq({TRUE})], NEW S
  PROVE  Deliver(q, S, TRUE) \in [T -> Seq({TRUE})]
<1> SUFFICES ASSUME NEW s \in T, q[s] \in Seq({TRUE})
             PROVE  Append(q[s], TRUE) \in Seq({TRUE})
  BY DEF Deliver
<1> QED BY AppendProperties

\* The members of a list are sockets.
LEMMA ListedAreSocks ==
  ASSUME PcbTypes
  PROVE  Range(udb) \subseteq Socks
  BY LenProperties, ElementOfSeq DEF PcbTypes, Range

-----------------------------------------------------------------------------
(* The requests of a UDP socket.                                           *)

LEMMA InitInv == PcbInit => PcbInv
<1> SUFFICES ASSUME PcbInit PROVE PcbInv
  OBVIOUS
<1>1. udb = <<>> /\ udb \in Seq(Socks) /\ Len(udb) = 0
  BY EmptySeq DEF PcbInit
<1>2. DOMAIN udb = {}
  BY <1>1
<1>3. rcvq \in [Socks \cup RawSocks -> Seq({TRUE})]
  BY EmptySeq DEF PcbInit
<1>4. DOMAIN upcb = Socks /\ \A s \in Socks : DOMAIN upcb[s] = PcbFields
  BY DEF PcbInit, Unbound, PcbFields
<1> QED
  BY <1>1, <1>2, <1>3, <1>4 DEF PcbInit, PcbInv, PcbTypes, CacheListed, BlocksOK, Range

LEMMA AttachInv ==
  ASSUME PcbInv, NEW s \in Socks, Attach(s)
  PROVE  PcbInv'
<1>1. <<s>> \in Seq(Socks) /\ Len(<<s>>) = 1 /\ <<s>>[1] = s
  OBVIOUS
<1>2. udb \in Seq(Socks) /\ Len(udb) \in Nat /\ DOMAIN udb = 1..Len(udb)
  BY LenProperties DEF PcbInv, PcbTypes
<1>3. /\ udb' \in Seq(Socks) /\ Len(udb') = 1 + Len(udb)
      /\ \A i \in 1..(1 + Len(udb)) : udb'[i] = IF i <= 1 THEN <<s>>[i] ELSE udb[i - 1]
  BY <1>1, <1>2, ConcatProperties DEF Attach
<1>4. DOMAIN udb' = 1..(1 + Len(udb))
  BY <1>3, LenProperties
<1>5. Range(udb') = Range(udb) \cup {s}
  <2>1. ASSUME NEW x \in Range(udb) PROVE x \in Range(udb')
    <3>1. PICK k \in 1..Len(udb) : udb[k] = x
      BY <1>2 DEF Range
    <3>2. k + 1 \in 1..(1 + Len(udb)) /\ ~(k + 1 <= 1) /\ (k + 1) - 1 = k
      BY <1>2
    <3> QED BY <3>1, <3>2, <1>3, <1>4 DEF Range
  <2>2. s \in Range(udb')
    <3>1. 1 \in 1..(1 + Len(udb)) /\ udb'[1] = s
      BY <1>1, <1>2, <1>3
    <3> QED BY <3>1, <1>4 DEF Range
  <2>3. ASSUME NEW x \in Range(udb') PROVE x \in Range(udb) \cup {s}
    <3>1. PICK k \in 1..(1 + Len(udb)) : udb'[k] = x
      BY <1>4 DEF Range
    <3>2. CASE k <= 1
      BY <3>1, <3>2, <1>1, <1>2, <1>3
    <3>3. CASE k > 1
      <4>1. k - 1 \in 1..Len(udb) /\ x = udb[k - 1]
        BY <3>1, <3>3, <1>2, <1>3
      <4> QED BY <4>1, <1>2 DEF Range
    <3> QED BY <3>2, <3>3
  <2> QED BY <2>1, <2>2, <2>3
<1>6. /\ DOMAIN upcb' = Socks
      /\ upcb'[s] = Unbound
      /\ \A t \in Socks : t # s => upcb'[t] = upcb[t]
  BY DEF PcbInv, PcbTypes, Attach
<1>7. /\ DOMAIN Unbound = PcbFields /\ Unbound.faddr = 0 /\ Unbound.laddr = 0
  BY DEF Unbound, PcbFields
<1>8. PcbTypes'
  BY <1>3, <1>6, <1>7 DEF PcbInv, PcbTypes, Attach
<1>9. CacheListed'
  BY <1>5 DEF PcbInv, CacheListed, Attach
<1>10. BlocksOK'
  BY <1>5, <1>6, <1>7, ListedAreSocks DEF PcbInv, BlocksOK, PcbOK, Attach
<1> QED BY <1>8, <1>9, <1>10 DEF PcbInv

LEMMA DetachInv ==
  ASSUME PcbInv, NEW s \in Socks, udp_detach(s)
  PROVE  PcbInv'
<1>1. PICK n \in DOMAIN udb : udb[n] = s /\ udb' = RemoveAt(udb, n)
  BY DEF udp_detach
<1>2. /\ udb' \in Seq(Socks) /\ Range(udb') \subseteq Range(udb)
      /\ \A x \in Range(udb) : x # s => x \in Range(udb')
  BY <1>1, RemoveKeepsOthers DEF PcbInv, PcbTypes
<1>3. /\ lastpcb' = IF lastpcb = s THEN "udb" ELSE lastpcb
      /\ rcvq' = [rcvq EXCEPT ![s] = <<>>]
      /\ upcb' = upcb /\ local' = local
  BY DEF udp_detach
<1>4. rcvq' \in [Socks \cup RawSocks -> Seq({TRUE})]
  BY <1>3, EmptySeq DEF PcbInv, PcbTypes
<1>5. PcbTypes'
  BY <1>2, <1>3, <1>4 DEF PcbInv, PcbTypes
<1>6. CacheListed'
  BY <1>2, <1>3 DEF PcbInv, CacheListed
<1>7. BlocksOK'
  BY <1>2, <1>3 DEF PcbInv, BlocksOK
<1> QED BY <1>5, <1>6, <1>7 DEF PcbInv

\* A request that replaces one block by a sound one and leaves list, cache,
\* addresses and queues alone.
LEMMA ChangeBlock ==
  ASSUME PcbInv, NEW s \in Socks, NEW c,
         DOMAIN c = PcbFields, PcbOK(c, local),
         upcb' = [upcb EXCEPT ![s] = c],
         UNCHANGED <<udb, lastpcb, local, rcvq>>
  PROVE  PcbInv'
<1>1. /\ DOMAIN upcb' = Socks /\ upcb'[s] = c
      /\ \A t \in Socks : t # s => upcb'[t] = upcb[t]
  BY DEF PcbInv, PcbTypes
<1>2. PcbTypes'
  BY <1>1 DEF PcbInv, PcbTypes
<1>3. CacheListed'
  BY DEF PcbInv, CacheListed
<1>4. BlocksOK'
  BY <1>1, ListedAreSocks DEF PcbInv, BlocksOK
<1> QED BY <1>2, <1>3, <1>4 DEF PcbInv

\* A step that changes only what queues hold, and the cache to a listed block.
LEMMA ChangeQueues ==
  ASSUME PcbInv, rcvq' \in [Socks \cup RawSocks -> Seq({TRUE})],
         lastpcb' = lastpcb \/ lastpcb' \in Range(udb),
         UNCHANGED <<udb, upcb, local>>
  PROVE  PcbInv'
  BY DEF PcbInv, PcbTypes, CacheListed, BlocksOK

\* What the block of a bound socket becomes.
LEMMA BoundBlock ==
  ASSUME PcbInv, NEW s \in Range(udb), upcb[s].laddr = 0,
         NEW a \in local \cup {0}, NEW p, NEW d, a # 0 => p # 0 \/ d
  PROVE  LET c == [upcb[s] EXCEPT !.laddr = a, !.lport = p, !.told = FALSE, !.dry = d]
         IN DOMAIN c = PcbFields /\ PcbOK(c, local)
<1> DEFINE c == [upcb[s] EXCEPT !.laddr = a, !.lport = p, !.told = FALSE, !.dry = d]
<1>1. s \in Socks /\ DOMAIN upcb[s] = PcbFields /\ PcbOK(upcb[s], local)
  BY ListedAreSocks DEF PcbInv, PcbTypes, BlocksOK
<1>2. upcb[s].faddr = 0
  BY <1>1 DEF PcbOK
<1>3. /\ DOMAIN c = PcbFields /\ c.laddr = a /\ c.lport = p
      /\ c.faddr = 0 /\ c.dry = d
  BY <1>1, <1>2 DEF PcbFields
<1> HIDE DEF c
<1>4. DOMAIN c = PcbFields /\ PcbOK(c, local)
  BY <1>3 DEF PcbOK
<1> QED BY <1>4 DEF c

LEMMA BindInv ==
  ASSUME PcbInv, NEW s \in Socks, NEW a, NEW p, in_pcbbind(s, a, p)
  PROVE  PcbInv'
<1>1. /\ s \in Range(udb) /\ upcb[s].laddr = 0 /\ a \in local \cup {0}
      /\ UNCHANGED <<udb, lastpcb, local, rcvq>>
  BY Zenon DEF in_pcbbind
<1>2. DOMAIN upcb = Socks /\ DOMAIN upcb[s] = PcbFields
  BY DEF PcbInv, PcbTypes
<1> DEFINE c(x, d) == [upcb[s] EXCEPT !.laddr = a, !.lport = x, !.told = FALSE, !.dry = d]
<1>3. PICK x, d : /\ a # 0 => x # 0 \/ d
                  /\ upcb' = [upcb EXCEPT ![s] = c(x, d)]
  <2>1. CASE p # 0
    <3>1. upcb' = [upcb EXCEPT ![s] = [upcb[s] EXCEPT !.laddr = a, !.lport = p,
                                                      !.told = FALSE]]
      BY <2>1, <1>2 DEF in_pcbbind
    <3>2. [upcb[s] EXCEPT !.laddr = a, !.lport = p, !.told = FALSE] = c(p, upcb[s].dry)
      BY <1>2 DEF PcbFields
    <3> QED BY <2>1, <3>1, <3>2
  <2>2. CASE p = 0
    <3>1. PICK e \in Ephemeral(a) :
            upcb' = [upcb EXCEPT ![s].laddr = a, ![s].lport = e.port, ![s].told = FALSE,
                                 ![s].dry = (a # 0 /\ e.port = 0)]
      BY <2>2, Zenon DEF in_pcbbind
    <3> DEFINE d == a # 0 /\ e.port = 0
    <3>2. a # 0 => e.port # 0 \/ d
      OBVIOUS
    <3>3. upcb' = [upcb EXCEPT ![s].laddr = a, ![s].lport = e.port, ![s].told = FALSE,
                               ![s].dry = d]
      BY <3>1
    <3> HIDE DEF d
    <3>4. upcb' = [upcb EXCEPT ![s] = c(e.port, d)]
      BY <3>3, <1>2
    <3> HIDE DEF c
    <3> QED BY <3>2, <3>4, Zenon
  <2> QED BY <2>1, <2>2
<1>4. DOMAIN c(x, d) = PcbFields /\ PcbOK(c(x, d), local)
  BY <1>1, <1>3, BoundBlock
<1> HIDE DEF c
<1> QED BY <1>1, <1>3, <1>4, ChangeBlock

\* A connection has a local address, which it takes over from the block, with
\* its port and the news about it, or has just been bound to with a port.
LEMMA ConnectInv ==
  ASSUME PcbInv, NEW s \in Socks, NEW f, NEW fp, UdpConnect(s, f, fp)
  PROVE  PcbInv'
<1> DEFINE old == upcb[s]
<1>1. /\ s \in Range(udb) /\ UNCHANGED <<udb, lastpcb, local, rcvq>>
      /\ DOMAIN upcb = Socks /\ DOMAIN old = PcbFields /\ PcbOK(old, local)
  BY DEF UdpConnect, PcbInv, PcbTypes, BlocksOK
<1> DEFINE c(l, p) == [laddr |-> l, lport |-> p, faddr |-> f, fport |-> fp,
                       told |-> old.told /\ old.laddr # 0, dry |-> old.dry]
<1>2. PICK l \in ConnectAddrs(s, f, fp), e \in ConnectPorts(s) :
        upcb' = IF old.laddr = 0 /\ e.port = 0 THEN upcb
                ELSE [upcb EXCEPT ![s] = c(l, e.port)]
  BY <1>1 DEF UdpConnect
<1>3. (old.laddr # 0 /\ l = old.laddr) \/ (old.laddr = 0 /\ l \in local)
  BY DEF ConnectAddrs
<1>4. old.laddr # 0 => e.port = old.lport
  BY DEF ConnectPorts
<1>5. /\ DOMAIN c(l, e.port) = PcbFields /\ c(l, e.port).laddr = l
      /\ c(l, e.port).lport = e.port /\ c(l, e.port).dry = old.dry
      /\ c(l, e.port).told = (old.told /\ old.laddr # 0)
  BY DEF PcbFields
<1> HIDE DEF c
<1>6. CASE old.laddr = 0 /\ e.port = 0
  BY <1>1, <1>2, <1>6, ChangeQueues DEF PcbInv, PcbTypes
<1>7. CASE ~(old.laddr = 0 /\ e.port = 0)
  <2>1. l # 0
    BY <1>3, PcbAssumption DEF PcbInv, PcbTypes
  <2>2. l \notin local \cup {0} => old.laddr # 0 /\ old.told
    BY <1>1, <1>3 DEF PcbOK
  <2>3. e.port # 0 \/ old.dry
    BY <1>1, <1>4, <1>7 DEF PcbOK
  <2>4. PcbOK(c(l, e.port), local)
    BY <1>5, <2>1, <2>2, <2>3 DEF PcbOK
  <2>5. upcb' = [upcb EXCEPT ![s] = c(l, e.port)]
    BY <1>2, <1>7
  <2> QED BY <1>1, <1>5, <2>4, <2>5, ChangeBlock
<1> QED BY <1>6, <1>7

LEMMA DisconnectInv ==
  ASSUME PcbInv, NEW s \in Socks, UdpDisconnect(s)
  PROVE  PcbInv'
<1> DEFINE c == [upcb[s] EXCEPT !.faddr = 0, !.fport = 0, !.laddr = 0, !.dry = FALSE]
<1>1. DOMAIN c = PcbFields /\ c.faddr = 0 /\ c.laddr = 0
  BY DEF PcbInv, PcbTypes, PcbFields
<1>2. upcb' = [upcb EXCEPT ![s] = c] /\ UNCHANGED <<udb, lastpcb, local, rcvq>>
  BY DEF PcbInv, PcbTypes, UdpDisconnect
<1> HIDE DEF c
<1>3. PcbOK(c, local)
  BY <1>1 DEF PcbOK
<1> QED BY <1>1, <1>2, <1>3, ChangeBlock

LEMMA SendtoInv ==
  ASSUME PcbInv, NEW s \in Socks, NEW f, NEW fp, UdpSendto(s, f, fp)
  PROVE  PcbInv'
<1>1. PICK e \in ConnectPorts(s) : upcb' = [upcb EXCEPT ![s].lport = e.port]
  BY DEF UdpSendto
<1>2. s \in Range(udb) /\ upcb[s].faddr = 0 /\ UNCHANGED <<udb, lastpcb, local, rcvq>>
  BY DEF UdpSendto
<1>3. DOMAIN upcb[s] = PcbFields /\ PcbOK(upcb[s], local)
  BY <1>2 DEF PcbInv, PcbTypes, BlocksOK
<1> DEFINE c == [upcb[s] EXCEPT !.lport = e.port]
<1>4. upcb' = [upcb EXCEPT ![s] = c]
  BY <1>1 DEF PcbInv, PcbTypes
<1>5. /\ DOMAIN c = PcbFields /\ c.faddr = 0 /\ c.lport = e.port
      /\ c.laddr = upcb[s].laddr /\ c.told = upcb[s].told /\ c.dry = upcb[s].dry
  BY <1>2, <1>3 DEF PcbFields
<1> HIDE DEF c
<1>6. c.laddr # 0 => c.lport = upcb[s].lport
  BY <1>5 DEF ConnectPorts
<1>7. PcbOK(c, local)
  BY <1>3, <1>5, <1>6 DEF PcbOK
<1> QED BY <1>2, <1>4, <1>5, <1>7, ChangeBlock

-----------------------------------------------------------------------------
(* Datagrams and news from below.                                          *)

LEMMA InputInv ==
  ASSUME PcbInv, NEW f \in Peers, NEW fp, NEW l \in Locals, NEW lp, NEW d,
         UdpInput(f, fp, l, lp, d)
  PROVE  PcbInv'
<1> DEFINE cached == /\ lastpcb # "udb"
                     /\ upcb[lastpcb] = [laddr |-> l, lport |-> lp, faddr |-> f,
                                         fport |-> fp, told |-> upcb[lastpcb].told,
                                         dry |-> upcb[lastpcb].dry]
           s == IF cached THEN lastpcb ELSE in_pcblookup(f, fp, l, lp, TRUE)
           best == \A t \in Range(udb) :
                 Wildcards(upcb[t], f, fp, l, lp) >= Wildcards(upcb[s], f, fp, l, lp)
           right == best /\ d.sum # "wrong" /\ d.ulen <= d.len
<1>1. /\ UdpValid(d) /\ s # "none" /\ lastpcb' = s
      /\ rcvq' = Deliver(rcvq, {s}, right)
      /\ UNCHANGED <<udb, upcb, local>>
  BY DEF UdpInput
<1>2. s \in Range(udb) /\ best
  <2>1. CASE cached
    <3>1. s = lastpcb /\ s \in Range(udb)
      BY <2>1 DEF PcbInv, CacheListed
    <3>2. /\ upcb[s].laddr = l /\ upcb[s].lport = lp
          /\ upcb[s].faddr = f /\ upcb[s].fport = fp
      BY <2>1
    <3>3. f # 0 /\ l # 0
      BY PcbAssumption
    <3>4. Wildcards(upcb[s], f, fp, l, lp) = 0
      BY <3>2, <3>3, ExactMatch
    <3> HIDE DEF s
    <3>5. \A t : Wildcards(upcb[t], f, fp, l, lp) \in 0..3
      BY WildcardsRange
    <3> QED BY <3>1, <3>4, <3>5
  <2>2. CASE ~cached
    <3>1. s = in_pcblookup(f, fp, l, lp, TRUE)
      BY <2>2
    <3> QED BY <3>1, <1>1, LookupBest
  <2> QED BY <2>1, <2>2
<1>3. d.sum # "wrong" /\ d.ulen <= d.len
  BY <1>1 DEF UdpValid
<1> HIDE DEF s, best
<1>4. right = TRUE
  BY <1>2, <1>3
<1> HIDE DEF right
<1>5. rcvq' \in [Socks \cup RawSocks -> Seq({TRUE})]
  BY <1>1, <1>4, DeliverSound DEF PcbInv, PcbTypes
<1> QED BY <1>1, <1>2, <1>5, ChangeQueues

LEMMA BroadcastInv ==
  ASSUME PcbInv, NEW f, NEW fp, NEW lp, UdpBroadcast(f, fp, lp)
  PROVE  PcbInv'
<1>1. PICK S : rcvq' = Deliver(rcvq, S, TRUE)
  BY DEF UdpBroadcast
<1>2. UNCHANGED <<udb, upcb, local, lastpcb>>
  BY DEF UdpBroadcast
<1>3. rcvq' \in [Socks \cup RawSocks -> Seq({TRUE})]
  BY <1>1, DeliverSound DEF PcbInv, PcbTypes
<1> QED BY <1>2, <1>3, ChangeQueues

LEMMA RecvInv ==
  ASSUME PcbInv, NEW s \in Socks \cup RawSocks, UdpRecv(s)
  PROVE  PcbInv'
<1>1. rcvq[s] \in Seq({TRUE}) /\ rcvq[s] # <<>>
  BY DEF PcbInv, PcbTypes, UdpRecv
<1>2. Tail(rcvq[s]) \in Seq({TRUE})
  BY <1>1, HeadTailProperties
<1>3. rcvq' \in [Socks \cup RawSocks -> Seq({TRUE})]
  BY <1>2 DEF PcbInv, PcbTypes, UdpRecv
<1> QED BY <1>3, ChangeQueues DEF UdpRecv

\* Blocks told something, a set N of the listed ones, and the addresses that
\* are left: those that lost theirs are among the told.
LEMMA TellBlocks ==
  ASSUME PcbInv, NEW N,
         upcb' = [s \in Socks |-> IF s \in N THEN [upcb[s] EXCEPT !.told = TRUE]
                                  ELSE upcb[s]],
         local' \subseteq Locals,
         \A s \in Range(udb) : upcb[s].laddr \in local \ local' => s \in N,
         UNCHANGED <<udb, lastpcb, rcvq>>
  PROVE  PcbInv'
<1>1. DOMAIN upcb' = Socks
  OBVIOUS
<1>2. ASSUME NEW s \in Socks
      PROVE  /\ DOMAIN upcb'[s] = PcbFields
             /\ upcb'[s].laddr = upcb[s].laddr /\ upcb'[s].faddr = upcb[s].faddr
             /\ upcb'[s].lport = upcb[s].lport /\ upcb'[s].dry = upcb[s].dry
             /\ s \in N => upcb'[s].told = TRUE
             /\ s \notin N => upcb'[s].told = upcb[s].told
  BY DEF PcbInv, PcbTypes, PcbFields
<1>3. PcbTypes'
  BY <1>1, <1>2 DEF PcbInv, PcbTypes
<1>4. BlocksOK'
  <2> SUFFICES ASSUME NEW s \in Range(udb) PROVE PcbOK(upcb'[s], local')
    BY DEF BlocksOK
  <2>1. s \in Socks /\ PcbOK(upcb[s], local)
    BY ListedAreSocks DEF PcbInv, BlocksOK
  <2>2. CASE s \in N
    BY <2>1, <2>2, <1>2 DEF PcbOK
  <2>3. CASE s \notin N
    BY <2>1, <2>3, <1>2 DEF PcbOK
  <2> QED BY <2>2, <2>3
<1> QED BY <1>3, <1>4 DEF PcbInv, CacheListed

LEMMA AddrGoesInv ==
  ASSUME PcbInv, NEW a, AddrGoes(a)
  PROVE  PcbInv'
<1> DEFINE N == {s \in Range(udb) : upcb[s].laddr = a
                                    \/ (local = {a} /\ upcb[s].laddr = 0)}
<1>1. upcb' = [s \in Socks |-> IF s \in N THEN [upcb[s] EXCEPT !.told = TRUE]
                               ELSE upcb[s]]
  BY DEF AddrGoes
<1>2. local' = local \ {a} /\ UNCHANGED <<udb, lastpcb, rcvq>>
  BY DEF AddrGoes
<1>3. /\ local' \subseteq Locals
      /\ \A s \in Range(udb) : upcb[s].laddr \in local \ local' => s \in N
  BY <1>2 DEF PcbInv, PcbTypes
<1> HIDE DEF N
<1> QED BY <1>1, <1>2, <1>3, TellBlocks

LEMMA AddrComesInv ==
  ASSUME PcbInv, NEW a, AddrComes(a)
  PROVE  PcbInv'
<1>1. local \subseteq local' /\ local' \subseteq Locals
      /\ UNCHANGED <<udb, upcb, lastpcb, rcvq>>
  BY DEF AddrComes, PcbInv, PcbTypes
<1> QED BY <1>1 DEF PcbInv, PcbTypes, CacheListed, BlocksOK, PcbOK

LEMMA CtlinputInv ==
  ASSUME PcbInv, NEW f, NEW fp, NEW l, NEW lp, UdpCtlinput(f, fp, l, lp)
  PROVE  PcbInv'
<1>1. PICK N : upcb' = [s \in Socks |-> IF s \in N THEN [upcb[s] EXCEPT !.told = TRUE]
                                        ELSE upcb[s]]
  BY DEF UdpCtlinput
<1>2. UNCHANGED <<udb, lastpcb, local, rcvq>>
  BY DEF UdpCtlinput
<1>3. local' \subseteq Locals
  BY <1>2 DEF PcbInv, PcbTypes
<1> QED BY <1>1, <1>2, <1>3, TellBlocks

-----------------------------------------------------------------------------
(* Raw sockets.                                                            *)

LEMMA RawInv ==
  ASSUME PcbInv, RawRequests
  PROVE  PcbInv'
<1>1. ASSUME NEW s \in RawSocks, RawDetach(s)
      PROVE  PcbInv'
  <2>1. rcvq' \in [Socks \cup RawSocks -> Seq({TRUE})]
    BY <1>1, EmptySeq DEF PcbInv, PcbTypes, RawDetach
  <2> QED BY <1>1, <2>1, ChangeQueues DEF RawDetach
<1>2. ASSUME NEW s \in RawSocks, NEW pr, RawAttach(s, pr)
      PROVE  PcbInv'
  BY <1>2 DEF RawAttach, PcbInv, PcbTypes, CacheListed, BlocksOK
<1>3. ASSUME NEW s \in RawSocks, NEW l, NEW f, RawName(s, l, f)
      PROVE  PcbInv'
  BY <1>3 DEF RawName, PcbInv, PcbTypes, CacheListed, BlocksOK
<1> QED BY <1>1, <1>2, <1>3 DEF RawRequests

LEMMA RawInputInv ==
  ASSUME PcbInv, NEW pr, NEW f, NEW l, raw_input(pr, f, l)
  PROVE  PcbInv'
<1>1. PICK S : rcvq' = Deliver(rcvq, S, TRUE)
  BY DEF raw_input
<1>2. UNCHANGED <<udb, upcb, local, lastpcb>>
  BY DEF raw_input
<1>3. rcvq' \in [Socks \cup RawSocks -> Seq({TRUE})]
  BY <1>1, DeliverSound DEF PcbInv, PcbTypes
<1> QED BY <1>2, <1>3, ChangeQueues

-----------------------------------------------------------------------------
LEMMA NextInv == PcbInv /\ [PcbNext]_pvars => PcbInv'
<1> SUFFICES ASSUME PcbInv, [PcbNext]_pvars PROVE PcbInv'
  OBVIOUS
<1>1. CASE Requests
  <2>1. PICK s \in Socks :
          \/ Attach(s) \/ udp_detach(s) \/ UdpDisconnect(s)
          \/ \E a \in Locals \cup {0}, p \in Ports \cup {0} : in_pcbbind(s, a, p)
          \/ \E f \in Peers, fp \in PeerPorts : UdpConnect(s, f, fp) \/ UdpSendto(s, f, fp)
    BY <1>1 DEF Requests
  <2> QED BY <2>1, AttachInv, DetachInv, DisconnectInv, BindInv, ConnectInv, SendtoInv
<1>2. CASE Arrivals
  BY <1>2, BroadcastInv, InputInv, CtlinputInv, AddrGoesInv, AddrComesInv, RawInputInv
     DEF Arrivals
<1>3. CASE RawRequests
  BY <1>3, RawInv
<1>4. ASSUME NEW s \in Socks \cup RawSocks, UdpRecv(s) PROVE PcbInv'
  BY <1>4, RecvInv
<1>5. CASE UNCHANGED pvars
  BY <1>5 DEF pvars, PcbInv, PcbTypes, CacheListed, BlocksOK
<1> QED BY <1>1, <1>2, <1>3, <1>4, <1>5 DEF PcbNext

\* PcbsSound is what the invariant says of the listed blocks and the queues.
LEMMA InvSound == PcbInv => PcbsSound
<1> SUFFICES ASSUME PcbInv PROVE PcbsSound
  OBVIOUS
<1>1. ASSUME NEW s \in Socks, NEW n \in DOMAIN rcvq[s] PROVE rcvq[s][n]
  <2>1. rcvq[s] \in Seq({TRUE})
    BY DEF PcbInv, PcbTypes
  <2>2. rcvq[s][n] \in {TRUE}
    BY <2>1, LenProperties, ElementOfSeq
  <2>3. rcvq[s][n] = TRUE
    BY <2>2
  <2> QED BY <2>3
<1> QED BY <1>1 DEF PcbsSound, PcbInv, CacheListed, BlocksOK, PcbOK

\* Theorem: whatever sockets are opened, bound, connected and closed while
\* datagrams, ICMP errors and address changes arrive, udp_input's cached block
\* is alive, every datagram is whole and at its best match, a connected socket
\* has a local address and also a port, unless its own bind to an address found
\* none, and a socket whose address went has been told.
THEOREM SpecPcbsSound == PcbSpec => []PcbsSound
<1>1. PcbInit => PcbInv
  BY InitInv
<1>2. PcbInv /\ [PcbNext]_pvars => PcbInv'
  BY NextInv
<1>3. PcbInv => PcbsSound
  BY InvSound
<1> QED BY <1>1, <1>2, <1>3, PTL DEF PcbSpec

-----------------------------------------------------------------------------
(***************************************************************************)
(* Events: EventsKept, for any number of sockets, masks, errors and network*)
(* events.                                                                 *)
(***************************************************************************)

SocketRec ==
  [open : BOOLEAN, mask : SUBSET AllEvents, events : SUBSET AllEvents,
   err : Errnos \union {0}, rep : Errnos \union {0}, rcv : Nat, qlen : Nat]

EventsTypes ==
  /\ so \in [Sockets -> SocketRec]
  /\ prog \in [pc : {"wait", "drain", "handle"}, s : Sockets, todo : SUBSET AllEvents, missed : BOOLEAN]

\* Only what the mask asks for is recorded; the listener is open and asks for FD_ACCEPT.
MaskKept ==
  /\ \A s \in Sockets : so[s].events \subseteq so[s].mask
  /\ so[Listener].mask = {"ACCEPT"}

\* A program that sleeps will be woken for what is recorded.
Signalled == prog.pc = "wait" => \A s \in Sockets : so[s].open /\ so[s].events # {} => evsig

\* A queued connection is recorded, or the program is about to call accept() for it.
AcceptDue ==
  ~prog.missed /\ so[Listener].qlen > 0 =>
    \/ "ACCEPT" \in so[Listener].events
    \/ prog.pc = "handle" /\ "ACCEPT" \in prog.todo

EventsInv == EventsTypes /\ MaskKept /\ Signalled /\ AcceptDue
-----------------------------------------------------------------------------
USE EventsAssumption, MasksAssumption DEF AllEvents

\* What raising events may do to a socket: add bits that the mask asks for.
Grows(x, y) ==
  /\ y \in SocketRec /\ y.open = x.open /\ y.mask = x.mask /\ y.qlen = x.qlen
  /\ x.events \subseteq y.events /\ y.events \subseteq x.events \union x.mask

LEMMA RaiseGrows ==
  ASSUME NEW x \in SocketRec, NEW ev \in AllEvents
  PROVE  /\ Grows(x, soraise_event(x, ev))
         /\ ev \in x.mask => ev \in soraise_event(x, ev).events
<1> DEFINE tells == x.err # 0 /\ "ERROR" \in x.mask /\ x.err # x.rep
           all == IF tells THEN {ev, "ERROR"} ELSE {ev}
           e == x.events \union (all \intersect x.mask)
           r == IF tells THEN x.err ELSE x.rep
           y == [x EXCEPT !.events = e, !.rep = r]
<1>1. CASE x.mask = {}
  BY <1>1 DEF soraise_event, Grows
<1>2. CASE x.mask # {}
  <2>1. e \in SUBSET AllEvents /\ r \in Errnos \union {0}
    BY DEF SocketRec
  <2>2. x.events \subseteq e /\ e \subseteq x.events \union x.mask /\ (ev \in x.mask => ev \in e)
    OBVIOUS
  <2>3. soraise_event(x, ev) = y
    BY <1>2 DEF soraise_event
  <2> HIDE DEF e, r
  <2>4. y \in SocketRec /\ y.open = x.open /\ y.mask = x.mask /\ y.qlen = x.qlen /\ y.events = e
    BY <2>1 DEF SocketRec
  <2> QED BY <2>2, <2>3, <2>4 DEF Grows
<1> QED BY <1>1, <1>2

LEMMA GrowsOn ==
  ASSUME NEW x, NEW y, NEW z, Grows(x, y), Grows(y, z)
  PROVE  Grows(x, z)
BY DEF Grows

\* The two wakeups.
LEMMA WakeupGrows ==
  ASSUME NEW s \in Sockets, NEW x \in SocketRec
  PROVE  Grows(x, sorwakeup(s, x)) /\ Grows(x, sowwakeup(x))
BY RaiseGrows DEF sorwakeup, sowwakeup

\* A network step: x is the socket with what came in, y what the events make of it.
LEMMA RaisedStep ==
  ASSUME EventsInv, NEW s \in Sockets, NEW x \in SocketRec, NEW y, Grows(x, y), Raised(s, y), UNCHANGED prog,
         x.open = so[s].open, x.mask = so[s].mask, x.events = so[s].events,
         x.qlen = so[s].qlen \/ "ACCEPT" \in y.events
  PROVE  EventsInv'
<1> USE DEF EventsInv
<1>1. y \in SocketRec /\ so'[s] = y /\ \A t \in Sockets : t # s => so'[t] = so[t]
  BY DEF EventsTypes, Raised, Grows
<1>2. EventsTypes'
  BY <1>1 DEF EventsTypes, Raised
<1>a. Listener \in Sockets
  BY DEF Sockets
<1>3. MaskKept'
  <2>1. y.mask = so[s].mask /\ y.events \subseteq y.mask
    BY DEF MaskKept, Grows
  <2> QED BY <1>1, <1>a, <2>1 DEF MaskKept
<1>4. y.open = so[s].open /\ so[s].events \subseteq y.events
  BY DEF Grows
<1>5. Signalled'
  <2> SUFFICES ASSUME prog.pc = "wait", NEW t \in Sockets, so'[t].open, so'[t].events # {} PROVE evsig'
    BY DEF Signalled
  <2>1. CASE so[t].events # {}
    BY <1>1, <1>4, <2>1 DEF Signalled, Raised
  <2>2. CASE so[t].events = {}
    <3>1. t = s /\ y.events # {} /\ so[s].events = {}
      BY <1>1, <2>2
    <3>2. y.events \ so[s].events # {}
      BY <3>1
    <3> QED BY <3>2, Zenon DEF Raised
  <2> QED BY <2>1, <2>2
<1>6. AcceptDue'
  <2>1. y.qlen = so[s].qlen \/ "ACCEPT" \in y.events
    BY DEF Grows
  <2>2. CASE s = Listener
    BY <1>1, <1>4, <2>1, <2>2 DEF AcceptDue
  <2>3. CASE s # Listener
    BY <1>1, <1>a, <2>3 DEF AcceptDue
  <2> QED BY <2>2, <2>3
<1> QED BY <1>2, <1>3, <1>5, <1>6

LEMMA NetStep ==
  ASSUME EventsInv, NEW s \in Sockets,
         \/ DataIn(s) \/ soisconnected(s) \/ soisdisconnected(s) \/ socantrcvmore(s) \/ udp_notify(s)
         \/ sohasoutofband(s) \/ SpaceFrees(s)
  PROVE  EventsInv'
<1>0. so[s] \in SocketRec /\ (s = Listener => so[s].mask = {"ACCEPT"}) /\ UNCHANGED prog
  BY DEF EventsInv, EventsTypes, MaskKept, DataIn, soisconnected, soisdisconnected, socantrcvmore, udp_notify,
         sohasoutofband, SpaceFrees, Net
<1>1. CASE DataIn(s)
  <2> DEFINE x == [so[s] EXCEPT !.rcv = @ + 1]
  <2>1. x \in SocketRec /\ x.open = so[s].open /\ x.mask = so[s].mask /\ x.events = so[s].events /\ x.qlen = so[s].qlen
    BY <1>0 DEF SocketRec
  <2>2. Raised(s, sorwakeup(s, x))
    BY <1>1 DEF DataIn
  <2> HIDE DEF x
  <2> QED BY <1>0, <2>1, <2>2, WakeupGrows, RaisedStep
<1>2. CASE soisconnected(s) /\ s = Listener
  <2> DEFINE x == [so[s] EXCEPT !.qlen = @ + 1]
  <2>1. x \in SocketRec /\ x.open = so[s].open /\ x.mask = {"ACCEPT"} /\ x.events = so[s].events
    BY <1>0, <1>2 DEF SocketRec
  <2>2. Raised(s, sorwakeup(s, x))
    BY <1>2 DEF soisconnected
  <2> HIDE DEF x
  <2>3. "ACCEPT" \in sorwakeup(s, x).events
    BY <1>2, <2>1, RaiseGrows DEF sorwakeup
  <2> QED BY <1>0, <1>2, <2>1, <2>2, <2>3, WakeupGrows, RaisedStep
<1>3. CASE soisconnected(s) /\ s # Listener
  <2> DEFINE y == soraise_event(so[s], "CONNECT")
             z == sorwakeup(s, y)
  <2>1. Grows(so[s], y)
    BY <1>0, RaiseGrows
  <2>2. Grows(so[s], z)
    BY <2>1, WakeupGrows, GrowsOn DEF Grows
  <2>3. Grows(so[s], sowwakeup(z))
    BY <2>2, WakeupGrows, GrowsOn DEF Grows
  <2>4. Raised(s, sowwakeup(z))
    BY <1>3 DEF soisconnected
  <2> HIDE DEF z
  <2> QED BY <1>0, <2>3, <2>4, RaisedStep
<1>4. CASE soisdisconnected(s)
  <2>1. PICK e \in Errnos \union {0} :
          LET x == IF e = 0 THEN so[s] ELSE [so[s] EXCEPT !.err = e]
          IN Raised(s, sorwakeup(s, sowwakeup(soraise_event(x, "CLOSE"))))
    BY <1>4 DEF soisdisconnected
  <2> DEFINE x == IF e = 0 THEN so[s] ELSE [so[s] EXCEPT !.err = e]
             y == soraise_event(x, "CLOSE")
             z == sowwakeup(y)
  <2>2. x \in SocketRec /\ x.open = so[s].open /\ x.mask = so[s].mask /\ x.events = so[s].events /\ x.qlen = so[s].qlen
    BY <1>0 DEF SocketRec
  <2>3. Raised(s, sorwakeup(s, z))
    BY <2>1
  <2> HIDE DEF x
  <2>4. Grows(x, y)
    BY <2>2, RaiseGrows
  <2> HIDE DEF y
  <2>5. Grows(x, z)
    BY <2>4, WakeupGrows, GrowsOn DEF Grows
  <2>6. Grows(x, sorwakeup(s, z))
    BY <2>5, WakeupGrows, GrowsOn DEF Grows
  <2> HIDE DEF z
  <2> QED BY <1>0, <2>2, <2>3, <2>6, RaisedStep
<1>5. CASE socantrcvmore(s)
  <2> DEFINE y == soraise_event(so[s], "CLOSE")
  <2>1. Grows(so[s], y)
    BY <1>0, RaiseGrows
  <2>2. Raised(s, sorwakeup(s, y))
    BY <1>5 DEF socantrcvmore
  <2> HIDE DEF y
  <2>3. Grows(so[s], sorwakeup(s, y))
    BY <2>1, WakeupGrows, GrowsOn DEF Grows
  <2> QED BY <1>0, <2>2, <2>3, RaisedStep
<1>6. CASE udp_notify(s)
  <2>1. PICK e \in Errnos : Raised(s, sowwakeup(sorwakeup(s, [so[s] EXCEPT !.err = e])))
    BY <1>6 DEF udp_notify
  <2> DEFINE x == [so[s] EXCEPT !.err = e]
             y == sorwakeup(s, x)
  <2>2. x \in SocketRec /\ x.open = so[s].open /\ x.mask = so[s].mask /\ x.events = so[s].events /\ x.qlen = so[s].qlen
    BY <1>0 DEF SocketRec
  <2>3. Raised(s, sowwakeup(y))
    BY <2>1
  <2> HIDE DEF x
  <2>4. Grows(x, y)
    BY <2>2, WakeupGrows
  <2> HIDE DEF y
  <2>5. Grows(x, sowwakeup(y))
    BY <2>4, WakeupGrows, GrowsOn DEF Grows
  <2> QED BY <1>0, <2>2, <2>3, <2>5, RaisedStep
<1>7. CASE sohasoutofband(s)
  BY <1>0, <1>7, RaiseGrows, RaisedStep DEF sohasoutofband
<1>8. CASE SpaceFrees(s)
  BY <1>0, <1>8, WakeupGrows, RaisedStep DEF SpaceFrees
<1> QED BY <1>1, <1>2, <1>3, <1>4, <1>5, <1>6, <1>7, <1>8

LEMMA EventsInitInv == ASSUME EventsInit PROVE EventsInv
<1>1. PICK m \in EvMasks : so = [s \in Sockets |->
        [open |-> s = Listener \/ s = CHOOSE x \in EvSocks : TRUE, mask |-> IF s = Listener THEN {"ACCEPT"} ELSE m,
         events |-> {}, err |-> 0, rep |-> 0, rcv |-> 0, qlen |-> 0]]
  BY DEF EventsInit
<1>2. \A s \in Sockets : so[s].events = {} /\ so[s].qlen = 0
  BY <1>1
<1>3. so \in [Sockets -> SocketRec]
  BY <1>1 DEF SocketRec
<1>4. Listener \in Sockets
  BY DEF Sockets
<1>5. EventsTypes
  BY <1>3, <1>4 DEF EventsInit, EventsTypes
<1>6. MaskKept
  BY <1>1, <1>2, <1>4 DEF MaskKept
<1> QED BY <1>2, <1>4, <1>5, <1>6 DEF EventsInv, Signalled, AcceptDue

\* The program: setting the mask, waiting and collecting.
LEMMA CollectStep ==
  ASSUME EventsInv, \/ AppWaits \/ GetSocketEvents
                    \/ \E s \in Sockets : soclose(s) \/ \E m \in EvMasks : sosetopt(s, m)
  PROVE  EventsInv'
<1> USE DEF EventsInv
<1>0. Listener \in Sockets
  BY DEF Sockets
<1>1. CASE AppWaits
  BY <1>1 DEF AppWaits, EventsTypes, MaskKept, Signalled, AcceptDue
<1>2. CASE /\ \A s \in Sockets : ~(so[s].open /\ so[s].events # {})
           /\ prog.pc = "drain" /\ prog' = [prog EXCEPT !.pc = "wait"] /\ UNCHANGED <<so, evsig>>
  <2>1. \A s \in Sockets : ~(so[s].open /\ so[s].events # {})
    BY <1>2
  <2>2. UNCHANGED <<so, evsig>> /\ prog.pc = "drain" /\ prog'.missed = prog.missed
    BY <1>2 DEF EventsTypes
  <2>3. EventsTypes'
    BY <1>2, <2>2 DEF EventsTypes
  <2> QED BY <2>1, <2>2, <2>3 DEF MaskKept, Signalled, AcceptDue
<1>3. CASE \E s \in Sockets :
             /\ so' = [so EXCEPT ![s].events = {}] /\ prog.pc = "drain"
             /\ prog' = [prog EXCEPT !.pc = "handle", !.s = s, !.todo = so[s].events]
  <2>1. PICK s \in Sockets :
             /\ so' = [so EXCEPT ![s].events = {}] /\ prog.pc = "drain"
             /\ prog' = [prog EXCEPT !.pc = "handle", !.s = s, !.todo = so[s].events]
    BY <1>3
  <2>2. /\ so' \in [Sockets -> SocketRec] /\ \A t \in Sockets : t # s => so'[t] = so[t]
        /\ so'[s].events = {} /\ so'[s].mask = so[s].mask /\ so'[s].qlen = so[s].qlen
    BY <2>1 DEF EventsTypes, SocketRec
  <2>3. /\ so[s].events \in SUBSET AllEvents
        /\ prog'.pc = "handle" /\ prog'.todo = so[s].events /\ prog'.missed = prog.missed
    BY <2>1 DEF EventsTypes, SocketRec
  <2>4. EventsTypes'
    BY <2>1, <2>2, <2>3 DEF EventsTypes
  <2>5. MaskKept'
    BY <1>0, <2>2 DEF MaskKept
  <2>6. AcceptDue'
    BY <1>0, <2>1, <2>2, <2>3 DEF AcceptDue
  <2> QED BY <2>3, <2>4, <2>5, <2>6 DEF Signalled
<1>4. ASSUME NEW s \in Sockets \ {Listener}, NEW x \in SocketRec, so' = [so EXCEPT ![s] = x], UNCHANGED <<evsig, prog>>,
             x.events \subseteq so[s].events, x.events \subseteq x.mask, x.open => so[s].open
      PROVE  EventsInv'
  <2>1. so' \in [Sockets -> SocketRec] /\ so'[s] = x /\ \A t \in Sockets : t # s => so'[t] = so[t]
    BY <1>4 DEF EventsTypes
  <2>2. EventsTypes' /\ MaskKept'
    BY <1>0, <1>4, <2>1 DEF EventsTypes, MaskKept
  <2>3. Signalled'
    BY <1>4, <2>1 DEF Signalled
  <2>4. AcceptDue'
    BY <1>0, <1>4, <2>1 DEF AcceptDue
  <2> QED BY <2>2, <2>3, <2>4
<1>5. CASE GetSocketEvents
  BY <1>2, <1>3, <1>5 DEF GetSocketEvents
<1>6. ASSUME NEW s \in Sockets, soclose(s) PROVE EventsInv'
  <2> DEFINE x == [so[s] EXCEPT !.open = FALSE, !.events = {}, !.mask = {}]
  <2>1. so[s] \in SocketRec /\ s # Listener /\ so' = [so EXCEPT ![s] = x] /\ UNCHANGED <<evsig, prog>>
    BY <1>6 DEF EventsTypes, soclose
  <2>2. x \in SocketRec /\ x.events = {} /\ x.mask = {} /\ ~x.open
    BY <2>1 DEF SocketRec
  <2> HIDE DEF x
  <2> QED BY <1>4, <2>1, <2>2
<1>7. ASSUME NEW s \in Sockets, NEW m \in EvMasks, sosetopt(s, m) PROVE EventsInv'
  <2> DEFINE x == [so[s] EXCEPT !.mask = m, !.events = so[s].events \intersect m]
  <2>1. so[s] \in SocketRec /\ s # Listener /\ so' = [so EXCEPT ![s] = x] /\ UNCHANGED <<evsig, prog>>
    BY <1>7 DEF EventsTypes, sosetopt
  <2>2. x \in SocketRec /\ x.events = so[s].events \intersect m /\ x.mask = m /\ x.open = so[s].open
    BY <2>1 DEF SocketRec
  <2> HIDE DEF x
  <2> QED BY <1>4, <2>1, <2>2
<1> QED BY <1>1, <1>5, <1>6, <1>7

\* The handlers of READ, ERROR and what needs no call: they change no event, no mask and
\* no queue, and leave an accept() that is due to be called.
LEMMA HandlerStep == ASSUME EventsInv, soreceive \/ sogetopt \/ Handled PROVE EventsInv'
<1> USE DEF EventsInv
<1>0. Listener \in Sockets /\ prog.s \in Sockets /\ so[prog.s] \in SocketRec /\ prog.pc = "handle"
  BY DEF Sockets, EventsTypes, soreceive, sogetopt, Handled
<1>1. /\ so' \in [Sockets -> SocketRec]
      /\ \A s \in Sockets : so'[s].events = so[s].events /\ so'[s].mask = so[s].mask /\ so'[s].qlen = so[s].qlen
  <2>1. CASE UNCHANGED so
    BY <2>1 DEF EventsTypes
  <2>2. ASSUME NEW x \in SocketRec, so' = [so EXCEPT ![prog.s] = x],
               x.events = so[prog.s].events, x.mask = so[prog.s].mask, x.qlen = so[prog.s].qlen
        PROVE  /\ so' \in [Sockets -> SocketRec]
               /\ \A s \in Sockets : so'[s].events = so[s].events /\ so'[s].mask = so[s].mask /\ so'[s].qlen = so[s].qlen
    BY <1>0, <2>2 DEF EventsTypes
  <2>3. CASE so' = [so EXCEPT ![prog.s] = [@ EXCEPT !.rcv = 0, !.err = 0]]
    <3> DEFINE x == [so[prog.s] EXCEPT !.rcv = 0, !.err = 0]
    <3>1. x \in SocketRec /\ x.events = so[prog.s].events /\ x.mask = so[prog.s].mask /\ x.qlen = so[prog.s].qlen
      BY <1>0 DEF SocketRec
    <3>2. so' = [so EXCEPT ![prog.s] = x]
      BY <2>3
    <3> HIDE DEF x
    <3> QED BY <2>2, <3>1, <3>2
  <2>4. CASE so' = [so EXCEPT ![prog.s] = [@ EXCEPT !.err = 0, !.rep = 0]]
    <3> DEFINE x == [so[prog.s] EXCEPT !.err = 0, !.rep = 0]
    <3>1. x \in SocketRec /\ x.events = so[prog.s].events /\ x.mask = so[prog.s].mask /\ x.qlen = so[prog.s].qlen
      BY <1>0 DEF SocketRec
    <3>2. so' = [so EXCEPT ![prog.s] = x]
      BY <2>4
    <3> HIDE DEF x
    <3> QED BY <2>2, <3>1, <3>2
  <2> QED BY <2>1, <2>3, <2>4 DEF soreceive, sogetopt, Handled
<1>2. MaskKept'
  BY <1>0, <1>1 DEF MaskKept
<1>3. /\ EventsTypes' /\ prog'.pc # "wait" /\ prog'.missed = prog.missed
      /\ "ACCEPT" \in prog.todo => prog'.pc = "handle" /\ "ACCEPT" \in prog'.todo
  <2>1. prog \in [pc : {"wait", "drain", "handle"}, s : Sockets, todo : SUBSET AllEvents, missed : BOOLEAN]
    BY DEF EventsTypes
  <2>2. ASSUME NEW ev \in {"READ", "ERROR"}, prog' = [prog EXCEPT !.todo = @ \ {ev}]
        PROVE  /\ prog' \in [pc : {"wait", "drain", "handle"}, s : Sockets, todo : SUBSET AllEvents, missed : BOOLEAN]
               /\ prog'.pc = "handle" /\ prog'.missed = prog.missed /\ prog'.todo = prog.todo \ {ev}
    BY <1>0, <2>1, <2>2
  <2>3. CASE soreceive \/ sogetopt
    BY <1>1, <2>2, <2>3 DEF EventsTypes, soreceive, sogetopt, Did
  <2>4. CASE Handled
    <3>1. prog' = [prog EXCEPT !.pc = "drain", !.todo = {}] /\ "ACCEPT" \notin prog.todo
      BY <2>4 DEF Handled
    <3> QED BY <1>1, <2>1, <3>1 DEF EventsTypes
  <2> QED BY <2>3, <2>4
<1>4. AcceptDue'
  BY <1>0, <1>1, <1>3 DEF AcceptDue
<1> QED BY <1>2, <1>3, <1>4 DEF Signalled

LEMMA AcceptStep == ASSUME EventsInv, accept PROVE EventsInv'
<1> USE DEF EventsInv
<1>0. Listener \in Sockets /\ so[Listener] \in SocketRec /\ prog.pc = "handle"
  BY DEF Sockets, EventsTypes, accept
<1>1. CASE /\ prog' = [Did("ACCEPT") EXCEPT !.missed = @ \/ so[Listener].qlen > 0]
           /\ UNCHANGED so
  <2>1. EventsTypes' /\ prog'.pc = "handle" /\ (prog'.missed <=> prog.missed \/ so[Listener].qlen > 0)
    BY <1>0, <1>1 DEF EventsTypes, Did
  <2> QED BY <1>1, <2>1 DEF MaskKept, Signalled, AcceptDue
<1> DEFINE y == [so[Listener] EXCEPT !.qlen = @ - 1]
           z == IF y.qlen > 0 THEN soraise_event(y, "ACCEPT") ELSE y
           new == [open |-> TRUE, mask |-> {}, events |-> {}, err |-> 0, rep |-> 0, rcv |-> 0, qlen |-> 0]
<1>2. ASSUME NEW c \in EvSocks, so[Listener].qlen # 0, prog' = Did("ACCEPT"),
             so' = [so EXCEPT ![Listener] = z, ![c] = new]
      PROVE  EventsInv'
  <2>1. y \in SocketRec /\ y.mask = so[Listener].mask /\ y.events = so[Listener].events
    BY <1>0, <1>2 DEF SocketRec
  <2> HIDE DEF y
  <2>2. Grows(y, soraise_event(y, "ACCEPT")) /\ ("ACCEPT" \in y.mask => "ACCEPT" \in soraise_event(y, "ACCEPT").events)
    BY <2>1, RaiseGrows
  <2>3. /\ z \in SocketRec /\ z.mask = {"ACCEPT"} /\ z.events \subseteq {"ACCEPT"}
        /\ z.qlen > 0 => "ACCEPT" \in z.events
    BY <1>0, <2>1, <2>2 DEF Grows, MaskKept
  <2> HIDE DEF z
  <2>4. new \in SocketRec /\ new.events = {}
    BY DEF SocketRec
  <2> HIDE DEF new
  <2>5. c # Listener /\ c \in Sockets
    BY DEF Sockets
  <2>6. /\ so' \in [Sockets -> SocketRec] /\ so'[Listener] = z /\ so'[c] = new
        /\ \A s \in Sockets : s # c /\ s # Listener => so'[s] = so[s]
    BY <1>0, <1>2, <2>3, <2>4, <2>5 DEF EventsTypes
  <2>7. EventsTypes' /\ prog'.pc = "handle"
    BY <1>0, <1>2, <2>6 DEF EventsTypes, Did
  <2>8. MaskKept'
    BY <2>3, <2>4, <2>6 DEF MaskKept
  <2> QED BY <2>3, <2>6, <2>7, <2>8 DEF Signalled, AcceptDue
<1> QED BY <1>1, <1>2 DEF accept

\* The invariant is inductive.
LEMMA EventsInductive == ASSUME EventsInv, [EventsNext]_evvars PROVE EventsInv'
<1>1. CASE UNCHANGED evvars
  BY <1>1 DEF evvars, EventsInv, EventsTypes, MaskKept, Signalled, AcceptDue
<1> QED BY <1>1, NetStep, CollectStep, HandlerStep, AcceptStep DEF EventsNext

\* A program that waits for its signal, collects until there is nothing left and handles
\* what it was given misses nothing it asked for (soraise_event, GetSocketEvents, accept):
\* EventsKept, for any number of sockets, masks and network events.
THEOREM SpecEventsKept == EventsSpec => []EventsKept
<1>1. EventsInv => EventsKept
  BY DEF EventsInv, EventsTypes, MaskKept, Signalled, AcceptDue, EventsKept
<1> QED BY <1>1, EventsInitInv, EventsInductive, PTL DEF EventsSpec

HIDE MasksAssumption DEF AllEvents
HIDE EventsAssumption

-----------------------------------------------------------------------------
(***************************************************************************)
(* Names: NamesSound, for any number of tasks, servers and names and any   *)
(* size of the cache.                                                      *)
(*                                                                         *)
(* The cache is written at the end of a lookup with what the lookup holds, *)
(* so the invariant speaks of the lookups under way as well (LooksOwn: an  *)
(* answer a task holds is one to its own query), and a cursor of the       *)
(* database always points into the generation it is stamped with           *)
(* (CursorsKept), also while the stamp is stale.                           *)
(***************************************************************************)

LookFields == {"pc", "q", "stage", "i", "try", "k", "vc", "got", "rej", "host",
               "herr", "nodata", "seen", "ans"}
Stages == {"own", "domains", "plain"}

\* A lookup: whoever asks servers has a stage, and an answer held is its own.
LookOK(l) == /\ DOMAIN l = LookFields
             /\ l.pc \in {"search", "send", "wait", "circuit"} => l.stage \in Stages
             /\ \A a \in l.ans : a.mine

LooksOwn == /\ look = [c \in Clients |-> look[c]]
            /\ \A c \in Clients : LookOK(look[c])

CursorOK(w) == DOMAIN w = {"at", "mem", "stamp"} /\ w.mem = w.stamp
CursorsKept == /\ walk = [c \in Clients |-> walk[c]]
               /\ \A c \in Clients : CursorOK(walk[c])

EntryOK(e) == \A a \in e.val : ~e.neg => a.mine
Distinct(t) == \A m, n \in DOMAIN t : m # n /\ t[m].q # "none" => t[m].q # t[n].q
CacheOK(t) == /\ DOMAIN t = 1..Slots
              /\ Distinct(t)
              /\ \A n \in DOMAIN t : EntryOK(t[n])

\* The inductive invariant.
NamesInv == CacheOK(cache) /\ LooksOwn /\ CursorsKept

-----------------------------------------------------------------------------
(* The cache's operators.                                                  *)

\* Dropping what has expired keeps the cache sound.
LEMMA ClearSound ==
  ASSUME NEW t, CacheOK(t), NEW q
  PROVE  CacheOK(Clear(t, q))
<1> DEFINE u == Clear(t, q)
<1>1. DOMAIN u = DOMAIN t
  BY DEF Clear
<1>2. \A n \in DOMAIN t : u[n] = t[n] \/ u[n] = NoEntry
  BY DEF Clear
<1>3. NoEntry.q = "none" /\ NoEntry.val = {}
  BY DEF NoEntry
<1> HIDE DEF u
<1>4. Distinct(u)
  <2> SUFFICES ASSUME NEW m \in DOMAIN u, NEW n \in DOMAIN u, m # n, u[m].q # "none"
               PROVE  u[m].q # u[n].q
    BY DEF Distinct
  <2>1. u[m] = t[m]
    BY <1>1, <1>2, <1>3
  <2>2. CASE u[n] = t[n]
    BY <2>1, <2>2, <1>1 DEF CacheOK, Distinct
  <2>3. CASE u[n] = NoEntry
    BY <2>3, <1>3
  <2> QED  BY <2>2, <2>3, <1>1, <1>2
<1>5. \A n \in DOMAIN u : EntryOK(u[n])
  BY <1>1, <1>2, <1>3 DEF CacheOK, EntryOK
<1> QED  BY <1>1, <1>4, <1>5 DEF CacheOK, u

\* An answer put into the cache replaces the one to the same question.
LEMMA PutSound ==
  ASSUME CacheOK(cache), NEW e, EntryOK(e)
  PROVE  CacheOK(PutEntry(e))
<1> DEFINE t == Clear(cache, e.q)
           hit == ent_find(t, e.q)
           n == IF hit # {} THEN CHOOSE h \in hit : TRUE ELSE pick_slot(t)
           u == [t EXCEPT ![n] = e]
<1>1. CacheOK(t)
  BY ClearSound
<1>2. \A m \in DOMAIN t : t[m].q = e.q => m \in hit \/ e.q = "none"
  <2> SUFFICES ASSUME NEW m \in DOMAIN t, t[m].q = e.q, e.q # "none" PROVE ~Expired(t[m])
    BY DEF ent_find
  <2>1. m \in DOMAIN cache /\ t[m] = IF cache[m].q = e.q /\ Expired(cache[m]) THEN NoEntry ELSE cache[m]
    BY DEF Clear
  <2> QED  BY <2>1 DEF NoEntry
<1>3. hit # {} => n \in hit
  OBVIOUS
<1>4. hit \subseteq {m \in DOMAIN t : t[m].q = e.q}
  BY DEF ent_find
<1> HIDE DEF t, hit, n
<1>5. DOMAIN u = DOMAIN t /\ \A m \in DOMAIN t : u[m] = IF m = n THEN e ELSE t[m]
  OBVIOUS
<1> HIDE DEF u
<1>6. \A m \in DOMAIN t : m # n /\ e.q # "none" => t[m].q # e.q
  <2> SUFFICES ASSUME NEW m \in DOMAIN t, m # n, e.q # "none", t[m].q = e.q PROVE FALSE
    OBVIOUS
  <2>1. m \in hit
    BY <1>2
  <2>2. n \in DOMAIN t /\ t[n].q = e.q
    BY <2>1, <1>3, <1>4
  <2> QED  BY <2>2, <1>1 DEF CacheOK, Distinct
<1>7. Distinct(u)
  <2> SUFFICES ASSUME NEW m \in DOMAIN u, NEW k \in DOMAIN u, m # k, u[m].q # "none"
               PROVE  u[m].q # u[k].q
    BY DEF Distinct
  <2>1. CASE m = n
    BY <2>1, <1>5, <1>6
  <2>2. CASE k = n
    BY <2>2, <1>5, <1>6
  <2>3. CASE m # n /\ k # n
    BY <2>3, <1>1, <1>5 DEF CacheOK, Distinct
  <2> QED  BY <2>1, <2>2, <2>3
<1>8. \A m \in DOMAIN u : EntryOK(u[m])
  BY <1>1, <1>5 DEF CacheOK
<1>9. PutEntry(e) = u
  BY DEF PutEntry, t, hit, n, u
<1> QED  BY <1>1, <1>5, <1>7, <1>8, <1>9 DEF CacheOK

\* What is put into the cache by a lookup that found, or that found nothing.
LEMMA FlushSound == CacheOK([n \in 1..Slots |-> NoEntry])
BY DEF CacheOK, Distinct, EntryOK, NoEntry

-----------------------------------------------------------------------------
(* The lookup's operators.                                                 *)

\* What res_search does with a failed query keeps the lookup sound.
LEMMA FailedSound ==
  ASSUME NEW l, LookOK(l), l.stage \in Stages, NEW rc
  PROVE  LookOK(Failed(l, rc))
<1> DEFINE m == [l EXCEPT !.herr = HErrno(rc), !.seen = @ \cup {rc}, !.pc = "search",
                     !.try = 0, !.k = 0, !.vc = FALSE, !.got = FALSE, !.rej = 0,
                     !.host = "none"]
<1>1. LookOK(m) /\ m.stage = l.stage
  BY DEF LookOK, LookFields
<1> HIDE DEF m
<1>2. LookOK([m EXCEPT !.stage = "domains"])
  BY <1>1 DEF LookOK, LookFields, Stages
<1>3. LookOK([m EXCEPT !.pc = "fail"])
  BY <1>1 DEF LookOK, LookFields, Stages
<1>4. LookOK([m EXCEPT !.nodata = @ \/ rc = "nodata",
                      !.stage = IF rc \in {"nx", "nodata"} THEN @ ELSE "plain"])
  BY <1>1 DEF LookOK, LookFields, Stages
<1>5. LookOK(Searched(m))
  BY <1>1 DEF LookOK, LookFields, Stages, Searched
<1>6. CASE l.stage = "own"
  <2>1. Failed(l, rc) = [m EXCEPT !.stage = "domains"]
    BY <1>6 DEF Failed, m
  <2> QED  BY <2>1, <1>2
<1>7. CASE l.stage = "domains" /\ rc = "REFUSED"
  <2>1. Failed(l, rc) = [m EXCEPT !.pc = "fail"]
    BY <1>7 DEF Failed, m
  <2> QED  BY <2>1, <1>3
<1>8. CASE l.stage = "domains" /\ rc # "REFUSED"
  <2>1. Failed(l, rc) = [m EXCEPT !.nodata = @ \/ rc = "nodata",
                      !.stage = IF rc \in {"nx", "nodata"} THEN @ ELSE "plain"]
    BY <1>8 DEF Failed, m
  <2> QED  BY <2>1, <1>4, Zenon
<1>9. CASE l.stage = "plain"
  <2>1. Failed(l, rc) = Searched(m)
    BY <1>9 DEF Failed, m
  <2> QED  BY <2>1, <1>5
<1> QED  BY <1>6, <1>7, <1>8, <1>9 DEF Stages

\* An answer to the task's own query, from wherever, keeps the lookup sound.
LEMMA AnsweredSound ==
  ASSUME NEW l, LookOK(l), l.stage \in Stages, NEW r, r.mine
  PROVE  LookOK(Answered(l, r))
<1>1. CASE r.rc = "tc"
  BY <1>1 DEF Answered, LookOK, LookFields, Stages
<1>2. CASE r.rc = "ok"
  <2>1. Answered(l, r) = [l EXCEPT !.pc = "found", !.ans = {[src |-> r.src, mine |-> r.mine]}]
    BY <1>2 DEF Answered
  <2> QED  BY <2>1 DEF LookOK, LookFields, Stages
<1>3. CASE r.rc # "tc" /\ r.rc # "ok"
  <2>1. Answered(l, r) = Failed(l, r.rc)
    BY <1>3 DEF Answered
  <2> QED  BY <2>1, FailedSound
<1> QED  BY <1>1, <1>2, <1>3

\* The idle task, and a lookup as it starts.
LEMMA IdleSound == LookOK(Idle) /\ \A q : LookOK([Idle EXCEPT !.pc = "cache", !.q = q])
BY DEF LookOK, LookFields, Idle, Stages

\* A step of one task's lookup disturbs no other.
LEMMA StepSound ==
  ASSUME NamesInv, NEW c \in Clients, NEW l, LookOK(l), Step(c, l), CacheOK(cache')
  PROVE  NamesInv'
<1>1. walk' = walk /\ look' = [look EXCEPT ![c] = l]
  BY DEF Step
<1>2. LooksOwn'
  BY <1>1 DEF NamesInv, LooksOwn
<1>3. CursorsKept'
  BY <1>1 DEF NamesInv, CursorsKept
<1> QED  BY <1>2, <1>3 DEF NamesInv

-----------------------------------------------------------------------------
(* One lemma per part of the next-state relation.                          *)

\* No change of the database touches cache, lookups or cursors.
LEMMA EditSound ==
  ASSUME NamesInv, NEW db, NEW f, Edit(db, f)
  PROVE  NamesInv'
BY DEF NamesInv, Edit, LooksOwn, CursorsKept

LEMMA EditsSound == NamesInv /\ Edits => NamesInv'
<1> SUFFICES ASSUME NamesInv, Edits PROVE NamesInv'
  OBVIOUS
<1>1. ASSUME NEW a \in Servers, AddDomainNameServer(a) PROVE NamesInv'
  BY <1>1, EditSound DEF AddDomainNameServer
<1>2. ASSUME NEW a \in Servers, RemoveDomainNameServer(a) PROVE NamesInv'
  BY <1>2, EditSound DEF RemoveDomainNameServer
<1>3. ASSUME NEW a \in Servers, NEW o \in Links, ng_add_owned_nameserver(a, o) PROVE NamesInv'
  BY <1>3, EditSound DEF ng_add_owned_nameserver
<1>4. ASSUME NEW o \in Links \cup {"none"}, ng_flush_dynamic_nameservers_for(o) PROVE NamesInv'
  <2>1. PICK db : Edit(db, 1)
    BY <1>4, Zenon DEF ng_flush_dynamic_nameservers_for
  <2> QED  BY <2>1, EditSound
<1>5. ASSUME NEW d \in Searches, ng_set_default_domain(d) PROVE NamesInv'
  BY <1>5, EditSound DEF ng_set_default_domain
<1>6. CASE do_netdb
  BY <1>6, EditSound DEF do_netdb
<1>7. CASE reset_netdb
  BY <1>7, EditSound DEF reset_netdb
<1>8. CASE ng_dnscache_flush
  <2>1. look' = look /\ walk' = walk /\ cache' = [n \in 1..Slots |-> NoEntry]
    BY <1>8 DEF ng_dnscache_flush
  <2>2. CacheOK(cache')
    BY <2>1, FlushSound
  <2> QED  BY <2>1, <2>2 DEF NamesInv, LooksOwn, CursorsKept
<1> QED  BY <1>1, <1>2, <1>3, <1>4, <1>5, <1>6, <1>7, <1>8 DEF Edits

\* setnetent, getnetent and endnetent.
LEMMA IteratorsSound == NamesInv /\ Iterators => NamesInv'
<1> SUFFICES ASSUME NamesInv, NEW c \in Clients, setent(c) \/ endent(c) \/ getent(c)
             PROVE  NamesInv'
  BY DEF Iterators
<1>0. cache' = cache /\ look' = look
  BY DEF setent, endent, getent
<1>1. ASSUME NEW w, CursorOK(w), walk' = [walk EXCEPT ![c] = w] PROVE NamesInv'
  <2>1. CursorsKept'
    BY <1>1 DEF NamesInv, CursorsKept
  <2> QED  BY <2>1, <1>0 DEF NamesInv, LooksOwn
<1>2. \A n : CursorOK(AtNode(n)) /\ AtNode(n).stamp = ndb.gen
  BY DEF CursorOK, AtNode
<1>3. CASE setent(c)
  <2>1. walk' = [walk EXCEPT ![c] = AtNode(1)]
    BY <1>3 DEF setent
  <2> QED  BY <2>1, <1>1, <1>2
<1>4. CASE endent(c)
  <2>1. walk' = [walk EXCEPT ![c] = [walk[c] EXCEPT !.at = 0]]
    BY <1>4 DEF endent
  <2>2. CursorOK([walk[c] EXCEPT !.at = 0])
    BY DEF NamesInv, CursorsKept, CursorOK
  <2> QED  BY <2>1, <2>2, <1>1
<1>5. CASE getent(c)
  <2> DEFINE from == IF walk[c].at = 0 \/ walk[c].stamp # ndb.gen THEN AtNode(1) ELSE walk[c]
  <2>1. from.mem = ndb.gen
    BY <1>2 DEF NamesInv, CursorsKept, CursorOK
  <2>2. walk' = [walk EXCEPT ![c] = [AtNode(from.at + 1) EXCEPT !.mem = from.mem]]
    BY <1>5 DEF getent
  <2> HIDE DEF from
  <2>3. CursorOK([AtNode(from.at + 1) EXCEPT !.mem = from.mem])
    BY <2>1, <1>2 DEF CursorOK
  <2> QED  BY <2>2, <2>3, <1>1
<1> QED  BY <1>3, <1>4, <1>5

\* The calls a lookup makes before it asks a server.
LEMMA QuerySound ==
  ASSUME NEW l, LookOK(l), NEW s \in Stages
  PROVE  LookOK(Query(l, s)) /\ \A i : LookOK([Query(l, s) EXCEPT !.i = i])
BY DEF Query, LookOK, LookFields

LEMMA AskingSound ==
  ASSUME NamesInv, NEW c \in Clients,
         \/ \E q \in Hosts : gethostbyname(c, q)
         \/ ng_dnscache_get(c) \/ res_search(c)
  PROVE  NamesInv'
<1> DEFINE l == look[c]
<1>0. LookOK(l)
  BY DEF NamesInv, LooksOwn
<1>1. ASSUME NEW q \in Hosts, gethostbyname(c, q) PROVE NamesInv'
  <2>1. CacheOK(cache')
    BY <1>1 DEF gethostbyname, NamesInv
  <2>2. PICK m : Step(c, m) /\ (m = Idle \/ m = [Idle EXCEPT !.pc = "cache", !.q = q])
    BY <1>1 DEF gethostbyname
  <2> QED  BY <2>1, <2>2, IdleSound, StepSound
<1>2. CASE ng_dnscache_get(c)
  <2>1. CacheOK(cache')
    BY <1>2, ClearSound DEF ng_dnscache_get, NamesInv
  <2> DEFINE s == CASE Dots[l.q] = "last" -> "plain"
                    [] Dots[l.q] = "none" -> "own"
                    [] OTHER -> "domains"
             m == [l EXCEPT !.pc = "search", !.herr = "HOST_NOT_FOUND", !.stage = s]
  <2>2. s \in Stages
    BY DEF Stages
  <2>3. Step(c, IF ent_find(cache, l.q) # {} THEN Idle ELSE m)
    BY <1>2 DEF ng_dnscache_get
  <2> HIDE DEF s
  <2>4. LookOK(m)
    BY <1>0, <2>2 DEF LookOK, LookFields
  <2> HIDE DEF m, l
  <2> QED  BY <2>1, <2>3, <2>4, IdleSound, StepSound
<1>3. CASE res_search(c)
  <2>1. CacheOK(cache') /\ l.pc = "search"
    BY <1>3 DEF res_search, NamesInv
  <2>2. l.stage \in Stages
    BY <2>1, <1>0 DEF LookOK
  <2>3. CASE l.stage = "own"
    <3>1. Step(c, IF ndb.doms = <<>> /\ HostDomain # "none" THEN Query(l, "own")
                  ELSE [l EXCEPT !.stage = "domains"])
      BY <1>3, <2>3 DEF res_search
    <3>2. LookOK(Query(l, "own")) /\ LookOK([l EXCEPT !.stage = "domains"])
      BY <1>0, QuerySound DEF LookOK, LookFields, Stages
    <3> HIDE DEF l
    <3> QED  BY <3>1, <3>2, <2>1, StepSound
  <2>4. CASE l.stage = "domains"
    <3>1. Step(c, IF l.i < MaxSearch /\ l.i < Len(ndb.doms)
                  THEN [Query(l, "domains") EXCEPT !.i = l.i + 1]
                  ELSE [l EXCEPT !.stage = "plain"])
      BY <1>3, <2>4 DEF res_search
    <3>2. /\ LookOK([Query(l, "domains") EXCEPT !.i = l.i + 1])
          /\ LookOK([l EXCEPT !.stage = "plain"])
      BY <1>0, QuerySound DEF LookOK, LookFields, Stages
    <3> HIDE DEF l
    <3> QED  BY <3>1, <3>2, <2>1, StepSound
  <2>5. CASE l.stage = "plain"
    <3>1. Step(c, IF Dots[l.q] = "none" THEN Searched(l) ELSE Query(l, "plain"))
      BY <1>3, <2>5 DEF res_search
    <3>2. LookOK(Searched(l))
      BY <1>0 DEF LookOK, LookFields, Searched
    <3>3. LookOK(Query(l, "plain"))
      BY <1>0, QuerySound DEF Stages
    <3> HIDE DEF l
    <3> QED  BY <3>1, <3>2, <3>3, <2>1, StepSound
  <2> QED  BY <2>2, <2>3, <2>4, <2>5 DEF Stages
<1> QED  BY <1>1, <1>2, <1>3

\* res_send: asking servers, waiting for them and taking what they say.
LEMMA SendSound ==
  ASSUME NamesInv, NEW c \in Clients,
         NextServer(c) \/ GetReply(c) \/ WaitOver(c) \/ Circuit(c)
  PROVE  NamesInv'
<1> DEFINE l == look[c]
<1>0. LookOK(l)
  BY DEF NamesInv, LooksOwn
<1>1. CacheOK(cache')
  BY DEF NextServer, GetReply, WaitOver, Circuit, NamesInv
<1>2. l.pc \in {"send", "wait", "circuit"}
  BY DEF NextServer, GetReply, WaitOver, Circuit
<1>3. l.stage \in Stages
  BY <1>0, <1>2 DEF LookOK
<1>4. CASE NextServer(c)
  <2>1. \A k : LookOK([l EXCEPT !.k = k])
    BY <1>0 DEF LookOK, LookFields
  <2>2. \A k, a : LookOK(Ask([l EXCEPT !.k = k], a))
    BY <1>0, <1>3 DEF LookOK, LookFields, Ask
  <2>3. \A t : LookOK([l EXCEPT !.try = t, !.k = 0])
    BY <1>0 DEF LookOK, LookFields
  <2>4. \A rc : LookOK(Failed(l, rc))
    BY <1>0, <1>3, FailedSound
  <2>5. \/ Step(c, Ask([l EXCEPT !.k = l.k + 1], ndb.ns[l.k + 1].addr))
        \/ Step(c, [l EXCEPT !.k = l.k + 1])
        \/ Step(c, [l EXCEPT !.try = l.try + 1, !.k = 0])
        \/ \E rc \in {"TIMEDOUT", "REFUSED"} : Step(c, Failed(l, rc))
    BY <1>4 DEF NextServer
  <2> HIDE DEF l
  <2> QED  BY <2>1, <2>2, <2>3, <2>4, <2>5, <1>1, StepSound
<1>5. CASE GetReply(c)
  <2>1. PICK r \in Replies :
          Step(c, IF Accept(l, r) THEN Answered([l EXCEPT !.got = TRUE], r)
                  ELSE IF l.rej > 1 THEN [l EXCEPT !.rej = l.rej - 1, !.got = l.got \/ r.src = l.host]
                  ELSE [l EXCEPT !.pc = "send", !.got = TRUE])
    BY <1>5 DEF GetReply
  <2>2. Accept(l, r) => LookOK(Answered([l EXCEPT !.got = TRUE], r))
    <3>1. LookOK([l EXCEPT !.got = TRUE]) /\ [l EXCEPT !.got = TRUE].stage \in Stages
      BY <1>0, <1>3 DEF LookOK, LookFields
    <3> QED  BY <3>1, AnsweredSound DEF Accept
  <2>3. \A j, g : LookOK([l EXCEPT !.rej = j, !.got = g])
    BY <1>0 DEF LookOK, LookFields
  <2>4. LookOK([l EXCEPT !.pc = "send", !.got = TRUE])
    BY <1>0, <1>3 DEF LookOK, LookFields
  <2> HIDE DEF l
  <2> QED  BY <2>1, <2>2, <2>3, <2>4, <1>1, StepSound
<1>6. CASE WaitOver(c)
  <2>1. Step(c, [l EXCEPT !.pc = "send", !.got = TRUE]) \/ Step(c, [l EXCEPT !.pc = "send"])
    BY <1>6 DEF WaitOver
  <2>2. LookOK([l EXCEPT !.pc = "send", !.got = TRUE]) /\ LookOK([l EXCEPT !.pc = "send"])
    BY <1>0, <1>3 DEF LookOK, LookFields
  <2> HIDE DEF l
  <2> QED  BY <2>1, <2>2, <1>1, StepSound
<1>7. CASE Circuit(c)
  <2>1. Step(c, [l EXCEPT !.pc = "send"])
        \/ \E rc : Step(c, Answered(l, [src |-> l.host, mine |-> TRUE, rc |-> rc]))
    BY <1>7 DEF Circuit
  <2>2. LookOK([l EXCEPT !.pc = "send"])
    BY <1>0, <1>3 DEF LookOK, LookFields
  <2>3. \A rc : LookOK(Answered(l, [src |-> l.host, mine |-> TRUE, rc |-> rc]))
    BY <1>0, <1>3, AnsweredSound
  <2> HIDE DEF l
  <2> QED  BY <2>1, <2>2, <2>3, <1>1, StepSound
<1> QED  BY <1>4, <1>5, <1>6, <1>7

\* The end of a lookup: what the task holds goes into the cache.
LEMMA EndSound ==
  ASSUME NamesInv, NEW c \in Clients, LookupFound(c) \/ LookupFailed(c)
  PROVE  NamesInv'
<1>0. LookOK(look[c])
  BY DEF NamesInv, LooksOwn
<1>1. CASE LookupFound(c)
  <2>1. PICK e : /\ EntryOK(e)
                 /\ cache' = PutEntry(e) \/ cache' = cache
                 /\ Step(c, Idle)
    <3>1. \A ttl : EntryOK([q |-> look[c].q, val |-> look[c].ans, neg |-> FALSE, exp |-> clock + ttl])
      BY <1>0 DEF EntryOK, LookOK
    <3> QED  BY <1>1, <3>1 DEF LookupFound
  <2> QED  BY <2>1, PutSound, IdleSound, StepSound DEF NamesInv
<1>2. CASE LookupFailed(c)
  <2> DEFINE e == [q |-> look[c].q, val |-> look[c].seen, neg |-> TRUE, exp |-> clock + NegTtl]
  <2>1. Step(c, Idle) /\ (cache' = PutEntry(e) \/ cache' = cache)
    BY <1>2 DEF LookupFailed
  <2>2. EntryOK(e)
    BY DEF EntryOK
  <2> HIDE DEF e
  <2> QED  BY <2>1, <2>2, PutSound, IdleSound, StepSound DEF NamesInv
<1> QED  BY <1>1, <1>2

-----------------------------------------------------------------------------
(* The theorem.                                                            *)

LEMMA InitSound == NamesInit => NamesInv
<1> SUFFICES ASSUME NamesInit PROVE NamesInv
  OBVIOUS
<1>1. CacheOK(cache)
  BY FlushSound DEF NamesInit
<1>2. LooksOwn
  BY IdleSound DEF NamesInit, LooksOwn
<1>3. CursorsKept
  BY DEF NamesInit, CursorsKept, CursorOK, NoCursor
<1> QED  BY <1>1, <1>2, <1>3 DEF NamesInv

LEMMA NextSound == NamesInv /\ [NamesNext]_nvars => NamesInv'
<1> SUFFICES ASSUME NamesInv, [NamesNext]_nvars PROVE NamesInv'
  OBVIOUS
<1>1. CASE Edits
  BY <1>1, EditsSound
<1>2. CASE Iterators
  BY <1>2, IteratorsSound
<1>3. CASE Lookups
  <2>1. CASE Second
    BY <2>1 DEF Second, NamesInv, LooksOwn, CursorsKept
  <2>2. ASSUME NEW c \in Clients, Lookup(c) \/ \E q \in Hosts : gethostbyname(c, q)
        PROVE  NamesInv'
    BY <2>2, AskingSound, SendSound, EndSound DEF Lookup
  <2> QED  BY <1>3, <2>1, <2>2 DEF Lookups
<1>4. CASE UNCHANGED nvars
  BY <1>4 DEF nvars, NamesInv, LooksOwn, CursorsKept
<1> QED  BY <1>1, <1>2, <1>3, <1>4 DEF NamesNext

(* Theorem: a question is in the DNS cache at most once, whatever is kept  *)
(* there came as a reply to the query that was made (res_send's tests of   *)
(* the sender and the identifier), and no iterator of the database follows *)
(* a node that a RESET has freed.                                          *)
THEOREM SpecNamesSound == NamesSpec => []NamesSound
<1>1. NamesInv => NamesSound
  BY DEF NamesInv, NamesSound, CacheOK, Distinct, EntryOK, CursorsKept, CursorOK
<1> QED  BY <1>1, InitSound, NextSound, PTL DEF NamesSpec

-----------------------------------------------------------------------------
(* The log task.                                                           *)

\* The contents of a port, and that nothing is there twice.
In(s, x) == \E i \in 1..Len(s) : s[i] = x
OnlyOnce(s) == \A i, j \in 1..Len(s) : s[i] = s[j] => i = j

NtPcs == {"none", "start", "sync", "wait", "loop", "report", "told", "failed"}
Signals == {"log", "rexx", "F"}
LogTypes ==
  /\ lphase \in {"down", "started", "answered", "up", "closing"}
  /\ replyq \in Seq(Msgs \cup {"init"}) /\ logq \in Seq(Msgs \cup {"init", "close"})
  /\ closer \in Msgs \cup {None} /\ writer \in [Writers -> Msgs \cup {None}]
  /\ nt \in [pc : NtPcs, sig : SUBSET Signals, t : Nat] /\ ntsigs \in SUBSET Signals
  /\ base \in BOOLEAN /\ rexx \in {"none", "made", "shown"} /\ rexxq \in Seq(Scripts)
  /\ script \in [Scripts -> {"idle", "sent", "done", "closed"}]
  /\ fail \in Nat /\ total \in Nat /\ logs \in Nat /\ lives \in Nat

Pooled == lphase \in {"up", "closing"}

\* Where NETTRACE can be in each phase, and what the ports hold before the pool is filled.
Handshake ==
  /\ lphase = "down" => nt.pc = "none" /\ replyq = <<>> /\ logq = <<>>
  /\ lphase = "started" => /\ nt.pc \in {"start", "sync", "failed"} /\ ntsigs = {} /\ logq = <<>>
                           /\ replyq = IF nt.pc = "sync" THEN <<"init">> ELSE <<>>
  /\ lphase = "answered" => /\ nt.pc \in {"sync", "wait", "loop"} /\ replyq = <<>>
                            /\ logq = IF nt.pc = "sync" THEN <<"init">> ELSE <<>>
  /\ lphase = "up" => nt.pc \in {"sync", "wait", "loop", "report"}
  /\ lphase = "closing" => nt.pc \in {"sync", "wait", "loop", "report", "told"}
  /\ nt.pc = "told" => logq = <<>>
  /\ Pooled /\ nt.pc = "sync" => logq # <<>> /\ Head(logq) = "init"
  /\ In(logq, "init") => nt.pc = "sync"
  /\ In(logq, "close") => lphase = "closing"
  /\ In(replyq, "init") => lphase = "started"

\* Each message of the pool is in one place and there once, while there is a pool.
Pool ==
  /\ OnlyOnce(replyq) /\ OnlyOnce(logq)
  /\ \A m \in Msgs : ~(In(replyq, m) /\ In(logq, m))
  /\ \A w \in Writers : writer[w] # None =>
       /\ ~In(replyq, writer[w]) /\ ~In(logq, writer[w]) /\ lphase = "up"
       /\ \A v \in Writers : writer[v] = writer[w] => v = w
  /\ closer # None <=> lphase = "closing"
  /\ closer # None => ~In(logq, closer) /\ (In(replyq, closer) => nt.pc = "told")
  /\ Pooled => \A m \in Msgs : \/ In(replyq, m) \/ In(logq, m) \/ closer = m
                               \/ \E w \in Writers : writer[w] = m

\* What is queued at a port has its signal, pending or taken in this pass.
PortsSignalled ==
  /\ nt.pc \in {"sync", "wait", "loop", "report"} =>
       /\ logq # <<>> => "log" \in ntsigs \/ (nt.pc \in {"loop", "report"} /\ "log" \in nt.sig)
       /\ rexxq # <<>> => "rexx" \in ntsigs \/ (nt.pc \in {"loop", "report"} /\ "rexx" \in nt.sig)
  /\ nt.pc = "report" => "log" \in nt.sig

\* The ARexx port: public while the base is open only, and its queue is those who sent.
ScriptsWait ==
  /\ OnlyOnce(rexxq)
  /\ \A s \in Scripts : script[s] = "sent" <=> In(rexxq, s)
  /\ rexxq # <<>> => rexx = "shown"
  /\ rexx = "shown" => base
  /\ nt.pc \in {"none", "start", "failed", "told"} => rexx = "none"
  /\ rexx = "shown" => nt.pc \in {"wait", "loop", "report"}

\* In the first life a loss leaves the pool empty until NETTRACE, with the one message it
\* gave back, is about to report it.
LossesSeen ==
  lives <= 1 =>
    /\ lphase \in {"down", "started", "answered"} /\ lives = 1 => fail = total \/ lphase = "down"
    /\ lives = 0 => lphase = "down" /\ fail = 0 /\ total = 0
    /\ lphase = "up" =>
         /\ nt.pc # "report" /\ fail # total => replyq = <<>>
         /\ nt.pc = "report" => /\ Len(replyq) <= 1
                                /\ fail # nt.t => replyq = <<>>

LogInv == LogTypes /\ Handshake /\ Pool /\ PortsSignalled /\ ScriptsWait /\ LossesSeen

\* What appending, taking the head and joining do to the contents.
LEMMA InEmpty == ~(\E x : In(<<>>, x)) /\ OnlyOnce(<<>>)
BY DEF In, OnlyOnce

LEMMA InElement ==
  ASSUME NEW S, NEW s \in Seq(S), NEW x, In(s, x) PROVE x \in S /\ s # <<>>
BY DEF In

LEMMA InAppend ==
  ASSUME NEW S, NEW s \in Seq(S), NEW x \in S
  PROVE  /\ Append(s, x) \in Seq(S) /\ Append(s, x) # <<>>
         /\ \A y : In(Append(s, x), y) <=> In(s, y) \/ y = x
         /\ OnlyOnce(s) /\ ~In(s, x) => OnlyOnce(Append(s, x))
         /\ s # <<>> => Head(Append(s, x)) = Head(s)
         /\ s = <<>> => Head(Append(s, x)) = x /\ Len(Append(s, x)) = 1
<1> DEFINE t == Append(s, x)
<1>1. /\ t \in Seq(S) /\ Len(t) = Len(s) + 1 /\ Len(s) \in Nat /\ t[Len(s) + 1] = x
      /\ \A i \in 1..Len(s) : t[i] = s[i]
  OBVIOUS
<1>2. t # <<>> /\ (s # <<>> => Head(t) = Head(s)) /\ (s = <<>> => Head(t) = x /\ Len(t) = 1)
  OBVIOUS
<1> HIDE DEF t
<1>3. ASSUME NEW y PROVE In(t, y) <=> In(s, y) \/ y = x
  <2>1. ASSUME In(t, y), y # x PROVE In(s, y)
    BY <1>1, <2>1 DEF In
  <2>2. ASSUME In(s, y) PROVE In(t, y)
    BY <1>1, <2>2 DEF In
  <2>3. In(t, x)
    BY <1>1 DEF In
  <2> QED BY <2>1, <2>2, <2>3
<1>4. ASSUME OnlyOnce(s), ~In(s, x) PROVE OnlyOnce(t)
  BY <1>1, <1>4 DEF In, OnlyOnce
<1> QED BY <1>1, <1>2, <1>3, <1>4 DEF t

LEMMA InTail ==
  ASSUME NEW S, NEW s \in Seq(S), s # <<>>
  PROVE  /\ Head(s) \in S /\ In(s, Head(s)) /\ Tail(s) \in Seq(S) /\ Len(Tail(s)) = Len(s) - 1
         /\ \A y : In(Tail(s), y) => In(s, y)
         /\ \A y : In(s, y) => In(Tail(s), y) \/ y = Head(s)
         /\ OnlyOnce(s) => OnlyOnce(Tail(s)) /\ ~In(Tail(s), Head(s))
         /\ Len(s) = 1 => Tail(s) = <<>>
<1> DEFINE t == Tail(s)
<1>1. /\ t \in Seq(S) /\ Len(t) = Len(s) - 1 /\ Len(s) \in Nat \ {0} /\ Head(s) = s[1] /\ Head(s) \in S
      /\ \A i \in 1..Len(t) : t[i] = s[i + 1] /\ i + 1 \in 1..Len(s)
  OBVIOUS
<1>2. Len(s) = 1 => t = <<>>
  <2>1. \A u \in Seq(S) : Len(u) = 0 => u = <<>>
    BY EmptySeq
  <2> QED BY <1>1, <2>1
<1> HIDE DEF t
<1>3. In(s, s[1])
  BY <1>1 DEF In
<1>4. ASSUME NEW y, In(t, y) PROVE In(s, y)
  BY <1>1, <1>4 DEF In
<1>5. ASSUME NEW y, In(s, y), y # s[1] PROVE In(t, y)
  <2>1. PICK i \in 1..Len(s) : s[i] = y
    BY <1>5 DEF In
  <2>2. i - 1 \in 1..Len(t) /\ t[i - 1] = y
    BY <1>1, <1>5, <2>1
  <2> QED BY <2>2 DEF In
<1>6. ASSUME OnlyOnce(s) PROVE OnlyOnce(t) /\ ~In(t, s[1])
  <2>1. ASSUME NEW i \in 1..Len(t), NEW j \in 1..Len(t), t[i] = t[j] PROVE i = j
    <3>1. i + 1 = j + 1
      BY <1>1, <1>6, <2>1 DEF OnlyOnce
    <3> QED BY <3>1
  <2>2. ASSUME NEW i \in 1..Len(t), t[i] = s[1] PROVE FALSE
    <3>1. i + 1 = 1
      BY <1>1, <1>6, <2>2 DEF OnlyOnce
    <3> QED BY <3>1
  <2> QED BY <2>1, <2>2 DEF OnlyOnce, In
<1> QED BY <1>1, <1>2, <1>3, <1>4, <1>5, <1>6 DEF t

LEMMA InConcat ==
  ASSUME NEW S, NEW s \in Seq(S), NEW t \in Seq(S)
  PROVE  /\ s \o t \in Seq(S)
         /\ \A y : In(s \o t, y) <=> In(s, y) \/ In(t, y)
         /\ OnlyOnce(s) /\ OnlyOnce(t) /\ (\A y \in S : ~(In(s, y) /\ In(t, y))) => OnlyOnce(s \o t)
<1> DEFINE u == s \o t
<1>1. /\ u \in Seq(S) /\ Len(u) = Len(s) + Len(t) /\ Len(s) \in Nat /\ Len(t) \in Nat
      /\ \A i \in 1..Len(s) : u[i] = s[i] /\ s[i] \in S
      /\ \A i \in 1..Len(t) : u[Len(s) + i] = t[i]
  OBVIOUS
<1> HIDE DEF u
<1>2. \A i \in 1..Len(u) : \/ i \in 1..Len(s)
                           \/ i - Len(s) \in 1..Len(t) /\ u[i] = t[i - Len(s)]
  <2> TAKE i \in 1..Len(u)
  <2>1. CASE i <= Len(s)
    BY <1>1, <2>1
  <2>2. CASE i > Len(s)
    <3>1. i - Len(s) \in 1..Len(t) /\ Len(s) + (i - Len(s)) = i
      BY <1>1, <2>2
    <3> QED BY <1>1, <3>1
  <2> QED BY <1>1, <2>1, <2>2
<1>3. ASSUME NEW y PROVE In(u, y) <=> In(s, y) \/ In(t, y)
  <2>1. ASSUME In(u, y) PROVE In(s, y) \/ In(t, y)
    BY <1>1, <1>2, <2>1 DEF In
  <2>2. ASSUME In(s, y) PROVE In(u, y)
    BY <1>1, <2>2 DEF In
  <2>3. ASSUME In(t, y) PROVE In(u, y)
    <3>1. PICK i \in 1..Len(t) : t[i] = y
      BY <2>3 DEF In
    <3>2. Len(s) + i \in 1..Len(u) /\ u[Len(s) + i] = y
      BY <1>1, <3>1
    <3> QED BY <3>2 DEF In
  <2> QED BY <2>1, <2>2, <2>3
<1>4. ASSUME OnlyOnce(s), OnlyOnce(t), \A y \in S : ~(In(s, y) /\ In(t, y)) PROVE OnlyOnce(u)
  <2> SUFFICES ASSUME NEW i \in 1..Len(u), NEW j \in 1..Len(u), u[i] = u[j] PROVE i = j
    BY DEF OnlyOnce
  <2>1. CASE i \in 1..Len(s) /\ j \in 1..Len(s)
    BY <1>1, <1>4, <2>1 DEF OnlyOnce
  <2>2. CASE i \notin 1..Len(s) /\ j \notin 1..Len(s)
    <3>1. i - Len(s) = j - Len(s)
      BY <1>2, <1>4, <2>2 DEF OnlyOnce
    <3> QED BY <1>1, <3>1
  <2>5. \A k \in 1..Len(u) : IF k \in 1..Len(s) THEN In(s, u[k]) /\ u[k] \in S ELSE In(t, u[k])
    BY <1>1, <1>2 DEF In
  <2>3. CASE i \in 1..Len(s) /\ j \notin 1..Len(s)
    BY <1>4, <2>3, <2>5
  <2>4. CASE i \notin 1..Len(s) /\ j \in 1..Len(s)
    BY <1>4, <2>4, <2>5
  <2> QED BY <2>1, <2>2, <2>3, <2>4
<1> QED BY <1>1, <1>3, <1>4 DEF u

\* The steps of the log task.
LEMMA ReadyStep == ASSUME LogInv, StackReady PROVE LogInv'
<1> USE DEF LogInv, StackReady
<1>1. LogTypes'
  BY DEF LogTypes, Signals, NtPcs
<1>2. Handshake'
  BY DEF LogTypes, Handshake, Pooled
<1>3. Pool'
  BY DEF LogTypes, Handshake, Pool, Pooled
<1>4. PortsSignalled'
  BY DEF LogTypes, PortsSignalled, Handshake
<1>5. ScriptsWait'
  BY DEF LogTypes, ScriptsWait, Handshake
<1>6. LossesSeen'
  BY DEF LogTypes, LossesSeen, Handshake
<1> QED BY <1>1, <1>2, <1>3, <1>4, <1>5, <1>6

LEMMA WaitsStep == ASSUME LogInv, TraceWaits PROVE LogInv'
<1> USE DEF LogInv, TraceWaits
<1>1. LogTypes'
  BY DEF LogTypes, Signals, NtPcs
<1>2. Handshake'
  BY DEF LogTypes, Handshake, Pooled
<1>3. Pool'
  BY DEF LogTypes, Handshake, Pool, Pooled
<1>4. PortsSignalled'
  BY DEF LogTypes, PortsSignalled, Handshake
<1>5. ScriptsWait'
  BY DEF LogTypes, ScriptsWait, Handshake
<1>6. LossesSeen'
  BY DEF LogTypes, LossesSeen, Handshake
<1> QED BY <1>1, <1>2, <1>3, <1>4, <1>5, <1>6

LEMMA OpensStep == ASSUME LogInv, TraceOpens PROVE LogInv'
<1> USE DEF LogInv, TraceOpens
<1>1. LogTypes'
  BY DEF LogTypes, Signals, NtPcs
<1>2. Handshake'
  BY DEF LogTypes, Handshake, Pooled
<1>3. Pool'
  BY DEF LogTypes, Handshake, Pool, Pooled
<1>4. PortsSignalled'
  BY DEF LogTypes, PortsSignalled, Handshake
<1>5. ScriptsWait'
  BY DEF LogTypes, ScriptsWait, Handshake
<1>6. LossesSeen'
  BY DEF LogTypes, LossesSeen, Handshake
<1> QED BY <1>1, <1>2, <1>3, <1>4, <1>5, <1>6

LEMMA PollEndsStep == ASSUME LogInv, log_poll_ends PROVE LogInv'
<1> USE DEF LogInv, log_poll_ends
<1>1. LogTypes'
  BY DEF LogTypes, Signals, NtPcs
<1>2. Handshake'
  BY DEF LogTypes, Handshake, Pooled
<1>3. Pool'
  BY DEF LogTypes, Handshake, Pool, Pooled
<1>4. PortsSignalled'
  BY DEF LogTypes, PortsSignalled, Handshake
<1>5. ScriptsWait'
  BY DEF LogTypes, ScriptsWait, Handshake
<1>6. LossesSeen'
  BY DEF LogTypes, LossesSeen, Handshake
<1> QED BY <1>1, <1>2, <1>3, <1>4, <1>5, <1>6

LEMMA RereadsStep == ASSUME LogInv, TraceRereads PROVE LogInv'
<1> USE DEF LogInv, TraceRereads
<1>1. LogTypes'
  BY DEF LogTypes, Signals, NtPcs
<1>2. Handshake'
  BY DEF LogTypes, Handshake, Pooled
<1>3. Pool'
  BY DEF LogTypes, Handshake, Pool, Pooled
<1>4. PortsSignalled'
  BY DEF LogTypes, PortsSignalled, Handshake
<1>5. ScriptsWait'
  BY DEF LogTypes, ScriptsWait, Handshake
<1>6. LossesSeen'
  BY DEF LogTypes, LossesSeen, Handshake
<1> QED BY <1>1, <1>2, <1>3, <1>4, <1>5, <1>6

LEMMA InitStep == ASSUME LogInv, log_init PROVE LogInv'
<1> USE DEF LogInv, log_init
<1>1. LogTypes'
  BY DEF LogTypes, Signals, NtPcs
<1>2. Handshake'
  BY DEF LogTypes, Handshake, Pooled
<1>3. Pool'
  BY DEF LogTypes, Handshake, Pool, Pooled
<1>4. PortsSignalled'
  BY DEF LogTypes, PortsSignalled, Handshake
<1>5. ScriptsWait'
  BY DEF LogTypes, ScriptsWait, Handshake
<1>6. LossesSeen'
  BY DEF LogTypes, LossesSeen, Handshake
<1> QED BY <1>1, <1>2, <1>3, <1>4, <1>5, <1>6

LEMMA StartsStep == ASSUME LogInv, log_task_starts PROVE LogInv'
<1> USE DEF LogInv
<1>1. /\ lphase = "started" /\ replyq = <<>> /\ logq = <<>> /\ rexxq = <<>> /\ ntsigs = {}
      /\ rexx = "none"
  BY DEF LogTypes, Handshake, ScriptsWait, Pool, Pooled, log_task_starts
<1>2. CASE /\ rexx' = "made" /\ replyq' = Append(replyq, "init") /\ nt' = [nt EXCEPT !.pc = "sync"]
           /\ UNCHANGED <<script, rexxq, base, logq>>
  <2>1. /\ replyq' = <<"init">> /\ replyq' \in Seq(Msgs \cup {"init"}) /\ Len(replyq') = 1
        /\ \A y : In(replyq', y) <=> y = "init"
        /\ OnlyOnce(replyq')
    BY <1>1, <1>2 DEF In, OnlyOnce
  <2> USE DEF log_task_starts
  <2>2. LogTypes'
    BY <1>2, <2>1 DEF LogTypes, NtPcs
  <2>3. Handshake'
    BY <1>1, <1>2, <2>1 DEF LogTypes, Handshake, Pooled
  <2>4. Pool'
    BY <1>1, <1>2, <2>1, LogAssumption DEF LogTypes, Pool, Pooled
  <2>5. PortsSignalled' /\ ScriptsWait' /\ LossesSeen'
    BY <1>1, <1>2, <2>1 DEF LogTypes, PortsSignalled, ScriptsWait, LossesSeen
  <2> QED BY <2>2, <2>3, <2>4, <2>5
<1>3. CASE log_close(<<>>) /\ nt' = [nt EXCEPT !.pc = "failed"]
  <2>1. replyq' = <<>> /\ logq' = <<>> /\ rexxq' = <<>> /\ script' = script /\ rexx' = "none" /\ base' = FALSE
    <3>1. ToSet(rexxq) = {}
      BY <1>1 DEF ToSet
    <3> QED BY <1>1, <1>3, <3>1 DEF log_close, rexx_deinit, LogTypes
  <2>2. /\ lphase' = lphase /\ closer' = closer /\ writer' = writer /\ ntsigs' = ntsigs
        /\ fail' = fail /\ total' = total /\ logs' = logs /\ lives' = lives
    BY DEF log_task_starts
  <2>3. LogTypes'
    BY <1>1, <1>3, <2>1, <2>2 DEF LogTypes, NtPcs
  <2>4. Handshake'
    BY <1>1, <1>3, <2>1, <2>2, InEmpty DEF LogTypes, Handshake, Pooled
  <2>5. Pool'
    BY <1>1, <1>3, <2>1, <2>2, InEmpty DEF LogTypes, Pool, Pooled
  <2>6. PortsSignalled' /\ ScriptsWait' /\ LossesSeen'
    BY <1>1, <1>3, <2>1, <2>2, InEmpty DEF LogTypes, PortsSignalled, ScriptsWait, LossesSeen
  <2> QED BY <2>3, <2>4, <2>5, <2>6
<1> QED BY <1>2, <1>3 DEF log_task_starts, rexx_init

LEMMA AnswersStep == ASSUME LogInv, log_init_answers PROVE LogInv'
<1> USE DEF LogInv, log_init_answers
<1>1. /\ logq = <<>> /\ lphase = "started" /\ closer = None /\ (\A w \in Writers : writer[w] = None)
      /\ rexxq = <<>> /\ ntsigs = {} /\ rexx # "shown"
  BY DEF LogTypes, Handshake, Pool, ScriptsWait
<1>2. CASE nt.pc = "failed" /\ lphase' = "down" /\ nt' = [nt EXCEPT !.pc = "none"]
           /\ UNCHANGED <<replyq, logq, ntsigs>>
  <2>1. replyq = <<>>
    BY <1>1, <1>2 DEF Handshake
  <2>2. LogTypes'
    BY <1>2 DEF LogTypes, NtPcs
  <2>3. Handshake'
    BY <1>1, <1>2, <2>1, InEmpty DEF LogTypes, Handshake, Pooled
  <2>4. Pool'
    BY <1>1, <1>2, <2>1, InEmpty DEF LogTypes, Pool, Pooled
  <2>5. PortsSignalled' /\ ScriptsWait' /\ LossesSeen'
    BY <1>1, <1>2 DEF LogTypes, PortsSignalled, ScriptsWait, LossesSeen
  <2> QED BY <2>2, <2>3, <2>4, <2>5
<1>3. CASE /\ replyq # <<>> /\ replyq' = <<>> /\ logq' = Append(logq, Head(replyq))
           /\ ntsigs' = ntsigs \cup {"log"} /\ lphase' = "answered" /\ UNCHANGED nt
  <2>1. nt.pc = "sync" /\ replyq = <<"init">> /\ Head(replyq) = "init"
    BY <1>1, <1>3 DEF Handshake
  <2>2. logq' = <<"init">> /\ logq' \in Seq(Msgs \cup {"init", "close"}) /\ OnlyOnce(logq')
        /\ \A y : In(logq', y) <=> y = "init"
    BY <1>1, <1>3, <2>1 DEF In, OnlyOnce
  <2>3. LogTypes'
    BY <1>3, <2>2 DEF LogTypes, Signals
  <2>4. Handshake'
    BY <1>1, <1>3, <2>1, <2>2, InEmpty DEF LogTypes, Handshake, Pooled
  <2>5. Pool'
    BY <1>1, <1>3, <2>1, <2>2, InEmpty DEF LogTypes, Pool, Pooled
  <2>6. PortsSignalled' /\ ScriptsWait' /\ LossesSeen'
    BY <1>1, <1>3, <2>1 DEF LogTypes, PortsSignalled, ScriptsWait, LossesSeen
  <2> QED BY <2>3, <2>4, <2>5, <2>6
<1> QED BY <1>2, <1>3

\* The pool is put into logReplyPort in some order.
LEMMA PoolIsListed ==
  LET s == SetToSeq(Msgs) IN s \in Seq(Msgs) /\ OnlyOnce(s) /\ \A m \in Msgs : In(s, m)
<1> DEFINE n == Cardinality(Msgs)
           s == SetToSeq(Msgs)
<1>1. n \in Nat /\ ExistsBijection(1..n, Msgs)
  BY LogAssumption, FS_CardinalityType
<1>2. PICK f \in Bijection(1..n, Msgs) : TRUE
  BY <1>1 DEF ExistsBijection
<1>3. f \in [1..n -> Msgs] /\ IsInjective(f)
  BY <1>2 DEF Bijection, Injection, IsInjective
<1>4. s \in [1..n -> Msgs] /\ IsInjective(s)
  BY <1>3 DEF SetToSeq
<1>5. s \in Surjection(1..n, Msgs)
  <2>1. Cardinality(1..n) = n
    BY <1>1, FS_Interval
  <2>2. s \in Injection(1..n, Msgs)
    BY <1>4 DEF Injection
  <2> HIDE DEF n, s
  <2>3. Cardinality(1..n) = Cardinality(Msgs)
    BY <2>1 DEF n
  <2> QED BY <2>2, <2>3, LogAssumption, FS_Injection
<1> HIDE DEF n, s
<1>6. s \in Seq(Msgs) /\ Len(s) = n
  BY <1>1, <1>4
<1>7. OnlyOnce(s)
  BY <1>4, <1>6 DEF IsInjective, OnlyOnce
<1>8. \A m \in Msgs : In(s, m)
  BY <1>5, <1>6 DEF Surjection, In
<1> QED BY <1>6, <1>7, <1>8 DEF s

LEMMA FillsStep == ASSUME LogInv, log_init_fills PROVE LogInv'
<1> USE DEF LogInv, log_init_fills
<1> DEFINE s == SetToSeq(Msgs)
<1>1. s \in Seq(Msgs) /\ OnlyOnce(s) /\ (\A m \in Msgs : In(s, m)) /\ "init" \notin Msgs
  BY PoolIsListed, LogAssumption
<1> HIDE DEF s
<1>2. replyq = <<>> /\ nt.pc \in {"sync", "wait", "loop"} /\ logq = (IF nt.pc = "sync" THEN <<"init">> ELSE <<>>)
  BY DEF Handshake
<1>3. replyq' = s
  BY <1>1, <1>2 DEF s
<1>4. s \in Seq(Msgs \cup {"init"}) /\ ~In(s, "init")
  BY <1>1 DEF In
<1>5. \A m \in Msgs : ~In(logq, m)
  BY <1>2, LogAssumption DEF In
<1>6. LogTypes'
  BY <1>3, <1>4 DEF LogTypes
<1>7. Handshake'
  BY <1>2, <1>3, <1>4 DEF LogTypes, Handshake, Pooled
<1>8. Pool'
  BY <1>1, <1>2, <1>3, <1>5 DEF LogTypes, Pool, Pooled
<1>9. PortsSignalled' /\ ScriptsWait' /\ LossesSeen'
  BY <1>2 DEF LogTypes, PortsSignalled, ScriptsWait, LossesSeen
<1> QED BY <1>6, <1>7, <1>8, <1>9

LEMMA SyncedStep == ASSUME LogInv, log_task_synced PROVE LogInv'
<1> USE DEF LogInv, log_task_synced
<1>1. lphase \in {"answered", "up", "closing"} /\ logq # <<>> /\ Head(logq) = "init"
  BY DEF LogTypes, Handshake, Pooled
<1>2. /\ Tail(logq) \in Seq(Msgs \cup {"init", "close"})
      /\ \A y : In(Tail(logq), y) => In(logq, y)
      /\ \A y : In(logq, y) => In(Tail(logq), y) \/ y = "init"
      /\ OnlyOnce(Tail(logq)) /\ ~In(Tail(logq), "init")
      /\ lphase = "answered" => Tail(logq) = <<>>
  <2>1. lphase = "answered" => Len(logq) = 1
    BY DEF Handshake
  <2>2. logq \in Seq(Msgs \cup {"init", "close"}) /\ OnlyOnce(logq)
    BY DEF LogTypes, Pool
  <2> QED BY <1>1, <2>1, <2>2, InTail
<1>3. LogTypes'
  BY <1>1, <1>2 DEF LogTypes, NtPcs, Signals
<1>4. Handshake'
  BY <1>1, <1>2 DEF LogTypes, Handshake, Pooled
<1>5. Pool'
  BY <1>1, <1>2, LogAssumption DEF LogTypes, Pool, Pooled
<1>6. PortsSignalled' /\ ScriptsWait' /\ LossesSeen'
  BY <1>1, <1>2 DEF LogTypes, PortsSignalled, ScriptsWait, LossesSeen
<1> QED BY <1>3, <1>4, <1>5, <1>6

LEMMA VlogStep == ASSUME LogInv, NEW w \in Writers, vlog(w) PROVE LogInv'
<1> USE DEF LogInv, vlog
<1>1. replyq \in Seq(Msgs \cup {"init"}) /\ OnlyOnce(replyq) /\ ~In(replyq, "init")
  BY DEF LogTypes, Pool, Handshake
<1>2. CASE replyq = <<>>
  <2>1. LogTypes' /\ Handshake' /\ Pool'
    BY <1>2 DEF LogTypes, Handshake, Pool, Pooled
  <2>2. PortsSignalled' /\ ScriptsWait' /\ LossesSeen'
    BY <1>2 DEF LogTypes, PortsSignalled, ScriptsWait, LossesSeen
  <2> QED BY <2>1, <2>2
<1>3. CASE replyq # <<>>
  <2> DEFINE m == Head(replyq)
  <2>1. /\ m \in Msgs /\ In(replyq, m) /\ replyq' = Tail(replyq) /\ writer' = [writer EXCEPT ![w] = m]
        /\ fail' = fail /\ replyq' \in Seq(Msgs \cup {"init"}) /\ OnlyOnce(replyq') /\ ~In(replyq', m)
        /\ \A y : In(replyq', y) => In(replyq, y)
        /\ \A y : In(replyq, y) => In(replyq', y) \/ y = m
        /\ Len(replyq') = Len(replyq) - 1 /\ Len(replyq) \in Nat /\ (Len(replyq) = 1 => replyq' = <<>>)
    <3>1. /\ In(replyq, m) /\ Tail(replyq) \in Seq(Msgs \cup {"init"}) /\ m \in Msgs \cup {"init"}
          /\ OnlyOnce(Tail(replyq)) /\ ~In(Tail(replyq), m) /\ Len(Tail(replyq)) = Len(replyq) - 1
          /\ \A y : In(Tail(replyq), y) => In(replyq, y)
          /\ \A y : In(replyq, y) => In(Tail(replyq), y) \/ y = m
          /\ Len(replyq) \in Nat /\ (Len(replyq) = 1 => Tail(replyq) = <<>>)
      BY <1>1, <1>3, InTail
    <3>2. m \in Msgs
      BY <1>1, <3>1
    <3>3. replyq' = Tail(replyq) /\ writer' = [writer EXCEPT ![w] = m] /\ fail' = fail
      BY <1>3
    <3> QED BY <3>1, <3>2, <3>3
  <2> HIDE DEF m
  <2>2. LogTypes'
    BY <2>1 DEF LogTypes
  <2>3. Handshake'
    BY <1>3, <2>1 DEF LogTypes, Handshake, Pooled
  <2>4. Pool'
    BY <2>1, LogAssumption DEF LogTypes, Pool, Pooled
  <2>5. PortsSignalled' /\ ScriptsWait'
    BY DEF LogTypes, PortsSignalled, ScriptsWait
  <2>6. LossesSeen'
    BY <1>3, <2>1 DEF LogTypes, LossesSeen
  <2> QED BY <2>2, <2>3, <2>4, <2>5, <2>6
<1> QED BY <1>2, <1>3

LEMMA SendsStep == ASSUME LogInv, NEW w \in Writers, vlog_sends(w) PROVE LogInv'
<1> USE DEF LogInv, vlog_sends
<1> DEFINE m == writer[w]
<1>1. /\ m \in Msgs /\ lphase = "up" /\ ~In(replyq, m) /\ ~In(logq, m)
      /\ \A v \in Writers : writer[v] = m => v = w
  BY DEF LogTypes, Pool
<1>2. /\ logq' \in Seq(Msgs \cup {"init", "close"}) /\ logq' # <<>> /\ OnlyOnce(logq')
      /\ \A y : In(logq', y) <=> In(logq, y) \/ y = m
      /\ logq # <<>> => Head(logq') = Head(logq)
  <2>1. logq \in Seq(Msgs \cup {"init", "close"}) /\ OnlyOnce(logq) /\ m \in Msgs \cup {"init", "close"}
    BY <1>1 DEF LogTypes, Pool
  <2> QED BY <1>1, <2>1, InAppend
<1> HIDE DEF m
<1>3. m = writer[w]
  BY DEF m
<1>4. LogTypes'
  BY <1>2 DEF LogTypes, Signals
<1>5. Handshake'
  BY <1>1, <1>2, LogAssumption DEF LogTypes, Handshake, Pooled
<1>6. Pool'
  BY <1>1, <1>2, <1>3 DEF LogTypes, Pool, Pooled
<1>7. PortsSignalled' /\ ScriptsWait' /\ LossesSeen'
  BY <1>1 DEF LogTypes, PortsSignalled, ScriptsWait, LossesSeen
<1> QED BY <1>4, <1>5, <1>6, <1>7

LEMMA ScriptStep == ASSUME LogInv, NEW s \in Scripts, Script(s) PROVE LogInv'
<1> USE DEF LogInv, Script
<1>1. rexxq' \in Seq(Scripts) /\ OnlyOnce(rexxq') /\ \A y : In(rexxq', y) <=> In(rexxq, y) \/ y = s
  <2>1. rexxq \in Seq(Scripts) /\ OnlyOnce(rexxq) /\ ~In(rexxq, s)
    BY DEF LogTypes, ScriptsWait
  <2> QED BY <2>1, InAppend
<1>2. base
  BY DEF ScriptsWait
<1>3. LogTypes'
  BY <1>1 DEF LogTypes, Signals
<1>4. Handshake' /\ Pool'
  BY DEF LogTypes, Handshake, Pool, Pooled, ScriptsWait
<1>5. PortsSignalled' /\ ScriptsWait' /\ LossesSeen'
  BY <1>1, <1>2 DEF LogTypes, PortsSignalled, ScriptsWait, LossesSeen, Handshake
<1> QED BY <1>3, <1>4, <1>5

LEMMA RexxStep == ASSUME LogInv, rexx_poll PROVE LogInv'
<1> USE DEF LogInv, rexx_poll
<1>1. Handshake' /\ Pool' /\ LossesSeen'
  BY DEF LogTypes, Handshake, Pool, Pooled, LossesSeen
<1>2. CASE base /\ rexxq # <<>>
  <2>1. /\ Head(rexxq) \in Scripts /\ In(rexxq, Head(rexxq)) /\ rexxq' \in Seq(Scripts)
        /\ OnlyOnce(rexxq') /\ ~In(rexxq', Head(rexxq))
        /\ \A y : In(rexxq', y) => In(rexxq, y)
        /\ \A y : In(rexxq, y) => In(rexxq', y) \/ y = Head(rexxq)
    <3>1. rexxq \in Seq(Scripts) /\ OnlyOnce(rexxq)
      BY DEF LogTypes, ScriptsWait
    <3>2. rexxq' = Tail(rexxq)
      BY <1>2
    <3> QED BY <1>2, <3>1, <3>2, InTail
  <2>2. script' = [script EXCEPT ![Head(rexxq)] = "done"] /\ nt' = nt
    BY <1>2
  <2>3. LogTypes'
    <3>1. script' \in [Scripts -> {"idle", "sent", "done", "closed"}]
      BY <2>1, <2>2 DEF LogTypes
    <3> QED BY <2>1, <2>2, <3>1 DEF LogTypes
  <2>4. PortsSignalled'
    BY <1>2, <2>2 DEF LogTypes, PortsSignalled
  <2>5. ScriptsWait'
    BY <2>1, <2>2 DEF LogTypes, ScriptsWait
  <2> QED BY <1>1, <2>3, <2>4, <2>5
<1>3. CASE ~(base /\ rexxq # <<>>)
  <2>1. rexxq = <<>> /\ nt' = [nt EXCEPT !.sig = @ \ {"rexx"}] /\ UNCHANGED <<dest, script, rexxq>>
    BY <1>3 DEF ScriptsWait
  <2>2. LogTypes'
    BY <2>1 DEF LogTypes
  <2>3. PortsSignalled' /\ ScriptsWait'
    BY <2>1 DEF LogTypes, PortsSignalled, ScriptsWait
  <2> QED BY <1>1, <2>2, <2>3
<1> QED BY <1>2, <1>3

LEMMA PollStep == ASSUME LogInv, log_poll PROVE LogInv'
<1> USE DEF LogInv, log_poll
<1> DEFINE m == Head(logq)
<1>1. /\ In(logq, m) /\ logq' \in Seq(Msgs \cup {"init", "close"}) /\ OnlyOnce(logq') /\ ~In(logq', m)
      /\ \A y : In(logq', y) => In(logq, y)
      /\ \A y : In(logq, y) => In(logq', y) \/ y = m
  <2>1. logq \in Seq(Msgs \cup {"init", "close"}) /\ OnlyOnce(logq)
    BY DEF LogTypes, Pool
  <2> QED BY <2>1, InTail
<1>2. m \in Msgs /\ m # "init" /\ m # "close" /\ lphase \in {"up", "closing"} /\ ~In(replyq, m)
  BY <1>1, LogAssumption DEF Handshake, Pool, LogTypes, In
<1>3. /\ replyq' \in Seq(Msgs \cup {"init"}) /\ OnlyOnce(replyq')
      /\ \A y : In(replyq', y) <=> In(replyq, y) \/ y = m
      /\ replyq = <<>> => Len(replyq') = 1
  <2>1. replyq \in Seq(Msgs \cup {"init"}) /\ OnlyOnce(replyq) /\ m \in Msgs \cup {"init"}
    BY <1>2 DEF LogTypes, Pool
  <2> QED BY <1>2, <2>1, InAppend
<1> HIDE DEF m
<1>4. LogTypes'
  BY <1>1, <1>3 DEF LogTypes, NtPcs
<1>5. Handshake'
  BY <1>1, <1>2, <1>3 DEF LogTypes, Handshake, Pooled
<1>6. Pool'
  BY <1>1, <1>2, <1>3 DEF LogTypes, Pool, Pooled
<1>7. PortsSignalled' /\ ScriptsWait'
  BY DEF LogTypes, PortsSignalled, ScriptsWait
<1>8. LossesSeen'
  BY <1>2, <1>3 DEF LogTypes, LossesSeen
<1> QED BY <1>4, <1>5, <1>6, <1>7, <1>8

LEMMA ReportsStep == ASSUME LogInv, log_poll_reports PROVE LogInv'
<1> USE DEF LogInv, log_poll_reports
<1>1. lphase \in {"up", "closing"}
  BY DEF Handshake, LogTypes
<1>4. nt' \in [pc : NtPcs, sig : SUBSET Signals, t : Nat] /\ total' \in Nat
  <2>1. nt \in [pc : NtPcs, sig : SUBSET Signals, t : Nat] /\ "loop" \in NtPcs
    BY DEF LogTypes, NtPcs
  <2>2. nt' = [pc |-> "loop", sig |-> nt.sig, t |-> 0]
    BY <2>1
  <2> QED BY <2>1, <2>2
<1>2. CASE replyq = <<>>
  <2>1. LogTypes'
    BY <1>2, <1>4 DEF LogTypes
  <2>3. Handshake' /\ Pool'
    BY <1>2 DEF LogTypes, Handshake, Pool, Pooled
  <2>2. PortsSignalled' /\ ScriptsWait' /\ LossesSeen'
    BY <1>1, <1>2 DEF LogTypes, PortsSignalled, ScriptsWait, LossesSeen
  <2> QED BY <2>1, <2>2, <2>3
<1>3. CASE replyq # <<>>
  <2> DEFINE m == Head(replyq)
  <2>1. /\ m \in Msgs /\ In(replyq, m) /\ replyq' = Tail(replyq)
        /\ replyq' \in Seq(Msgs \cup {"init"}) /\ OnlyOnce(replyq') /\ ~In(replyq', m)
        /\ \A y : In(replyq', y) => In(replyq, y)
        /\ \A y : In(replyq, y) => In(replyq', y) \/ y = m
    <3>1. replyq \in Seq(Msgs \cup {"init"}) /\ OnlyOnce(replyq) /\ ~In(replyq, "init")
      BY <1>1 DEF LogTypes, Pool, Handshake
    <3>2. replyq' = Tail(replyq)
      BY <1>3
    <3>3. /\ In(replyq, m) /\ Tail(replyq) \in Seq(Msgs \cup {"init"}) /\ m \in Msgs \cup {"init"}
          /\ OnlyOnce(Tail(replyq)) /\ ~In(Tail(replyq), m)
          /\ \A y : In(Tail(replyq), y) => In(replyq, y)
          /\ \A y : In(replyq, y) => In(Tail(replyq), y) \/ y = m
      BY <1>3, <3>1, InTail
    <3>4. m \in Msgs
      BY <3>1, <3>3
    <3> QED BY <3>2, <3>3, <3>4
  <2>2. ~In(logq, m)
    BY <2>1 DEF Pool
  <2>3. /\ logq' \in Seq(Msgs \cup {"init", "close"}) /\ logq' # <<>> /\ OnlyOnce(logq')
        /\ \A y : In(logq', y) <=> In(logq, y) \/ y = m
    <3>1. /\ logq \in Seq(Msgs \cup {"init", "close"}) /\ OnlyOnce(logq)
          /\ m \in Msgs \cup {"init", "close"} /\ logq' = Append(logq, m)
      BY <1>3, <2>1 DEF LogTypes, Pool
    <3> QED BY <2>2, <3>1, InAppend
  <2>4. fail' = fail /\ m \notin {"init", "close"}
    BY <1>3, <2>1, LogAssumption
  <2>5. nt' = [nt EXCEPT !.pc = "loop", !.t = 0] /\ ntsigs' = ntsigs \cup {"log"} /\ total' = nt.t
    BY <1>3
  <2>6. closer' = closer /\ writer' = writer /\ lphase' = lphase /\ UNCHANGED <<base, rexx, rexxq, script, logs, lives>>
    BY <1>3
  <2> HIDE DEF m
  <2>7. LogTypes'
    BY <1>4, <2>1, <2>3, <2>4, <2>5, <2>6 DEF LogTypes, Signals
  <2>8. Handshake'
    BY <1>1, <2>1, <2>3, <2>4, <2>5, <2>6 DEF LogTypes, Handshake, Pooled
  <2>9. Pool'
    <3>1. closer # m
      BY <2>1, LogAssumption DEF Pool, LogTypes, None
    <3>2. \A v \in Writers : writer[v] # m
      BY <2>1, LogAssumption DEF Pool, None
    <3> QED BY <2>1, <2>2, <2>3, <2>5, <2>6, <3>1, <3>2 DEF LogTypes, Pool, Pooled
  <2>10. PortsSignalled' /\ ScriptsWait'
    BY <2>3, <2>5, <2>6 DEF LogTypes, PortsSignalled, ScriptsWait
  <2>11. LossesSeen'
    BY <1>1, <1>3, <2>4, <2>5, <2>6 DEF LogTypes, LossesSeen
  <2> QED BY <2>7, <2>8, <2>9, <2>10, <2>11
<1> QED BY <1>2, <1>3

LEMMA DeinitStep == ASSUME LogInv, log_deinit PROVE LogInv'
<1> USE DEF LogInv, log_deinit
<1> DEFINE m == Head(replyq)
<1>1. /\ m \in Msgs \cup {"init"} /\ In(replyq, m) /\ Tail(replyq) \in Seq(Msgs \cup {"init"})
      /\ OnlyOnce(Tail(replyq)) /\ ~In(Tail(replyq), m)
      /\ \A y : In(Tail(replyq), y) => In(replyq, y)
      /\ \A y : In(replyq, y) => In(Tail(replyq), y) \/ y = m
  <2>1. replyq \in Seq(Msgs \cup {"init"}) /\ OnlyOnce(replyq)
    BY DEF LogTypes, Pool
  <2> QED BY <2>1, InTail
<1>2. m \in Msgs /\ ~In(logq, m) /\ ~In(logq, "close") /\ nt.pc # "told"
  BY <1>1 DEF Handshake, Pool
<1>3. /\ logq' \in Seq(Msgs \cup {"init", "close"}) /\ logq' # <<>> /\ OnlyOnce(logq')
      /\ \A y : In(logq', y) <=> In(logq, y) \/ y = "close"
      /\ logq # <<>> => Head(logq') = Head(logq)
  <2>1. logq \in Seq(Msgs \cup {"init", "close"}) /\ OnlyOnce(logq)
    BY DEF LogTypes, Pool
  <2> QED BY <1>2, <2>1, InAppend
<1>4. replyq' = Tail(replyq) /\ closer' = m
  OBVIOUS
<1> HIDE DEF m
<1>5. LogTypes'
  BY <1>1, <1>2, <1>3, <1>4 DEF LogTypes, Signals
<1>6. Handshake'
  BY <1>1, <1>2, <1>3, <1>4 DEF LogTypes, Handshake, Pooled
<1>7. Pool'
  BY <1>1, <1>2, <1>3, <1>4, LogAssumption DEF LogTypes, Pool, Pooled, None
<1>8. PortsSignalled' /\ ScriptsWait' /\ LossesSeen'
  BY DEF LogTypes, PortsSignalled, ScriptsWait, LossesSeen
<1> QED BY <1>5, <1>6, <1>7, <1>8

LEMMA SeqNarrow ==
  ASSUME NEW S, NEW T, NEW s \in Seq(S), \A i \in 1..Len(s) : s[i] \in T
  PROVE  s \in Seq(T)
<1>1. Len(s) \in Nat /\ s \in [1..Len(s) -> T]
  OBVIOUS
<1> QED BY <1>1

LEMMA ClosesStep == ASSUME LogInv, log_poll_closes PROVE LogInv'
<1> USE DEF LogInv, log_poll_closes
<1> DEFINE r == Tail(logq)
           back == Append(r, closer)
<1>1. /\ In(logq, "close") /\ r \in Seq(Msgs \cup {"init", "close"}) /\ OnlyOnce(r) /\ ~In(r, "close")
      /\ \A y : In(r, y) => In(logq, y)
      /\ \A y : In(logq, y) => In(r, y) \/ y = "close"
  <2>1. logq \in Seq(Msgs \cup {"init", "close"}) /\ OnlyOnce(logq)
    BY DEF LogTypes, Pool
  <2> QED BY <2>1, InTail
<1>2. /\ lphase = "closing" /\ closer \in Msgs /\ ~In(logq, closer) /\ ~In(replyq, closer)
      /\ ~In(logq, "init") /\ ~In(replyq, "init") /\ \A w \in Writers : writer[w] = None
  BY <1>1 DEF LogTypes, Handshake, Pool
<1>3. r \in Seq(Msgs \cup {"init"})
  <2> HIDE DEF r
  <2>1. \A i \in 1..Len(r) : r[i] \in Msgs \cup {"init"}
    BY <1>1 DEF In
  <2> QED BY <1>1, <2>1, SeqNarrow
<1> HIDE DEF r
<1>4. /\ back \in Seq(Msgs \cup {"init"}) /\ OnlyOnce(back)
      /\ \A y : In(back, y) <=> In(r, y) \/ y = closer
  BY <1>1, <1>2, <1>3, InAppend
<1> HIDE DEF back
<1>5. /\ replyq \o back \in Seq(Msgs \cup {"init"}) /\ OnlyOnce(replyq \o back)
      /\ \A y : In(replyq \o back, y) <=> In(replyq, y) \/ In(back, y)
  <2>1. replyq \in Seq(Msgs \cup {"init"}) /\ OnlyOnce(replyq)
    BY DEF LogTypes, Pool
  <2>2. \A y \in Msgs \cup {"init"} : ~(In(replyq, y) /\ In(back, y))
    BY <1>1, <1>2, <1>4 DEF Pool
  <2> QED BY <1>4, <2>1, <2>2, InConcat
<1>6. /\ replyq' = replyq \o back /\ logq' = <<>> /\ rexxq' = <<>> /\ rexx' = "none" /\ base' = FALSE
      /\ script' = [s \in Scripts |-> IF s \in ToSet(rexxq) THEN "closed" ELSE script[s]]
      /\ nt' = [nt EXCEPT !.pc = "told", !.sig = {}]
      /\ UNCHANGED <<lphase, closer, writer, ntsigs, fail, total, logs, lives>>
  BY DEF back, r, log_close, rexx_deinit
<1>7. \A s \in Scripts : s \in ToSet(rexxq) <=> In(rexxq, s)
  <2>1. rexxq \in Seq(Scripts)
    BY DEF LogTypes
  <2> QED BY <2>1 DEF ToSet, In
<1>8. nt' \in [pc : NtPcs, sig : SUBSET Signals, t : Nat] /\ nt'.pc = "told"
  <2>1. nt \in [pc : NtPcs, sig : SUBSET Signals, t : Nat] /\ "told" \in NtPcs
    BY DEF LogTypes, NtPcs
  <2>2. nt' = [pc |-> "told", sig |-> {}, t |-> nt.t]
    BY <1>6, <2>1
  <2> QED BY <2>1, <2>2
<1> HIDE DEF log_poll_closes
<1>14. script' \in [Scripts -> {"idle", "sent", "done", "closed"}]
  BY <1>6 DEF LogTypes
<1>16. /\ replyq' \in Seq(Msgs \cup {"init"}) /\ OnlyOnce(replyq')
       /\ \A y : In(replyq', y) <=> In(replyq, y) \/ In(back, y)
  BY <1>5, <1>6
<1>15. /\ logq' = <<>> /\ rexxq' = <<>> /\ rexx' = "none" /\ base' = FALSE
       /\ lphase' = lphase /\ closer' = closer /\ writer' = writer /\ ntsigs' = ntsigs
       /\ fail' = fail /\ total' = total /\ logs' = logs /\ lives' = lives
  BY <1>6
<1>9. LogTypes'
  <2>1. replyq' \in Seq(Msgs \cup {"init"}) /\ logq' \in Seq(Msgs \cup {"init", "close"}) /\ rexxq' \in Seq(Scripts)
    BY <1>15, <1>16
  <2>2. /\ lphase' \in {"down", "started", "answered", "up", "closing"}
        /\ closer' \in Msgs \cup {None} /\ writer' \in [Writers -> Msgs \cup {None}]
        /\ ntsigs' \in SUBSET Signals
    BY <1>15 DEF LogTypes
  <2>3. base' \in BOOLEAN /\ rexx' \in {"none", "made", "shown"}
    BY <1>15
  <2>4. fail' \in Nat /\ total' \in Nat /\ logs' \in Nat /\ lives' \in Nat
    BY <1>15 DEF LogTypes
  <2> QED BY <1>8, <1>14, <2>1, <2>2, <2>3, <2>4 DEF LogTypes
<1>10. Handshake'
  <2>1. logq' = <<>> /\ lphase' = "closing" /\ nt'.pc = "told" /\ \A y : ~In(logq', y)
    BY <1>2, <1>8, <1>15, InEmpty
  <2>2. ~In(replyq', "init")
    BY <1>1, <1>2, <1>4, <1>16, LogAssumption
  <2> QED BY <2>1, <2>2 DEF Handshake, Pooled
<1>11. Pool'
  <2>1. logq' = <<>> /\ lphase' = "closing" /\ nt'.pc = "told" /\ (\A y : ~In(logq', y)) /\ OnlyOnce(logq')
    BY <1>2, <1>8, <1>15, InEmpty
  <2>2. closer' = closer /\ writer' = writer /\ \A w \in Writers : writer'[w] = None
    BY <1>2, <1>15
  <2>3. closer' # None /\ OnlyOnce(replyq')
    BY <1>2, <1>16, <2>2, LogAssumption DEF None
  <2>4. \A m \in Msgs : In(replyq', m)  \/ closer' = m
    <3>1. \A m \in Msgs : In(replyq, m) \/ In(logq, m) \/ closer = m
      BY <1>2, LogAssumption DEF Pool, Pooled, None
    <3> QED BY <1>1, <1>4, <1>16, <2>2, <3>1, LogAssumption
  <2> QED BY <2>1, <2>2, <2>3, <2>4 DEF Pool, Pooled
<1>12. ScriptsWait'
  BY <1>6, <1>7, <1>8, InEmpty DEF ScriptsWait
<1>13. PortsSignalled' /\ LossesSeen'
  BY <1>2, <1>8, <1>15 DEF PortsSignalled, LossesSeen
<1> QED BY <1>9, <1>10, <1>11, <1>12, <1>13

LEMMA EndsStep == ASSUME LogInv, log_deinit_ends PROVE LogInv'
<1> USE DEF LogInv, log_deinit_ends
<1>1. In(replyq, closer)
  <2>1. replyq \in Seq(Msgs \cup {"init"})
    BY DEF LogTypes
  <2> QED BY <2>1 DEF ToSet, In
<1>2. nt.pc = "told" /\ logq = <<>> /\ \A w \in Writers : writer[w] = None
  BY <1>1 DEF LogTypes, Handshake, Pool
<1>3. rexx = "none" /\ rexxq = <<>>
  BY <1>2 DEF ScriptsWait
<1>4. LogTypes'
  <2>1. nt' \in [pc : NtPcs, sig : SUBSET Signals, t : Nat]
    BY DEF LogTypes, NtPcs
  <2>2. /\ replyq' \in Seq(Msgs \cup {"init"}) /\ closer' \in Msgs \cup {None} /\ lphase' = "down"
        /\ logq' = logq /\ writer' = writer /\ ntsigs' = ntsigs
    OBVIOUS
  <2>3. /\ base' = base /\ rexx' = rexx /\ rexxq' = rexxq /\ script' = script
        /\ fail' = fail /\ total' = total /\ logs' = logs /\ lives' = lives
    OBVIOUS
  <2> QED BY <2>1, <2>2, <2>3 DEF LogTypes
<1>5. Handshake' /\ Pool'
  BY <1>2, InEmpty DEF LogTypes, Handshake, Pool, Pooled
<1>6. PortsSignalled' /\ ScriptsWait' /\ LossesSeen'
  BY <1>3, InEmpty DEF LogTypes, PortsSignalled, ScriptsWait, LossesSeen
<1> QED BY <1>4, <1>5, <1>6

LEMMA LogInitInv == LogInit => LogInv
<1> SUFFICES ASSUME LogInit PROVE LogInv
  OBVIOUS
<1> USE DEF LogInit
<1>1. LogTypes
  <2>1. nt \in [pc : NtPcs, sig : SUBSET Signals, t : Nat] /\ ntsigs \in SUBSET Signals
    BY DEF NtPcs
  <2>2. /\ writer \in [Writers -> Msgs \cup {None}] /\ closer \in Msgs \cup {None}
        /\ script \in [Scripts -> {"idle", "sent", "done", "closed"}]
    OBVIOUS
  <2>3. /\ replyq \in Seq(Msgs \cup {"init"}) /\ logq \in Seq(Msgs \cup {"init", "close"})
        /\ rexxq \in Seq(Scripts)
    OBVIOUS
  <2> QED BY <2>1, <2>2, <2>3 DEF LogTypes
<1>2. Handshake /\ Pool
  <2>1. (\A y : ~In(replyq, y) /\ ~In(logq, y)) /\ OnlyOnce(replyq) /\ OnlyOnce(logq)
    BY InEmpty
  <2>2. \A w \in Writers : writer[w] = None
    OBVIOUS
  <2> QED BY <2>1, <2>2 DEF Handshake, Pool, Pooled
<1>3. PortsSignalled /\ ScriptsWait /\ LossesSeen
  BY InEmpty DEF PortsSignalled, ScriptsWait, LossesSeen
<1> QED BY <1>1, <1>2, <1>3 DEF LogInv

LEMMA LogStep == LogInv /\ [LogNext]_lvars => LogInv'
<1> SUFFICES ASSUME LogInv, [LogNext]_lvars PROVE LogInv'
  OBVIOUS
<1>1. CASE log_init
  BY <1>1, InitStep
<1>2. CASE log_task_starts
  BY <1>2, StartsStep
<1>3. CASE log_init_answers
  BY <1>3, AnswersStep
<1>4. CASE log_init_fills
  BY <1>4, FillsStep
<1>5. CASE log_task_synced
  BY <1>5, SyncedStep
<1>6. CASE StackReady
  BY <1>6, ReadyStep
<1>7. ASSUME NEW w \in Writers, vlog(w) \/ vlog_sends(w) PROVE LogInv'
  BY <1>7, VlogStep, SendsStep
<1>8. ASSUME NEW s \in Scripts, Script(s) PROVE LogInv'
  BY <1>8, ScriptStep
<1>9. CASE TraceWaits \/ TraceOpens
  BY <1>9, WaitsStep, OpensStep
<1>10. CASE log_poll \/ log_poll_reports \/ log_poll_ends
  BY <1>10, PollStep, ReportsStep, PollEndsStep
<1>11. CASE rexx_poll \/ TraceRereads
  BY <1>11, RexxStep, RereadsStep
<1>12. CASE log_deinit \/ log_poll_closes \/ log_deinit_ends
  BY <1>12, DeinitStep, ClosesStep, EndsStep
<1>13. CASE UNCHANGED lvars
  BY <1>13 DEF lvars, LogInv, LogTypes, Handshake, Pool, Pooled, PortsSignalled, ScriptsWait, LossesSeen
<1> QED BY <1>1, <1>2, <1>3, <1>4, <1>5, <1>6, <1>7, <1>8, <1>9, <1>10, <1>11, <1>12, <1>13 DEF LogNext

\* How often something is at a port where nothing is twice.
LEMMA OnceAt ==
  ASSUME NEW S, NEW s \in Seq(S), OnlyOnce(s), NEW m
  PROVE  Cardinality({i \in DOMAIN s : s[i] = m}) = IF m \in ToSet(s) THEN 1 ELSE 0
<1> DEFINE D == {i \in DOMAIN s : s[i] = m}
<1>1. DOMAIN s = 1..Len(s)
  OBVIOUS
<1>2. CASE m \in ToSet(s)
  <2>1. PICK k \in DOMAIN s : s[k] = m
    BY <1>2 DEF ToSet
  <2>2. D = {k}
    BY <1>1, <2>1 DEF OnlyOnce
  <2> QED BY <1>2, <2>2, FS_Singleton
<1>3. CASE m \notin ToSet(s)
  <2>1. D = {}
    BY <1>3 DEF ToSet
  <2> QED BY <1>3, <2>1, FS_EmptySet
<1> QED BY <1>2, <1>3

LEMMA InSet == ASSUME NEW S, NEW s \in Seq(S), NEW x PROVE x \in ToSet(s) <=> In(s, x)
<1>1. DOMAIN s = 1..Len(s)
  OBVIOUS
<1> QED BY <1>1 DEF ToSet, In

LEMMA MessagesAre == LogInv => MessagesKept
<1> SUFFICES ASSUME LogInv, NEW m \in Msgs
             PROVE Cardinality({i \in DOMAIN replyq : replyq[i] = m})
                   + Cardinality({i \in DOMAIN logq : logq[i] = m})
                   + Cardinality({w \in Writers : writer[w] = m})
                   + (IF closer = m /\ m \notin ToSet(replyq) THEN 1 ELSE 0)
                   = IF lphase \in {"up", "closing"} THEN 1 ELSE 0
  BY DEF MessagesKept
<1> DEFINE A == Cardinality({i \in DOMAIN replyq : replyq[i] = m})
           B == Cardinality({i \in DOMAIN logq : logq[i] = m})
           C == Cardinality({w \in Writers : writer[w] = m})
<1>1. A = (IF In(replyq, m) THEN 1 ELSE 0) /\ B = (IF In(logq, m) THEN 1 ELSE 0)
  <2>1. /\ replyq \in Seq(Msgs \cup {"init"}) /\ OnlyOnce(replyq)
        /\ logq \in Seq(Msgs \cup {"init", "close"}) /\ OnlyOnce(logq)
    BY DEF LogInv, LogTypes, Pool
  <2>2. (m \in ToSet(replyq) <=> In(replyq, m)) /\ (m \in ToSet(logq) <=> In(logq, m))
    BY <2>1, InSet
  <2>3. A = IF m \in ToSet(replyq) THEN 1 ELSE 0
    BY <2>1, OnceAt
  <2>4. B = IF m \in ToSet(logq) THEN 1 ELSE 0
    BY <2>1, OnceAt
  <2> QED BY <2>2, <2>3, <2>4
<1>2. m \in ToSet(replyq) <=> In(replyq, m)
  BY InSet DEF LogInv, LogTypes
<1>3. m # None /\ m # "init" /\ m # "close"
  BY LogAssumption DEF None
<1>4. C = IF \E w \in Writers : writer[w] = m THEN 1 ELSE 0
  <2>1. CASE \E w \in Writers : writer[w] = m
    <3>1. PICK w \in Writers : writer[w] = m
      BY <2>1
    <3>2. {v \in Writers : writer[v] = m} = {w}
      BY <1>3, <3>1 DEF LogInv, Pool
    <3> QED BY <2>1, <3>2, FS_Singleton
  <2>2. CASE ~ \E w \in Writers : writer[w] = m
    <3>1. {v \in Writers : writer[v] = m} = {}
      BY <2>2
    <3> QED BY <2>2, <3>1, FS_EmptySet
  <2> QED BY <2>1, <2>2
<1> HIDE DEF A, B, C
<1>5. CASE lphase \in {"up", "closing"}
  <2>1. \/ In(replyq, m) \/ In(logq, m) \/ closer = m \/ \E w \in Writers : writer[w] = m
    BY <1>5 DEF LogInv, Pool, Pooled
  <2>2. /\ ~(In(replyq, m) /\ In(logq, m)) /\ (closer = m => ~In(logq, m) /\ lphase = "closing")
        /\ (\E w \in Writers : writer[w] = m) => ~In(replyq, m) /\ ~In(logq, m) /\ lphase = "up"
    BY <1>3 DEF LogInv, Pool
  <2> QED BY <1>1, <1>2, <1>4, <1>5, <2>1, <2>2 DEF A, B, C
<1>6. CASE lphase \notin {"up", "closing"}
  <2>1. ~In(replyq, m) /\ ~In(logq, m)
    BY <1>3, <1>6 DEF LogInv, LogTypes, Handshake, In
  <2>2. closer # m /\ ~ \E w \in Writers : writer[w] = m
    BY <1>3, <1>6 DEF LogInv, Pool
  <2> QED BY <1>1, <1>4, <1>6, <2>1, <2>2 DEF A, B, C
<1> QED BY <1>5, <1>6 DEF A, B, C

LEMMA LogSoundIs == LogInv => LogSound
<1> SUFFICES ASSUME LogInv PROVE LogSound
  OBVIOUS
<1> USE DEF LogInv
<1>1. MessagesKept
  BY MessagesAre
<1>2. TraceAwake
  BY DEF TraceAwake, PortsSignalled
<1>3. ScriptsKept
  <2>1. rexxq \in Seq(Scripts)
    BY DEF LogTypes
  <2>2. \A s \in Scripts : s \in ToSet(rexxq) <=> In(rexxq, s)
    BY <2>1, InSet
  <2> QED BY <2>2 DEF ScriptsKept, ScriptsWait
<1>4. LossesReported
  <2> SUFFICES ASSUME lives = 1, fail # total, lphase = "up"
               PROVE  \E m \in Msgs : m \notin ToSet(replyq)
    BY DEF LossesReported
  <2>1. PICK a, b \in Msgs : a # b
    BY LogAssumption
  <2>2. Len(replyq) <= 1 /\ replyq \in Seq(Msgs \cup {"init"})
    BY DEF LossesSeen, LogTypes
  <2>3. ~(In(replyq, a) /\ In(replyq, b))
    BY <2>1, <2>2 DEF In
  <2> QED BY <2>2, <2>3, InSet
<1> QED BY <1>1, <1>2, <1>3, <1>4 DEF LogSound

\* log(), NETTRACE and the ARexx port, for any pool of at least two messages, any number of
\* tasks that log and of ARexx programs, and any number of starts of the stack (vlog,
\* GetLogMsg, log_poll, log_init, log_deinit, rexx_poll).
THEOREM SpecLogSound == LogSpec => []LogSound
<1>1. LogInit => LogInv
  BY LogInitInv
<1>2. LogInv /\ [LogNext]_lvars => LogInv'
  BY LogStep
<1>3. LogInv => LogSound
  BY LogSoundIs
<1> QED BY <1>1, <1>2, <1>3, PTL DEF LogSpec
=============================================================================
