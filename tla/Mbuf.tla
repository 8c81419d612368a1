-------------------------------- MODULE Mbuf --------------------------------
(***************************************************************************)
(* Memory buffers (kern/uipc_mbuf.c and the macros of sys/mbuf.h), the     *)
(* calls that hand them to programs (mbuf_* of amiga_roadshow_compat.c)    *)
(* and the buffer-management hooks a network driver calls                  *)
(* (net/sana2copybuff.c).                                                  *)
(*                                                                         *)
(* An mbuf is a record: its data are a sequence of octets that starts at   *)
(* offset `off` of its storage (of a cluster when cl # 0), `hdr` is        *)
(* M_PKTHDR and `plen` m_pkthdr.len.  A chain is a sequence of mbufs, a    *)
(* pool holds the free mbufs and the reference counts of the clusters.     *)
(* Sizes are in units of a few octets: a packet header takes one unit.     *)
(***************************************************************************)
EXTENDS Naturals, Integers, Sequences, FiniteSets, SequencesExt, FiniteSetsExt

CONSTANTS
  MLEN,        \* storage of an mbuf; MHLEN is one less
  MclBytes,    \* mbconf.mclbytes
  MbufChunk,   \* mbconf.mbufchunk
  MaxChunks,   \* chunks until mbconf.maxmem, or the system's memory, is used up
  Clusters,    \* number of clusters likewise
  ProtoHdr,    \* max_protohdr
  Mtu,         \* MTU of the interface whose reads reserve buffers
  MaxMbufOps

ASSUME MbufAssumption ==
  /\ {MLEN, MclBytes, MbufChunk, MaxChunks, ProtoHdr, Mtu} \subseteq Nat \ {0}
  /\ {Clusters, MaxMbufOps} \subseteq Nat /\ MLEN > 1

VARIABLES
  pool,    \* [mfree, chunks, cref]
  chain,   \* [{"a", "b", "res", "pkt"} -> chains]: two of the stack's, and
           \* the reserve and the packet of a read request
  want,    \* what the octets of a chain must be, by the definition of the calls
  mops

mvars == <<pool, chain, want, mops>>

MHLEN == MLEN - 1

-----------------------------------------------------------------------------
(* The pool.                                                               *)

EmptyPool == [mfree |-> {}, chunks |-> 0, cref |-> [c \in 1..Clusters |-> 0]]

m_alloc(p) ==
  IF p.chunks = MaxChunks THEN p
  ELSE [p EXCEPT !.chunks = @ + 1,
                 !.mfree = @ \cup (p.chunks * MbufChunk + 1)..((p.chunks + 1) * MbufChunk)]

\* The pool mbinit leaves.
mbinit == m_alloc(EmptyPool)

\* MGET and m_retry for n mbufs: the pool then, and as many as there were.
m_retry(p) == IF p.mfree = {} THEN m_alloc(p) ELSE p
MGET(p) ==
  LET q == m_retry(p)
  IN IF q.mfree = {} THEN [p |-> q, ids |-> <<>>]
     ELSE [p |-> [q EXCEPT !.mfree = @ \ {Min(q.mfree)}], ids |-> <<Min(q.mfree)>>]
MGETs(p, n) ==
  LET More(acc, k) == LET g == MGET(acc.p) IN [p |-> g.p, ids |-> acc.ids \o g.ids]
  IN FoldLeft(More, [p |-> p, ids |-> <<>>], [k \in 1..n |-> k])

Blank(id, ty) == [id |-> id, ty |-> ty, hdr |-> FALSE, plen |-> 0, off |-> 0,
                  dat |-> <<>>, cl |-> 0]
Header(id, ty) == [Blank(id, ty) EXCEPT !.hdr = TRUE, !.off = 1]

MCLALLOC(p) == {c \in 1..Clusters : p.cref[c] = 0 /\ \A d \in 1..(c - 1) : p.cref[d] # 0}
MCLREF(p, c) == IF c = 0 THEN p ELSE [p EXCEPT !.cref[c] = @ + 1]
MCLFREE(p, c) == IF c = 0 THEN p ELSE [p EXCEPT !.cref[c] = @ - 1]

m_free(p, m) == [MCLFREE(p, m.cl) EXCEPT !.mfree = @ \cup {m.id}]
m_freem(p, c) == FoldLeft(m_free, p, c)

-----------------------------------------------------------------------------
(* Chains.  A call returns [p, c]: the pool and the chain; an empty chain  *)
(* is NULL.                                                                *)

Octets(c) == FlattenSeq([n \in DOMAIN c |-> c[n].dat])
Took(p, c) == [p |-> p, c |-> c]
Room(m) == IF m.cl # 0 THEN MclBytes ELSE MLEN
Drop(q, n) == SubSeq(q, n + 1, Len(q))
Keep(q, n) == SubSeq(q, 1, n)
Least2(a, b) == IF a < b THEN a ELSE b

\* The header moves to a new first mbuf.
M_COPY_PKTHDR(to, from) == [to EXCEPT !.hdr = from.hdr, !.plen = from.plen, !.off = 1]
NoHeader(c) == IF c = <<>> THEN c ELSE [c EXCEPT ![1].hdr = FALSE, ![1].plen = 0]
PlusLen(c, n) == IF c # <<>> /\ c[1].hdr THEN [c EXCEPT ![1].plen = @ + n] ELSE c

m_prepend(p, c, data) ==
  LET g  == MGET(p)
      mn == IF c[1].hdr THEN M_COPY_PKTHDR(Blank(g.ids[1], c[1].ty), c[1])
            ELSE Blank(g.ids[1], c[1].ty)
      at == IF Len(data) < MHLEN THEN mn.off + MHLEN - Len(data) ELSE mn.off
  IN IF Len(data) > MHLEN THEN Took(m_freem(p, c), <<>>)
     ELSE IF g.ids = <<>> THEN Took(m_freem(g.p, c), <<>>)
     ELSE Took(g.p, <<[mn EXCEPT !.off = at, !.dat = data]>> \o NoHeader(c))

M_LEADINGSPACE(m) == IF m.cl # 0 THEN 0 ELSE IF m.hdr THEN m.off - 1 ELSE m.off
M_PREPEND(p, c, data) ==
  LET r == IF M_LEADINGSPACE(c[1]) >= Len(data)
           THEN Took(p, [c EXCEPT ![1].off = @ - Len(data), ![1].dat = data \o @])
           ELSE m_prepend(p, c, data)
  IN Took(r.p, PlusLen(r.c, Len(data)))

\* Octets off..off+len-1 of the chain; clusters are shared, not copied.
Before(c, n) == Len(Octets(Keep(c, n - 1)))
m_copym(p, c, off, len) ==
  LET start == Min({n \in DOMAIN c : Before(c, n) = off \/ Before(c, n) + Len(c[n].dat) > off})
      parts == {n \in start..Len(c) : Before(c, n) < off + len}
      idx   == SetToSortSeq(parts, <)
      g     == MGETs(p, Len(idx))
      Part(k) ==
        LET m == c[idx[k]]
            s == IF off > Before(c, idx[k]) THEN off - Before(c, idx[k]) ELSE 0
            e == Least2(Len(m.dat), off + len - Before(c, idx[k]))
            n == IF k = 1 /\ off = 0 /\ m.hdr THEN [Header(g.ids[k], m.ty) EXCEPT !.plen = len]
                 ELSE Blank(g.ids[k], m.ty)
        IN [n EXCEPT !.dat = SubSeq(m.dat, s + 1, e), !.cl = m.cl,
                     !.off = IF m.cl # 0 THEN m.off + s ELSE @]
      new  == [k \in DOMAIN idx |-> Part(k)]
      lent == FoldLeft(LAMBDA q, m : MCLREF(q, m.cl), g.p, new)
  IN IF c = <<>> \/ off + len > Len(Octets(c)) \/ len = 0 THEN Took(p, <<>>)
     ELSE IF Len(g.ids) < Len(idx)
     THEN Took([g.p EXCEPT !.mfree = @ \cup ToSet(g.ids)], <<>>)
     ELSE Took(lent, new)

m_copydata(c, off, len) == SubSeq(Octets(c), off + 1, off + len)

\* Small mbufs of the second chain are copied into the last of the first.
m_cat(p, c, d) ==
  LET Join(acc, m) ==
        LET k == Len(acc.c)
            last == acc.c[k]
        IN IF acc.stop \/ last.cl # 0 \/ last.off + Len(last.dat) + Len(m.dat) >= MLEN
           THEN [acc EXCEPT !.c = Append(@, m), !.stop = TRUE]
           ELSE [acc EXCEPT !.c[k].dat = @ \o m.dat, !.p = m_free(acc.p, m)]
      all == FoldLeft(Join, [p |-> p, c |-> c, stop |-> FALSE], d)
  IN Took(all.p, all.c)

\* From the front: lengths go to zero, the mbufs stay.
TrimHead(c, n) ==
  LET gone == Least2(n, Len(Octets(c)))
      cut(k) == Least2(Len(c[k].dat), IF gone > Before(c, k) THEN gone - Before(c, k) ELSE 0)
  IN PlusLen([k \in DOMAIN c |->
                [c[k] EXCEPT !.dat = Drop(@, cut(k)),
                             !.off = IF cut(k) = Len(c[k].dat) THEN @ ELSE @ + cut(k)]],
             -gone)

\* From the end: inside the last mbuf only that one is touched, its own header
\* flag tested; otherwise the chain is cut at the length that remains.
TrimTail(c, n) ==
  LET k == Len(c)
      count == IF Len(Octets(c)) > n THEN Len(Octets(c)) - n ELSE 0
      cutlast == [c EXCEPT ![k].dat = Keep(@, Len(c[k].dat) - n)]
      left(j) == IF count > Before(c, j) THEN Least2(Len(c[j].dat), count - Before(c, j)) ELSE 0
      cut == [j \in DOMAIN c |-> [c[j] EXCEPT !.dat = Keep(@, left(j))]]
  IN IF Len(c[k].dat) >= n
     THEN (IF c[k].hdr THEN [cutlast EXCEPT ![k].plen = @ - n] ELSE cutlast)
     ELSE IF c[1].hdr THEN [cut EXCEPT ![1].plen = count] ELSE cut

m_adj(c, n) == IF c = <<>> THEN c ELSE IF n >= 0 THEN TrimHead(c, n) ELSE TrimTail(c, -n)

\* The first len octets become contiguous: mbufs that are used up on the way
\* are freed, the next one is shortened.
Gather(p, m, rest, len, space) ==
  LET Pull(acc, n) ==
        LET asked == IF acc.len > ProtoHdr THEN acc.len ELSE ProtoHdr
            cnt == Least2(Least2(asked, acc.space), Len(n.dat))
            got == [acc EXCEPT !.m.dat = @ \o Keep(n.dat, cnt), !.len = @ - cnt, !.space = @ - cnt]
        IN IF acc.len <= 0 THEN [acc EXCEPT !.rest = Append(@, n)]
           ELSE IF cnt = Len(n.dat) THEN [got EXCEPT !.p = m_free(acc.p, n)]
           ELSE [got EXCEPT !.rest = Append(@, [n EXCEPT !.dat = Drop(@, cnt), !.off = @ + cnt])]
  IN FoldLeft(Pull, [p |-> p, m |-> m, rest |-> <<>>, len |-> len, space |-> space], rest)

m_pullup(p, c, len) ==
  LET inplace == c[1].cl = 0 /\ c[1].off + len < MLEN /\ Len(c) > 1
      g == MGET(p)
      m == IF c[1].hdr THEN M_COPY_PKTHDR(Blank(g.ids[1], c[1].ty), c[1])
           ELSE Blank(g.ids[1], c[1].ty)
      r == IF inplace
           THEN Gather(p, c[1], Tail(c), len - Len(c[1].dat), MLEN - c[1].off - Len(c[1].dat))
           ELSE Gather(g.p, m, NoHeader(c), len, MLEN - m.off)
  IN IF inplace /\ Len(c[1].dat) >= len THEN Took(p, c)
     ELSE IF ~inplace /\ len > MHLEN THEN Took(m_freem(p, c), <<>>)
     ELSE IF ~inplace /\ g.ids = <<>> THEN Took(m_freem(g.p, c), <<>>)
     ELSE IF r.len > 0 THEN Took(m_freem(m_free(r.p, r.m), r.rest), <<>>)
     ELSE Took(r.p, <<r.m>> \o r.rest)

-----------------------------------------------------------------------------
(* A read request of the driver owns a reserve long enough for one packet: *)
(* a header mbuf and clusters.  The driver copies a frame into it, or      *)
(* writes into the first cluster itself and the completion builds the      *)
(* packet.                                                                 *)

ioip_alloc_mbuf(p, res) ==
  LET g == MGET(p)
      kept == res # <<>> /\ res[1].hdr
      head == IF kept THEN Took(p, res)
              ELSE IF g.ids = <<>> THEN Took(g.p, <<>>)
              ELSE Took(g.p, <<[Header(g.ids[1], "hdr") EXCEPT !.dat = [n \in 1..MHLEN |-> 0]]>> \o res)
      Grow(acc, k) ==
        LET n == MGET(acc.p)
            cl == MCLALLOC(n.p)
        IN IF acc.c = <<>> \/ Len(Octets(acc.c)) >= Mtu THEN acc
           ELSE IF n.ids = <<>> \/ cl = {}
           THEN Took(m_freem([n.p EXCEPT !.mfree = @ \cup ToSet(n.ids)], acc.c), <<>>)
           ELSE LET c == Min(cl)
                IN Took(MCLREF(n.p, c),
                        Append(acc.c, [Blank(n.ids[1], "data") EXCEPT
                                         !.cl = c, !.dat = [j \in 1..MclBytes |-> 0]]))
      full == FoldLeft(Grow, head, [k \in 1..Mtu |-> k])
  IN IF ~kept /\ g.ids = <<>> THEN Took(m_freem(g.p, res), <<>>)
     ELSE Took(full.p, IF full.c = <<>> THEN <<>> ELSE [full.c EXCEPT ![1].plen = Len(Octets(full.c))])

\* [pkt, res]: the frame fills the mbufs in turn, the last is shortened, and
\* what is behind it stays the reserve.
copy_to_mbuf_body(res, frame) ==
  LET used == {n \in DOMAIN res : Before(res, n) < Len(frame)}
      k == Max(used)
      fill(n) == SubSeq(frame, Before(res, n) + 1, Least2(Len(frame), Before(res, n) + Len(res[n].dat)))
  IN [pkt |-> [n \in 1..k |-> [res[n] EXCEPT !.dat = fill(n),
                                             !.plen = IF n = 1 THEN Len(frame) ELSE @]],
      res |-> Drop(res, k)]

-----------------------------------------------------------------------------
MbufInit ==
  /\ pool = mbinit /\ mops = 0
  /\ chain = [x \in {"a", "b", "res", "pkt"} |-> <<>>]
  /\ want = [x \in {"a", "b", "pkt"} |-> <<>>]

\* The chain x becomes what the call returned; it holds w unless it is NULL.
Becomes(x, r, w) ==
  /\ mops < MaxMbufOps /\ mops' = mops + 1
  /\ pool' = r.p /\ chain' = [chain EXCEPT ![x] = r.c]
  /\ want' = [want EXCEPT ![x] = IF r.c = <<>> THEN <<>> ELSE w]

Data(n) == [k \in 1..n |-> k]

\* mbuf_get, mbuf_gethdr, and a header mbuf with a cluster (MCLGET).
Get(x) ==
  LET g == MGET(pool)
  IN /\ chain[x] = <<>> /\ g.ids # <<>>
     /\ \/ Becomes(x, Took(g.p, <<[Blank(g.ids[1], "data") EXCEPT !.dat = Data(MLEN - 1)]>>), Data(MLEN - 1))
        \/ Becomes(x, Took(g.p, <<[Header(g.ids[1], "data") EXCEPT !.dat = Data(MHLEN), !.plen = MHLEN]>>),
                   Data(MHLEN))
        \/ \E c \in MCLALLOC(g.p) :
             Becomes(x, Took(MCLREF(g.p, c),
                             <<[Header(g.ids[1], "data") EXCEPT !.cl = c, !.off = 0,
                                  !.dat = Data(MclBytes), !.plen = MclBytes]>>),
                     Data(MclBytes))

mbuf_free(x) == chain[x] # <<>> /\ Becomes(x, Took(m_free(pool, chain[x][1]), Tail(chain[x])),
                                           Octets(Tail(chain[x])))
mbuf_freem(x) == chain[x] # <<>> /\ Becomes(x, Took(m_freem(pool, chain[x]), <<>>), <<>>)

mbuf_prepend(x) ==
  \E n \in {1, MHLEN} :
    chain[x] # <<>> /\ Becomes(x, M_PREPEND(pool, chain[x], [k \in 1..n |-> 9]),
                               [k \in 1..n |-> 9] \o want[x])

mbuf_copym(x, y) ==
  \E off \in 0..1, len \in {1, Len(want[x]) - 1, Len(want[x])} :
    /\ chain[x] # <<>> /\ chain[y] = <<>> /\ len \in Nat
    /\ Becomes(y, m_copym(pool, chain[x], off, len), m_copydata(chain[x], off, len))

mbuf_cat(x, y) ==
  LET r == m_cat(pool, chain[x], chain[y])
  IN /\ chain[x] # <<>> /\ chain[y] # <<>>
     /\ mops < MaxMbufOps /\ mops' = mops + 1
     /\ pool' = r.p /\ chain' = [chain EXCEPT ![x] = r.c, ![y] = <<>>]
     /\ want' = [want EXCEPT ![x] = @ \o want[y], ![y] = <<>>]

mbuf_adj(x) ==
  \E n \in {-(MLEN + 1), -1, 1, MLEN} :
    /\ chain[x] # <<>>
    /\ Becomes(x, Took(pool, m_adj(chain[x], n)),
               IF n >= 0 THEN Drop(want[x], Least2(n, Len(want[x])))
               ELSE Keep(want[x], IF Len(want[x]) > -n THEN Len(want[x]) + n ELSE 0))

mbuf_pullup(x) ==
  \E n \in {1, MHLEN} : chain[x] # <<>> /\ Becomes(x, m_pullup(pool, chain[x], n), want[x])

\* The request is posted again: its reserve is made up.
Reserve ==
  LET r == ioip_alloc_mbuf(pool, chain["res"])
  IN /\ chain["pkt"] = <<>> /\ mops < MaxMbufOps /\ mops' = mops + 1
     /\ pool' = r.p /\ chain' = [chain EXCEPT !["res"] = r.c]
     /\ UNCHANGED want

\* A frame arrives; the reserve must be ready for it, or the frame is refused.
m_copy_to_mbuf ==
  \E n \in {1, MHLEN + 1, Mtu} :
    LET res == chain["res"]
        f   == copy_to_mbuf_body(res, Data(n))
    IN /\ res # <<>> /\ res[1].hdr /\ n <= Len(Octets(res))
       /\ mops < MaxMbufOps /\ mops' = mops + 1
       /\ chain' = [chain EXCEPT !["res"] = f.res, !["pkt"] = f.pkt]
       /\ want' = [want EXCEPT !["pkt"] = Data(n)] /\ UNCHANGED pool

\* A driver that moves the frame by DMA writes it into the first cluster behind
\* the header, which becomes a packet without the header mbuf.
m_dma_to_mbuf32 ==
  \E n \in {1, MclBytes} :
    LET res == chain["res"]
    IN /\ Len(res) > 1 /\ res[1].hdr /\ res[2].cl # 0 /\ n <= Mtu
       /\ mops < MaxMbufOps /\ mops' = mops + 1
       /\ pool' = m_freem(pool, <<res[1]>>)
       /\ chain' = [chain EXCEPT !["res"] = Drop(res, 2),
                      !["pkt"] = <<[res[2] EXCEPT !.hdr = TRUE, !.dat = Data(n), !.plen = n]>>]
       /\ want' = [want EXCEPT !["pkt"] = Data(n)]

\* The packet goes up to the stack.
TakePacket(x) ==
  /\ chain["pkt"] # <<>> /\ chain[x] = <<>>
  /\ chain' = [chain EXCEPT ![x] = chain["pkt"], !["pkt"] = <<>>]
  /\ want' = [want EXCEPT ![x] = want["pkt"], !["pkt"] = <<>>]
  /\ UNCHANGED <<pool, mops>>

MbufNext ==
  \/ Reserve \/ m_copy_to_mbuf \/ m_dma_to_mbuf32
  \/ \E x \in {"a", "b"} :
       \/ Get(x) \/ mbuf_free(x) \/ mbuf_freem(x) \/ mbuf_prepend(x)
       \/ mbuf_adj(x) \/ mbuf_pullup(x) \/ TakePacket(x)
       \/ \E y \in {"a", "b"} \ {x} : mbuf_copym(x, y) \/ mbuf_cat(x, y)

-----------------------------------------------------------------------------
\* Every mbuf is free or in one place of one chain and none is lost; a cluster
\* has as many references as mbufs that use it; no mbuf is longer than its
\* storage; every chain holds the octets its calls promise; and a reserve with
\* its header is long enough for a packet.
MbufSound ==
  LET at == {<<x, n>> : x \in DOMAIN chain, n \in 1..(2 * MaxChunks * MbufChunk)}
      used == {t \in at : t[2] \in DOMAIN chain[t[1]]}
      mb(t) == chain[t[1]][t[2]]
  IN /\ \A t, u \in used : mb(t).id = mb(u).id => t = u
     /\ {mb(t).id : t \in used} \cap pool.mfree = {}
     /\ {mb(t).id : t \in used} \cup pool.mfree = 1..(pool.chunks * MbufChunk)
     /\ \A c \in 1..Clusters : pool.cref[c] = Cardinality({t \in used : mb(t).cl = c})
     /\ \A t \in used : mb(t).off + Len(mb(t).dat) <= Room(mb(t))
     /\ \A x \in DOMAIN want : Octets(chain[x]) = want[x]
     /\ chain["res"] # <<>> /\ chain["res"][1].hdr => Len(Octets(chain["res"])) >= Mtu
=============================================================================
