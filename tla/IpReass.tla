------------------------------ MODULE IpReass -------------------------------
(***************************************************************************)
(* IP fragment reassembly: the fragment part of ipintr, ip_reass,          *)
(* ip_freef, ip_slowtimo, ip_drain and the reset in ip_init, all in        *)
(* src/src/netinet/ip_input.c.  It runs in the network task at splnet, so  *)
(* each entry point is one step.                                           *)
(*                                                                         *)
(* Sizes are in units of 8 bytes, the granularity of a fragment offset.  A *)
(* datagram is named by the key ipintr compares (id, source, destination,  *)
(* protocol).  A fragment carries its data, so that what is delivered can  *)
(* be compared with what was sent: byte n of every datagram is n.          *)
(***************************************************************************)
EXTENDS Integers, Sequences, FiniteSets, SequencesExt

CONSTANTS
  Grams,       \* keys of datagrams
  Size,        \* Size[g]: length of datagram g
  Pieces,      \* Pieces[g]: the fragments <<off, len>> of g that can arrive
  MaxPackets,  \* IP_MAXFRAGPACKETS (8)
  MaxPerPacket,\* IP_MAXFRAGSPERPACKET (64)
  MaxData,     \* the largest length ip_len holds (32767 bytes)
  TTL,         \* IPFRAGTTL (60 half-second ticks)
  MaxCount     \* bound on ip_nfrags, which is unbounded in the code

ASSUME SizeAssumption  == Size \in [Grams -> Nat]
ASSUME PieceAssumption ==
  \A g \in Grams : \A p \in Pieces[g] :
    p[1] \in Nat /\ p[2] \in Nat /\ p[1] + p[2] <= Size[g] /\ p[2] # Size[g]
ASSUME LimitAssumption == /\ MaxPackets \in Nat \ {0} /\ MaxPerPacket \in Nat \ {0}
                          /\ MaxData \in Nat /\ TTL \in Nat \ {0}
                          /\ MaxCount \in Nat

VARIABLES
  ipq,        \* the reassembly queues, newest first: key, ipq_ttl,
              \* ipq_nfrags and the fragments in order of offset
  ip_nfrags,  \* number of reassembly queues
  out         \* what became of the last packet: what was delivered, if any

reassvars == <<ipq, ip_nfrags, out>>

\* bytes a .. a+n-1 of a datagram
Bytes(a, n) == [k \in 1 .. n |-> a + k - 1]

\* ip_off, ip_len, ipf_mff and the mbuf data
Frag(g, off, len) == [off |-> off, len |-> len, mff |-> off + len < Size[g],
                      data |-> Bytes(off, len)]

Nothing == [did |-> "nothing", key |-> {}, len |-> 0, data |-> <<>>]
Dropped(g) == [did |-> "dropped", key |-> {g}, len |-> 0, data |-> <<>>]
Queued(g) == [did |-> "queued", key |-> {g}, len |-> 0, data |-> <<>>]
Delivered(g, len, data) ==
  [did |-> "delivered", key |-> {g}, len |-> len, data |-> data]

ReassInit == ipq = <<>> /\ ip_nfrags = 0 /\ out = Nothing

-----------------------------------------------------------------------------
(* The list of fragments of one queue.                                     *)

\* m_adj: i units off the front
Adj(f, i) == [f EXCEPT !.off = @ + i, !.len = @ - i,
                       !.data = SubSeq(@, i + 1, Len(@))]

\* the first of some positions of a list, or the position behind its end
Earliest(js, fr) ==
  IF js = {} THEN Len(fr) + 1 ELSE CHOOSE j \in js : \A k \in js : j <= k

\* index of the first fragment that begins after off
FirstAfter(fr, off) == Earliest({j \in DOMAIN fr : fr[j].off > off}, fr)

\* what the preceding fragment already provides of f
Overlap(p, f) == p.off + p.len - f.off

Uncovered_NoTrim(s, end) == s

\* the succeeding fragments, those f covers removed and the next one trimmed
Uncovered(s, end) ==
  LET j == Earliest({k \in DOMAIN s : s[k].off >= end \/ s[k].off + s[k].len > end}, s)
  IN  IF j <= Len(s) /\ s[j].off < end
        THEN <<Adj(s[j], end - s[j].off)>> \o SubSeq(s, j + 1, Len(s))
        ELSE SubSeq(s, j, Len(s))

\* no gap from 0 on, and the last fragment is not followed by more
Complete(fr) ==
  /\ \A j \in DOMAIN fr :
       fr[j].off = IF j = 1 THEN 0 ELSE fr[j - 1].off + fr[j - 1].len
  /\ ~fr[Len(fr)].mff

TotalLen(fr) ==
  LET next[j \in 0 .. Len(fr)] == IF j = 0 THEN 0 ELSE next[j - 1] + fr[j].len
  IN  next[Len(fr)]
AllData(fr) ==
  LET data[j \in 0 .. Len(fr)] == IF j = 0 THEN <<>> ELSE data[j - 1] \o fr[j].data
  IN  data[Len(fr)]

-----------------------------------------------------------------------------
(* The queues.                                                             *)

Index(g) == {j \in DOMAIN ipq : ipq[j].key = g}

NewQueue(g) == [key |-> g, ttl |-> TTL, nfrags |-> 0, frags |-> <<>>]

\* ip_freef's half of the counter
Decrement(n) == IF n > 0 THEN n - 1 ELSE 0

\* ip_reass makes room before it creates a queue: it evicts the oldest one
Evicts(q, n) == n >= MaxPackets /\ q # <<>>
RoomFor(q, n) == IF Evicts(q, n) THEN Front(q) ELSE q

\* the queue has all the fragments it may have
AtLimit(nfrags) == nfrags >= MaxPerPacket

-----------------------------------------------------------------------------
(* Entry points.                                                           *)

\* ip_reass from its insert label on: queue j of q has lost the overlaps and
\* the fragment goes between pre and post; n is ip_nfrags
Insert(g, q, j, pre, f, post, n) ==
  LET old == q[j]
      kept == old.nfrags - (Len(old.frags) - Len(pre) - Len(post))
      fr == pre \o <<f>> \o post
      rest == RemoveAt(q, j)
  IN  CASE AtLimit(kept) ->
             /\ ipq' = [q EXCEPT ![j] = [old EXCEPT !.frags = pre \o post,
                                                    !.nfrags = kept]]
             /\ ip_nfrags' = n /\ out' = Dropped(g)
        [] ~AtLimit(kept) /\ ~Complete(fr) ->
             /\ ipq' = [q EXCEPT ![j] = [old EXCEPT !.frags = fr,
                                                    !.nfrags = kept + 1]]
             /\ ip_nfrags' = n /\ out' = Queued(g)
        [] ~AtLimit(kept) /\ Complete(fr) /\ TotalLen(fr) > MaxData ->
             /\ ipq' = rest /\ ip_nfrags' = Decrement(n) /\ out' = Dropped(g)
        [] ~AtLimit(kept) /\ Complete(fr) /\ TotalLen(fr) <= MaxData ->
             \* remque and m_free, not ip_freef: ip_nfrags is left alone
             /\ ipq' = rest /\ ip_nfrags' = n
             /\ out' = Delivered(g, TotalLen(fr), AllData(fr))

\* the first fragment of a datagram to arrive
FirstFragment(g, f) ==
  /\ Index(g) = {} /\ ip_nfrags < MaxCount
  /\ LET q == RoomFor(ipq, ip_nfrags)
         n == IF Evicts(ipq, ip_nfrags) THEN Decrement(ip_nfrags) ELSE ip_nfrags
     IN  \/ Insert(g, <<NewQueue(g)>> \o q, 1, <<>>, f, <<>>, n + 1)
         \/ /\ ipq' = q /\ ip_nfrags' = n       \* no mbuf for the queue head
            /\ out' = Dropped(g)

\* a further one: cut it against its predecessor, and its successors against it
NextFragment(g, f) ==
  \E j \in Index(g) :
    LET fr == ipq[j].frags
        k == FirstAfter(fr, f.off)
        i == IF k = 1 THEN 0 ELSE Overlap(fr[k - 1], f)
        g2 == IF i > 0 THEN Adj(f, i) ELSE f
    IN  IF i > 0 /\ i >= f.len
          THEN UNCHANGED <<ipq, ip_nfrags>> /\ out' = Dropped(g)
          ELSE Insert(g, ipq, j, SubSeq(fr, 1, k - 1), g2,
                      Uncovered(SubSeq(fr, k, Len(fr)), g2.off + g2.len),
                      ip_nfrags)

\* ipintr hands a fragment to ip_reass.  Fragments of a datagram may be any
\* part of it, in any order, repeated and overlapping.
FragmentArrives(g) ==
  \E p \in Pieces[g] : \/ FirstFragment(g, Frag(g, p[1], p[2]))
                       \/ NextFragment(g, Frag(g, p[1], p[2]))

\* a whole datagram with the key of a queue replaces it
WholeArrives(g) ==
  \E j \in Index(g) :
    /\ ipq' = RemoveAt(ipq, j) /\ ip_nfrags' = Decrement(ip_nfrags)
    /\ out' = Delivered(g, Size[g], Bytes(0, Size[g]))

\* ip_slowtimo: age every queue, free those that reach 0
Aged_NewestOnly == IF ipq = <<>> THEN ipq ELSE [ipq EXCEPT ![1].ttl = @ - 1]
Aged == [j \in DOMAIN ipq |-> [ipq[j] EXCEPT !.ttl = @ - 1]]
Timo(q) == q.ttl > 0
Unexpired(qs) ==
  LET left[j \in 0 .. Len(qs)] ==
        IF j = 0 THEN <<>>
        ELSE IF Timo(qs[j]) THEN Append(left[j - 1], qs[j]) ELSE left[j - 1]
  IN  left[Len(qs)]
SlowTimo ==
  /\ ipq # <<>>
  /\ ipq' = Unexpired(Aged)
  /\ LET expired == Len(ipq) - Len(Unexpired(Aged))
     IN  ip_nfrags' = IF ip_nfrags > expired THEN ip_nfrags - expired ELSE 0
  /\ out' = Nothing

\* ip_drain, when mbufs run short
DrainQueues ==
  /\ ipq # <<>>
  /\ ipq' = <<>>
  /\ ip_nfrags' = IF ip_nfrags > Len(ipq) THEN ip_nfrags - Len(ipq) ELSE 0
  /\ out' = Nothing

\* ip_init on the next stack start
Restart == ipq' = <<>> /\ ip_nfrags' = 0 /\ out' = Nothing

ReassNext == \/ \E g \in Grams : FragmentArrives(g) \/ WholeArrives(g)
        \/ SlowTimo \/ DrainQueues \/ Restart

ReassSpec == ReassInit /\ [][ReassNext]_reassvars
ReassFairSpec == ReassSpec /\ WF_reassvars(SlowTimo)

-----------------------------------------------------------------------------
(* Properties.                                                             *)

QueueType ==
  [key : Grams, ttl : 1 .. TTL, nfrags : Nat,
   frags : Seq([off : Nat, len : Nat, mff : BOOLEAN, data : Seq(Nat)])]

(* Types of the reassembly state and of what ip_reass did last.            *)
ReassTypeOK == /\ ipq \in Seq(QueueType) /\ ip_nfrags \in Nat
          /\ out.did \in {"nothing", "dropped", "queued", "delivered"}
          /\ out.key \subseteq Grams /\ out.len \in Nat

(* What is delivered is the datagram that was sent: every byte once and in *)
(* order, with the length to match, however its fragments overlapped.      *)
DeliveredWhole ==
  out.did = "delivered" =>
    \A g \in out.key : out.len = Size[g] /\ out.data = Bytes(0, Size[g])

(* A queue holds each byte at most once, in order, and ipq_nfrags counts   *)
(* its fragments.                                                          *)
FragsDisjoint ==
  \A j \in DOMAIN ipq :
    /\ ipq[j].nfrags = Len(ipq[j].frags)
    /\ \A a, b \in DOMAIN ipq[j].frags :
         a < b => ipq[j].frags[a].off + ipq[j].frags[a].len <= ipq[j].frags[b].off

\* the bytes a queue holds
Held(q) == UNION {Range(q.frags[a].data) : a \in DOMAIN q.frags}

(* No queue holds all of its datagram: the last missing fragment always    *)
(* completes it, so that only a lost fragment makes a queue time out.      *)
NoneCompleteQueued ==
  \A j \in DOMAIN ipq : Held(ipq[j]) # Range(Bytes(0, Size[ipq[j].key]))

(* The pool is bounded: at most IP_MAXFRAGPACKETS queues of at most        *)
(* IP_MAXFRAGSPERPACKET fragments, and one queue per datagram.             *)
QueuesBounded ==
  /\ Len(ipq) <= MaxPackets
  /\ \A j \in DOMAIN ipq : ipq[j].nfrags <= MaxPerPacket
  /\ \A j, k \in DOMAIN ipq : ipq[j].key = ipq[k].key => j = k

(* ip_nfrags never falls below the number of queues.                       *)
CountCovers == ip_nfrags >= Len(ipq)

(* ip_nfrags is the number of reassembly queues.                           *)
CountExact == ip_nfrags = Len(ipq)

(* Every queue leaves: completed, evicted, replaced or timed out.          *)
QueuesLeave == \A g \in Grams : (Index(g) # {}) ~> (Index(g) = {})

(* ip_reass keeps its queues in order: disjoint pieces, counted, bounded,   *)
(* none of them complete, and what leaves as a datagram is the one sent.    *)
ReassSound == /\ DeliveredWhole /\ FragsDisjoint /\ NoneCompleteQueued
              /\ QueuesBounded /\ CountCovers
=============================================================================
