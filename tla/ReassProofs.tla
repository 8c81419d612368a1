---------------------------- MODULE ReassProofs -----------------------------
(***************************************************************************)
(* ReassSound of IpReass, proved for datagrams of any sizes, cut into any  *)
(* overlapping pieces that arrive in any order and any number of times,    *)
(* and for any limits of queues, fragments and bytes.                      *)
(*                                                                         *)
(* A queue's fragments are pieces of its datagram, each with the data that *)
(* belongs at its offset, in order and disjoint (ListOK), and some byte is *)
(* in none of them (Lacks).  Cutting a fragment against its predecessor    *)
(* and its successors against it keeps the first; the second is what the   *)
(* test for completeness decides, so the two together say that the queue   *)
(* is joined exactly when nothing is missing.                              *)
(***************************************************************************)
EXTENDS IpReass, SequenceTheorems, WellFoundedInduction, TLAPS

EndOf(f) == f.off + f.len
FragSet == [off : Nat, len : Nat, mff : BOOLEAN, data : Seq(Int)]

\* f is a piece of datagram g.
IsFrag(g, f) == /\ f.off \in Nat /\ f.len \in Nat /\ EndOf(f) <= Size[g]
                /\ f = Frag(g, f.off, f.len)
\* A list of pieces of g, in order and disjoint.
ListOK(g, fr) == /\ fr \in Seq(FragSet)
                 /\ \A a \in 1 .. Len(fr) : IsFrag(g, fr[a])
                 /\ \A a, b \in 1 .. Len(fr) : a < b => EndOf(fr[a]) <= fr[b].off
\* A byte of g is in none of the fragments.
Outside(b, f) == b < f.off \/ EndOf(f) <= b
Lacks(g, fr) == \E b \in 0 .. Size[g] - 1 : \A a \in 1 .. Len(fr) : Outside(b, fr[a])

QueueSet == [key : Grams, ttl : Int, nfrags : Nat, frags : Seq(FragSet)]
QueueOK(q) == /\ q.nfrags = Len(q.frags) /\ q.nfrags <= MaxPerPacket
              /\ ListOK(q.key, q.frags) /\ Lacks(q.key, q.frags)

\* The queues qs with the count n.
QueuesOK(qs, n) ==
  /\ qs \in Seq(QueueSet) /\ n \in Nat
  /\ Len(qs) <= n /\ Len(qs) <= MaxPackets
  /\ \A j \in 1 .. Len(qs) : QueueOK(qs[j])
  /\ \A j, k \in 1 .. Len(qs) : qs[j].key = qs[k].key => j = k

ReassInv == QueuesOK(ipq, ip_nfrags) /\ DeliveredWhole

-----------------------------------------------------------------------------
(* Numbers.                                                                *)

\* A set of numbers has a least one.
LEMMA LeastOne ==
  ASSUME NEW S, S \subseteq Nat, S # {}
  PROVE  \E x \in S : \A y \in S : x <= y
<1>1. PICK x \in S : \A y \in S : <<y, x>> \notin OpToRel(<, Nat)
  BY NatLessThanWellFounded, WFMin, Zenon
<1>2. \A y \in S : ~(y < x)
  BY <1>1, Zenon DEF OpToRel
<1> QED BY <1>2

\* What holds of 0 and of the successors up to N holds up to N.
LEMMA CountUp ==
  ASSUME NEW N \in Nat, NEW T, 0 \in T, \A n \in 1 .. N : n - 1 \in T => n \in T
  PROVE  \A n \in 0 .. N : n \in T
<1> DEFINE Bad == {n \in 0 .. N : n \notin T}
<1>1. SUFFICES ASSUME Bad # {} PROVE FALSE
  OBVIOUS
<1>2. Bad \subseteq Nat
  OBVIOUS
<1>3. PICK x \in Bad : \A y \in Bad : x <= y
  <2> HIDE DEF Bad
  <2> QED BY <1>1, <1>2, LeastOne
<1>4. x \in 1 .. N /\ x - 1 \in 0 .. N /\ ~(x <= x - 1)
  OBVIOUS
<1> QED BY <1>3, <1>4

\* The earliest of some positions of a list is its least element.
LEMMA EarliestIs ==
  ASSUME NEW R, NEW s \in Seq(R), NEW js, js \subseteq DOMAIN s
  PROVE  /\ Earliest(js, s) \in 1 .. Len(s) + 1
         /\ Earliest(js, s) <= Len(s) => Earliest(js, s) \in js
         /\ \A k \in js : Earliest(js, s) <= k
<1>1. CASE js = {}
  BY <1>1 DEF Earliest
<1>2. CASE js # {}
  <2>1. js \subseteq Nat /\ \A k \in js : k \in 1 .. Len(s)
    OBVIOUS
  <2>2. \E j \in js : \A k \in js : j <= k
    BY <1>2, <2>1, LeastOne
  <2>3. Earliest(js, s) \in js /\ \A k \in js : Earliest(js, s) <= k
    BY <1>2, <2>2 DEF Earliest
  <2> QED BY <2>1, <2>3
<1> QED BY <1>1, <1>2

-----------------------------------------------------------------------------
(* Fragments.                                                              *)

LEMMA BytesAre ==
  ASSUME NEW a \in Nat, NEW n \in Nat
  PROVE  /\ Bytes(a, n) \in Seq(Int) /\ Len(Bytes(a, n)) = n
         /\ \A k \in 1 .. n : Bytes(a, n)[k] = a + k - 1
BY DEF Bytes

\* The bytes without the first i, and two pieces that meet.
LEMMA BytesCut ==
  ASSUME NEW a \in Nat, NEW n \in Nat, NEW i \in 0 .. n
  PROVE  SubSeq(Bytes(a, n), i + 1, n) = Bytes(a + i, n - i)
<1> DEFINE L == SubSeq(Bytes(a, n), i + 1, n)
           R == Bytes(a + i, n - i)
<1>1. L \in Seq(Int) /\ Len(L) = n - i /\ \A k \in 1 .. n - i : L[k] = a + i + k - 1
  <2> DEFINE B == Bytes(a, n)
  <2>1. B \in Seq(Int) /\ Len(B) = n /\ \A k \in 1 .. n : B[k] = a + k - 1
    BY BytesAre
  <2> HIDE DEF B
  <2>2. /\ SubSeq(B, i + 1, n) \in Seq(Int) /\ Len(SubSeq(B, i + 1, n)) = n - i
        /\ \A k \in 1 .. n - i : SubSeq(B, i + 1, n)[k] = B[i + k]
    BY <2>1, SubSeqProperties
  <2>3. \A k \in 1 .. n - i : i + k \in 1 .. n /\ B[i + k] = a + i + k - 1
    BY <2>1
  <2>4. L = SubSeq(B, i + 1, n)
    BY DEF B
  <2> QED BY <2>2, <2>3, <2>4
<1>2. R \in Seq(Int) /\ Len(R) = n - i /\ \A k \in 1 .. n - i : R[k] = a + i + k - 1
  <2>1. a + i \in Nat /\ n - i \in Nat
    OBVIOUS
  <2> QED BY <2>1, BytesAre
<1> HIDE DEF L, R
<1>3. Len(L) = Len(R) /\ \A k \in 1 .. Len(L) : L[k] = R[k]
  BY <1>1, <1>2
<1> QED BY <1>1, <1>2, <1>3, SeqEqual DEF L, R

LEMMA BytesJoin ==
  ASSUME NEW n \in Nat, NEW m \in Nat
  PROVE  Bytes(0, n) \o Bytes(n, m) = Bytes(0, n + m)
<1> DEFINE L == Bytes(0, n) \o Bytes(n, m)
           R == Bytes(0, n + m)
<1>1. L \in Seq(Int) /\ Len(L) = n + m /\ \A k \in 1 .. n + m : L[k] = k - 1
  <2> DEFINE A == Bytes(0, n)
             B == Bytes(n, m)
  <2>1. A \in Seq(Int) /\ Len(A) = n /\ \A k \in 1 .. n : A[k] = k - 1
    BY BytesAre
  <2>2. B \in Seq(Int) /\ Len(B) = m /\ \A k \in 1 .. m : B[k] = n + k - 1
    BY BytesAre
  <2> HIDE DEF A, B
  <2>3. /\ A \o B \in Seq(Int) /\ Len(A \o B) = n + m
        /\ \A k \in 1 .. n + m : (A \o B)[k] = IF k <= n THEN A[k] ELSE B[k - n]
    BY <2>1, <2>2, ConcatProperties
  <2>4. L = A \o B
    BY DEF A, B
  <2>5. \A k \in 1 .. n + m : ~(k <= n) => k - n \in 1 .. m
    OBVIOUS
  <2>6. \A k \in 1 .. n + m : (A \o B)[k] = k - 1
    BY <2>1, <2>2, <2>3, <2>5
  <2> QED BY <2>3, <2>4, <2>6
<1>2. R \in Seq(Int) /\ Len(R) = n + m /\ \A k \in 1 .. n + m : R[k] = k - 1
  BY BytesAre
<1> HIDE DEF L, R
<1>3. Len(L) = Len(R) /\ \A k \in 1 .. Len(L) : L[k] = R[k]
  BY <1>1, <1>2
<1> QED BY <1>1, <1>2, <1>3, SeqEqual DEF L, R

LEMMA FragFields ==
  ASSUME NEW g \in Grams, NEW f, IsFrag(g, f)
  PROVE  /\ f.off \in Nat /\ f.len \in Nat /\ EndOf(f) \in Nat /\ EndOf(f) <= Size[g]
         /\ EndOf(f) = f.off + f.len /\ f.off <= EndOf(f)
         /\ f.mff <=> EndOf(f) < Size[g]
         /\ f.data = Bytes(f.off, f.len)
<1> DEFINE o == f.off
           l == f.len
<1>1. o \in Nat /\ l \in Nat /\ o + l <= Size[g] /\ f = Frag(g, o, l) /\ EndOf(f) = o + l
  BY DEF IsFrag, EndOf
<1> HIDE DEF o, l
<1>2. Frag(g, o, l).mff = (o + l < Size[g]) /\ Frag(g, o, l).data = Bytes(o, l)
  BY DEF Frag
<1>3. f.mff <=> EndOf(f) < Size[g]
  BY <1>1, <1>2
<1> QED BY <1>1, <1>2, <1>3 DEF o, l

LEMMA FragIs ==
  ASSUME NEW g \in Grams, NEW off \in Nat, NEW len \in Nat, off + len <= Size[g]
  PROVE  /\ IsFrag(g, Frag(g, off, len)) /\ Frag(g, off, len) \in FragSet
         /\ Frag(g, off, len).off = off /\ Frag(g, off, len).len = len
BY BytesAre, SizeAssumption DEF IsFrag, Frag, FragSet, EndOf

LEMMA SameFrag ==
  ASSUME NEW f \in FragSet, NEW h \in FragSet,
         f.off = h.off, f.len = h.len, f.mff = h.mff, f.data = h.data
  PROVE  f = h
BY DEF FragSet

LEMMA AdjIs ==
  ASSUME NEW f \in FragSet, NEW i \in 0 .. f.len
  PROVE  /\ Adj(f, i) \in FragSet
         /\ Adj(f, i).off = f.off + i /\ Adj(f, i).len = f.len - i
         /\ Adj(f, i).mff = f.mff /\ Adj(f, i).data = SubSeq(f.data, i + 1, Len(f.data))
<1>1. f.off + i \in Nat /\ f.len - i \in Nat
  BY DEF FragSet
<1>2. SubSeq(f.data, i + 1, Len(f.data)) \in Seq(Int)
  BY DEF FragSet
<1> QED BY <1>1, <1>2 DEF Adj, FragSet

\* m_adj leaves the rest of the piece.
LEMMA AdjFrag ==
  ASSUME NEW g \in Grams, NEW f \in FragSet, IsFrag(g, f), NEW i \in 0 .. f.len
  PROVE  /\ IsFrag(g, Adj(f, i)) /\ Adj(f, i) \in FragSet
         /\ Adj(f, i).off = f.off + i /\ EndOf(Adj(f, i)) = EndOf(f)
<1> DEFINE o == f.off
           l == f.len
           a == Adj(f, i)
           h == Frag(g, o + i, l - i)
<1>1. /\ o \in Nat /\ l \in Nat /\ o + l <= Size[g] /\ Size[g] \in Nat /\ i \in 0 .. l
      /\ f.mff = (o + l < Size[g]) /\ f.data = Bytes(o, l)
  BY SizeAssumption DEF IsFrag, EndOf, Frag
<1>2. /\ a \in FragSet /\ a.off = o + i /\ a.len = l - i
      /\ a.mff = f.mff /\ a.data = SubSeq(f.data, i + 1, Len(f.data))
  BY AdjIs
<1>3. EndOf(f) = o + l /\ EndOf(a) = a.off + a.len
  BY DEF EndOf
<1> HIDE DEF o, l, a
<1>4. o + i \in Nat /\ l - i \in Nat /\ (o + i) + (l - i) = o + l
  BY <1>1
<1>5. h \in FragSet /\ IsFrag(g, h) /\ h.off = o + i /\ h.len = l - i
  BY <1>1, <1>4, FragIs
<1>6. h.mff = (o + l < Size[g]) /\ h.data = Bytes(o + i, l - i)
  <2>1. h.mff = ((o + i) + (l - i) < Size[g]) /\ h.data = Bytes(o + i, l - i)
    BY DEF Frag
  <2> QED BY <1>4, <2>1
<1>7. a.data = Bytes(o + i, l - i)
  <2>1. Len(Bytes(o, l)) = l
    BY <1>1, BytesAre
  <2>2. SubSeq(Bytes(o, l), i + 1, l) = Bytes(o + i, l - i)
    BY <1>1, BytesCut
  <2>3. Len(f.data) = l
    BY <1>1, <2>1
  <2>4. a.data = SubSeq(Bytes(o, l), i + 1, l)
    BY <1>1, <1>2, <2>3
  <2> QED BY <2>2, <2>4
<1>8. a = h
  BY <1>1, <1>2, <1>5, <1>6, <1>7, SameFrag
<1> QED BY <1>2, <1>3, <1>4, <1>5, <1>8 DEF a, o

-----------------------------------------------------------------------------
(* Lists of fragments.                                                     *)

\* The part of a list from j on, and two lists with the second behind the first.
LEMMA PartOK ==
  ASSUME NEW g \in Grams, NEW fr, ListOK(g, fr),
         NEW m \in 1 .. Len(fr) + 1, NEW n \in 0 .. Len(fr), m <= n + 1
  PROVE  /\ ListOK(g, SubSeq(fr, m, n)) /\ Len(SubSeq(fr, m, n)) = n - m + 1
         /\ \A i \in 1 .. n - m + 1 : SubSeq(fr, m, n)[i] = fr[m + i - 1]
<1> DEFINE p == SubSeq(fr, m, n)
<1>1. fr \in Seq(FragSet) /\ m \in Int /\ n \in Int /\ Len(fr) \in Nat
      /\ \A i \in m .. n : i \in 1 .. Len(fr) /\ fr[i] \in FragSet
  BY DEF ListOK
<1>2. /\ p \in Seq(FragSet) /\ Len(p) = n - m + 1
      /\ \A i \in 1 .. n - m + 1 : p[i] = fr[m + i - 1]
  BY <1>1, SubSeqProperties
<1> HIDE DEF p
<1>3. \A i \in 1 .. Len(p) : m + i - 1 \in 1 .. Len(fr)
  BY <1>1, <1>2
<1>4. ListOK(g, p)
  <2>1. \A i \in 1 .. Len(p) : p[i] = fr[m + i - 1] /\ IsFrag(g, fr[m + i - 1])
    BY <1>1, <1>2, <1>3 DEF ListOK
  <2>2. \A i, j \in 1 .. Len(fr) : i < j => EndOf(fr[i]) <= fr[j].off
    BY DEF ListOK
  <2>3. ASSUME NEW i \in 1 .. Len(p), NEW j \in 1 .. Len(p), i < j
        PROVE  EndOf(p[i]) <= p[j].off
    <3>1. m + i - 1 < m + j - 1 /\ m + i - 1 \in 1 .. Len(fr) /\ m + j - 1 \in 1 .. Len(fr)
      BY <1>1, <1>3, <2>3
    <3> QED BY <2>1, <2>2, <3>1
  <2> QED BY <1>2, <2>1, <2>3 DEF ListOK
<1> QED BY <1>2, <1>4 DEF p

LEMMA JoinOK ==
  ASSUME NEW g \in Grams, NEW p, ListOK(g, p), NEW q, ListOK(g, q),
         \A a \in 1 .. Len(p), b \in 1 .. Len(q) : EndOf(p[a]) <= q[b].off
  PROVE  /\ ListOK(g, p \o q) /\ Len(p \o q) = Len(p) + Len(q)
         /\ \A i \in 1 .. Len(p) + Len(q) :
              (p \o q)[i] = IF i <= Len(p) THEN p[i] ELSE q[i - Len(p)]
<1> DEFINE r == p \o q
<1>1. p \in Seq(FragSet) /\ q \in Seq(FragSet) /\ Len(p) \in Nat /\ Len(q) \in Nat
  BY DEF ListOK
<1>2. /\ r \in Seq(FragSet) /\ Len(r) = Len(p) + Len(q)
      /\ \A i \in 1 .. Len(p) + Len(q) :
           r[i] = IF i <= Len(p) THEN p[i] ELSE q[i - Len(p)]
  BY <1>1, ConcatProperties
<1> HIDE DEF r
<1>3. \A i \in 1 .. Len(r) :
        i \in 1 .. Len(p) \/ (~(i <= Len(p)) /\ i - Len(p) \in 1 .. Len(q))
  BY <1>1, <1>2
<1>4. ASSUME NEW i \in 1 .. Len(r)
      PROVE  IsFrag(g, r[i])
  <2>1. CASE i \in 1 .. Len(p)
    BY <1>1, <1>2, <2>1 DEF ListOK
  <2>2. CASE ~(i <= Len(p)) /\ i - Len(p) \in 1 .. Len(q)
    BY <1>1, <1>2, <2>2 DEF ListOK
  <2> QED BY <1>3, <2>1, <2>2
<1>5. ASSUME NEW i \in 1 .. Len(r), NEW j \in 1 .. Len(r), i < j
      PROVE  EndOf(r[i]) <= r[j].off
  <2>1. CASE j <= Len(p)
    BY <1>1, <1>2, <1>3, <1>5, <2>1 DEF ListOK
  <2>2. CASE ~(j <= Len(p)) /\ i <= Len(p)
    BY <1>1, <1>2, <1>3, <1>5, <2>2, SMTT(30)
  <2>3. CASE ~(j <= Len(p)) /\ ~(i <= Len(p))
    <3>1. /\ i - Len(p) \in 1 .. Len(q) /\ j - Len(p) \in 1 .. Len(q) /\ i - Len(p) < j - Len(p)
          /\ r[i] = q[i - Len(p)] /\ r[j] = q[j - Len(p)]
      BY <1>1, <1>2, <1>3, <1>5, <2>3
    <3> QED BY <3>1 DEF ListOK
  <2> QED BY <2>1, <2>2, <2>3
<1>6. ListOK(g, r)
  BY <1>2, <1>4, <1>5 DEF ListOK
<1> QED BY <1>2, <1>6 DEF r

\* One fragment.
LEMMA SingleOK ==
  ASSUME NEW g \in Grams, NEW f \in FragSet, IsFrag(g, f)
  PROVE  ListOK(g, <<f>>) /\ Len(<<f>>) = 1 /\ <<f>>[1] = f
BY DEF ListOK

\* Bytes missing from a list are missing from one whose fragments are parts of its.
LEMMA PartsLack ==
  ASSUME NEW g \in Grams, NEW fr, ListOK(g, fr), Lacks(g, fr), NEW s, ListOK(g, s),
         \A a \in 1 .. Len(s) : \E b \in 1 .. Len(fr) :
           fr[b].off <= s[a].off /\ EndOf(s[a]) <= EndOf(fr[b])
  PROVE  Lacks(g, s)
<1>1. PICK x \in 0 .. Size[g] - 1 : \A b \in 1 .. Len(fr) : Outside(x, fr[b])
  BY DEF Lacks
<1>2. ASSUME NEW a \in 1 .. Len(s)
      PROVE  Outside(x, s[a])
  <2>1. PICK b \in 1 .. Len(fr) : fr[b].off <= s[a].off /\ EndOf(s[a]) <= EndOf(fr[b])
    OBVIOUS
  <2>2. /\ fr[b].off \in Nat /\ s[a].off \in Nat /\ EndOf(s[a]) \in Nat /\ EndOf(fr[b]) \in Nat
    BY SMTT(30) DEF ListOK, IsFrag, EndOf
  <2>3. x \in Int /\ Outside(x, fr[b])
    BY <1>1, SizeAssumption
  <2> QED BY <2>1, <2>2, <2>3 DEF Outside
<1> QED BY <1>1, <1>2 DEF Lacks

\* What is left of the successors begins behind the end, and is part of what there was.
LEMMA UncoveredOK ==
  ASSUME NEW g \in Grams, NEW s, ListOK(g, s), NEW end \in Nat
  PROVE  LET u == Uncovered(s, end)
         IN  /\ ListOK(g, u) /\ Len(u) \in 0 .. Len(s)
             /\ \A a \in 1 .. Len(u) :
                  /\ end <= u[a].off
                  /\ \E b \in 1 .. Len(s) : s[b].off <= u[a].off /\ EndOf(u[a]) <= EndOf(s[b])
<1> DEFINE stay == {k \in DOMAIN s : s[k].off >= end \/ s[k].off + s[k].len > end}
           j == Earliest(stay, s)
           N == Len(s)
<1>1. /\ s \in Seq(FragSet) /\ N \in Nat
      /\ \A b \in 1 .. N : s[b] \in FragSet /\ IsFrag(g, s[b])
      /\ \A a, b \in 1 .. N : a < b => EndOf(s[a]) <= s[b].off
  BY DEF ListOK
<1>2. \A b \in 1 .. N : /\ s[b].off \in Nat /\ s[b].len \in Nat /\ EndOf(s[b]) \in Nat
                         /\ EndOf(s[b]) = s[b].off + s[b].len /\ s[b].off <= EndOf(s[b])
  BY <1>1 DEF IsFrag, EndOf
<1>3. j \in 1 .. N + 1 /\ (j <= N => j \in stay)
  BY <1>1, EarliestIs
<1>4. j <= N => s[j].off >= end \/ EndOf(s[j]) > end
  BY <1>2, <1>3
<1>5. Uncovered(s, end) = IF j <= N /\ s[j].off < end
                            THEN <<Adj(s[j], end - s[j].off)>> \o SubSeq(s, j + 1, N)
                            ELSE SubSeq(s, j, N)
  BY DEF Uncovered
<1> HIDE DEF stay, j, N
<1>6. CASE ~(j <= N /\ s[j].off < end)
  <2> DEFINE u == SubSeq(s, j, N)
  <2>1. /\ ListOK(g, u) /\ Len(u) = N - j + 1
        /\ \A i \in 1 .. N - j + 1 : u[i] = s[j + i - 1]
    BY <1>1, <1>3, PartOK DEF N
  <2>2. Uncovered(s, end) = u
    BY <1>5, <1>6
  <2> HIDE DEF u
  <2>3. Len(u) \in 0 .. N
    BY <1>1, <1>3, <2>1
  <2>4. ASSUME NEW a \in 1 .. Len(u)
        PROVE  /\ end <= u[a].off
               /\ \E b \in 1 .. N : s[b].off <= u[a].off /\ EndOf(u[a]) <= EndOf(s[b])
    <3>a. a \in 1 .. N - j + 1 /\ j \in Nat
      BY <1>1, <1>3, <2>1
    <3>1. u[a] = s[j + a - 1] /\ j + a - 1 \in 1 .. N /\ j <= N
      BY <1>1, <1>3, <2>1, <3>a
    <3>2. end <= s[j].off
      BY <1>2, <1>3, <1>6, <3>1
    <3>3. CASE a = 1
      <4>1. j + a - 1 = j /\ j \in 1 .. N
        BY <1>3, <3>1, <3>3, <3>a
      <4> QED BY <1>2, <3>1, <3>2, <4>1
    <3>4. CASE a # 1
      <4>1. j < j + a - 1 /\ j \in 1 .. N
        BY <1>1, <1>3, <3>1, <3>4
      <4>2. EndOf(s[j]) <= s[j + a - 1].off
        BY <1>1, <3>1, <4>1
      <4> DEFINE i == j + a - 1
      <4>3. s[j].off \in Nat /\ EndOf(s[j]) \in Nat /\ s[j].off <= EndOf(s[j])
        BY <1>2, <4>1
      <4>4. i \in 1 .. N /\ u[a] = s[i] /\ s[i].off \in Nat /\ EndOf(s[i]) \in Nat
        BY <1>2, <3>1
      <4>5. EndOf(s[j]) <= s[i].off
        BY <4>2
      <4> HIDE DEF i
      <4> QED BY <3>2, <4>3, <4>4, <4>5
    <3> QED BY <3>3, <3>4
  <2> QED BY <2>1, <2>2, <2>3, <2>4 DEF N
<1>7. CASE j <= N /\ s[j].off < end
  <2> DEFINE f == Adj(s[j], end - s[j].off)
             p == SubSeq(s, j + 1, N)
             u == <<f>> \o p
  <2>1. j \in 1 .. N /\ s[j] \in FragSet /\ IsFrag(g, s[j]) /\ end - s[j].off \in 0 .. s[j].len
    BY <1>1, <1>2, <1>3, <1>4, <1>7, SMTT(30)
  <2>2. /\ IsFrag(g, f) /\ f \in FragSet /\ f.off = s[j].off + (end - s[j].off)
        /\ EndOf(f) = EndOf(s[j])
    BY <2>1, AdjFrag
  <2>3. f.off = end
    BY <1>2, <2>1, <2>2
  <2>4. /\ ListOK(g, p) /\ Len(p) = N - (j + 1) + 1
        /\ \A i \in 1 .. N - (j + 1) + 1 : p[i] = s[(j + 1) + i - 1]
    <3>1. j + 1 \in 1 .. N + 1
      BY <1>1, <2>1
    <3>2. N \in 0 .. N /\ j + 1 <= N + 1
      BY <1>1, <2>1
    <3> QED BY <1>1, <3>1, <3>2, PartOK DEF N
  <2>5. ListOK(g, <<f>>) /\ Len(<<f>>) = 1 /\ <<f>>[1] = f
    BY <2>2, SingleOK
  <2>6. Uncovered(s, end) = u
    BY <1>5, <1>7
  <2> HIDE DEF f, p
  <2>7. \A i \in 1 .. Len(p) : p[i] = s[j + i] /\ j + i \in 1 .. N /\ j < j + i
    BY <1>1, <2>1, <2>4
  <2>8. \A i \in 1 .. Len(p) : EndOf(f) <= p[i].off
    BY <1>1, <2>1, <2>2, <2>7
  <2>9. /\ ListOK(g, u) /\ Len(u) = 1 + Len(p)
        /\ \A i \in 1 .. 1 + Len(p) : u[i] = IF i <= 1 THEN <<f>>[i] ELSE p[i - 1]
    <3> DEFINE o == <<f>>
    <3>1. ListOK(g, o) /\ Len(o) = 1 /\ o[1] = f
      BY <2>5
    <3>2. u = o \o p
      BY DEF u
    <3> HIDE DEF o
    <3>3. \A a \in 1 .. Len(o), b \in 1 .. Len(p) : EndOf(o[a]) <= p[b].off
      BY <2>8, <3>1
    <3>4. /\ ListOK(g, o \o p) /\ Len(o \o p) = Len(o) + Len(p)
          /\ \A i \in 1 .. Len(o) + Len(p) :
               (o \o p)[i] = IF i <= Len(o) THEN o[i] ELSE p[i - Len(o)]
      <4>1. ListOK(g, p)
        BY <2>4
      <4>2. ListOK(g, o)
        BY <3>1
      <4> QED BY <3>3, <4>1, <4>2, JoinOK
    <3>5. Len(p) \in Nat
      BY <2>4 DEF ListOK
    <3>6. ListOK(g, u) /\ Len(u) = 1 + Len(p) /\ \A i \in 1 .. 1 + Len(p) :
            u[i] = IF i <= 1 THEN o[i] ELSE p[i - 1]
      BY <3>1, <3>2, <3>4, <3>5
    <3> QED BY <3>6 DEF o
  <2> HIDE DEF u
  <2>10. Len(p) \in Nat /\ Len(u) \in 0 .. N
    BY <1>1, <2>1, <2>4, <2>9
  <2>11. ASSUME NEW a \in 1 .. Len(u)
         PROVE  /\ end <= u[a].off
                /\ \E b \in 1 .. N : s[b].off <= u[a].off /\ EndOf(u[a]) <= EndOf(s[b])
    <3>1. CASE a = 1
      <4>1. u[a] = f
        BY <2>5, <2>9, <2>10, <3>1
      <4> QED BY <1>2, <1>7, <2>1, <2>2, <2>3, <4>1, SMTT(30)
    <3>2. CASE a # 1
      <4>1. a - 1 \in 1 .. Len(p) /\ u[a] = p[a - 1]
        BY <2>9, <2>10, <3>2
      <4>2. u[a] = s[j + (a - 1)] /\ j + (a - 1) \in 1 .. N /\ EndOf(f) <= u[a].off
        BY <2>7, <2>8, <4>1
      <4>3. end <= EndOf(f)
        BY <1>2, <1>7, <1>4, <2>1, <2>2
      <4> DEFINE i == j + (a - 1)
      <4>4. EndOf(f) \in Nat /\ i \in 1 .. N /\ u[a] = s[i] /\ s[i].off \in Nat /\ EndOf(s[i]) \in Nat
        BY <1>2, <2>1, <2>2, <4>2
      <4>5. EndOf(f) <= u[a].off
        BY <4>2
      <4> HIDE DEF i
      <4> QED BY <4>3, <4>4, <4>5
    <3> QED BY <3>1, <3>2
  <2> QED BY <2>6, <2>9, <2>10, <2>11 DEF N
<1> QED BY <1>6, <1>7

-----------------------------------------------------------------------------
(* Complete or not.                                                        *)

\* A list that is not complete lacks a byte: the first of a gap, or the one behind the last.
LEMMA IncompleteLacks ==
  ASSUME NEW g \in Grams, NEW fr, ListOK(g, fr), Len(fr) > 0, ~Complete(fr)
  PROVE  Lacks(g, fr)
<1> DEFINE N == Len(fr)
           prev(j) == IF j = 1 THEN 0 ELSE fr[j - 1].off + fr[j - 1].len
<1>1. /\ N \in Nat \ {0} /\ DOMAIN fr = 1 .. N /\ Size[g] \in Nat
      /\ \A a \in 1 .. N : IsFrag(g, fr[a])
      /\ \A a, b \in 1 .. N : a < b => EndOf(fr[a]) <= fr[b].off
  BY SizeAssumption DEF ListOK
<1>2. \A a \in 1 .. N : /\ fr[a].off \in Nat /\ fr[a].len \in Nat /\ EndOf(fr[a]) \in Nat
                         /\ EndOf(fr[a]) = fr[a].off + fr[a].len /\ fr[a].off <= EndOf(fr[a])
                         /\ EndOf(fr[a]) <= Size[g]
  BY <1>1, FragFields
<1>m. \A a \in 1 .. N : fr[a].mff <=> EndOf(fr[a]) < Size[g]
  BY <1>1, FragFields
<1>3. (\E j \in 1 .. N : fr[j].off # prev(j)) \/ fr[N].mff
  BY <1>1 DEF Complete
<1> HIDE DEF N
<1>4. CASE \E j \in 1 .. N : fr[j].off # prev(j)
  <2>1. PICK j \in 1 .. N : fr[j].off # prev(j)
    BY <1>4
  <2> DEFINE x == prev(j)
  <2>2. x \in Nat /\ x <= fr[j].off
    <3>1. CASE j = 1
      BY <1>2, <3>1
    <3>2. CASE j # 1
      <4>1. j - 1 \in 1 .. N /\ j - 1 < j
        BY <1>1, <3>2
      <4>2. EndOf(fr[j - 1]) <= fr[j].off /\ x = EndOf(fr[j - 1]) /\ x \in Nat
        BY <1>1, <1>2, <3>2, <4>1
      <4> QED BY <4>2
    <3> QED BY <3>1, <3>2
  <2>3. ASSUME NEW a \in 1 .. N, a < j
        PROVE  EndOf(fr[a]) <= x
    <3>1. j # 1 /\ j - 1 \in 1 .. N /\ a <= j - 1 /\ x = fr[j - 1].off + fr[j - 1].len
      BY <1>1, <2>3
    <3> DEFINE i == j - 1
    <3>2. i \in 1 .. N /\ a <= i /\ x = EndOf(fr[i])
      BY <1>2, <3>1
    <3> HIDE DEF x, i
    <3>3. CASE a = i
      BY <1>2, <3>2, <3>3
    <3>4. CASE a # i
      <4>1. a < i
        BY <3>2, <3>4
      <4> QED BY <1>1, <1>2, <3>2, <4>1, SMTT(30)
    <3> QED BY <3>3, <3>4
  <2>4. x < fr[j].off
    BY <1>2, <2>1, <2>2
  <2> HIDE DEF x, prev
  <2>5. x \in 0 .. Size[g] - 1
    <3>1. fr[j].off \in Nat /\ fr[j].off <= EndOf(fr[j]) /\ EndOf(fr[j]) <= Size[g]
          /\ EndOf(fr[j]) \in Nat
      BY <1>2
    <3>2. fr[j].off <= Size[g] /\ Size[g] \in Nat
      BY <1>1, <3>1
    <3> QED BY <2>2, <2>4, <3>1, <3>2
  <2>6. ASSUME NEW a \in 1 .. N
        PROVE  Outside(x, fr[a])
    <3>1. CASE a < j
      BY <2>3, <3>1 DEF Outside
    <3>2. CASE a = j
      BY <2>4, <3>2 DEF Outside
    <3>3. CASE j < a
      <4>1. EndOf(fr[j]) <= fr[a].off
        BY <1>1, <3>3
      <4>2. x < fr[a].off
        BY <1>2, <2>2, <2>4, <4>1
      <4> QED BY <4>2 DEF Outside
    <3> QED BY <1>1, <3>1, <3>2, <3>3
  <2> QED BY <2>5, <2>6, Zenon DEF Lacks, N
<1>5. CASE fr[N].mff
  <2> DEFINE x == EndOf(fr[N])
  <2>a. N \in 1 .. N
    BY <1>1
  <2>b. fr[N].mff <=> EndOf(fr[N]) < Size[g]
    BY <1>m, <2>a
  <2>1. N \in 1 .. N /\ x \in Nat /\ x < Size[g]
    BY <1>2, <1>5, <2>a, <2>b
  <2>2. ASSUME NEW a \in 1 .. N
        PROVE  EndOf(fr[a]) <= x
    <3>1. CASE a = N
      BY <2>1, <3>1
    <3>2. CASE a # N
      <4>1. a < N
        BY <1>1, <3>2
      <4>2. EndOf(fr[a]) <= fr[N].off
        BY <1>1, <2>1, <4>1
      <4> QED BY <1>2, <2>1, <4>2
    <3> QED BY <3>1, <3>2
  <2> HIDE DEF x
  <2>3. x \in 0 .. Size[g] - 1
    BY <1>1, <2>1
  <2>4. \A a \in 1 .. N : Outside(x, fr[a])
    BY <2>2 DEF Outside
  <2> QED BY <2>3, <2>4, Zenon DEF Lacks, N
<1> QED BY <1>3, <1>4, <1>5

\* Where fragment j of a list begins if nothing is missing before it.
Upto(fr, j) == IF j = 0 THEN 0 ELSE fr[j].off + fr[j].len

LEMMA CompleteEnds ==
  ASSUME NEW g \in Grams, NEW fr, ListOK(g, fr), Len(fr) > 0, Complete(fr)
  PROVE  /\ Len(fr) \in Nat /\ Upto(fr, 0) = 0 /\ Upto(fr, Len(fr)) = Size[g]
         /\ \A j \in 0 .. Len(fr) : Upto(fr, j) \in Nat
         /\ \A j \in 1 .. Len(fr) : /\ Upto(fr, j - 1) + fr[j].len = Upto(fr, j)
                                     /\ fr[j].len \in Nat
                                     /\ fr[j].data = Bytes(Upto(fr, j - 1), fr[j].len)
<1> DEFINE N == Len(fr)
<1>1. /\ N \in Nat \ {0} /\ DOMAIN fr = 1 .. N /\ Size[g] \in Nat
      /\ \A a \in 1 .. N : IsFrag(g, fr[a])
  BY SizeAssumption DEF ListOK
<1>2. \A a \in 1 .. N : /\ fr[a].off \in Nat /\ fr[a].len \in Nat
                         /\ fr[a].off + fr[a].len <= Size[g]
                         /\ fr[a].data = Bytes(fr[a].off, fr[a].len)
  BY <1>1, FragFields
<1>m. \A a \in 1 .. N : fr[a].mff <=> fr[a].off + fr[a].len < Size[g]
  BY <1>1, FragFields
<1>3. /\ \A j \in 1 .. N : fr[j].off = IF j = 1 THEN 0 ELSE fr[j - 1].off + fr[j - 1].len
      /\ ~fr[N].mff
  BY <1>1 DEF Complete
<1> HIDE DEF N
<1>4. \A j \in 1 .. N : fr[j].off = Upto(fr, j - 1) /\ Upto(fr, j) = fr[j].off + fr[j].len
  BY <1>1, <1>3 DEF Upto
<1>5. Upto(fr, N) = Size[g]
  <2>1. N \in 1 .. N
    BY <1>1
  <2>2. fr[N].off + fr[N].len = Size[g]
    <3>1. fr[N].mff <=> fr[N].off + fr[N].len < Size[g]
      BY <1>m, <2>1
    <3>2. ~(fr[N].off + fr[N].len < Size[g])
      BY <1>3, <3>1
    <3>3. /\ fr[N].off + fr[N].len \in Nat /\ fr[N].off + fr[N].len <= Size[g]
      BY <1>2, <2>1
    <3> QED BY <1>1, <3>2, <3>3
  <2>3. Upto(fr, N) = fr[N].off + fr[N].len
    BY <1>4, <2>1
  <2> QED BY <2>2, <2>3
<1>6. \A j \in 0 .. N : Upto(fr, j) \in Nat
  BY <1>1, <1>2 DEF Upto
<1>7. Upto(fr, 0) = 0
  BY DEF Upto
<1> QED BY <1>1, <1>2, <1>4, <1>5, <1>6, <1>7 DEF N

\* The functions that TotalLen and AllData define.
LenStep(fr, w, j)  == IF j = 0 THEN 0 ELSE w[j - 1] + fr[j].len
DataStep(fr, w, j) == IF j = 0 THEN <<>> ELSE w[j - 1] \o fr[j].data

LEMMA TotalLenIs ==
  ASSUME NEW fr, NEW h, h = [j \in 0 .. Len(fr) |-> LenStep(fr, h, j)]
  PROVE  \E w : /\ w = [j \in 0 .. Len(fr) |-> LenStep(fr, w, j)]
                /\ TotalLen(fr) = w[Len(fr)]
BY Zenon DEF TotalLen, LenStep

LEMMA AllDataIs ==
  ASSUME NEW fr, NEW h, h = [j \in 0 .. Len(fr) |-> DataStep(fr, h, j)]
  PROVE  \E w : /\ w = [j \in 0 .. Len(fr) |-> DataStep(fr, w, j)]
                /\ AllData(fr) = w[Len(fr)]
BY Zenon DEF AllData, DataStep

\* A complete list has the length of its datagram.
LEMMA CompleteLen ==
  ASSUME NEW g \in Grams, NEW fr, ListOK(g, fr), Len(fr) > 0, Complete(fr)
  PROVE  TotalLen(fr) = Size[g]
<1> DEFINE N == Len(fr)
           h == [j \in 0 .. N |-> Upto(fr, j)]
<1>1. /\ N \in Nat /\ Upto(fr, 0) = 0 /\ Upto(fr, N) = Size[g]
      /\ \A j \in 1 .. N : Upto(fr, j - 1) + fr[j].len = Upto(fr, j)
  BY CompleteEnds
<1>2. ASSUME NEW w, NEW j \in 0 .. N, j # 0 => w[j - 1] = Upto(fr, j - 1)
      PROVE  LenStep(fr, w, j) = Upto(fr, j)
  BY <1>1, <1>2 DEF LenStep
<1>3. h = [j \in 0 .. N |-> LenStep(fr, h, j)]
  <2>1. \A j \in 0 .. N : j # 0 => h[j - 1] = Upto(fr, j - 1)
    BY <1>1
  <2>2. \A j \in 0 .. N : LenStep(fr, h, j) = Upto(fr, j)
    BY <1>2, <2>1
  <2> QED BY <2>2
<1>4. PICK w : w = [j \in 0 .. N |-> LenStep(fr, w, j)] /\ TotalLen(fr) = w[N]
  BY <1>3, TotalLenIs
<1>5. \A j \in 0 .. N : w[j] = LenStep(fr, w, j)
  BY <1>4
<1> DEFINE T == {j \in 0 .. N : w[j] = Upto(fr, j)}
<1>6. 0 \in T
  BY <1>1, <1>2, <1>5
<1>7. \A j \in 1 .. N : j - 1 \in T => j \in T
  BY <1>1, <1>2, <1>5
<1>8. \A j \in 0 .. N : j \in T
  <2> HIDE DEF T, N
  <2> QED BY <1>1, <1>6, <1>7, CountUp
<1> QED BY <1>1, <1>4, <1>8

\* ... and its data.
LEMMA CompleteData ==
  ASSUME NEW g \in Grams, NEW fr, ListOK(g, fr), Len(fr) > 0, Complete(fr)
  PROVE  AllData(fr) = Bytes(0, Size[g])
<1> DEFINE N == Len(fr)
           D(j) == Bytes(0, Upto(fr, j))
           h == [j \in 0 .. N |-> D(j)]
<1>1. /\ N \in Nat /\ Upto(fr, 0) = 0 /\ Upto(fr, N) = Size[g]
      /\ \A j \in 0 .. N : Upto(fr, j) \in Nat
      /\ \A j \in 1 .. N : /\ Upto(fr, j - 1) + fr[j].len = Upto(fr, j) /\ fr[j].len \in Nat
                            /\ fr[j].data = Bytes(Upto(fr, j - 1), fr[j].len)
  BY CompleteEnds
<1>a. D(0) = <<>>
  BY <1>1 DEF Bytes
<1>b. ASSUME NEW j \in 1 .. N
      PROVE  D(j - 1) \o fr[j].data = D(j)
  <2>1. j - 1 \in 0 .. N /\ Upto(fr, j - 1) \in Nat /\ fr[j].len \in Nat
    BY <1>1
  <2>2. D(j - 1) \o Bytes(Upto(fr, j - 1), fr[j].len) = Bytes(0, Upto(fr, j - 1) + fr[j].len)
    BY <2>1, BytesJoin
  <2> QED BY <1>1, <2>2
<1> HIDE DEF D
<1>2. ASSUME NEW w, NEW j \in 0 .. N, j # 0 => w[j - 1] = D(j - 1)
      PROVE  DataStep(fr, w, j) = D(j)
  <2>1. CASE j = 0
    BY <1>a, <2>1 DEF DataStep
  <2>2. CASE j # 0
    <3>1. j \in 1 .. N
      BY <1>1, <2>2
    <3>2. DataStep(fr, w, j) = D(j - 1) \o fr[j].data
      BY <1>2, <2>2 DEF DataStep
    <3> QED BY <1>b, <3>1, <3>2
  <2> QED BY <2>1, <2>2
<1>3. h = [j \in 0 .. N |-> DataStep(fr, h, j)]
  <2>1. \A j \in 0 .. N : j # 0 => h[j - 1] = D(j - 1)
    BY <1>1
  <2>2. \A j \in 0 .. N : DataStep(fr, h, j) = D(j)
    BY <1>2, <2>1
  <2> QED BY <2>2
<1>4. PICK w : w = [j \in 0 .. N |-> DataStep(fr, w, j)] /\ AllData(fr) = w[N]
  BY <1>3, AllDataIs
<1>5. \A j \in 0 .. N : w[j] = DataStep(fr, w, j)
  BY <1>4
<1> DEFINE T == {j \in 0 .. N : w[j] = D(j)}
<1>6. 0 \in T
  BY <1>1, <1>2, <1>5
<1>7. \A j \in 1 .. N : j - 1 \in T => j \in T
  BY <1>1, <1>2, <1>5
<1>8. \A j \in 0 .. N : j \in T
  <2> HIDE DEF T, N
  <2> QED BY <1>1, <1>6, <1>7, CountUp
<1>9. AllData(fr) = D(N)
  BY <1>1, <1>4, <1>8
<1> QED BY <1>1, <1>9 DEF D

-----------------------------------------------------------------------------
(* The queues.                                                             *)

\* Fewer queues, each one of those before.
LEMMA FewerOK ==
  ASSUME NEW qs, NEW n, QueuesOK(qs, n), NEW m \in Nat,
         NEW r \in Seq(QueueSet), Len(r) <= m, Len(r) <= Len(qs),
         \A i \in 1 .. Len(r) : QueueOK(r[i]),
         \A i, k \in 1 .. Len(r) : r[i].key = r[k].key => i = k
  PROVE  QueuesOK(r, m)
<1>1. Len(r) \in Nat /\ Len(qs) \in Nat /\ Len(qs) <= MaxPackets /\ MaxPackets \in Nat
  BY LimitAssumption DEF QueuesOK
<1>2. Len(r) <= MaxPackets
  BY <1>1
<1> QED BY <1>2 DEF QueuesOK

LEMMA RemoveOK ==
  ASSUME NEW qs, NEW n, QueuesOK(qs, n), NEW j \in 1 .. Len(qs),
         NEW m \in Nat, Len(qs) - 1 <= m
  PROVE  QueuesOK(RemoveAt(qs, j), m)
<1> DEFINE N == Len(qs)
           a == SubSeq(qs, 1, j - 1)
           b == SubSeq(qs, j + 1, N)
           r == a \o b
           At(i) == IF i < j THEN i ELSE i + 1
<1>1. qs \in Seq(QueueSet) /\ N \in Nat /\ j \in 1 .. N /\ \A i \in 1 .. N : qs[i] \in QueueSet
  BY DEF QueuesOK
<1>2. /\ a \in Seq(QueueSet) /\ Len(a) = j - 1
      /\ \A i \in 1 .. j - 1 : a[i] = qs[1 + i - 1]
  <2>1. \A i \in 1 .. j - 1 : qs[i] \in QueueSet
    BY <1>1
  <2> QED BY <1>1, <2>1, SubSeqProperties
<1>3. /\ b \in Seq(QueueSet) /\ Len(b) = N - j
      /\ \A i \in 1 .. N - j : b[i] = qs[(j + 1) + i - 1]
  <2>1. \A i \in j + 1 .. N : qs[i] \in QueueSet
    BY <1>1
  <2>2. /\ b \in Seq(QueueSet) /\ Len(b) = IF j + 1 <= N THEN N - (j + 1) + 1 ELSE 0
        /\ \A i \in 1 .. N - (j + 1) + 1 : b[i] = qs[(j + 1) + i - 1]
    BY <1>1, <2>1, SubSeqProperties
  <2>3. N - (j + 1) + 1 = N - j /\ (~(j + 1 <= N) => N - j = 0)
    BY <1>1
  <2> QED BY <1>1, <2>2, <2>3
<1> HIDE DEF a, b, N
<1>4. /\ r \in Seq(QueueSet) /\ Len(r) = N - 1
      /\ \A i \in 1 .. N - 1 : r[i] = IF i <= j - 1 THEN a[i] ELSE b[i - (j - 1)]
  <2>1. /\ r \in Seq(QueueSet) /\ Len(r) = Len(a) + Len(b)
        /\ \A i \in 1 .. Len(a) + Len(b) : r[i] = IF i <= Len(a) THEN a[i] ELSE b[i - Len(a)]
    BY <1>2, <1>3, ConcatProperties
  <2>2. Len(a) = j - 1 /\ Len(a) + Len(b) = N - 1
    BY <1>1, <1>2, <1>3
  <2> QED BY <2>1, <2>2
<1> HIDE DEF r
<1>5. ASSUME NEW i \in 1 .. Len(r)
      PROVE  r[i] = qs[At(i)] /\ At(i) \in 1 .. N
  <2>1. CASE i < j
    <3>1. i <= j - 1 /\ i \in 1 .. j - 1 /\ 1 + i - 1 = i
      BY <1>1, <2>1
    <3> QED BY <1>1, <1>2, <1>4, <2>1, <3>1
  <2>2. CASE ~(i < j)
    <3>1. ~(i <= j - 1) /\ i - (j - 1) \in 1 .. N - j /\ (j + 1) + (i - (j - 1)) - 1 = i + 1
          /\ i + 1 \in 1 .. N
      BY <1>1, <1>4, <2>2
    <3>2. r[i] = b[i - (j - 1)] /\ b[i - (j - 1)] = qs[(j + 1) + (i - (j - 1)) - 1]
      BY <1>3, <1>4, <3>1
    <3> QED BY <2>2, <3>1, <3>2
  <2> QED BY <2>1, <2>2
<1>6. \A i, k \in 1 .. Len(r) : At(i) = At(k) => i = k
  BY <1>1
<1> HIDE DEF At
<1>7. \A i \in 1 .. Len(r) : QueueOK(r[i])
  BY <1>5 DEF QueuesOK, N
<1>8. ASSUME NEW i \in 1 .. Len(r), NEW k \in 1 .. Len(r), r[i].key = r[k].key
      PROVE  i = k
  <2>1. /\ At(i) \in 1 .. N /\ At(k) \in 1 .. N /\ qs[At(i)].key = qs[At(k)].key
    BY <1>5, <1>8
  <2>2. At(i) = At(k)
    BY <2>1 DEF QueuesOK, N
  <2> QED BY <1>6, <2>2
<1>9. RemoveAt(qs, j) = r
  BY DEF RemoveAt, r, a, b, N
<1> QED BY <1>1, <1>4, <1>7, <1>8, <1>9, FewerOK DEF N

\* The oldest queue goes.
LEMMA FrontOK ==
  ASSUME NEW qs, NEW n, QueuesOK(qs, n), qs # <<>>, NEW m \in Nat, Len(qs) - 1 <= m
  PROVE  /\ QueuesOK(Front(qs), m) /\ Len(Front(qs)) = Len(qs) - 1
         /\ \A i \in 1 .. Len(qs) - 1 : Front(qs)[i] = qs[i]
<1> DEFINE N == Len(qs)
           r == SubSeq(qs, 1, N - 1)
<1>1. qs \in Seq(QueueSet) /\ N \in Nat \ {0} /\ \A i \in 1 .. N : qs[i] \in QueueSet
  BY DEF QueuesOK
<1>2. \A i \in 1 .. N - 1 : qs[i] \in QueueSet /\ 1 + i - 1 = i
  BY <1>1
<1>3. /\ r \in Seq(QueueSet) /\ Len(r) = IF 1 <= N - 1 THEN N - 1 - 1 + 1 ELSE 0
      /\ \A i \in 1 .. N - 1 - 1 + 1 : r[i] = qs[1 + i - 1]
  BY <1>1, <1>2, SubSeqProperties
<1> HIDE DEF r
<1>4. Len(r) = N - 1 /\ \A i \in 1 .. N - 1 : r[i] = qs[i]
  <2>a. \A k \in Nat \ {0} : k - 1 - 1 + 1 = k - 1 /\ (~(1 <= k - 1) => k - 1 = 0)
    OBVIOUS
  <2>1. N - 1 - 1 + 1 = N - 1 /\ (~(1 <= N - 1) => N - 1 = 0)
    BY <1>1, <2>a
  <2>2. \A i \in 1 .. N - 1 : r[i] = qs[1 + i - 1]
    BY <1>3, <2>1
  <2> QED BY <1>2, <1>3, <2>1, <2>2
<1>5. \A i \in 1 .. Len(r) : QueueOK(r[i])
  BY <1>1, <1>4 DEF QueuesOK
<1>6. \A i, k \in 1 .. Len(r) : r[i].key = r[k].key => i = k
  BY <1>1, <1>4 DEF QueuesOK
<1>7. QueuesOK(r, m)
  BY <1>1, <1>3, <1>4, <1>5, <1>6, FewerOK, SMTT(30)
<1> QED BY <1>4, <1>7 DEF Front, r

\* A new queue in front.
LEMMA PushOK ==
  ASSUME NEW qs, NEW n, QueuesOK(qs, n), Len(qs) < MaxPackets,
         NEW q \in QueueSet, QueueOK(q), \A i \in 1 .. Len(qs) : qs[i].key # q.key
  PROVE  /\ QueuesOK(<<q>> \o qs, n + 1) /\ Len(<<q>> \o qs) = Len(qs) + 1
         /\ (<<q>> \o qs)[1] = q
<1> DEFINE o == <<q>>
           r == o \o qs
<1>1. qs \in Seq(QueueSet) /\ Len(qs) \in Nat /\ n \in Nat /\ Len(qs) <= n
      /\ MaxPackets \in Nat
  BY LimitAssumption DEF QueuesOK
<1>2. o \in Seq(QueueSet) /\ Len(o) = 1 /\ o[1] = q
  OBVIOUS
<1> HIDE DEF o
<1>3. /\ r \in Seq(QueueSet) /\ Len(r) = Len(o) + Len(qs)
      /\ \A i \in 1 .. Len(o) + Len(qs) : r[i] = IF i <= Len(o) THEN o[i] ELSE qs[i - Len(o)]
  BY <1>1, <1>2, ConcatProperties
<1> HIDE DEF r
<1>4. Len(r) = Len(qs) + 1 /\ r[1] = q
      /\ \A i \in 2 .. Len(qs) + 1 : r[i] = qs[i - 1] /\ i - 1 \in 1 .. Len(qs)
  BY <1>1, <1>2, <1>3
<1>5. \A i \in 1 .. Len(r) : i = 1 \/ i \in 2 .. Len(qs) + 1
  BY <1>1, <1>4
<1>6. \A i \in 1 .. Len(r) : QueueOK(r[i])
  BY <1>4, <1>5 DEF QueuesOK
<1>7. ASSUME NEW i \in 1 .. Len(r), NEW k \in 1 .. Len(r), r[i].key = r[k].key
      PROVE  i = k
  <2>1. CASE i = 1
    BY <1>4, <1>5, <1>7, <2>1
  <2>2. CASE k = 1
    BY <1>4, <1>5, <1>7, <2>2
  <2>3. CASE i # 1 /\ k # 1
    <3>1. /\ i - 1 \in 1 .. Len(qs) /\ k - 1 \in 1 .. Len(qs)
          /\ qs[i - 1].key = qs[k - 1].key
      BY <1>4, <1>5, <1>7, <2>3
    <3>2. i - 1 = k - 1
      BY <3>1 DEF QueuesOK
    <3> QED BY <3>2
  <2> QED BY <2>1, <2>2, <2>3
<1>8. Len(r) <= n + 1 /\ Len(r) <= MaxPackets /\ n + 1 \in Nat
  BY <1>1, <1>4
<1>9. QueuesOK(r, n + 1)
  BY <1>3, <1>6, <1>7, <1>8 DEF QueuesOK
<1> QED BY <1>4, <1>9 DEF r, o

\* One queue with other fragments.
LEMMA ReplaceOK ==
  ASSUME NEW qs, NEW n, QueuesOK(qs, n), NEW j \in 1 .. Len(qs),
         NEW q \in QueueSet, QueueOK(q), q.key = qs[j].key
  PROVE  QueuesOK([qs EXCEPT ![j] = q], n)
<1> DEFINE r == [qs EXCEPT ![j] = q]
<1>1. qs \in Seq(QueueSet) /\ Len(qs) \in Nat
  BY DEF QueuesOK
<1>2. /\ r \in Seq(QueueSet) /\ Len(r) = Len(qs)
      /\ \A i \in 1 .. Len(qs) : r[i] = IF i = j THEN q ELSE qs[i]
  BY <1>1, ExceptSeq
<1> HIDE DEF r
<1>3. \A i \in 1 .. Len(r) : QueueOK(r[i]) /\ r[i].key = qs[i].key
  BY <1>2 DEF QueuesOK
<1> QED BY <1>2, <1>3 DEF QueuesOK, r

-----------------------------------------------------------------------------
(* The entry points.                                                       *)

\* From the insert label of ip_reass on.
LEMMA InsertKeeps ==
  ASSUME NEW g \in Grams, NEW qs, NEW n, QueuesOK(qs, n), NEW j \in 1 .. Len(qs),
         qs[j].key = g, NEW pre, ListOK(g, pre), NEW post, ListOK(g, post),
         NEW f \in FragSet, IsFrag(g, f),
         \A a \in 1 .. Len(pre) : EndOf(pre[a]) <= f.off,
         \A a \in 1 .. Len(post) : EndOf(f) <= post[a].off,
         Len(pre) + Len(post) <= qs[j].nfrags, Lacks(g, pre \o post),
         Insert(g, qs, j, pre, f, post, n)
  PROVE  ReassInv'
<1> DEFINE old == qs[j]
           kept == old.nfrags - (Len(old.frags) - Len(pre) - Len(post))
           fr == pre \o <<f>> \o post
           both == pre \o post
           cut == [old EXCEPT !.frags = both, !.nfrags = kept]
           more == [old EXCEPT !.frags = fr, !.nfrags = kept + 1]
           rest == RemoveAt(qs, j)
<1>1. /\ n \in Nat /\ Len(qs) \in Nat \ {0} /\ Len(qs) <= n
      /\ old \in QueueSet /\ QueueOK(old) /\ old.key = g
      /\ Len(pre) \in Nat /\ Len(post) \in Nat
  BY DEF QueuesOK, ListOK
<1>2. old.nfrags \in Nat /\ old.nfrags = Len(old.frags) /\ old.nfrags <= MaxPerPacket
  BY <1>1 DEF QueueOK, QueueSet
<1>3. kept = Len(pre) + Len(post) /\ kept \in Nat /\ kept <= MaxPerPacket
  <2>2. kept = Len(pre) + Len(post)
    <3> DEFINE x == old.nfrags
               y == Len(old.frags)
               a == Len(pre)
               b == Len(post)
    <3>1. x \in Nat /\ x = y /\ a \in Nat /\ b \in Nat
      BY <1>1, <1>2
    <3> HIDE DEF x, y, a, b
    <3>2. x - (y - a - b) = a + b
      BY <3>1
    <3> QED BY <3>2 DEF x, y, a, b
  <2>3. \A a, b, c \in Nat : a + b <= c => a + b \in Nat
    OBVIOUS
  <2>4. Len(pre) + Len(post) \in Nat /\ Len(pre) + Len(post) <= old.nfrags
    BY <1>1, <1>2
  <2>5. \A a, b, c \in Nat : a <= b /\ b <= c => a <= c
    OBVIOUS
  <2>6. Len(pre) + Len(post) <= MaxPerPacket
    BY <1>2, <2>4, <2>5, LimitAssumption
  <2> QED BY <2>2, <2>4, <2>6
<1>4. ListOK(g, both) /\ Len(both) = kept
  <2>1. ASSUME NEW a \in 1 .. Len(pre), NEW b \in 1 .. Len(post)
        PROVE  EndOf(pre[a]) <= post[b].off
    <3>1. EndOf(pre[a]) <= f.off /\ EndOf(f) <= post[b].off
      OBVIOUS
    <3>2. IsFrag(g, pre[a]) /\ IsFrag(g, post[b])
      BY DEF ListOK
    <3>3. /\ EndOf(pre[a]) \in Nat /\ post[b].off \in Nat /\ f.off \in Nat
          /\ EndOf(f) \in Nat /\ f.off <= EndOf(f)
      BY <3>2, FragFields
    <3> QED BY <3>1, <3>3
  <2>2. ListOK(g, pre \o post) /\ Len(pre \o post) = Len(pre) + Len(post)
    BY <2>1, JoinOK
  <2> QED BY <1>3, <2>2
<1>5. ListOK(g, fr) /\ Len(fr) = kept + 1
  <2> DEFINE o == <<f>>
             l == pre \o o
  <2>1. ListOK(g, o) /\ Len(o) = 1 /\ o[1] = f
    BY SingleOK
  <2> HIDE DEF o
  <2>2. \A a \in 1 .. Len(pre), b \in 1 .. Len(o) : EndOf(pre[a]) <= o[b].off
    BY <2>1
  <2>3. /\ ListOK(g, l) /\ Len(l) = Len(pre) + Len(o)
        /\ \A i \in 1 .. Len(pre) + Len(o) :
             l[i] = IF i <= Len(pre) THEN pre[i] ELSE o[i - Len(pre)]
    <3>1. ListOK(g, o)
      BY <2>1
    <3> QED BY <2>2, <3>1, JoinOK
  <2> HIDE DEF l
  <2>4. ASSUME NEW a \in 1 .. Len(l), NEW b \in 1 .. Len(post)
        PROVE  EndOf(l[a]) <= post[b].off
    <3>1. CASE a <= Len(pre)
      <4>1. a \in 1 .. Len(pre) /\ l[a] = pre[a]
        BY <1>1, <2>1, <2>3, <3>1
      <4>2. EndOf(pre[a]) <= f.off /\ EndOf(f) <= post[b].off
        BY <4>1
      <4>3. IsFrag(g, pre[a]) /\ IsFrag(g, post[b])
        BY <4>1 DEF ListOK
      <4>4. /\ EndOf(pre[a]) \in Nat /\ post[b].off \in Nat /\ f.off \in Nat
            /\ EndOf(f) \in Nat /\ f.off <= EndOf(f)
        BY <4>3, FragFields
      <4> QED BY <4>1, <4>2, <4>4
    <3>2. CASE ~(a <= Len(pre))
      <4>1. a - Len(pre) = 1 /\ l[a] = o[a - Len(pre)]
        BY <1>1, <2>1, <2>3, <3>2
      <4>2. l[a] = f
        BY <2>1, <4>1
      <4> QED BY <4>2
    <3> QED BY <3>1, <3>2
  <2>5. ListOK(g, l \o post) /\ Len(l \o post) = Len(l) + Len(post)
    BY <2>3, <2>4, JoinOK, ZenonT(60)
  <2>6. fr = l \o post
    BY DEF l, o
  <2>7. Len(l) + Len(post) = kept + 1
    BY <1>1, <1>3, <2>1, <2>3
  <2> QED BY <2>5, <2>6, <2>7
<1>6. /\ both \in Seq(FragSet) /\ fr \in Seq(FragSet)
  BY <1>4, <1>5 DEF ListOK
<1>7. Complete(fr) => TotalLen(fr) = Size[g] /\ AllData(fr) = Bytes(0, Size[g])
  <2>1. Len(fr) > 0
    BY <1>3, <1>5
  <2> QED BY <1>5, <2>1, CompleteLen, CompleteData
<1>8. ~Complete(fr) => Lacks(g, fr)
  <2>1. Len(fr) > 0
    BY <1>3, <1>5
  <2> QED BY <1>5, <2>1, IncompleteLacks
<1>9. \/ /\ AtLimit(kept) /\ ipq' = [qs EXCEPT ![j] = cut]
         /\ ip_nfrags' = n /\ out' = Dropped(g)
      \/ /\ ~AtLimit(kept) /\ ~Complete(fr) /\ ipq' = [qs EXCEPT ![j] = more]
         /\ ip_nfrags' = n /\ out' = Queued(g)
      \/ /\ Complete(fr) /\ ipq' = rest /\ ip_nfrags' = Decrement(n) /\ out' = Dropped(g)
      \/ /\ Complete(fr) /\ ipq' = rest /\ ip_nfrags' = n
         /\ out' = Delivered(g, TotalLen(fr), AllData(fr))
  <2>1. Complete(fr) => TotalLen(fr) > MaxData \/ TotalLen(fr) <= MaxData
    BY <1>7, SizeAssumption, LimitAssumption
  <2> HIDE DEF fr, both
  <2> QED BY <2>1 DEF Insert, fr, both
<1> HIDE DEF old, kept, fr, both, rest
<1>10. CASE AtLimit(kept) /\ ipq' = [qs EXCEPT ![j] = cut] /\ ip_nfrags' = n
            /\ out' = Dropped(g)
  <2>1. /\ cut \in QueueSet /\ cut.key = g /\ cut.nfrags = kept /\ cut.frags = both
    BY <1>1, <1>3, <1>6 DEF QueueSet
  <2> HIDE DEF cut
  <2>2. QueueOK(cut)
    BY <1>3, <1>4, <2>1 DEF QueueOK, both
  <2>3. QueuesOK([qs EXCEPT ![j] = cut], n)
    BY <1>1, <2>1, <2>2, ReplaceOK DEF old
  <2> QED BY <1>10, <2>3 DEF ReassInv, DeliveredWhole, Dropped
<1>11. CASE ~AtLimit(kept) /\ ~Complete(fr) /\ ipq' = [qs EXCEPT ![j] = more]
            /\ ip_nfrags' = n /\ out' = Queued(g)
  <2>1. /\ more \in QueueSet /\ more.key = g /\ more.nfrags = kept + 1 /\ more.frags = fr
    <3>1. kept + 1 \in Nat
      BY <1>3
    <3> QED BY <1>1, <1>6, <3>1 DEF QueueSet
  <2> HIDE DEF more
  <2>2. kept + 1 <= MaxPerPacket
    BY <1>3, <1>11, LimitAssumption DEF AtLimit
  <2>3. QueueOK(more)
    BY <1>5, <1>8, <1>11, <2>1, <2>2 DEF QueueOK
  <2>4. QueuesOK([qs EXCEPT ![j] = more], n)
    BY <1>1, <2>1, <2>3, ReplaceOK DEF old
  <2> QED BY <1>11, <2>4 DEF ReassInv, DeliveredWhole, Queued
<1>12. CASE ipq' = rest /\ ip_nfrags' = Decrement(n) /\ out' = Dropped(g)
  <2>1. Decrement(n) \in Nat /\ Len(qs) - 1 <= Decrement(n)
    BY <1>1 DEF Decrement
  <2>2. QueuesOK(rest, Decrement(n))
    BY <2>1, RemoveOK DEF rest
  <2> QED BY <1>12, <2>2 DEF ReassInv, DeliveredWhole, Dropped
<1>13. CASE Complete(fr) /\ ipq' = rest /\ ip_nfrags' = n
            /\ out' = Delivered(g, TotalLen(fr), AllData(fr))
  <2>1. n \in Nat /\ Len(qs) - 1 <= n
    BY <1>1
  <2>2. QueuesOK(rest, n)
    BY <2>1, RemoveOK DEF rest
  <2>3. out'.key = {g} /\ out'.len = Size[g] /\ out'.data = Bytes(0, Size[g])
    BY <1>7, <1>13 DEF Delivered
  <2> QED BY <1>13, <2>2, <2>3 DEF ReassInv, DeliveredWhole
<1> QED BY <1>9, <1>10, <1>11, <1>12, <1>13

LEMMA PieceIs ==
  ASSUME NEW g \in Grams, NEW p \in Pieces[g]
  PROVE  /\ Frag(g, p[1], p[2]) \in FragSet /\ IsFrag(g, Frag(g, p[1], p[2]))
         /\ Size[g] \in Nat \ {0}
<1>1. p[1] \in Nat /\ p[2] \in Nat /\ p[1] + p[2] <= Size[g] /\ p[2] # Size[g]
      /\ Size[g] \in Nat
  BY PieceAssumption, SizeAssumption
<1> QED BY <1>1, FragIs

\* The empty list.
LEMMA NoneOK ==
  ASSUME NEW g \in Grams, Size[g] \in Nat \ {0}
  PROVE  ListOK(g, <<>>) /\ Lacks(g, <<>>) /\ Len(<<>>) = 0 /\ <<>> \o <<>> = <<>>
<1>1. ListOK(g, <<>>) /\ Len(<<>>) = 0
  BY DEF ListOK
<1>2. 0 \in 0 .. Size[g] - 1
  OBVIOUS
<1>3. Lacks(g, <<>>)
  BY <1>2 DEF Lacks
<1>4. <<>> \in Seq(FragSet) /\ <<>> \o <<>> = <<>>
  BY ConcatEmptySeq
<1> QED BY <1>1, <1>3, <1>4

\* Room has been made.
LEMMA RoomOK ==
  ASSUME NEW g \in Grams, ReassInv, Index(g) = {}
  PROVE  LET q == RoomFor(ipq, ip_nfrags)
             n == IF Evicts(ipq, ip_nfrags) THEN Decrement(ip_nfrags) ELSE ip_nfrags
         IN  /\ QueuesOK(q, n) /\ Len(q) < MaxPackets
             /\ \A i \in 1 .. Len(q) : q[i].key # g
<1>1. /\ QueuesOK(ipq, ip_nfrags) /\ ipq \in Seq(QueueSet) /\ ip_nfrags \in Nat
      /\ Len(ipq) \in Nat /\ Len(ipq) <= ip_nfrags /\ Len(ipq) <= MaxPackets
      /\ MaxPackets \in Nat \ {0}
  BY LimitAssumption DEF ReassInv, QueuesOK
<1>2. \A i \in 1 .. Len(ipq) : ipq[i].key # g
  BY <1>1 DEF Index
<1>3. CASE Evicts(ipq, ip_nfrags)
  <2>1. ipq # <<>> /\ Len(ipq) # 0 /\ RoomFor(ipq, ip_nfrags) = Front(ipq)
    BY <1>1, <1>3 DEF Evicts, RoomFor
  <2>2. Decrement(ip_nfrags) \in Nat /\ Len(ipq) - 1 <= Decrement(ip_nfrags)
    BY <1>1 DEF Decrement
  <2>3. /\ QueuesOK(Front(ipq), Decrement(ip_nfrags)) /\ Len(Front(ipq)) = Len(ipq) - 1
        /\ \A i \in 1 .. Len(ipq) - 1 : Front(ipq)[i] = ipq[i]
    BY <1>1, <2>1, <2>2, FrontOK
  <2>4. Len(Front(ipq)) < MaxPackets /\ \A i \in 1 .. Len(ipq) - 1 : i \in 1 .. Len(ipq)
    BY <1>1, <2>3
  <2> QED BY <1>2, <1>3, <2>1, <2>3, <2>4
<1>4. CASE ~Evicts(ipq, ip_nfrags)
  <2>1. RoomFor(ipq, ip_nfrags) = ipq /\ (ip_nfrags < MaxPackets \/ ipq = <<>>)
    BY <1>1, <1>4 DEF Evicts, RoomFor
  <2>2. Len(ipq) < MaxPackets
    BY <1>1, <2>1
  <2> QED BY <1>1, <1>2, <1>4, <2>1, <2>2
<1> QED BY <1>3, <1>4

LEMMA FirstFragmentKeeps ==
  ASSUME NEW g \in Grams, NEW p \in Pieces[g], ReassInv, FirstFragment(g, Frag(g, p[1], p[2]))
  PROVE  ReassInv'
<1> DEFINE f == Frag(g, p[1], p[2])
           q == RoomFor(ipq, ip_nfrags)
           n == IF Evicts(ipq, ip_nfrags) THEN Decrement(ip_nfrags) ELSE ip_nfrags
           qs == <<NewQueue(g)>> \o q
<1>1. f \in FragSet /\ IsFrag(g, f) /\ Size[g] \in Nat \ {0}
  BY PieceIs
<1>2. /\ Index(g) = {}
      /\ \/ Insert(g, qs, 1, <<>>, f, <<>>, n + 1)
         \/ ipq' = q /\ ip_nfrags' = n /\ out' = Dropped(g)
  BY DEF FirstFragment
<1>3. QueuesOK(q, n) /\ Len(q) < MaxPackets /\ \A i \in 1 .. Len(q) : q[i].key # g
  BY <1>2, RoomOK
<1> HIDE DEF f, q, n
<1>4. CASE ipq' = q /\ ip_nfrags' = n /\ out' = Dropped(g)
  BY <1>3, <1>4 DEF ReassInv, DeliveredWhole, Dropped
<1>5. CASE Insert(g, qs, 1, <<>>, f, <<>>, n + 1)
  <2>1. ListOK(g, <<>>) /\ Lacks(g, <<>>) /\ Len(<<>>) = 0 /\ <<>> \o <<>> = <<>>
    BY <1>1, NoneOK
  <2>2. /\ NewQueue(g) \in QueueSet /\ NewQueue(g).key = g /\ NewQueue(g).nfrags = 0
        /\ NewQueue(g).frags = <<>>
    BY LimitAssumption DEF NewQueue, QueueSet
  <2>3. QueueOK(NewQueue(g))
    BY <2>1, <2>2, LimitAssumption DEF QueueOK
  <2>4. QueuesOK(qs, n + 1) /\ Len(qs) = Len(q) + 1 /\ qs[1] = NewQueue(g)
    BY <1>3, <2>2, <2>3, PushOK
  <2>5. 1 \in 1 .. Len(qs)
    BY <1>3, <2>4 DEF QueuesOK
  <2> HIDE DEF qs
  <2> DEFINE e == <<>>
  <2>6. /\ ListOK(g, e) /\ Lacks(g, e \o e) /\ Len(e) = 0
        /\ Insert(g, qs, 1, e, f, e, n + 1)
    BY <1>5, <2>1
  <2>7. qs[1].key = g /\ qs[1].nfrags = 0
    BY <2>2, <2>4
  <2> HIDE DEF e
  <2>8. /\ \A a \in 1 .. Len(e) : EndOf(e[a]) <= f.off
        /\ \A a \in 1 .. Len(e) : EndOf(f) <= e[a].off
        /\ Len(e) + Len(e) <= qs[1].nfrags
    BY <2>6, <2>7
  <2> QED BY <1>1, <2>4, <2>5, <2>6, <2>7, <2>8, InsertKeeps
<1> QED BY <1>2, <1>4, <1>5

\* What precedes the fragment ends before the cut fragment begins.
LEMMA CutFragment ==
  ASSUME NEW g \in Grams, NEW fr, ListOK(g, fr), NEW f \in FragSet, IsFrag(g, f),
         NEW k \in 1 .. Len(fr) + 1, NEW i \in Int,
         i = IF k = 1 THEN 0 ELSE Overlap(fr[k - 1], f), ~(i > 0 /\ i >= f.len),
         NEW h, h = IF i > 0 THEN Adj(f, i) ELSE f
  PROVE  /\ h \in FragSet /\ IsFrag(g, h)
         /\ \A a \in 1 .. k - 1 : EndOf(fr[a]) <= h.off
<1>1. /\ Len(fr) \in Nat /\ \A a \in 1 .. Len(fr) : IsFrag(g, fr[a])
      /\ \A a, b \in 1 .. Len(fr) : a < b => EndOf(fr[a]) <= fr[b].off
  BY DEF ListOK
<1>2. \A a \in 1 .. Len(fr) : /\ fr[a].off \in Nat /\ EndOf(fr[a]) \in Nat
                               /\ EndOf(fr[a]) = fr[a].off + fr[a].len /\ fr[a].off <= EndOf(fr[a])
  BY <1>1, FragFields
<1>3. f.off \in Nat /\ f.len \in Nat
  BY FragFields
<1>4. h \in FragSet /\ IsFrag(g, h) /\ h.off = (IF i > 0 THEN f.off + i ELSE f.off)
  <2>1. CASE i > 0
    <3>1. i \in 0 .. f.len
      BY <1>3, <2>1
    <3> QED BY <2>1, <3>1, AdjFrag
  <2>2. CASE ~(i > 0)
    BY <2>2
  <2> QED BY <2>1, <2>2
<1>5. ASSUME NEW a \in 1 .. k - 1
      PROVE  EndOf(fr[a]) <= h.off
  <2> DEFINE l == k - 1
  <2>1. l \in 1 .. Len(fr) /\ a \in 1 .. Len(fr) /\ k # 1 /\ (a = l \/ a < l)
    BY <1>1
  <2>2. i = Overlap(fr[l], f)
    BY <2>1
  <2> HIDE DEF l
  <2>3. i = EndOf(fr[l]) - f.off
    <3>1. Overlap(fr[l], f) = fr[l].off + fr[l].len - f.off
      BY DEF Overlap
    <3>2. EndOf(fr[l]) = fr[l].off + fr[l].len
      BY <1>2, <2>1
    <3>3. fr[l].off \in Int /\ fr[l].len \in Int /\ f.off \in Int
      BY <1>1, <1>3, <2>1, FragFields, SMTT(30)
    <3> QED BY <2>2, <3>1, <3>2, <3>3
  <2>4. EndOf(fr[l]) <= h.off /\ h.off \in Int
    <3> DEFINE x == EndOf(fr[l])
               o == f.off
    <3>1. x \in Int /\ o \in Int /\ i = x - o /\ h.off = (IF i > 0 THEN o + i ELSE o)
      BY <1>2, <1>3, <1>4, <2>1, <2>3
    <3> HIDE DEF x, o
    <3>2. x <= (IF i > 0 THEN o + i ELSE o) /\ (IF i > 0 THEN o + i ELSE o) \in Int
      BY <3>1
    <3> QED BY <3>1, <3>2 DEF x
  <2>5. CASE a = l
    BY <2>4, <2>5
  <2>6. CASE a < l
    <3>1. EndOf(fr[a]) <= fr[l].off
      BY <1>1, <2>1, <2>6
    <3>2. /\ EndOf(fr[a]) \in Nat /\ fr[l].off \in Nat /\ EndOf(fr[l]) \in Nat
          /\ fr[l].off <= EndOf(fr[l])
      BY <1>2, <2>1
    <3> QED BY <2>4, <3>1, <3>2
  <2> QED BY <2>1, <2>5, <2>6
<1> QED BY <1>4, <1>5

LEMMA NextFragmentKeeps ==
  ASSUME NEW g \in Grams, NEW p \in Pieces[g], ReassInv, NextFragment(g, Frag(g, p[1], p[2]))
  PROVE  ReassInv'
<1> DEFINE f == Frag(g, p[1], p[2])
<1>1. f \in FragSet /\ IsFrag(g, f)
  BY PieceIs
<1>2. QueuesOK(ipq, ip_nfrags)
  BY DEF ReassInv
<1>3. PICK j \in Index(g) :
        LET fr == ipq[j].frags
            k == FirstAfter(fr, f.off)
            i == IF k = 1 THEN 0 ELSE Overlap(fr[k - 1], f)
            h == IF i > 0 THEN Adj(f, i) ELSE f
        IN  IF i > 0 /\ i >= f.len
              THEN UNCHANGED <<ipq, ip_nfrags>> /\ out' = Dropped(g)
              ELSE Insert(g, ipq, j, SubSeq(fr, 1, k - 1), h,
                          Uncovered(SubSeq(fr, k, Len(fr)), h.off + h.len), ip_nfrags)
  BY DEF NextFragment
<1> DEFINE fr == ipq[j].frags
           N == Len(fr)
           k == FirstAfter(fr, f.off)
           i == IF k = 1 THEN 0 ELSE Overlap(fr[k - 1], f)
           h == IF i > 0 THEN Adj(f, i) ELSE f
           pre == SubSeq(fr, 1, k - 1)
           tail == SubSeq(fr, k, N)
           post == Uncovered(tail, h.off + h.len)
<1> HIDE DEF f
<1>4. /\ j \in 1 .. Len(ipq) /\ ipq[j].key = g /\ QueueOK(ipq[j]) /\ ipq \in Seq(QueueSet)
  BY <1>2 DEF Index, QueuesOK
<1>5. /\ ListOK(g, fr) /\ Lacks(g, fr) /\ ipq[j].nfrags = N /\ fr \in Seq(FragSet) /\ N \in Nat
  BY <1>4 DEF QueueOK, ListOK
<1>6. k \in 1 .. N + 1
  <2> DEFINE after == {b \in DOMAIN fr : fr[b].off > f.off}
  <2>1. after \subseteq DOMAIN fr /\ k = Earliest(after, fr)
    BY DEF FirstAfter
  <2> HIDE DEF after, k, fr
  <2> QED BY <1>5, <2>1, EarliestIs
<1>7. i \in Int
  <2>1. k # 1 => k - 1 \in 1 .. N
    BY <1>5, <1>6
  <2>2. k # 1 => IsFrag(g, fr[k - 1])
    BY <1>5, <2>1 DEF ListOK
  <2>3. k # 1 => fr[k - 1].off \in Nat /\ fr[k - 1].len \in Nat
    BY <2>2 DEF IsFrag
  <2>4. f.off \in Nat
    BY <1>1 DEF IsFrag
  <2> QED BY <2>3, <2>4 DEF Overlap
<1>8. CASE i > 0 /\ i >= f.len
  <2>1. UNCHANGED <<ipq, ip_nfrags>> /\ out' = Dropped(g)
    BY <1>3, <1>8
  <2> QED BY <1>2, <2>1 DEF ReassInv, DeliveredWhole, Dropped
<1>9. CASE ~(i > 0 /\ i >= f.len)
  <2>1. Insert(g, ipq, j, pre, h, post, ip_nfrags)
    BY <1>3, <1>9
  <2>2. /\ h \in FragSet /\ IsFrag(g, h) /\ \A a \in 1 .. k - 1 : EndOf(fr[a]) <= h.off
    <3> HIDE DEF fr, k
    <3>1. i = IF k = 1 THEN 0 ELSE Overlap(fr[k - 1], f)
      OBVIOUS
    <3>2. h = IF i > 0 THEN Adj(f, i) ELSE f
      OBVIOUS
    <3> HIDE DEF i, h
    <3> QED BY <1>1, <1>5, <1>6, <1>7, <1>9, <3>1, <3>2, CutFragment DEF N
  <2> HIDE DEF h, i, k, fr
  <2>3. /\ h.off \in Nat /\ EndOf(h) = h.off + h.len /\ EndOf(h) \in Nat /\ h.off <= EndOf(h)
    BY <2>2, FragFields
  <2>4. /\ ListOK(g, pre) /\ Len(pre) = k - 1 /\ \A a \in 1 .. k - 1 : pre[a] = fr[a]
    <3>1. /\ ListOK(g, pre) /\ Len(pre) = (k - 1) - 1 + 1
          /\ \A a \in 1 .. (k - 1) - 1 + 1 : pre[a] = fr[1 + a - 1]
      <4>1. 1 \in 1 .. N + 1 /\ k - 1 \in 0 .. N /\ 1 <= (k - 1) + 1
        BY <1>5, <1>6
      <4> QED BY <1>5, <4>1, PartOK
    <3>2. k \in Int /\ \A a \in 1 .. k - 1 : 1 + a - 1 = a
      BY <1>6
    <3>3. (k - 1) - 1 + 1 = k - 1
      BY <3>2
    <3> QED BY <3>1, <3>2, <3>3
  <2>5. /\ ListOK(g, tail) /\ Len(tail) = N - k + 1
        /\ \A a \in 1 .. N - k + 1 : tail[a] = fr[k + a - 1]
    <3>1. N \in 0 .. N /\ k <= N + 1
      BY <1>5, <1>6
    <3> QED BY <1>5, <1>6, <3>1, PartOK
  <2> HIDE DEF pre, tail
  <2>6. /\ ListOK(g, post) /\ Len(post) \in 0 .. Len(tail)
        /\ \A a \in 1 .. Len(post) :
             /\ h.off + h.len <= post[a].off
             /\ \E b \in 1 .. Len(tail) :
                  tail[b].off <= post[a].off /\ EndOf(post[a]) <= EndOf(tail[b])
    <3>1. h.off + h.len \in Nat
      BY <2>3
    <3> QED BY <2>5, <3>1, UncoveredOK
  <2> HIDE DEF post, N
  <2>7. /\ \A a \in 1 .. Len(pre) : EndOf(pre[a]) <= h.off
        /\ \A a \in 1 .. Len(post) : EndOf(h) <= post[a].off
    BY <2>2, <2>3, <2>4, <2>6
  <2>8. Len(pre) + Len(post) <= ipq[j].nfrags
    <3>1. Len(pre) = k - 1 /\ Len(post) <= N - k + 1 /\ Len(post) \in Int /\ N \in Int /\ k \in Int
      BY <1>5, <1>6, <2>4, <2>5, <2>6
    <3>2. Len(pre) + Len(post) <= N
      BY <3>1
    <3> QED BY <1>5, <3>2
  <2>9. Lacks(g, pre \o post)
    <3>1. ASSUME NEW a \in 1 .. Len(pre), NEW b \in 1 .. Len(post)
          PROVE  EndOf(pre[a]) <= post[b].off
      <4>1. IsFrag(g, pre[a]) /\ IsFrag(g, post[b])
        BY <2>4, <2>6 DEF ListOK
      <4>2. EndOf(pre[a]) \in Nat /\ post[b].off \in Nat
        BY <4>1, FragFields
      <4> QED BY <2>3, <2>7, <4>2
    <3> DEFINE s == pre \o post
    <3>2. /\ ListOK(g, s) /\ Len(s) = Len(pre) + Len(post)
          /\ \A b \in 1 .. Len(pre) + Len(post) :
               s[b] = IF b <= Len(pre) THEN pre[b] ELSE post[b - Len(pre)]
      <4>1. ListOK(g, pre)
        BY <2>4
      <4>2. ListOK(g, post)
        BY <2>6
      <4> QED BY <3>1, <4>1, <4>2, JoinOK
    <3> HIDE DEF s
    <3>3. ASSUME NEW a \in 1 .. Len(s)
          PROVE  \E b \in 1 .. N : fr[b].off <= s[a].off /\ EndOf(s[a]) <= EndOf(fr[b])
      <4>1. CASE a <= Len(pre)
        <5>1. a \in 1 .. k - 1 /\ s[a] = pre[a] /\ a \in 1 .. N
          BY <1>5, <1>6, <2>4, <2>6, <3>2, <4>1
        <5>2. s[a] = fr[a]
          BY <2>4, <5>1
        <5>3. fr[a].off \in Nat /\ EndOf(fr[a]) \in Nat
          BY <1>5, <5>1, FragFields DEF ListOK, N
        <5> QED BY <5>1, <5>2, <5>3
      <4>2. CASE ~(a <= Len(pre))
        <5>1. a - Len(pre) \in 1 .. Len(post) /\ s[a] = post[a - Len(pre)]
          BY <1>5, <1>6, <2>4, <2>5, <2>6, <3>2, <4>2
        <5>2. PICK b \in 1 .. Len(tail) :
                tail[b].off <= s[a].off /\ EndOf(s[a]) <= EndOf(tail[b])
          BY <2>6, <5>1
        <5>3. b \in 1 .. N - k + 1 /\ k + b - 1 \in 1 .. N
          BY <1>5, <1>6, <2>5
        <5>4. tail[b] = fr[k + b - 1]
          BY <2>5, <5>3
        <5> QED BY <5>2, <5>3, <5>4
      <4> QED BY <4>1, <4>2
    <3>4. Lacks(g, s)
      BY <1>5, <3>2, <3>3, PartsLack DEF N
    <3> QED BY <3>4 DEF s
  <2> QED BY <1>2, <1>4, <2>1, <2>2, <2>4, <2>6, <2>7, <2>8, <2>9, InsertKeeps
<1> QED BY <1>8, <1>9

LEMMA WholeArrivesKeeps ==
  ASSUME NEW g \in Grams, ReassInv, WholeArrives(g)
  PROVE  ReassInv'
<1>1. PICK j \in Index(g) :
        /\ ipq' = RemoveAt(ipq, j) /\ ip_nfrags' = Decrement(ip_nfrags)
        /\ out' = Delivered(g, Size[g], Bytes(0, Size[g]))
  BY DEF WholeArrives
<1>2. /\ QueuesOK(ipq, ip_nfrags) /\ j \in 1 .. Len(ipq)
      /\ ip_nfrags \in Nat /\ Len(ipq) \in Nat /\ Len(ipq) <= ip_nfrags
  BY DEF ReassInv, Index, QueuesOK
<1>3. Decrement(ip_nfrags) \in Nat /\ Len(ipq) - 1 <= Decrement(ip_nfrags)
  BY <1>2 DEF Decrement
<1>4. QueuesOK(RemoveAt(ipq, j), Decrement(ip_nfrags))
  BY <1>2, <1>3, RemoveOK
<1>5. out'.key = {g} /\ out'.len = Size[g] /\ out'.data = Bytes(0, Size[g])
  BY <1>1 DEF Delivered
<1> QED BY <1>1, <1>4, <1>5 DEF ReassInv, DeliveredWhole

\* The function that Unexpired defines.
LeftStep(qs, w, j) ==
  IF j = 0 THEN <<>>
  ELSE IF Timo(qs[j]) THEN Append(w[j - 1], qs[j]) ELSE w[j - 1]

LEMMA UnexpiredIs ==
  ASSUME NEW qs, NEW h, h = [j \in 0 .. Len(qs) |-> LeftStep(qs, h, j)]
  PROVE  \E w : /\ w = [j \in 0 .. Len(qs) |-> LeftStep(qs, w, j)]
                /\ Unexpired(qs) = w[Len(qs)]
BY Zenon DEF Unexpired, LeftStep

LEMMA LeftExists ==
  ASSUME NEW qs, Len(qs) \in Nat
  PROVE  \E h : h = [j \in 0 .. Len(qs) |-> LeftStep(qs, h, j)]
<1> DEFINE N == Len(qs)
           T == {n \in 0 .. N : \E h : h = [j \in 0 .. n |-> LeftStep(qs, h, j)]}
<1>1. 0 \in T
  <2> DEFINE h == [j \in 0 .. 0 |-> <<>>]
  <2>1. \A j \in 0 .. 0 : LeftStep(qs, h, j) = <<>>
    BY DEF LeftStep
  <2>2. h = [j \in 0 .. 0 |-> LeftStep(qs, h, j)]
    BY <2>1
  <2> HIDE DEF h
  <2> QED BY <2>2
<1>2. ASSUME NEW n \in 1 .. N, n - 1 \in T
      PROVE  n \in T
  <2>1. PICK h : h = [j \in 0 .. n - 1 |-> LeftStep(qs, h, j)]
    BY <1>2
  <2> DEFINE w == [j \in 0 .. n |-> IF j = n THEN LeftStep(qs, h, n) ELSE h[j]]
  <2>2. \A j \in 0 .. n : j # 0 => w[j - 1] = h[j - 1]
    OBVIOUS
  <2>3. \A j \in 0 .. n : LeftStep(qs, w, j) = LeftStep(qs, h, j)
    BY <2>2 DEF LeftStep
  <2>4. \A j \in 0 .. n : j # n => h[j] = LeftStep(qs, h, j)
    <3>1. \A j \in 0 .. n - 1 : h[j] = LeftStep(qs, h, j)
      BY <2>1
    <3> QED BY <3>1
  <2>5. \A j \in 0 .. n : (IF j = n THEN LeftStep(qs, h, n) ELSE h[j]) = LeftStep(qs, w, j)
    BY <2>3, <2>4
  <2>6. w = [j \in 0 .. n |-> LeftStep(qs, w, j)]
    BY <2>5
  <2> HIDE DEF w
  <2> QED BY <2>6
<1>3. \A n \in 0 .. N : n \in T
  <2> HIDE DEF T, N
  <2>1. N \in Nat
    BY DEF N
  <2>2. \A n \in 1 .. N : n - 1 \in T => n \in T
    BY <1>2
  <2> QED BY <1>1, <2>1, <2>2, CountUp
<1>4. N \in T
  BY <1>3
<1> QED BY <1>4

\* The queues that are left are some of those before, in order.
LEMMA UnexpiredOK ==
  ASSUME NEW qs, NEW n, QueuesOK(qs, n)
  PROVE  LET r == Unexpired(qs)
         IN  /\ r \in Seq(QueueSet) /\ Len(r) <= Len(qs)
             /\ \A i \in 1 .. Len(r) : QueueOK(r[i])
             /\ \A i, k \in 1 .. Len(r) : r[i].key = r[k].key => i = k
<1> DEFINE N == Len(qs)
           Some(r, m) == /\ r \in Seq(QueueSet) /\ Len(r) <= m
                         /\ \A i \in 1 .. Len(r) : QueueOK(r[i])
                         /\ \A i \in 1 .. Len(r) : \E k \in 1 .. m : r[i].key = qs[k].key
                         /\ \A i, k \in 1 .. Len(r) : r[i].key = r[k].key => i = k
<1>1. /\ N \in Nat /\ qs \in Seq(QueueSet)
      /\ \A j \in 1 .. N : qs[j] \in QueueSet /\ QueueOK(qs[j])
      /\ \A j, k \in 1 .. N : qs[j].key = qs[k].key => j = k
  BY DEF QueuesOK
<1>2. PICK w : w = [j \in 0 .. N |-> LeftStep(qs, w, j)] /\ Unexpired(qs) = w[N]
  BY <1>1, LeftExists, UnexpiredIs
<1>3. \A j \in 0 .. N : w[j] = LeftStep(qs, w, j)
  BY <1>2
<1> HIDE DEF N
<1> DEFINE T == {j \in 0 .. N : Some(w[j], j)}
<1>4. 0 \in T
  <2>1. w[0] = <<>>
    BY <1>1, <1>3 DEF LeftStep
  <2>2. <<>> \in Seq(QueueSet) /\ Len(<<>>) = 0
    OBVIOUS
  <2>3. Some(<<>>, 0)
    BY <2>2
  <2> HIDE DEF Some
  <2> QED BY <1>1, <2>1, <2>3
<1>5. ASSUME NEW m \in 1 .. N, m - 1 \in T
      PROVE  m \in T
  <2> DEFINE v == w[m - 1]
             x == qs[m]
             r == w[m]
  <2>1. m - 1 \in 0 .. N /\ m \in 0 .. N /\ m \in Nat /\ m # 0
    BY <1>1
  <2>2. Some(v, m - 1) /\ v \in Seq(QueueSet) /\ Len(v) \in Nat /\ Len(v) <= m - 1
    BY <1>5
  <2>3. r = IF Timo(x) THEN Append(v, x) ELSE v
    BY <1>3, <2>1 DEF LeftStep
  <2>4. x \in QueueSet /\ QueueOK(x)
    BY <1>1
  <2> HIDE DEF v, x, r
  <2>5. \A k \in 1 .. m - 1 : k \in 1 .. m /\ k \in 1 .. N /\ k # m
    BY <1>1
  <2>6. CASE ~Timo(x)
    <3>1. Some(r, m)
      BY <2>1, <2>2, <2>3, <2>5, <2>6
    <3> QED BY <2>1, <3>1 DEF r
  <2>7. CASE Timo(x)
    <3>1. /\ r \in Seq(QueueSet) /\ Len(r) = Len(v) + 1 /\ r[Len(v) + 1] = x
          /\ \A i \in 1 .. Len(v) : r[i] = v[i]
      BY <2>2, <2>3, <2>4, <2>7, AppendProperties
    <3>2. /\ \A i \in 1 .. Len(r) : i \in 1 .. Len(v) \/ i = Len(v) + 1
          /\ Len(r) <= m
      BY <2>1, <2>2, <3>1
    <3>3. \A i \in 1 .. Len(v) : r[i].key # x.key
      <4> SUFFICES ASSUME NEW i \in 1 .. Len(v) PROVE v[i].key # x.key
        BY <3>1
      <4>1. PICK k \in 1 .. m - 1 : v[i].key = qs[k].key
        BY <2>2
      <4> QED BY <1>1, <2>5, <4>1 DEF x
    <3>4. \A i \in 1 .. Len(r) : QueueOK(r[i])
      BY <2>2, <2>4, <3>1, <3>2
    <3>5. ASSUME NEW i \in 1 .. Len(r)
          PROVE  \E k \in 1 .. m : r[i].key = qs[k].key
      <4>1. CASE i \in 1 .. Len(v)
        BY <2>2, <2>5, <3>1, <4>1
      <4>2. CASE i = Len(v) + 1
        BY <2>1, <3>1, <4>2 DEF x
      <4> QED BY <3>2, <4>1, <4>2
    <3>6. \A i, k \in 1 .. Len(r) : r[i].key = r[k].key => i = k
      BY <2>2, <3>1, <3>2, <3>3
    <3>7. Some(r, m)
      BY <3>1, <3>2, <3>4, <3>5, <3>6
    <3> QED BY <2>1, <3>7 DEF r
  <2> QED BY <2>6, <2>7
<1>6. N \in T
  <2> HIDE DEF T
  <2>1. \A m \in 1 .. N : m - 1 \in T => m \in T
    BY <1>5
  <2>2. \A m \in 0 .. N : m \in T
    BY <1>1, <1>4, <2>1, CountUp
  <2> QED BY <1>1, <2>2
<1> QED BY <1>2, <1>6 DEF N

LEMMA SlowTimoKeeps ==
  ASSUME ReassInv, SlowTimo
  PROVE  ReassInv'
<1> DEFINE N == Len(ipq)
           r == Unexpired(Aged)
<1>1. /\ QueuesOK(ipq, ip_nfrags) /\ ipq \in Seq(QueueSet) /\ N \in Nat
      /\ ip_nfrags \in Nat /\ N <= ip_nfrags
      /\ \A j \in 1 .. N : ipq[j] \in QueueSet /\ QueueOK(ipq[j])
  BY DEF ReassInv, QueuesOK
<1>2. /\ Aged = [j \in 1 .. N |-> [ipq[j] EXCEPT !.ttl = @ - 1]]
  BY <1>1 DEF Aged
<1>3. ASSUME NEW j \in 1 .. N
      PROVE  LET q == [ipq[j] EXCEPT !.ttl = @ - 1]
             IN  q \in QueueSet /\ q.key = ipq[j].key /\ QueueOK(q)
  <2> DEFINE o == ipq[j]
             q == [o EXCEPT !.ttl = o.ttl - 1]
  <2>1. o \in QueueSet /\ QueueOK(o)
    BY <1>1
  <2> HIDE DEF o
  <2>2. o.ttl - 1 \in Int
    BY <2>1 DEF QueueSet
  <2>3. q \in QueueSet /\ q.key = o.key /\ q.nfrags = o.nfrags /\ q.frags = o.frags
    BY <2>1, <2>2 DEF QueueSet
  <2> HIDE DEF q
  <2>4. QueueOK(q)
    BY <2>1, <2>3 DEF QueueOK
  <2> QED BY <2>3, <2>4 DEF q, o
<1>4. /\ Aged \in Seq(QueueSet) /\ Len(Aged) = N
      /\ \A j \in 1 .. N : Aged[j].key = ipq[j].key /\ QueueOK(Aged[j])
  <2> DEFINE e(j) == [ipq[j] EXCEPT !.ttl = @ - 1]
  <2>1. \A j \in 1 .. N : e(j) \in QueueSet /\ e(j).key = ipq[j].key /\ QueueOK(e(j))
    BY <1>3
  <2>2. Aged = [j \in 1 .. N |-> e(j)]
    BY <1>2
  <2> HIDE DEF e, N
  <2>3. Aged \in Seq(QueueSet) /\ Len(Aged) = N /\ \A j \in 1 .. N : Aged[j] = e(j)
    BY <1>1, <2>1, <2>2
  <2> QED BY <2>1, <2>3
<1>5. QueuesOK(Aged, ip_nfrags)
  BY <1>1, <1>4 DEF QueuesOK
<1>6. /\ r \in Seq(QueueSet) /\ Len(r) <= N
      /\ \A i \in 1 .. Len(r) : QueueOK(r[i])
      /\ \A i, k \in 1 .. Len(r) : r[i].key = r[k].key => i = k
  BY <1>4, <1>5, UnexpiredOK
<1>7. /\ ipq' = r /\ out' = Nothing
      /\ ip_nfrags' = IF ip_nfrags > N - Len(r) THEN ip_nfrags - (N - Len(r)) ELSE 0
  BY DEF SlowTimo
<1> HIDE DEF r
<1>8. ip_nfrags' \in Nat /\ Len(r) <= ip_nfrags' /\ Len(r) \in Nat
  BY <1>1, <1>6, <1>7
<1>9. QueuesOK(r, ip_nfrags')
  BY <1>1, <1>6, <1>8, FewerOK
<1> QED BY <1>7, <1>9 DEF ReassInv, DeliveredWhole, Nothing

LEMMA EmptyOK ==
  ASSUME NEW n \in Nat
  PROVE  QueuesOK(<<>>, n)
BY LimitAssumption DEF QueuesOK

LEMMA DrainKeeps ==
  ASSUME ReassInv, DrainQueues \/ Restart
  PROVE  ReassInv'
<1>1. ip_nfrags \in Nat /\ Len(ipq) \in Nat
  BY DEF ReassInv, QueuesOK
<1>2. ipq' = <<>> /\ ip_nfrags' \in Nat /\ out' = Nothing
  BY <1>1 DEF DrainQueues, Restart
<1> QED BY <1>2, EmptyOK DEF ReassInv, DeliveredWhole, Nothing

LEMMA ReassStep == ReassInv /\ [ReassNext]_reassvars => ReassInv'
<1> SUFFICES ASSUME ReassInv, [ReassNext]_reassvars
             PROVE  ReassInv'
  OBVIOUS
<1>1. CASE \E g \in Grams : FragmentArrives(g)
  <2>1. PICK g \in Grams : FragmentArrives(g)
    BY <1>1
  <2>2. PICK p \in Pieces[g] : \/ FirstFragment(g, Frag(g, p[1], p[2]))
                              \/ NextFragment(g, Frag(g, p[1], p[2]))
    BY <2>1 DEF FragmentArrives
  <2> QED BY <2>2, FirstFragmentKeeps, NextFragmentKeeps
<1>2. CASE \E g \in Grams : WholeArrives(g)
  BY <1>2, WholeArrivesKeeps
<1>3. CASE SlowTimo
  BY <1>3, SlowTimoKeeps
<1>4. CASE DrainQueues \/ Restart
  BY <1>4, DrainKeeps
<1>5. CASE UNCHANGED reassvars
  BY <1>5 DEF reassvars, ReassInv, DeliveredWhole
<1> QED BY <1>1, <1>2, <1>3, <1>4, <1>5 DEF ReassNext

\* What the invariant says of the pool and of what is held.
LEMMA InvSound == ReassInv => ReassSound
<1> SUFFICES ASSUME ReassInv PROVE ReassSound
  OBVIOUS
<1>1. /\ ipq \in Seq(QueueSet) /\ DOMAIN ipq = 1 .. Len(ipq) /\ Len(ipq) \in Nat
      /\ ip_nfrags \in Nat /\ Len(ipq) <= ip_nfrags /\ Len(ipq) <= MaxPackets
      /\ \A j \in 1 .. Len(ipq) : QueueOK(ipq[j])
      /\ \A j, k \in 1 .. Len(ipq) : ipq[j].key = ipq[k].key => j = k
  BY DEF ReassInv, QueuesOK
<1>2. CountCovers /\ DeliveredWhole
  BY <1>1 DEF CountCovers, ReassInv
<1>3. QueuesBounded
  BY <1>1 DEF QueuesBounded, QueueOK
<1>4. FragsDisjoint
  <2> SUFFICES ASSUME NEW j \in 1 .. Len(ipq)
               PROVE  /\ ipq[j].nfrags = Len(ipq[j].frags)
                      /\ \A a, b \in DOMAIN ipq[j].frags : a < b =>
                           ipq[j].frags[a].off + ipq[j].frags[a].len <= ipq[j].frags[b].off
    BY <1>1 DEF FragsDisjoint
  <2> DEFINE fr == ipq[j].frags
  <2>1. ListOK(ipq[j].key, fr) /\ ipq[j].nfrags = Len(fr)
    BY <1>1 DEF QueueOK
  <2>2. DOMAIN fr = 1 .. Len(fr)
    BY <2>1 DEF ListOK
  <2> QED BY <2>1, <2>2 DEF ListOK, EndOf
<1>5. NoneCompleteQueued
  <2> SUFFICES ASSUME NEW j \in 1 .. Len(ipq)
               PROVE  Held(ipq[j]) # Range(Bytes(0, Size[ipq[j].key]))
    BY <1>1 DEF NoneCompleteQueued
  <2> DEFINE fr == ipq[j].frags
             g == ipq[j].key
  <2>1. g \in Grams /\ ListOK(g, fr) /\ Lacks(g, fr) /\ Size[g] \in Nat
    <3>1. ipq[j] \in QueueSet /\ QueueOK(ipq[j])
      BY <1>1
    <3>2. g \in Grams
      BY <3>1 DEF QueueSet
    <3> QED BY <3>1, <3>2, SizeAssumption DEF QueueOK
  <2>2. PICK x \in 0 .. Size[g] - 1 : \A a \in 1 .. Len(fr) : Outside(x, fr[a])
    BY <2>1 DEF Lacks
  <2>3. DOMAIN fr = 1 .. Len(fr) /\ Held(ipq[j]) = UNION {Range(fr[a].data) : a \in 1 .. Len(fr)}
    BY <2>1 DEF Held, ListOK
  <2> HIDE DEF fr, g
  <2>4. ASSUME NEW a \in 1 .. Len(fr)
        PROVE  x \notin Range(fr[a].data)
    <3> DEFINE o == fr[a].off
               l == fr[a].len
    <3>1. IsFrag(g, fr[a])
      BY <2>1 DEF ListOK
    <3>2. o \in Nat /\ l \in Nat /\ EndOf(fr[a]) = o + l /\ fr[a].data = Bytes(o, l)
      BY <2>1, <3>1, FragFields
    <3>3. x < o \/ o + l <= x
      BY <2>2, <3>2 DEF Outside
    <3> HIDE DEF o, l
    <3>4. \A i \in 1 .. l : o + i - 1 # x
      BY <3>2, <3>3
    <3>5. Range(Bytes(o, l)) = {o + i - 1 : i \in 1 .. l}
      BY DEF Range, Bytes
    <3> QED BY <3>2, <3>4, <3>5
  <2>5. x \notin Held(ipq[j])
    BY <2>3, <2>4
  <2>6. x \in Range(Bytes(0, Size[g]))
    <3>1. x + 1 \in 1 .. Size[g] /\ 0 + (x + 1) - 1 = x
      BY <2>1, <2>2
    <3> QED BY <3>1 DEF Range, Bytes
  <2> QED BY <2>5, <2>6 DEF g
<1> QED BY <1>2, <1>3, <1>4, <1>5 DEF ReassSound

\* ip_reass keeps its queues in order and bounded, joins a datagram exactly when nothing of
\* it is missing, and delivers it as it was sent.
THEOREM SpecReassSound == ReassSpec => []ReassSound
<1>1. ReassInit => ReassInv
  <2> SUFFICES ASSUME ReassInit PROVE ReassInv
    OBVIOUS
  <2> QED BY EmptyOK DEF ReassInit, ReassInv, DeliveredWhole, Nothing
<1> QED BY <1>1, ReassStep, InvSound, PTL DEF ReassSpec

=============================================================================
