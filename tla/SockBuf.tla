------------------------------ MODULE SockBuf ------------------------------
(***************************************************************************)
(* Socket buffers (kern/uipc_socket2.c) and the two system calls that move *)
(* data through them, sosend and soreceive (kern/uipc_socket.c).  The      *)
(* buffers of a socket do not touch each other, so a behaviour looks at    *)
(* one of three: the receive buffer of a stream socket (so = "stream") or  *)
(* of a datagram socket ("dgram": PR_ATOMIC and PR_ADDR), or the send      *)
(* buffer of a stream socket ("send").                                     *)
(*                                                                         *)
(* soreceive drops the interrupt level while it copies to the program, so  *)
(* packets are appended and urgent data arrive between the choice of what  *)
(* to copy and the accounting; sosend gives it up between two mbufs, so    *)
(* acknowledgements drop data in between.  A buffer is [recs, cc, mbcnt,   *)
(* tail]: a sequence of records (chains), the octets and mbufs accounted   *)
(* for, and sb_mbtail as the number of an mbuf.                            *)
(***************************************************************************)
EXTENDS Mbuf

CONSTANTS
  Kinds,      \* \subseteq {"stream", "dgram", "send"}
  HiWat, MbMax, LoWat,   \* limits of both buffers
  MaxStream,  \* octets that pass in each direction
  Sizes       \* sizes of packets, of reads and of writes

ASSUME SockBufAssumption ==
  /\ Kinds \subseteq {"stream", "dgram", "send"} /\ Sizes \subseteq Nat
  /\ {HiWat, MbMax, LoWat, MaxStream} \subseteq Nat

VARIABLES
  so,     \* the buffer looked at
  rcv,    \* so_rcv
  oob,    \* [mark, at]: so_oobmark and SS_RCVATMARK
  eof,    \* SS_CANTRCVMORE
  rd,     \* the reader in soreceive; of the octets in rd.got the first rd.base were
          \* copied before it last began at the front of the buffer
  in,     \* octets that arrived so far; a datagram is a record [dat, last]
  urg,    \* the position of the urgent octet, none 0
  snd,    \* so_snd
  wr,     \* the writer in sosend: [pc, resid, space]
  wrote, acked   \* octets accepted, octets acknowledged

sbvars == <<pool, so, rcv, oob, eof, rd, in, urg, snd, wr, wrote, acked>>
allsb == <<sbvars, chain, want, mops>>

EmptySb == [recs |-> <<>>, cc |-> 0, mbcnt |-> 0, tail |-> 0]
NoRead == [pc |-> "idle", resid |-> 0, peek |-> FALSE, all |-> FALSE, moff |-> 0,
           n |-> 1, len |-> 0, offset |-> 0, got |-> <<>>, base |-> 0]
NoWrite == [pc |-> "idle", resid |-> 0, space |-> 0]

SockBufInit ==
  /\ MbufInit /\ so \in Kinds
  /\ rcv = EmptySb /\ snd = EmptySb /\ oob = [mark |-> 0, at |-> FALSE] /\ eof = FALSE
  /\ rd = NoRead /\ wr = NoWrite /\ in = <<>> /\ urg = 0 /\ wrote = 0 /\ acked = 0

-----------------------------------------------------------------------------
(* Buffers.  A call returns [p, sb].                                       *)

Cost(m) == 1 + (IF m.cl # 0 THEN MclBytes ELSE 0)
sballoc(sb, m) == [sb EXCEPT !.cc = @ + Len(m.dat), !.mbcnt = @ + Cost(m)]
\* Mutant: the cluster of an mbuf that leaves stays charged to the buffer.
sbfree_KeepCluster(sb, m) == [sb EXCEPT !.cc = @ - Len(m.dat), !.mbcnt = @ - 1]

sbfree(sb, m) == [sb EXCEPT !.cc = @ - Len(m.dat), !.mbcnt = @ - Cost(m)]
sbspace(sb) == Least2(HiWat - sb.cc, MbMax - sb.mbcnt)
Filled(p, sb) == [p |-> p, sb |-> sb]

\* The chain goes behind mbuf `tail` of the last record: empty mbufs and those
\* that fit into their predecessor are freed on the way.
sbcompress(p, sb, c) ==
  LET Put(acc, k) ==
        LET m == c[k]
            rec == acc.sb.recs[Len(acc.sb.recs)]
            n == rec[Len(rec)]
            none == acc.sb.recs = <<>>
            next == IF k < Len(c) THEN {c[k + 1]} ELSE IF none THEN {} ELSE {n}
        IN IF m.dat = <<>> /\ \E o \in next : o.ty = m.ty
           THEN Filled(m_free(acc.p, m), acc.sb)
           ELSE IF ~none /\ n.cl = 0 /\ n.off + Len(n.dat) + Len(m.dat) < MLEN /\ n.ty = m.ty
           THEN Filled(m_free(acc.p, m),
                       [acc.sb EXCEPT !.recs[Len(acc.sb.recs)][Len(rec)].dat = @ \o m.dat,
                                      !.cc = @ + Len(m.dat)])
           ELSE Filled(acc.p,
                       sballoc([acc.sb EXCEPT !.recs = IF none THEN <<<<m>>>>
                                                       ELSE [@ EXCEPT ![Len(@)] = Append(@, m)]], m))
      r == FoldLeft(Put, Filled(p, sb), [k \in DOMAIN c |-> k])
      last == r.sb.recs[Len(r.sb.recs)]
  IN Filled(r.p, [r.sb EXCEPT !.tail = IF r.sb.recs = <<>> THEN 0 ELSE last[Len(last)].id])

\* Append to the stream: behind sb_mbtail, which is only read when sb_mb is not 0.
sbappend(p, sb, c) == sbcompress(p, sb, c)

\* A datagram: its sender's address, then its data; refused, the caller frees it.
sbappendaddr(p, sb, c) ==
  LET g == MGET(p)
      name == [Blank(g.ids[1], "name") EXCEPT !.dat = <<0>>]
      rec == <<name>> \o c
  IN IF 1 + c[1].plen > sbspace(sb) THEN Filled(m_freem(p, c), sb)
     ELSE IF g.ids = <<>> THEN Filled(m_freem(g.p, c), sb)
     ELSE Filled(g.p, [FoldLeft(sballoc, sb, rec) EXCEPT
                         !.recs = Append(@, rec), !.tail = rec[Len(rec)].id])

\* sb_mb moves on by one mbuf of the first record.
Pop(sb) == [sb EXCEPT !.recs = IF Len(@[1]) = 1 THEN Tail(@) ELSE [@ EXCEPT ![1] = Tail(@)]]
TailOf(sb) == IF sb.recs = <<>> THEN [sb EXCEPT !.tail = 0] ELSE sb

sbdrop(p, sb, len) ==
  LET c == FlattenSeq(sb.recs)
      Take(acc, m) ==
        IF acc.len = 0 /\ m.dat # <<>> THEN acc
        ELSE IF acc.stop THEN acc
        ELSE IF Len(m.dat) > acc.len
        THEN [acc EXCEPT !.stop = TRUE, !.len = 0,
                         !.sb = [acc.sb EXCEPT !.recs[1][1].dat = Drop(@, acc.len),
                                               !.recs[1][1].off = @ + acc.len, !.cc = @ - acc.len]]
        ELSE [acc EXCEPT !.len = @ - Len(m.dat), !.p = m_free(acc.p, m),
                         !.sb = Pop(sbfree(acc.sb, m))]
      r == FoldLeft(Take, [p |-> p, sb |-> sb, len |-> len, stop |-> FALSE], c)
  IN Filled(r.p, TailOf(r.sb))

sbdroprecord(p, sb) ==
  LET free == FoldLeft(sbfree, sb, sb.recs[1])
  IN Filled(m_freem(p, sb.recs[1]), TailOf([free EXCEPT !.recs = Tail(@)]))

sbflush(p, sb) == Filled(m_freem(p, FlattenSeq(sb.recs)), EmptySb)

-----------------------------------------------------------------------------
(* Packets come in.                                                        *)

Fresh(n) == [k \in 1..n |-> Len(in) + k]
Packet(g, data) == <<[Header(g.ids[1], "data") EXCEPT !.dat = data, !.plen = Len(data)]>>
Locked == rd.pc # "idle"
Rest == UNCHANGED <<chain, want, mops, so>>
Reading == UNCHANGED <<rcv, oob, eof, rd, in, urg>>
Writing == UNCHANGED <<snd, wr, wrote, acked>>

\* tcp_input: in-order data.  The window the peer was told keeps it in hiwat.
StreamIn(n) ==
  LET g == MGET(pool)
      r == sbappend(g.p, rcv, Packet(g, Fresh(n)))
  IN /\ so = "stream" /\ ~eof /\ n > 0 /\ n <= HiWat - rcv.cc /\ n <= MHLEN
     /\ Len(in) + n <= MaxStream /\ g.ids # <<>>
     /\ pool' = r.p /\ rcv' = r.sb /\ in' = in \o Fresh(n)
     /\ UNCHANGED <<oob, eof, rd, urg>> /\ Writing /\ Rest

\* Urgent data: the mark is counted from the front of the buffer.
Urgent(n) ==
  /\ so = "stream" /\ ~eof /\ n > 0 /\ Len(in) + n > urg
  /\ urg' = Len(in) + n
  /\ oob' = [mark |-> rcv.cc + n - 1, at |-> oob.at \/ rcv.cc + n - 1 = 0]
  /\ UNCHANGED <<pool, rcv, eof, rd, in>> /\ Writing /\ Rest

\* udp_input: a datagram; the next one is the same datagram to the model.
DgramIn(n) ==
  LET g == MGET(pool)
      r == sbappendaddr(g.p, rcv, Packet(g, Fresh(n)))
  IN /\ so = "dgram" /\ ~eof /\ n <= MHLEN /\ Len(in) + n <= MaxStream /\ g.ids # <<>>
     /\ pool' = r.p /\ rcv' = r.sb
     /\ in' = IF r.sb = rcv THEN in ELSE in \o Fresh(n)
     /\ UNCHANGED <<oob, eof, rd, urg>> /\ Writing /\ Rest

PeerCloses ==
  /\ so # "send" /\ ~eof /\ eof' = TRUE
  /\ UNCHANGED <<pool, rcv, oob, rd, in, urg>> /\ Writing /\ Rest

-----------------------------------------------------------------------------
(* soreceive.                                                              *)

\* What the loop copies next out of the mbuf it is at, as seen before the level drops.
Chosen(r, sb, mark) ==
  LET m == sb.recs[1][r.n]
      upto == IF mark # 0 THEN Least2(r.resid, mark - r.offset) ELSE r.resid
  IN Least2(upto, Len(m.dat) - r.moff)

\* Enough is there: the call goes on; otherwise it sleeps, which is not a step.
MayRead(resid, all) ==
  \/ rcv.recs # <<>> /\ ( \/ rcv.cc >= resid \/ eof \/ Len(rcv.recs) > 1
                          \/ rcv.cc >= LoWat /\ ~(all /\ resid <= HiWat) )
  \/ eof

soreceive(resid, peek, all) ==
  LET first == rcv.recs[1]
      named == so = "dgram"
      r0 == [NoRead EXCEPT !.pc = "copy", !.resid = resid, !.peek = peek, !.all = all,
                           !.n = IF named /\ peek THEN 2 ELSE 1]
      left == IF named /\ ~peek THEN [sbfree(rcv, first[1]) EXCEPT !.recs = [@ EXCEPT ![1] = Tail(@)]]
              ELSE rcv
  IN /\ rd.pc = "idle" /\ resid > 0 /\ MayRead(resid, all)
     /\ IF rcv.recs = <<>> THEN rd' = NoRead /\ UNCHANGED <<rcv, pool>>
        ELSE /\ rcv' = left
             /\ pool' = IF named /\ ~peek THEN m_free(pool, first[1]) ELSE pool
             /\ rd' = [r0 EXCEPT !.len = Chosen(r0, left, oob.mark)]
     /\ oob' = IF rcv.recs = <<>> THEN oob ELSE [oob EXCEPT !.at = FALSE]
     /\ UNCHANGED <<eof, in, urg>> /\ Writing /\ Rest

\* The copy is done: account for it, then choose again or return.  A
\* peek only walks; a read frees the mbufs it has emptied.
AfterCopy(r, sb, p, mark) ==
  LET m == sb.recs[1][r.n]
      whole == r.len = Len(m.dat) - r.moff
      got == r.got \o SubSeq(m.dat, r.moff + 1, r.moff + r.len)
      walk == [r EXCEPT !.got = got, !.resid = @ - r.len,
                        !.offset = IF r.peek /\ mark # 0 THEN @ + r.len ELSE @]
  IN IF r.peek THEN [p |-> p, sb |-> sb,
                     rd |-> IF whole THEN [walk EXCEPT !.n = @ + 1, !.moff = 0]
                            ELSE [walk EXCEPT !.moff = @ + r.len]]
     ELSE IF whole
     THEN [p |-> m_free(p, m), rd |-> walk,
           sb |-> [sbfree(sb, m) EXCEPT !.recs = [@ EXCEPT ![1] = Tail(@)]]]
     ELSE [p |-> p, rd |-> walk,
           sb |-> [sb EXCEPT !.recs[1][1].dat = Drop(@, r.len), !.recs[1][1].off = @ + r.len,
                             !.cc = @ - r.len]]

\* sb_mb = nextrecord, or the rest of a datagram is dropped.
Returned(p, sb) ==
  IF sb.recs = <<>> THEN Filled(p, sb)
  ELSE IF sb.recs[1] = <<>> THEN Filled(p, [sb EXCEPT !.recs = Tail(@)])
  ELSE IF so = "dgram" THEN sbdroprecord(p, sb)
  ELSE Filled(p, sb)

\* With MSG_WAITALL a call that comes to the end of the buffer sleeps for more, a
\* peek as well, which leaves the buffer as it is.
Copied ==
  LET a == AfterCopy(rd, rcv, pool, oob.mark)
      mark == IF oob.mark # 0 /\ ~rd.peek THEN oob.mark - rd.len ELSE oob.mark
      atmark == oob.mark # 0 /\ ~rd.peek /\ mark = 0
      more == ~atmark /\ a.rd.resid > 0 /\ Len(a.sb.recs[1]) >= a.rd.n
      out == IF rd.peek THEN Filled(a.p, a.sb) ELSE Returned(a.p, a.sb)
  IN /\ rd.pc = "copy"
     /\ oob' = [mark |-> mark, at |-> (oob.at /\ ~more) \/ atmark]
     /\ IF more
        THEN /\ rcv' = a.sb /\ pool' = a.p
             /\ rd' = [a.rd EXCEPT !.len = Chosen(a.rd, a.sb, mark)]
        ELSE IF rd.all /\ so = "stream" /\ ~atmark /\ a.rd.resid > 0 /\ ~eof
        THEN /\ rcv' = IF rd.peek THEN a.sb ELSE [a.sb EXCEPT !.recs = Tail(@)]
             /\ pool' = a.p /\ rd' = [a.rd EXCEPT !.pc = "wait"]
        ELSE rcv' = out.sb /\ pool' = out.p /\ rd' = NoRead
     /\ UNCHANGED <<eof, in, urg>> /\ Writing /\ Rest

\* MSG_WAITALL: woken with the buffer still locked against other readers, by
\* data behind those a peek has seen or by the end of the stream.  Either call goes
\* on at sb_mb, for a peek with the `offset` it had; when the time is up it returns.
MoreToRead == IF rd.peek THEN rcv.cc > Len(rd.got) - rd.base ELSE rcv.recs # <<>>
WokenInRead ==
  LET again == [rd EXCEPT !.pc = "copy", !.n = 1, !.moff = 0, !.base = Len(rd.got)]
  IN /\ rd.pc = "wait"
     /\ \/ /\ MoreToRead \/ (eof /\ rcv.recs # <<>>)
           /\ rd' = [again EXCEPT !.len = Chosen(again, rcv, oob.mark)]
           /\ oob' = [oob EXCEPT !.at = FALSE]
        \/ /\ rd' = NoRead /\ UNCHANGED oob
     /\ UNCHANGED <<pool, rcv, eof, in, urg>> /\ Writing /\ Rest

\* shutdown(0): waits for the reader, then empties the buffer.
sorflush ==
  LET r == sbflush(pool, rcv)
  IN /\ so # "send" /\ ~Locked /\ ~eof /\ eof' = TRUE
     /\ rcv' = r.sb /\ pool' = r.p /\ in' = <<>> /\ urg' = 0
     /\ oob' = [mark |-> 0, at |-> FALSE]
     /\ UNCHANGED rd /\ Writing /\ Rest

-----------------------------------------------------------------------------
(* sosend on a stream: one mbuf or cluster at a time goes to the protocol. *)

sosend(n) ==
  /\ so = "send" /\ wr.pc = "idle" /\ n > 0 /\ wrote + n <= MaxStream
  /\ wr' = [pc |-> "lock", resid |-> n, space |-> 0]
  /\ UNCHANGED <<pool, snd, wrote, acked>> /\ Reading /\ Rest

\* The space is read once for the inner loop.
SendSpace ==
  LET space == sbspace(snd)
  IN /\ wr.pc = "lock"
     /\ space >= wr.resid \/ space >= LoWat
     /\ wr' = [wr EXCEPT !.pc = "copy", !.space = space]
     /\ UNCHANGED <<pool, snd, wrote, acked>> /\ Reading /\ Rest

Octet(k) == wrote + k
SendChunk ==
  LET g == MGET(pool)
      cl == MCLALLOC(g.p)
      big == wr.resid >= MHLEN + MLEN /\ wr.space >= MclBytes /\ cl # {}
      c == IF big THEN Min(cl) ELSE 0
      len == IF big THEN Least2(MclBytes - 1, wr.resid) ELSE Least2(Least2(MHLEN, wr.resid), wr.space)
      m == [Header(g.ids[1], "data") EXCEPT !.dat = [k \in 1..len |-> Octet(k)], !.plen = len,
                                            !.cl = c, !.off = 1]
      r == sbappend(MCLREF(g.p, c), snd, <<m>>)
      left == wr.resid - len
      space == IF big THEN (IF wr.space > MclBytes THEN wr.space - MclBytes ELSE 0) ELSE wr.space - len
  IN /\ wr.pc = "copy"
     /\ IF g.ids = <<>>
        THEN wr' = NoWrite /\ UNCHANGED <<snd, wrote>> /\ pool' = g.p
        ELSE /\ snd' = r.sb /\ pool' = r.p /\ wrote' = wrote + len
             /\ wr' = IF left = 0 THEN NoWrite
                      ELSE [pc |-> IF space > 0 THEN "copy" ELSE "lock", resid |-> left, space |-> space]
     /\ UNCHANGED acked /\ Reading /\ Rest

\* tcp_input: an acknowledgement drops data; tcp_output copies by offset.
Acked(n) ==
  LET r == sbdrop(pool, snd, n)
  IN /\ n > 0 /\ n <= snd.cc
     /\ snd' = r.sb /\ pool' = r.p /\ acked' = acked + n
     /\ UNCHANGED <<wr, wrote>> /\ Reading /\ Rest

SockBufNext ==
  \/ \E n \in Sizes : \/ StreamIn(n) \/ DgramIn(n) \/ Urgent(n) \/ sosend(n) \/ Acked(n)
                      \/ \E peek, all \in BOOLEAN : soreceive(n, peek, all)
  \/ PeerCloses \/ Copied \/ WokenInRead \/ sorflush \/ SendSpace \/ SendChunk

SockBufFair == WF_allsb(Copied)

-----------------------------------------------------------------------------
\* sbcheck, on every buffer at every moment other code can see it: cc and mbcnt
\* are what is queued, and sb_mbtail is the last mbuf.
Accounted(sb) ==
  LET c == FlattenSeq(sb.recs)
      last == sb.recs[Len(sb.recs)]
  IN /\ sb.cc = Len(Octets(c))
     /\ sb.mbcnt = FoldLeft(LAMBDA n, m : n + Cost(m), 0, c)
     /\ sb.recs # <<>> => last # <<>> /\ sb.tail = last[Len(last)].id

\* No mbuf and no cluster is lost, used twice or used while it is free.
PoolKept ==
  LET c == FlattenSeq(rcv.recs) \o FlattenSeq(snd.recs)
      ids == {c[n].id : n \in DOMAIN c}
  IN /\ Cardinality(ids) = Len(c) /\ ids \cap pool.mfree = {}
     /\ ids \cup pool.mfree = 1..(pool.chunks * MbufChunk)
     /\ \A k \in 1..Clusters : pool.cref[k] = Cardinality({n \in DOMAIN c : c[n].cl = k})

\* The buffers hold exactly the octets that arrived, or were written, and have
\* not been read, or acknowledged, in their order; what a read in progress has
\* copied comes right before them, what a peek has copied is their beginning, and
\* once more their beginning when it has slept for more in between.
InOrder ==
  LET q == Octets(FlattenSeq(rcv.recs))
      data == SelectSeq(q, LAMBDA x : x # 0)
  IN /\ so = "stream" => /\ q = SubSeq(in, Len(in) - rcv.cc + 1, Len(in))
                         /\ rd.peek => SubSeq(rd.got, rd.base + 1, Len(rd.got))
                                        = Keep(q, Len(rd.got) - rd.base)
                         /\ ~rd.peek /\ rd.got # <<>> =>
                              rd.got = SubSeq(in, Len(in) - rcv.cc - Len(rd.got) + 1, Len(in) - rcv.cc)
     /\ so = "dgram" => \A n \in 1..(Len(data) - 1) : data[n] < data[n + 1]
     /\ Octets(FlattenSeq(snd.recs)) = [k \in 1..(wrote - acked) |-> acked + k]
     /\ snd.cc <= HiWat

\* so_oobmark counts the octets in front of the urgent one, also when it was set
\* or data were appended while soreceive was copying.
MarkTrue == oob.mark # 0 => Len(in) - rcv.cc + oob.mark + 1 = urg

\* The counts of a socket buffer are those of its chain, no mbuf is lost, and what is read
\* is what was written, once and in order, around the urgent octet.
SockBufSound == Accounted(rcv) /\ Accounted(snd) /\ PoolKept /\ InOrder /\ MarkTrue

\* No invariant: a peek returns "the data present on the socket ... so that a
\* subsequent receive operation will see the same data" (api/auto_socket.c:731-734).
\* With MSG_WAITALL and more asked for than fits, it sleeps at the end of the buffer
\* and then returns the octets at its beginning once more.
PeekOnce ==
  so = "stream" /\ rd.peek => rd.got = Keep(Octets(FlattenSeq(rcv.recs)), Len(rd.got))

\* A read that has begun to copy comes back (MSG_PEEK: "peek at incoming
\* message", netinclude/sys/socket.h:269).
ReadEnds == rd.pc = "copy" ~> rd.pc # "copy"
=============================================================================
