-------------------------------- MODULE Tcp ---------------------------------
(***************************************************************************)
(* One TCP connection between two hosts that run this stack: tcp_input,    *)
(* tcp_reass, tcp_output, tcp_timers, tcp_usrreq, tcp_drop and tcp_close   *)
(* (src/src/netinet/tcp_*.c), over a network that loses, repeats and       *)
(* reorders segments.  Every entry point runs at splnet and is one step.   *)
(*                                                                         *)
(* What is abstracted.  The stack is taken with tcp_do_sack = 0 and        *)
(* tcp_do_rfc1323 = 0, and no urgent data.  A timer is armed or not, and   *)
(* an armed timer may expire at any moment.  The congestion window may     *)
(* have any of the values Cwnds whenever tcp_output looks at it.  The n-th *)
(* byte an application writes has the value n.                             *)
(***************************************************************************)
EXTENDS Integers, Sequences, FiniteSets, SequencesExt

CONSTANTS
  Passive,     \* the ends that listen (the others connect)
  Writes,      \* Writes[e]: how many bytes the application of e writes
  Iss,         \* Iss[e]: initial send sequence number
  SeqSpace,    \* size of the sequence space (2^32)
  MaxSeg,      \* t_maxseg
  Hiwat,       \* so_rcv.sb_hiwat
  Cwnds,       \* values of snd_cwnd
  RexmtThresh, \* tcprexmtthresh (3)
  MaxRxtShift, \* TCP_MAXRXTSHIFT (12)
  MaxNet,      \* bound on the segments in the network
  Uses         \* what may happen: a subset of AllUses

AllUses == {"lose", "repeat", "nobufs", "shutdown", "close", "abort",
            "keepalive", "rexmt"}

Ends == {"client", "server"}
Peer(e) == IF e = "client" THEN "server" ELSE "client"

ASSUME SpaceAssumption ==
  /\ SeqSpace \in Nat /\ SeqSpace % 2 = 0 /\ MaxSeg \in Nat \ {0}
  /\ Hiwat \in Nat \ {0} /\ Cwnds \subseteq Nat /\ \A w \in Cwnds : w >= MaxSeg
  /\ RexmtThresh \in Nat \ {0} /\ MaxRxtShift \in Nat /\ MaxNet \in Nat
ASSUME EndAssumption ==
  /\ Passive \subseteq Ends /\ Uses \subseteq AllUses
  /\ Writes \in [Ends -> Nat] /\ Iss \in [Ends -> 0 .. SeqSpace - 1]
  /\ \A e \in Ends : 2 * (Writes[e] + Hiwat + 2) < SeqSpace

VARIABLES
  cb,   \* cb[e]: the tcpcb of e and its socket
  got,  \* got[e]: what the application of e has read
  net   \* the segments in the network

vars == <<cb, got, net>>

-----------------------------------------------------------------------------
(* Sequence numbers (tcp_seq.h).                                           *)

\* (int)(a - b)
Sub(a, b) == LET d == (a - b) % SeqSpace
             IN  IF d >= SeqSpace \div 2 THEN d - SeqSpace ELSE d
Plus(a, n) == (a + n) % SeqSpace

SEQ_LT(a, b)  == Sub(a, b) < 0
SEQ_LEQ(a, b) == Sub(a, b) <= 0
SEQ_GT(a, b)  == Sub(a, b) > 0

-----------------------------------------------------------------------------
(* The connection block and the socket.                                    *)

\* the order of the TCPS_ constants
States == <<"CLOSED", "LISTEN", "SYN_SENT", "SYN_RECEIVED", "ESTABLISHED",
            "CLOSE_WAIT", "FIN_WAIT_1", "CLOSING", "LAST_ACK", "FIN_WAIT_2",
            "TIME_WAIT">>
Rank == [st \in Range(States) |-> CHOOSE i \in DOMAIN States : States[i] = st]
AtLeast(c, st) == c.st # "NONE" /\ Rank[c.st] >= Rank[st]

HaveRcvdSyn(c) == AtLeast(c, "SYN_RECEIVED")
HaveRcvdFin(c) == AtLeast(c, "TIME_WAIT")

\* t_rtt is 0; otherwise rtt is t_rtseq, the sequence number being timed
NotTimed == -1

\* tcp_newtcpcb and a new socket; NONE is a socket without a pcb
NewCb(st) ==
  [st |-> st, iss |-> 0, una |-> 0, nxt |-> 0, max |-> 0, wnd |-> 0, wl1 |-> 0, wl2 |-> 0,
   recover |-> 0, dupacks |-> 0, rtt |-> NotTimed, rxtshift |-> 0,
   rcv_nxt |-> 0, rcv_adv |-> 0, segs |-> <<>>,
   acknow |-> FALSE, delack |-> FALSE, sentfin |-> FALSE,
   rexmt |-> FALSE, persist |-> FALSE, msl |-> FALSE,
   snd |-> <<>>, wrote |-> 0, rcv |-> <<>>,
   cantsnd |-> FALSE, cantrcv |-> FALSE, nofd |-> FALSE, error |-> FALSE,
   panic |-> FALSE]

Init ==
  /\ cb = [e \in Ends |-> NewCb(IF e \in Passive THEN "LISTEN" ELSE "CLOSED")]
  /\ got = [e \in Ends |-> <<>>]
  /\ net = {}

\* sbspace: sb_mbcnt is never the tighter limit here
SbSpace(c) == Hiwat - Len(c.rcv)

\* a segment; data is what follows the header
Segment(c, seq, f, win, data) ==
  [seq |-> seq, ack |-> IF "ACK" \in f THEN c.rcv_nxt ELSE 0, f |-> f,
   win |-> win, data |-> data]

\* tcp_close: the pcb goes, the socket stays for its owner
Closed(c) == [NewCb("NONE") EXCEPT !.wrote = c.wrote,
                !.rcv = IF c.nofd THEN <<>> ELSE c.rcv, !.cantsnd = TRUE, !.cantrcv = TRUE, !.nofd = c.nofd,
                !.error = c.error, !.panic = c.panic]

\* handlers compute the possible results: the block and the segments sent
Result(c, out) == [c |-> c, out |-> out]

-----------------------------------------------------------------------------
(* tcp_output.                                                             *)

OutFlags(st) ==
  UNION {IF st \in {"LISTEN", "SYN_SENT"} THEN {} ELSE {"ACK"},
         IF st \in {"SYN_SENT", "SYN_RECEIVED"} THEN {"SYN"} ELSE {},
         IF st \in {"FIN_WAIT_1", "CLOSING", "LAST_ACK"} THEN {"FIN"} ELSE {},
         IF st = "CLOSED" THEN {"RST"} ELSE {}}

\* tcp_setpersist
SetPersist(c) ==
  [c EXCEPT !.panic = @ \/ c.rexmt, !.persist = TRUE,
            !.rxtshift = IF @ < MaxRxtShift THEN @ + 1 ELSE @]

\* nothing to send, but data waits with no timer running
NoSend(c) == IF c.snd # <<>> /\ ~c.rexmt /\ ~c.persist
               THEN SetPersist([c EXCEPT !.rxtshift = 0]) ELSE c

\* the segment did not leave: label out
SendFailed(c) ==
  IF c.snd # <<>> /\ ~c.rexmt /\ ~c.persist /\ SEQ_LT(c.una, c.max)
    THEN [c EXCEPT !.rexmt = TRUE] ELSE c

\* a window the peer should hear of
WorthTelling(c) ==
  LET adv == SbSpace(c) - Sub(c.rcv_adv, c.rcv_nxt)
  IN  SbSpace(c) > 0 /\ (adv >= 2 * MaxSeg \/ 2 * adv >= Hiwat)

Held(c) == FoldLeft(LAMBDA n, q : n + Len(q.data), 0, c.segs)

AdvertisedWin_LessQueued(c) == SbSpace(c) - Held(c)

\* the window put in a segment: no silly one, and none that takes back what
\* has been promised
AdvertisedWin(c) ==
  LET win == IF SbSpace(c) < Hiwat \div 4 /\ SbSpace(c) < MaxSeg
               THEN 0 ELSE SbSpace(c)
      old == Sub(c.rcv_adv, c.rcv_nxt)
  IN  IF win < old THEN old ELSE win

\* a FIN that is sent again keeps its sequence number
Resent(c, f) == IF "FIN" \in f /\ c.sentfin /\ c.nxt = c.max
                  THEN [c EXCEPT !.nxt = Plus(@, -1)] ELSE c

\* the sequence number after a segment with flags f and len bytes
After(c, f, len) == Plus(c.nxt, len + Cardinality(f \cap {"SYN", "FIN"}))

\* in transmit state: sequence space, the timed segment, the retransmit timer
Transmitted(c, f, len) ==
  LET nxt == After(c, f, len)
      new == SEQ_GT(nxt, c.max)
      arm == ~c.rexmt /\ nxt # c.una
  IN  [c EXCEPT !.nxt = nxt, !.max = IF new THEN nxt ELSE @,
                !.sentfin = @ \/ "FIN" \in f,
                !.rtt = IF new /\ @ = NotTimed THEN c.nxt ELSE @,
                !.rexmt = @ \/ arm,
                !.rxtshift = IF arm /\ c.persist THEN 0 ELSE @,
                !.persist = @ /\ ~arm]

\* in persist state only snd_max is set
Accounted(c, f, len, force) ==
  LET past == Plus(c.nxt, len)
  IN  IF ~force \/ ~c.persist
        THEN Transmitted(c, f, len)
        ELSE [c EXCEPT !.max = IF SEQ_GT(past, @) THEN past ELSE @]

\* the peer has been told: rcv_adv, TF_ACKNOW, TF_DELACK
Told(c, win) ==
  [c EXCEPT !.acknow = FALSE, !.delack = FALSE,
            !.rcv_adv = IF win > 0 /\ SEQ_GT(Plus(c.rcv_nxt, win), @)
                          THEN Plus(c.rcv_nxt, win) ELSE @]

\* what can go wrong: no header mbuf, no copy of the data, ip_output fails
Failures == IF "nobufs" \in Uses THEN {"none", "header", "copy", "ip"}
                                 ELSE {"none"}

\* from label send on; more: goto again
SendSegment(r, f, off, len, more) ==
  {LET n   == IF fail = "copy" THEN 0 ELSE len
       c1  == Resent(r.c, f)
       c2  == Accounted(c1, f, n, r.force)
       win == AdvertisedWin(c1)
       seg == Segment(c1, c1.nxt, f, win, SubSeq(r.c.snd, off + 1, off + n))
   IN  CASE fail = "header" -> [r EXCEPT !.c = SendFailed(@), !.more = FALSE]
         [] fail = "ip" -> [r EXCEPT !.c = SendFailed(c2), !.more = FALSE]
         [] OTHER -> [r EXCEPT !.c = Told(c2, win), !.out = @ \cup {seg},
                               !.more = more]
   : fail \in Failures}

\* the FIN goes with the last byte
Flags(c, len) ==
  IF SEQ_LT(Plus(c.nxt, len), Plus(c.una, Len(c.snd)))
    THEN OutFlags(c.st) \ {"FIN"} ELSE OutFlags(c.st)

SendWindow_CwndOnly(c, cwnd) == cwnd

SendWindow(c, cwnd) == IF c.wnd < cwnd THEN c.wnd ELSE cwnd

\* one round, from label again on; data that is less than a segment may also
\* go for being half of the largest window
Round(r) ==
  LET c0   == r.c
      cc   == Len(c0.snd)
      off  == Sub(c0.nxt, c0.una)
      w    == SendWindow(c0, r.cwnd)
      c1   == IF r.force /\ w > 0
                THEN [c0 EXCEPT !.persist = FALSE, !.rxtshift = 0] ELSE c0
      win  == IF r.force /\ w = 0 THEN 1 ELSE w
      fits == (IF cc < win THEN cc ELSE win) - off
      c2   == IF fits < 0 /\ win = 0
                THEN [c1 EXCEPT !.rexmt = FALSE, !.nxt = c1.una] ELSE c1
      len  == CASE fits < 0 -> 0 [] fits > MaxSeg -> MaxSeg [] OTHER -> fits
      f    == Flags(c2, len)
      must == \/ len > 0 /\ (\/ len = MaxSeg \/ (r.idle /\ len + off >= cc)
                             \/ r.force \/ SEQ_LT(c2.nxt, c2.max))
              \/ WorthTelling(c2) \/ c2.acknow
              \/ f \cap {"SYN", "RST"} # {}
              \/ "FIN" \in f /\ (~c2.sentfin \/ c2.nxt = c2.una)
  IN  UNION {IF send
               THEN SendSegment([r EXCEPT !.c = c2], f, IF off < 0 THEN 0 ELSE off,
                                len, fits > MaxSeg)
               ELSE {[r EXCEPT !.c = NoSend(c2), !.more = FALSE]}
             : send \in {must, must \/ len > 0}}

\* tcp_output with the congestion window cwnd.  A round that is followed by
\* another has sent MaxSeg bytes or, for want of an mbuf, none.
OutputWith(c, force, cwnd) ==
  LET start == [c |-> c, out |-> {}, more |-> TRUE, force |-> force,
                idle |-> c.max = c.una, cwnd |-> cwnd]
      after[n \in 0 .. Len(c.snd) + 1] ==
        IF n = 0 THEN {start}
        ELSE UNION {IF r.more THEN Round(r) ELSE {r} : r \in after[n - 1]}
  IN  {Result(r.c, r.out) : r \in {x \in after[Len(c.snd) + 1] : ~x.more}}

Output(c)      == UNION {OutputWith(c, FALSE, w) : w \in Cwnds}
ForceOutput(c) == UNION {OutputWith(c, TRUE, w) : w \in Cwnds}

\* tcp_drop
Drop(c, error) ==
  LET d == [c EXCEPT !.error = error]
  IN  IF HaveRcvdSyn(c)
        THEN {Result(Closed(r.c), r.out) : r \in Output([d EXCEPT !.st = "CLOSED"])}
        ELSE {Result(Closed(d), {})}

-----------------------------------------------------------------------------
(* tcp_reass: the queue of segments that arrived early.                    *)

\* TCP_SETDELACK
SetDelack(c) == [c EXCEPT !.delack = ~c.delack, !.acknow = @ \/ c.delack]

MaxReassSegs == 8      \* the least value of maxsegs; room / MSIZE is below it

Cut_KeepData(q, i) == [q EXCEPT !.seq = Plus(@, i)]

\* q without its first i bytes
Cut(q, i) == [q EXCEPT !.seq = Plus(@, i), !.data = SubSeq(@, i + 1, Len(@))]
End(q)    == Plus(q.seq, Len(q.data))

\* label present: hand over what has become contiguous
Present(c) ==
  LET start == [nxt |-> c.rcv_nxt, data |-> <<>>, fin |-> FALSE, n |-> 0]
      take[k \in 0 .. Len(c.segs)] ==
        IF k = 0 THEN start
        ELSE LET a == take[k - 1]
                 q == c.segs[k]
             IN  IF a.n = k - 1 /\ q.seq = a.nxt
                   THEN [nxt |-> End(q), data |-> a.data \o q.data,
                         fin |-> q.fin, n |-> k]
                   ELSE a
      a == take[Len(c.segs)]
  IN  IF ~HaveRcvdSyn(c) \/ a.n = 0
         \/ (c.st = "SYN_RECEIVED" /\ Head(c.segs).data # <<>>)
        THEN [c |-> c, fin |-> FALSE]
        ELSE [c |-> [c EXCEPT !.rcv_nxt = a.nxt,
                       !.segs = SubSeq(@, a.n + 1, Len(@)),
                       !.rcv = IF c.cantrcv THEN @ ELSE @ \o a.data],
              fin |-> a.fin]

\* the segments after q that q does not cover, the first of them trimmed
Beyond(s, q) ==
  LET r[j \in 1 .. Len(s) + 1] ==
        IF j > Len(s) THEN <<>>
        ELSE LET i == Sub(End(q), s[j].seq)
             IN  IF i <= 0 THEN SubSeq(s, j, Len(s))
                 ELSE IF i < Len(s[j].data)
                   THEN <<Cut(s[j], i)>> \o SubSeq(s, j + 1, Len(s))
                 ELSE r[j + 1]
  IN  r[1]

\* there is no room for one more segment that leaves a gap
ReassFull(c, q) ==
  /\ q.seq # c.rcv_nxt
  /\ \/ Held(c) + Len(q.data) > IF SbSpace(c) < 0 THEN 0 ELSE SbSpace(c)
     \/ Len(c.segs) + 1 > MaxReassSegs

Reass(c, q) ==
  LET after == {j \in DOMAIN c.segs : SEQ_GT(c.segs[j].seq, q.seq)}
      k     == IF after = {} THEN Len(c.segs) + 1
                             ELSE CHOOSE j \in after : \A x \in after : j <= x
      i     == IF k = 1 THEN 0 ELSE Sub(End(c.segs[k - 1]), q.seq)
      new   == IF i > 0 THEN Cut(q, i) ELSE q
  IN  IF ReassFull(c, q) \/ (i > 0 /\ i >= Len(q.data))
        THEN [c |-> c, fin |-> FALSE]
        ELSE Present([c EXCEPT !.segs = SubSeq(@, 1, k - 1) \o <<new>>
                                 \o Beyond(SubSeq(@, k, Len(@)), new)])

-----------------------------------------------------------------------------
(* tcp_input, from its end to its beginning.  ti is the segment: seq, ack, *)
(* win, data and the set f of its flags; out is what has been sent so far. *)

\* f is tiflags, which the trimming changes; TCP_REASS and tcp_reass take the
\* FIN from the header, ti_flags, which it does not
Arrived(s) == [seq |-> s.seq, ack |-> s.ack, f |-> s.f, win |-> s.win,
               data |-> s.data, fin |-> "FIN" \in s.f]

With(out, R) == {Result(r.c, out \cup r.out) : r \in R}

Stop(c, out) == {Result(c, out)}

\* label dropwithreset; c is what is left of the connection
DropWithReset(c, ti) ==
  IF "RST" \in ti.f THEN Stop(c, {})
  ELSE IF "ACK" \in ti.f
    THEN Stop(c, {[seq |-> ti.ack, ack |-> 0, f |-> {"RST"}, win |-> 0,
                   data |-> <<>>]})
    ELSE Stop(c, {[seq |-> 0, f |-> {"RST", "ACK"}, win |-> 0, data |-> <<>>,
                   ack |-> Plus(ti.seq, Len(ti.data) +
                                        IF "SYN" \in ti.f THEN 1 ELSE 0)]})

DropAfterAck(c, ti) ==
  IF "RST" \in ti.f THEN Stop(c, {}) ELSE Output([c EXCEPT !.acknow = TRUE])

\* label challenge: answered, unless TCP_CHALLENGE_ACK_LIMIT is reached
Challenge(c) == Stop(c, {}) \cup Output([c EXCEPT !.acknow = TRUE])

TimeWait(c) == [c EXCEPT !.st = "TIME_WAIT", !.rexmt = FALSE, !.persist = FALSE,
                         !.msl = TRUE, !.cantsnd = TRUE, !.cantrcv = TRUE]

\* a FIN has been reached
Fin(c) ==
  LET d == IF HaveRcvdFin(c) THEN c
           ELSE [c EXCEPT !.cantrcv = TRUE, !.acknow = TRUE,
                          !.rcv_nxt = Plus(@, 1)]
  IN  CASE c.st \in {"SYN_RECEIVED", "ESTABLISHED"} -> [d EXCEPT !.st = "CLOSE_WAIT"]
        [] c.st = "FIN_WAIT_1" -> [d EXCEPT !.st = "CLOSING"]
        [] c.st = "FIN_WAIT_2" -> TimeWait(d)
        [] OTHER -> d

InOrder_AnySeq(c, ti) == c.segs = <<>> /\ c.st = "ESTABLISHED"

\* TCP_REASS: the common case
InOrder(c, ti) == ti.seq = c.rcv_nxt /\ c.segs = <<>> /\ c.st = "ESTABLISHED"

\* the data and FIN of the segment, and what tcp_input sends at its end
Data(c, ti, need, out) ==
  LET q == [seq |-> ti.seq, data |-> ti.data, fin |-> ti.fin]
      r == IF (ti.data = <<>> /\ "FIN" \notin ti.f) \/ HaveRcvdFin(c)
             THEN [c |-> c, fin |-> FALSE]
           ELSE IF InOrder(c, ti)
             THEN [c |-> [SetDelack(c) EXCEPT !.rcv_nxt = End(q),
                                              !.rcv = @ \o ti.data],
                   fin |-> q.fin]
           ELSE LET a == Reass(c, q)
                IN  [a EXCEPT !.c = [@ EXCEPT !.acknow = TRUE]]
      d == IF r.fin THEN Fin(r.c) ELSE r.c
  IN  With(out, IF need \/ d.acknow THEN Output(d) ELSE Stop(d, {}))

\* snd_wl1 and snd_wl2 say that the window of ti is newer than snd_wnd
NewerWindow(c, ti) ==
  \/ SEQ_LT(c.wl1, ti.seq)
  \/ /\ c.wl1 = ti.seq
     /\ \/ SEQ_LT(c.wl2, ti.ack)
        \/ c.wl2 = ti.ack /\ ti.win > c.wnd

NewWindow(c, ti) == [c EXCEPT !.wnd = ti.win, !.wl1 = ti.seq, !.wl2 = ti.ack]

\* label step6
Step6(c, ti, need, out) ==
  LET newer == "ACK" \in ti.f /\ NewerWindow(c, ti)
  IN  Data(IF newer THEN NewWindow(c, ti) ELSE c, ti, need \/ newer, out)

\* our FIN has been acknowledged
FinAcked(c) ==
  CASE c.st = "FIN_WAIT_1" -> [c EXCEPT !.st = "FIN_WAIT_2", !.msl = @ \/ c.cantrcv,
                                        !.cantsnd = @ \/ c.cantrcv]
    [] c.st = "CLOSING" -> TimeWait(c)
    [] OTHER -> c

\* an ACK of new data, once the send buffer and snd_una have been moved
AckedState(c, ti, finacked, need, out) ==
  IF c.st = "LAST_ACK" /\ finacked THEN Stop(Closed(c), out)
  ELSE IF c.st = "TIME_WAIT"
    THEN With(out, DropAfterAck([c EXCEPT !.msl = TRUE], ti))
    ELSE Step6(IF finacked THEN FinAcked(c) ELSE c, ti, need, out)

\* tcp_xmit_timer, for an ACK of the segment that is being timed
Timed(c, ack) == IF c.rtt # NotTimed /\ SEQ_GT(ack, c.rtt)
                   THEN [c EXCEPT !.rtt = NotTimed, !.rxtshift = 0] ELSE c

\* retransmit from snd_una with a window of one segment, then go on where we were
Retransmit(c, from) ==
  {[r EXCEPT !.c.nxt = IF SEQ_GT(c.nxt, @) THEN c.nxt ELSE @] :
     r \in OutputWith([c EXCEPT !.nxt = from, !.rtt = NotTimed], FALSE, MaxSeg)}

NewAck(c0, ti) ==
  LET partial == c0.dupacks >= RexmtThresh /\ SEQ_LT(ti.ack, c0.recover)
      c1    == Timed(IF partial THEN c0 ELSE [c0 EXCEPT !.dupacks = 0], ti.ack)
      all   == ti.ack = c0.max
      acked == Sub(ti.ack, c0.una)
      cc    == Len(c0.snd)
      gone  == IF acked > cc THEN cc ELSE acked
      c2    == [c1 EXCEPT !.rexmt = IF all THEN FALSE ELSE @ \/ ~c1.persist,
                          !.snd = SubSeq(@, gone + 1, cc),
                          !.wnd = (@ - gone) % SeqSpace,
                          !.una = ti.ack,
                          !.nxt = IF SEQ_LT(@, ti.ack) THEN ti.ack ELSE @]
  IN  IF SEQ_GT(ti.ack, c0.max)
        THEN DropAfterAck([c0 EXCEPT !.dupacks = IF partial THEN @ ELSE 0], ti)
        ELSE UNION {AckedState(r.c, ti, acked > cc, partial \/ all, r.out) :
                      r \in IF partial THEN Retransmit(c2, c2.una) ELSE Stop(c2, {})}

\* an ACK that acknowledges nothing new
OldAck(c, ti) ==
  IF ti.data # <<>> \/ ti.win # c.wnd \/ ~c.rexmt \/ ti.ack # c.una
    THEN Step6([c EXCEPT !.dupacks = 0], ti, FALSE, {})
    ELSE LET d == [c EXCEPT !.dupacks = IF @ > RexmtThresh THEN @ ELSE @ + 1]
         IN  IF d.dupacks = RexmtThresh
               THEN Retransmit([d EXCEPT !.rexmt = FALSE, !.recover = c.nxt], ti.ack)
               ELSE Output(d)

\* the ACK field
Ack(c, ti) ==
  LET opening == c.st = "SYN_RECEIVED"
      d == IF opening THEN [Present([c EXCEPT !.st = "ESTABLISHED"]).c
                              EXCEPT !.wl1 = Plus(ti.seq, -1)] ELSE c
  IN  IF opening /\ (SEQ_GT(c.una, ti.ack) \/ SEQ_GT(ti.ack, c.max))
        THEN DropWithReset(c, ti)
      ELSE IF SEQ_LEQ(ti.ack, c.una) THEN OldAck(d, ti) ELSE NewAck(d, ti)

\* RST, SYN and a missing ACK; seq is the sequence number as it arrived
Reset(c, ti, seq) ==
  CASE "RST" \in ti.f /\ seq = c.rcv_nxt ->
         Stop(Closed([c EXCEPT !.error = @ \/ c.st \in
           {"SYN_RECEIVED", "ESTABLISHED", "FIN_WAIT_1", "FIN_WAIT_2",
            "CLOSE_WAIT"}]), {})
    [] ti.f \cap {"RST", "SYN"} # {} /\ ("RST" \in ti.f => seq # c.rcv_nxt) ->
         Challenge(c)
    [] ti.f \cap {"RST", "SYN", "ACK"} = {} -> Stop(c, {})
    [] OTHER -> Ack(c, ti)

RcvWnd(c) == LET adv == Sub(c.rcv_adv, c.rcv_nxt)
                 spc == IF SbSpace(c) < 0 THEN 0 ELSE SbSpace(c)
             IN  IF spc < adv THEN adv ELSE spc

\* trim what lies beyond the window; a probe of a shut window is all beyond it
TrimRight(c, ti, seq) ==
  LET len  == Len(ti.data)
      drop == Sub(Plus(ti.seq, len), Plus(c.rcv_nxt, RcvWnd(c)))
      all  == drop > 0 /\ drop >= len
      cut  == [ti EXCEPT !.data = SubSeq(@, 1, len - drop), !.f = @ \ {"FIN"}]
  IN  IF \/ c.nofd /\ AtLeast(c, "FIN_WAIT_1") /\ len > 0
         \/ all /\ "SYN" \in ti.f /\ c.st = "TIME_WAIT" /\ SEQ_GT(ti.seq, c.rcv_nxt)
        THEN DropWithReset(Closed(c), ti)
      ELSE IF all /\ (RcvWnd(c) # 0 \/ ti.seq # c.rcv_nxt) THEN DropAfterAck(c, ti)
      ELSE Reset([c EXCEPT !.acknow = @ \/ all], IF drop > 0 THEN cut ELSE ti, seq)

\* trim what has been received before
TrimLeft(c, ti) ==
  LET old  == SEQ_GT(c.rcv_nxt, ti.seq)
      syn  == IF "SYN" \in ti.f /\ old THEN 1 ELSE 0
      t1   == IF syn = 1 THEN [ti EXCEPT !.seq = Plus(@, 1), !.f = @ \ {"SYN"}]
                         ELSE ti
      drop == Sub(c.rcv_nxt, ti.seq) - syn
      len  == Len(ti.data)
      part == ~old \/ drop < len \/ (drop = len /\ "FIN" \in ti.f)
      fin  == "FIN" \in ti.f /\ drop = len + 1           \* the FIN of old
      kept == IF part THEN Cut(t1, IF old THEN drop ELSE 0)
                      ELSE [Cut(t1, len) EXCEPT !.f = @ \ {"FIN"}]
  IN  IF part \/ fin
        THEN TrimRight([c EXCEPT !.acknow = @ \/ ~part], kept, ti.seq)
        ELSE DropAfterAck(c, t1)

\* SYN_SENT; label trimthenstep6 is Step6 without the SYN
SynSent(c, ti) ==
  LET ack == "ACK" \in ti.f
      una == IF ack THEN ti.ack ELSE c.una
      d   == [c EXCEPT !.una = una, !.nxt = IF SEQ_LT(@, una) THEN una ELSE @,
                       !.rexmt = FALSE, !.acknow = TRUE,
                       !.rcv_nxt = Plus(ti.seq, 1), !.rcv_adv = Plus(ti.seq, 1),
                       !.wl1 = ti.seq]
      t   == [ti EXCEPT !.seq = Plus(@, 1), !.f = @ \ {"SYN"}]
  IN  CASE ack /\ (SEQ_LEQ(ti.ack, c.iss) \/ SEQ_GT(ti.ack, c.max)) ->
             DropWithReset(c, ti)
        [] OTHER ->
             IF "RST" \in ti.f
               THEN IF ack THEN Drop(c, TRUE) ELSE Stop(c, {})
             ELSE IF "SYN" \notin ti.f THEN Stop(c, {})
             ELSE Step6(IF ack
                          THEN [d EXCEPT !.st = "ESTABLISHED", !.rtt = NotTimed,
                                  !.rxtshift = IF c.rtt # NotTimed THEN 0 ELSE @]
                          ELSE [d EXCEPT !.st = "SYN_RECEIVED"], t, FALSE, {})

\* LISTEN: the new connection of sonewconn, or none for want of resources
Listen(c, e, ti) ==
  IF "ACK" \in ti.f /\ "RST" \notin ti.f THEN DropWithReset(c, ti)
  ELSE IF "RST" \in ti.f \/ "SYN" \notin ti.f THEN Stop(c, {})
  ELSE Step6([c EXCEPT !.st = "SYN_RECEIVED", !.acknow = TRUE,
                !.iss = Iss[e], !.una = Iss[e], !.nxt = Iss[e], !.max = Iss[e],
                !.rcv_nxt = Plus(ti.seq, 1), !.rcv_adv = Plus(ti.seq, 1),
                !.wl1 = ti.seq],
             [ti EXCEPT !.seq = Plus(@, 1), !.f = @ \ {"SYN"}], FALSE, {})
       \cup IF "nobufs" \in Uses THEN Stop(c, {}) ELSE {}

\* header prediction applies to this segment
Predicted(c, ti) ==
  /\ c.st = "ESTABLISHED" /\ ti.f = {"ACK"} /\ ti.seq = c.rcv_nxt
  /\ ti.win # 0 /\ c.nxt = c.max /\ c.dupacks < RexmtThresh

\* tcp_winupd_ok
WinUpd(c, ti) == ti.win # c.wnd /\ c.wnd # 0 /\ NewerWindow(c, ti)

PredictAck(c, ti) ==
  /\ ti.data = <<>> /\ SEQ_GT(ti.ack, c.una) /\ SEQ_LEQ(ti.ack, c.max)
  /\ ti.win = c.wnd \/ WinUpd(c, ti)
PredictWin(c, ti) == ti.data = <<>> /\ ti.ack = c.una /\ WinUpd(c, ti)
PredictData(c, ti) ==
  /\ ti.data # <<>> /\ ti.win = c.wnd /\ ti.ack = c.una /\ c.segs = <<>>
  /\ Len(ti.data) <= SbSpace(c)

OutputIfData(c) == IF c.snd # <<>> THEN Output(c) ELSE Stop(c, {})

FastAck(c, ti) ==
  LET w == IF WinUpd(c, ti) THEN NewWindow(c, ti) ELSE c
      d == Timed([w EXCEPT !.dupacks = 0], ti.ack)
      n == Sub(ti.ack, c.una)
  IN  OutputIfData([d EXCEPT !.snd = SubSeq(@, n + 1, Len(@)), !.una = ti.ack,
                     !.rexmt = IF ti.ack = c.max THEN FALSE ELSE @ \/ ~d.persist])

FastData(c, ti) ==
  LET d == SetDelack([c EXCEPT !.rcv_nxt = Plus(@, Len(ti.data)),
                               !.rcv = @ \o ti.data])
  IN  IF d.acknow THEN Output(d) ELSE Stop(d, {})

\* tcp_input for the connection of e.  The congestion window may keep an ACK
\* from being predicted.
Input(c, e, ti) ==
  CASE c.st = "NONE" -> DropWithReset(c, ti)
    [] c.st = "CLOSED" -> Stop(c, {})
    [] c.st = "LISTEN" -> Listen(c, e, ti)
    [] c.st = "SYN_SENT" -> SynSent(c, ti)
    [] AtLeast(c, "SYN_RECEIVED") ->
         LET fast == Predicted(c, ti) IN
         CASE fast /\ PredictWin(c, ti)  -> OutputIfData([NewWindow(c, ti) EXCEPT
                                                            !.dupacks = 0])
           [] fast /\ PredictData(c, ti) -> FastData(c, ti)
           [] OTHER -> TrimLeft(c, ti)
                       \cup IF fast /\ PredictAck(c, ti) THEN FastAck(c, ti) ELSE {}

-----------------------------------------------------------------------------
(* Steps.                                                                  *)

To(e, segs) == {[to |-> e, s |-> x] : x \in segs}

\* segments out of e reach the network, rest being what else is in it.  The
\* bound MaxNet on the network loses the ones beyond it.
Sends(e, out, rest) ==
  \E kept \in SUBSET To(Peer(e), out) :
    /\ \/ kept = To(Peer(e), out)
       \/ "lose" \in Uses
    /\ Cardinality(rest \cup kept) <= MaxNet
    /\ net' = rest \cup kept

\* e becomes one of the results R, with one of Rests left in the network
Moves(e, R, Rests) ==
  \E r \in R : /\ cb' = [cb EXCEPT ![e] = r.c]
               /\ \E rest \in Rests : Sends(e, r.out, rest)

Becomes(e, R) == Moves(e, R, {net})

\* tcp_input of a segment, which the network may deliver again
Deliver(e) ==
  \E m \in net :
    /\ m.to = e
    /\ Moves(e, Input(cb[e], e, Arrived(m.s)),
             {net \ {m}} \cup (IF "repeat" \in Uses THEN {net} ELSE {}))
    /\ UNCHANGED got

-----------------------------------------------------------------------------
(* Timers: tcp_timers and tcp_fasttimo.                                    *)

FastTimo(e) ==
  /\ cb[e].delack \/ cb[e].acknow
  /\ Becomes(e, Output([cb[e] EXCEPT !.delack = FALSE, !.acknow = TRUE]))
  /\ UNCHANGED got

\* TCPT_REXMT
RexmtTimer(c) ==
  IF AtLeast(c, "ESTABLISHED") /\ c.snd # <<>> /\ c.wnd = 0 /\ SEQ_LT(c.una, c.max)
    THEN Stop(SetPersist([c EXCEPT !.rexmt = FALSE, !.rxtshift = 0]), {})
  ELSE IF c.rxtshift + 1 > MaxRxtShift
    THEN Drop([c EXCEPT !.rexmt = FALSE, !.rxtshift = MaxRxtShift], TRUE)
  ELSE Output([c EXCEPT !.rxtshift = @ + 1, !.nxt = c.una, !.rtt = NotTimed,
                        !.dupacks = 0])

Rexmt(e) == /\ cb[e].rexmt /\ "rexmt" \in Uses
            /\ Becomes(e, RexmtTimer(cb[e])) /\ UNCHANGED got

\* TCPT_PERSIST: the timer has run out when tcp_setpersist sets it again
Persist(e) == /\ cb[e].persist
              /\ Becomes(e, ForceOutput(SetPersist([cb[e] EXCEPT !.persist = FALSE])))
              /\ UNCHANGED got

\* TCPT_2MSL, in TIME_WAIT or long enough idle; otherwise it is set again
Msl(e) == /\ cb[e].msl
          /\ cb' = [cb EXCEPT ![e] = Closed(cb[e])] /\ UNCHANGED <<got, net>>

\* nothing is under way: no segment, delayed ACK or retransmission outlives
\* the hours that tcp_keepidle waits
Silence == net = {} /\ \A e \in Ends : ~(cb[e].rexmt \/ cb[e].delack \/ cb[e].acknow)

\* TCPT_KEEP, before the connection is there or, probing, after long silence
Keep(e) ==
  LET c == cb[e] IN
  /\ \/ /\ c.st \in {"SYN_SENT", "SYN_RECEIVED"}
        /\ Becomes(e, Drop(c, TRUE))
     \/ /\ "keepalive" \in Uses /\ c.st \in {"ESTABLISHED", "CLOSE_WAIT"}
        /\ Silence
        /\ Becomes(e, Drop(c, TRUE) \cup
                      Stop(c, {Segment(c, Plus(c.una, -1), {"ACK"},
                                       IF SbSpace(c) < 0 THEN 0 ELSE SbSpace(c), <<>>)}))
  /\ UNCHANGED got

-----------------------------------------------------------------------------
(* Requests of the application: tcp_usrreq.                                *)

\* PRU_CONNECT
Connect(e) ==
  /\ cb[e].st = "CLOSED"
  /\ Becomes(e, Output([cb[e] EXCEPT !.st = "SYN_SENT", !.iss = Iss[e],
                          !.una = Iss[e], !.nxt = Iss[e], !.max = Iss[e]]))
  /\ UNCHANGED got

\* sosend and PRU_SEND of the next n bytes
Send(e) ==
  /\ cb[e].st \in {"ESTABLISHED", "CLOSE_WAIT"} /\ ~cb[e].cantsnd
  /\ \E n \in 1 .. Writes[e] - cb[e].wrote :
       Becomes(e, Output([cb[e] EXCEPT !.wrote = @ + n,
                 !.snd = @ \o [i \in 1 .. n |-> cb[e].wrote + i]]))
  /\ UNCHANGED got

\* soreceive and PRU_RCVD
Receive(e) ==
  /\ cb[e].rcv # <<>> /\ ~cb[e].nofd
  /\ LET c == [cb[e] EXCEPT !.rcv = <<>>]
     IN  Becomes(e, IF c.st = "NONE" THEN Stop(c, {}) ELSE Output(c))
  /\ got' = [got EXCEPT ![e] = @ \o cb[e].rcv]

\* tcp_usrclosed
UsrClosed(c) ==
  CASE c.st \in {"CLOSED", "LISTEN", "SYN_SENT"} -> Closed(c)
    [] c.st \in {"SYN_RECEIVED", "ESTABLISHED"} -> [c EXCEPT !.st = "FIN_WAIT_1"]
    [] c.st = "CLOSE_WAIT" -> [c EXCEPT !.st = "LAST_ACK"]
    [] OTHER -> c

\* a socket still in its listener's queue has no user
InUse(e) == /\ cb[e].st \notin {"NONE", "CLOSED", "LISTEN"} /\ ~cb[e].nofd
            /\ ~(e \in Passive /\ cb[e].st = "SYN_RECEIVED")

\* PRU_SHUTDOWN
Shutdown(e) ==
  /\ "shutdown" \in Uses /\ InUse(e) /\ ~cb[e].cantsnd
  /\ LET c == UsrClosed([cb[e] EXCEPT !.cantsnd = TRUE])
     IN  Becomes(e, IF c.st = "NONE" THEN Stop(c, {}) ELSE Output(c))
  /\ UNCHANGED got

\* soclose without linger: PRU_DISCONNECT, and PRU_DETACH, which repeats it
Close(e) ==
  /\ "close" \in Uses /\ InUse(e)
  /\ LET c == [cb[e] EXCEPT !.nofd = TRUE, !.cantsnd = TRUE, !.cantrcv = TRUE,
                            !.rcv = <<>>]
     IN  Becomes(e, IF AtLeast(c, "ESTABLISHED")
                      THEN UNION {With(r.out, Output(r.c)) : r \in Output(UsrClosed(c))}
                      ELSE Stop(Closed(c), {}))
  /\ UNCHANGED got

\* soclose with a linger time of 0
Abort(e) ==
  /\ "abort" \in Uses /\ InUse(e)
  /\ LET c == [cb[e] EXCEPT !.nofd = TRUE]
     IN  Becomes(e, IF AtLeast(c, "ESTABLISHED") THEN Drop(c, FALSE)
                                                ELSE Stop(Closed(c), {}))
  /\ UNCHANGED got

Next ==
  \E e \in Ends :
       \/ Deliver(e) \/ FastTimo(e) \/ Rexmt(e) \/ Persist(e) \/ Msl(e) \/ Keep(e)
       \/ Connect(e) \/ Send(e) \/ Receive(e) \/ Shutdown(e) \/ Close(e) \/ Abort(e)

Spec == Init /\ [][Next]_vars

-----------------------------------------------------------------------------
(* Properties.                                                             *)

Bytes(n) == [i \in 1 .. n |-> i]

\* Types of the connection blocks, of what was read and of the network.
TypeOK ==
  /\ \A e \in Ends :
       /\ cb[e].st \in Range(States) \cup {"NONE"}
       /\ {cb[e].una, cb[e].nxt, cb[e].max, cb[e].wnd, cb[e].rcv_nxt,
           cb[e].rcv_adv} \subseteq 0 .. SeqSpace - 1
       /\ cb[e].rxtshift \in 0 .. MaxRxtShift
       /\ got[e] \in Seq(Nat)
  /\ \A m \in net : m.to \in Ends

\* The connection as its two applications see it.
Promise == INSTANCE Stream WITH
  wrote <- [e \in Ends |-> cb[e].wrote],
  shut <- [e \in Ends |-> cb[e].cantsnd],
  held <- [e \in Ends |-> cb[e].rcv],
  read <- got,
  eof <- [e \in Ends |-> cb[e].cantrcv /\ ~cb[e].error /\ ~cb[e].nofd],
  gone <- [e \in Ends |-> cb[e].error \/ cb[e].nofd]

\* The connection implements the two streams of Stream, whatever the network
\* loses, repeats and reorders and however the ends close: every byte once and
\* in order, and a read that reports the end has been given all of them.
StreamImplemented == Promise!StreamSpec

Closing == {"CLOSE_WAIT", "CLOSING", "LAST_ACK", "TIME_WAIT"}

\* An end that has seen the FIN of its peer has been given all its peer wrote.
FinAfterData ==
  \A e \in Ends :
    cb[e].st \in Closing =>
      /\ Sub(cb[e].rcv_nxt, Iss[Peer(e)]) = cb[Peer(e)].wrote + 2
      /\ ~cb[e].nofd => got[e] \o cb[e].rcv = Bytes(cb[Peer(e)].wrote)

\* What is taken off the send buffer has been received by the peer: snd_una
\* never passes the peer's rcv_nxt, and the buffer holds what is not acked.
AckedIsReceived ==
  \A e \in Ends :
    AtLeast(cb[e], "ESTABLISHED") /\ cb[Peer(e)].st # "NONE" =>
      /\ SEQ_LEQ(cb[e].una, cb[Peer(e)].rcv_nxt)
      /\ cb[e].st = "ESTABLISHED" =>
           Len(cb[e].snd) = cb[e].wrote - (Sub(cb[e].una, Iss[e]) - 1)

\* snd_una <= snd_nxt <= snd_max.
SndOrdered ==
  \A e \in Ends : AtLeast(cb[e], "SYN_SENT") =>
    SEQ_LEQ(cb[e].una, cb[e].nxt) /\ SEQ_LEQ(cb[e].nxt, cb[e].max)

\* What has been sent and not acked, a FIN included, has a timer that will
\* send it again or probe for it.
OutputTimed ==
  \A e \in Ends : AtLeast(cb[e], "ESTABLISHED") /\ cb[e].una # cb[e].max =>
    cb[e].rexmt \/ cb[e].persist

\* Data that waits to be sent has a timer running: if the peer's window is
\* shut, the persist timer, which asks for the update that may have been lost.
QueuedTimed ==
  \A e \in Ends : AtLeast(cb[e], "ESTABLISHED") /\ cb[e].snd # <<>> =>
    cb[e].rexmt \/ cb[e].persist

\* The retransmit and the persist timer never run together, and
\* tcp_setpersist's panic is not reached.
OneTimer == \A e \in Ends : ~cb[e].panic /\ ~(cb[e].rexmt /\ cb[e].persist)

\* No data is sent past the window the peer has offered, but for the byte of
\* a window probe, and that only while the persist timer runs.
WithinWindow ==
  \A e \in Ends :
    AtLeast(cb[e], "ESTABLISHED") /\ AtLeast(cb[Peer(e)], "ESTABLISHED") =>
      Sub(cb[e].max, cb[Peer(e)].rcv_adv) - (IF cb[e].sentfin THEN 1 ELSE 0)
        <= IF cb[e].persist THEN 1 ELSE 0

\* The receive buffer has room for what it holds and for all that the peer
\* may still send into the offered window.
WindowFits ==
  \A e \in Ends : AtLeast(cb[e], "ESTABLISHED") =>
    LET adv == Sub(cb[e].rcv_adv, cb[e].rcv_nxt)
    IN  Len(cb[e].rcv) + (IF adv > 0 THEN adv ELSE 0) <= Hiwat

\* No segment takes back window that has been offered: the right edge it gives
\* is never to the left of the one the sender of the segment promised before.
WindowKept ==
  [][\A e \in Ends :
       AtLeast(cb[e], "ESTABLISHED") =>
         \A m \in net' \ net :
           m.to = Peer(e) /\ "ACK" \in m.s.f /\ "RST" \notin m.s.f =>
             SEQ_LEQ(cb[e].rcv_adv, Plus(m.s.ack, m.s.win))]_vars

\* The sequence numbers of the two ends agree: a FIN is seen after all data, what is
\* acknowledged has been received, and what is outstanding has a timer (tcp_input, tcp_output).
SequenceSound == FinAfterData /\ AckedIsReceived /\ OutputTimed

\* The sender keeps its own variables in order and inside the window it was offered.
SenderSound == SndOrdered /\ OneTimer /\ WithinWindow /\ WindowFits
=============================================================================
