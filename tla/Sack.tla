-------------------------------- MODULE Sack --------------------------------
(***************************************************************************)
(* Selective acknowledgement (netinet/tcp_sack.c and its callers in        *)
(* tcp_input.c, tcp_output.c and tcp_timer.c): one connection that sends   *)
(* Bytes octets over a network that loses and reorders segments.  The      *)
(* receiver's block list and the sender's scoreboard are sequences of      *)
(* records [s, e); sequence numbers stay inside one window, so SEQ_LT is   *)
(* <.  The peer's window is open.  A call of tcp_output is a loop of       *)
(* rounds: `busy` keeps everything else out until it returns.              *)
(***************************************************************************)
EXTENDS Naturals, Sequences, FiniteSets, SequencesExt, FiniteSetsExt

CONSTANTS
  Bytes,       \* octets to send
  Mss,         \* t_maxseg
  Thresh,      \* tcprexmtthresh
  InitCwnd,    \* snd_cwnd at the start
  RcvBlocks,   \* TCP_MAX_SACK
  SndBlocks,   \* TCP_MAX_SACK_SND
  OptBlocks,   \* blocks that fit into the options of one segment
  MaxRto       \* bound on retransmission timeouts

ASSUME SackAssumption ==
  /\ {Bytes, Mss, Thresh, InitCwnd, RcvBlocks, SndBlocks, OptBlocks} \subseteq Nat \ {0}
  /\ MaxRto \in Nat

VARIABLES
  tp,      \* the sending side of the tcpcb
  rtp,     \* the receiving side: [nxt, blks, have, dsack]
  segs,    \* data segments in flight; one never delivered is lost
  acks,    \* acknowledgements in flight, likewise
  rtos     \* timeouts so far

kvars == <<tp, rtp, segs, acks, rtos>>

NoDsack == <<>>

SackInit ==
  /\ tp = [una |-> 0, nxt |-> 0, max |-> 0, blks |-> <<>>, rec |-> FALSE,
           rescue |-> FALSE, recover |-> 0, highrxt |-> 0, cwnd |-> InitCwnd,
           ssthresh |-> InitCwnd, dup |-> 0, delivered |-> 0, out |-> 0, fs |-> 0,
           timer |-> "off", busy |-> TRUE, keep |-> 0]
  /\ rtp = [nxt |-> 0, blks |-> <<>>, have |-> {}, dsack |-> NoDsack]
  /\ segs = {} /\ acks = {} /\ rtos = 0

Span(b) == b.s..(b.e - 1)
Cover(blks) == UNION {Span(blks[n]) : n \in DOMAIN blks}
AtLeastOf(a, b) == IF a < b THEN b ELSE a
AtMostOf(a, b) == IF a < b THEN a ELSE b

-----------------------------------------------------------------------------
(* The receiver.                                                           *)

\* What is left of the blocks above a sequence number.
Trimmed(blks, una) ==
  LET live == SelectSeq(blks, LAMBDA b : b.e > una)
  IN [n \in DOMAIN live |-> [live[n] EXCEPT !.s = AtLeastOf(@, una)]]

Prefix(q, n) == SubSeq(q, 1, AtMostOf(n, Len(q)))

\* One pass: the head grows as it meets blocks that overlap or touch it.
tcp_sack_addblock(r, start, end) ==
  LET s == AtLeastOf(start, r.nxt)
      Meet(acc, b) ==
        IF b.e <= r.nxt THEN acc
        ELSE IF acc.head.s <= b.e /\ b.s <= acc.head.e
        THEN [acc EXCEPT !.head = [s |-> AtMostOf(acc.head.s, b.s),
                                   e |-> AtLeastOf(acc.head.e, b.e)]]
        ELSE [acc EXCEPT !.saved = Append(@, b)]
      all == FoldLeft(Meet, [head |-> [s |-> s, e |-> end], saved |-> <<>>], r.blks)
  IN IF s >= end THEN r
     ELSE [r EXCEPT !.blks = Prefix(<<all.head>> \o all.saved, RcvBlocks)]

\* Mutant: blocks stay when rcv_nxt passes them.
tcp_sack_purge_None(r) == r

tcp_sack_purge(r) == [r EXCEPT !.blks = Trimmed(@, r.nxt)]

\* tcp_reass: note the block, then hand up what has become contiguous.
Reassemble(r, g) ==
  LET queued == IF Span(g) \subseteq r.have THEN r ELSE tcp_sack_addblock(r, g.s, g.e)
      have   == r.have \cup Span(g)
      nxt    == Min((r.nxt..Bytes) \ have)
  IN IF nxt = r.nxt THEN [queued EXCEPT !.have = have]
     ELSE tcp_sack_purge([queued EXCEPT !.have = have, !.nxt = nxt])

\* The option of the next acknowledgement: the duplicate first, then the blocks.
Reported(r) == [ack |-> r.nxt, blks |-> Prefix(r.dsack \o r.blks, OptBlocks)]

Receive(g) ==
  LET old == g.e <= rtp.nxt
      r   == IF old THEN [rtp EXCEPT !.dsack = <<g>>] ELSE Reassemble(rtp, g)
  IN /\ ~tp.busy
     /\ segs' = segs \ {g}
     /\ acks' = acks \cup {Reported(r)}
     /\ rtp' = [r EXCEPT !.dsack = NoDsack]
     /\ UNCHANGED <<tp, rtos>>

-----------------------------------------------------------------------------
(* The scoreboard.                                                         *)

tcp_sack_snd_trim(blks, una) == Trimmed(blks, una)

\* A block is merged with every block it overlaps or touches; the list stays
\* sorted, and what does not fit is forgotten.
tcp_sack_snd_insert(blks, start, end) ==
  LET joins(b) == ~(b.e < start) /\ ~(b.s > end)
      met   == {blks[n] : n \in {m \in DOMAIN blks : joins(blks[m])}}
      new   == [s |-> Min({start} \cup {b.s : b \in met}),
                e |-> Max({end} \cup {b.e : b \in met})]
      below == SelectSeq(blks, LAMBDA b : b.e < start)
      above == SelectSeq(blks, LAMBDA b : b.s > end /\ ~joins(b))
  IN Prefix(below \o <<new>> \o above, SndBlocks)

tcp_sack_update(t, reported) ==
  LET Put(blks, b) ==
        LET s == AtLeastOf(b.s, t.una)
            e == AtMostOf(b.e, t.max)
        IN IF s >= e THEN blks ELSE tcp_sack_snd_insert(blks, s, e)
  IN [t EXCEPT !.blks = FoldLeft(Put, tcp_sack_snd_trim(@, t.una), reported)]

tcp_sack_issacked(t, seq) == \E n \in DOMAIN t.blks : seq \in Span(t.blks[n])

tcp_sack_snd_bytes_above(t, floor) == Cardinality({x \in Cover(t.blks) : x >= floor})

tcp_sack_islost(t, seq) ==
  \/ Cardinality({n \in DOMAIN t.blks : t.blks[n].s > seq}) >= Thresh
  \/ tcp_sack_snd_bytes_above(t, seq) > (Thresh - 1) * Mss

\* The octets thought to be in the network, in steps of one segment.
tcp_sack_pipe(t) ==
  LET heads == {t.una + k * Mss : k \in 0..Bytes} \cap t.una..(t.max - 1)
      InPipe(x) == ~tcp_sack_issacked(t, x) /\ (~tcp_sack_islost(t, x) \/ x < t.highrxt)
  IN Cardinality({x \in t.una..(t.max - 1) : \E h \in heads : h <= x /\ x < h + Mss /\ InPipe(h)})

-----------------------------------------------------------------------------
(* Recovery (RFC 6675) paced by RFC 6937.                                  *)

NextHole(t, stop(_)) ==
  LET From(n) == AtLeastOf(IF n = 1 THEN t.una ELSE t.blks[n - 1].e, t.highrxt)
      holes   == {n \in DOMAIN t.blks : From(n) < t.blks[n].s}
  IN IF holes = {} THEN {}
     ELSE LET n == Min(holes)
          IN IF stop(From(n)) THEN {[s |-> From(n), e |-> t.blks[n].s]} ELSE {}

\* The first hole not resent yet, if it counts as lost.
tcp_sack_nextseg(t) == NextHole(t, LAMBDA s : tcp_sack_islost(t, s))

\* The first hole not resent yet, lost or not.
tcp_sack_rescue(t) == NextHole(t, LAMBDA s : TRUE)

Ceil(a, b) == (a + b - 1) \div b
Monus(a, b) == IF a > b THEN a - b ELSE 0

tcp_sack_prr_ack(t, acked, prev) ==
  LET got   == Monus(acked + tcp_sack_snd_bytes_above(t, t.una), prev)
      total == t.delivered + got
      pipe  == tcp_sack_pipe(t)
      cnt   == IF pipe > t.ssthresh
               THEN Monus(Ceil(total * t.ssthresh, AtLeastOf(t.fs, 1)), t.out)
               ELSE AtMostOf(AtLeastOf(Monus(total, t.out), got) + Mss, t.ssthresh - pipe)
  IN [t EXCEPT !.delivered = total, !.cwnd = pipe + cnt]

\* One round of tcp_output in recovery: [seg, the range resent or new; t, the
\* control block; more, whether it loops].
Sent(t, s, e) ==
  LET len  == AtMostOf(e - s, Mss)
      hole == t.rec /\ s # t.max
  IN [t EXCEPT !.highrxt = IF hole THEN AtLeastOf(@, s + len) ELSE @,
               !.nxt = IF hole THEN @ ELSE s + len,
               !.max = AtLeastOf(@, s + len),
               !.out = IF t.rec THEN @ + len ELSE @,
               !.timer = IF hole /\ @ = "persist" THEN @ ELSE "rexmt",
               !.busy = e - s > Mss]

Emit(t, s, e) ==
  /\ segs' = segs \cup {[s |-> s, e |-> AtMostOf(e, s + Mss)]}
  /\ tp' = LET u == Sent(t, s, e)
           IN IF u.busy \/ u.keep = 0 THEN u ELSE [u EXCEPT !.cwnd = u.keep, !.keep = 0]
  /\ UNCHANGED <<rtp, acks, rtos>>

\* Nothing to send: with data unacknowledged and no timer, one is started.
Quiet(t) ==
  /\ tp' = [t EXCEPT !.busy = FALSE, !.keep = 0,
                     !.cwnd = IF t.keep = 0 THEN @ ELSE t.keep,
                     !.timer = IF @ # "off" \/ t.una = Bytes THEN @
                               ELSE IF ~t.rec THEN "persist"
                               ELSE IF t.una < t.max THEN "rexmt" ELSE @]
  /\ UNCHANGED <<rtp, segs, acks, rtos>>

OutputRecover ==
  LET room == Monus(tp.cwnd, tcp_sack_pipe(tp))
      end  == AtMostOf(Bytes, tp.max + room)
  IN /\ tp.busy /\ tp.rec
     /\ \/ /\ room > 0
           /\ \E h \in tcp_sack_nextseg(tp) : Emit(tp, h.s, h.e)
        \/ /\ room > 0 /\ tcp_sack_nextseg(tp) = {} /\ tp.max < end
           /\ Emit(tp, tp.max, end)
        \/ /\ room > 0 /\ tcp_sack_nextseg(tp) = {} /\ tp.max >= end /\ ~tp.rescue
           /\ \E h \in tcp_sack_rescue(tp) : Emit([tp EXCEPT !.rescue = TRUE], h.s, h.e)
        \/ /\ \/ room = 0
              \/ /\ tcp_sack_nextseg(tp) = {} /\ tp.max >= end
                 /\ tp.rescue \/ tcp_sack_rescue(tp) = {}
           /\ Quiet(tp)

\* Outside recovery tcp_output sends from snd_nxt up to the window.
OutputNormal ==
  LET end == AtMostOf(Bytes, tp.una + tp.cwnd)
  IN /\ tp.busy /\ ~tp.rec
     /\ IF tp.nxt < end THEN Emit(tp, tp.nxt, end) ELSE Quiet(tp)

\* Half of min(snd_wnd, snd_cwnd), in whole segments, at least two.
HalfWindow(t) == AtLeastOf(AtMostOf(t.cwnd, Bytes) \div (2 * Mss), 2) * Mss

EnterRecovery(t) ==
  LET half == HalfWindow(t)
  IN [t EXCEPT !.ssthresh = half, !.cwnd = half, !.timer = "off",
               !.recover = t.max, !.highrxt = t.una, !.delivered = 0, !.out = 0,
               !.fs = AtLeastOf(t.max - t.una, Mss), !.rec = TRUE, !.rescue = FALSE,
               !.busy = TRUE]

\* NewReno, without SACK's precondition: tcp_output, its window pinned to one
\* segment, sends the one at snd_una; snd_nxt goes back to where it was.
OneSegment(una) == [s |-> una, e |-> AtMostOf(una + Mss, Bytes)]
Resent(t) ==
  LET g == OneSegment(t.una)
  IN [t EXCEPT !.nxt = AtLeastOf(@, g.e), !.max = AtLeastOf(@, g.e), !.timer = "rexmt"]

FastRexmt(t) ==
  LET half == HalfWindow(t)
  IN [Resent(t) EXCEPT !.ssthresh = half, !.recover = t.nxt, !.cwnd = half + Mss * Thresh]

\* The window less what has left the network, plus one segment for a whole one.
Deflated(t, n) == AtLeastOf(Monus(t.cwnd, n) + (IF n >= Mss THEN Mss ELSE 0), Mss)

\* How many duplicates this makes; an acknowledgement below snd_una is none.
Duplicates(t, ack) == IF t.timer # "rexmt" \/ ack # t.una THEN 0 ELSE t.dup + 1

DupAck(t, ack, prev) ==
  LET n == Duplicates(t, ack)
  IN CASE t.rec -> [tcp_sack_prr_ack(t, 0, prev) EXCEPT !.busy = TRUE]
       [] ~t.rec /\ n = Thresh /\ t.nxt = t.max -> [EnterRecovery(t) EXCEPT !.dup = n]
       [] ~t.rec /\ n = Thresh /\ t.nxt # t.max -> [FastRexmt(t) EXCEPT !.dup = n]
       [] ~t.rec /\ n > Thresh -> [t EXCEPT !.dup = n, !.cwnd = @ + Mss, !.busy = TRUE]
       [] ~t.rec /\ n \in 1..(Thresh - 1) ->
            [t EXCEPT !.dup = n, !.keep = t.cwnd, !.cwnd = @ + n * Mss, !.busy = TRUE]
       [] OTHER -> [t EXCEPT !.dup = 0]

\* NewReno's partial acknowledgement: another loss in the same window.
PartialAck(t, ack) == ~t.rec /\ t.dup >= Thresh /\ ack > t.una /\ ack < t.recover

AckAdvances(t, ack, prev) ==
  LET w == IF t.dup > Thresh /\ t.cwnd > t.ssthresh THEN t.ssthresh ELSE t.cwnd
      grown == IF t.rec THEN w
               ELSE IF w > t.ssthresh THEN w + (Mss * Mss) \div w + Mss \div 8 ELSE w + Mss
      u == [t EXCEPT !.dup = 0, !.cwnd = AtMostOf(grown, Bytes),
                     !.una = ack, !.nxt = AtLeastOf(@, ack),
                     !.timer = IF ack = t.max THEN "off" ELSE IF @ = "persist" THEN @ ELSE "rexmt",
                     !.busy = (ack = t.max) \/ t.nxt < Bytes]
  IN IF PartialAck(t, ack)
     THEN [Resent(u) EXCEPT !.dup = t.dup, !.cwnd = Deflated(t, ack - t.una), !.busy = TRUE]
     ELSE IF ~t.rec THEN u
     ELSE IF ack >= t.recover
     THEN [u EXCEPT !.rec = FALSE, !.blks = <<>>, !.cwnd = t.ssthresh]
     ELSE [tcp_sack_prr_ack([u EXCEPT !.highrxt = AtLeastOf(@, ack)], ack - t.una, prev)
             EXCEPT !.busy = TRUE]

\* Whether the acknowledgement has one segment sent at snd_una at once.
ResendsOne(t, ack) ==
  \/ PartialAck(t, ack)
  \/ ~t.rec /\ ack = t.una /\ Duplicates(t, ack) = Thresh /\ t.nxt # t.max

AckInput(a) ==
  LET prev == tcp_sack_snd_bytes_above(tp, tp.una)
      t == tcp_sack_update(tp, a.blks)
  IN /\ ~tp.busy /\ a.ack <= tp.max
     /\ acks' = acks \ {a}
     /\ tp' = IF a.ack <= tp.una THEN DupAck(t, a.ack, prev) ELSE AckAdvances(t, a.ack, prev)
     /\ segs' = IF ResendsOne(tp, a.ack) THEN segs \cup {OneSegment(tp'.una)} ELSE segs
     /\ UNCHANGED <<rtp, rtos>>

\* The retransmission timer: recovery is abandoned with its scoreboard.
Rto ==
  /\ ~tp.busy /\ tp.timer = "rexmt" /\ rtos < MaxRto /\ rtos' = rtos + 1
  /\ LET t == [tp EXCEPT !.nxt = tp.una, !.dup = 0, !.cwnd = Mss, !.busy = TRUE,
                         !.ssthresh = HalfWindow(tp)]
     IN tp' = IF tp.rec THEN [t EXCEPT !.rec = FALSE, !.rescue = FALSE, !.blks = <<>>,
                                       !.highrxt = tp.una]
              ELSE t
  /\ UNCHANGED <<rtp, segs, acks>>

SackNext ==
  \/ OutputRecover \/ OutputNormal
  \/ \E g \in segs : Receive(g)
  \/ \E a \in acks : AckInput(a)
  \/ Rto

SackSpec == SackInit /\ [][SackNext]_kvars

-----------------------------------------------------------------------------
\* The block list tells the truth: its blocks are disjoint, lie above rcv_nxt
\* and hold only octets that have arrived (tcp_sack_addblock, tcp_sack_purge).
BlocksTrue ==
  /\ \A m, n \in DOMAIN rtp.blks : m # n => Span(rtp.blks[m]) \cap Span(rtp.blks[n]) = {}
  /\ Cover(rtp.blks) \subseteq {x \in rtp.have : x > rtp.nxt}
  /\ \A n \in DOMAIN rtp.blks : Span(rtp.blks[n]) # {}

\* The scoreboard is sorted, without overlap and true: what it calls received
\* has arrived, so nothing is left unsent because of it.
ScoreboardTrue ==
  /\ \A n \in 1..(Len(tp.blks) - 1) : tp.blks[n].e < tp.blks[n + 1].s
  /\ Cover(tp.blks) \subseteq rtp.have
  /\ tcp_sack_pipe(tp) <= tp.max - tp.una

\* In recovery new data go out at snd_max (the comment at tcp_input.c:1697), the
\* mark of what was resent stays inside what was sent, and a hole chosen for
\* resending was sent before and is not on the scoreboard.
RecoverySound ==
  tp.rec =>
    /\ tp.nxt = tp.max /\ tp.una < tp.recover /\ tp.recover <= tp.max
    /\ tp.highrxt \in tp.una..tp.max
    /\ \A h \in tcp_sack_nextseg(tp) \cup tcp_sack_rescue(tp) :
         /\ tp.una <= h.s /\ h.e <= tp.max
         /\ \A x \in Span(h) : ~tcp_sack_issacked(tp, x)

\* Whenever data wait for an acknowledgement a timer runs, also when recovery
\* could send nothing: the last resort of tcp_output.c:472.
RecoveryTimed == tp.una < tp.max /\ ~tp.busy => tp.timer # "off"

\* Selective acknowledgement: both lists tell the truth whatever is lost or overtaken, and
\* recovery sends what is missing, no more than it may, and never stops without a timer.
SackSound == BlocksTrue /\ ScoreboardTrue /\ RecoverySound /\ RecoveryTimed
=============================================================================
