--------------------------------- MODULE Bpf ---------------------------------
(***************************************************************************)
(* The packet capture channels (net/bpf.c, api/amiga_bpf.c).  The library  *)
(* calls hold the syscall semaphore, which only tsleep gives up, so a call *)
(* is one step up to its tsleep and one after it; the network task's taps  *)
(* and the shutdown come in between.  The table of channels is shared by   *)
(* all programs: any of them may read, configure or close any channel.     *)
(*                                                                         *)
(* Packets are numbered in the order of capture and take 1 or 2 units of   *)
(* a buffer, their headers included.                                       *)
(***************************************************************************)
EXTENDS Naturals, Integers, Sequences, FiniteSets, SequencesExt, FiniteSetsExt

CONSTANTS
  Chans,       \* channel numbers, 0..NG_BPF_MAXCHAN - 1
  Readers,     \* tasks that call bpf_read
  BpfIfs,      \* interfaces there are at first
  BufSizes,    \* sizes BIOCSBLEN can leave
  DfltSize,    \* NG_BPF_DFLT_BUFSIZE
  MaxPkts,     \* bound: packets captured
  MaxBpfCalls  \* bound: opens, restarts and configuration calls

ASSUME BpfAssumption ==
  /\ Chans \subseteq Nat /\ BufSizes \subseteq Nat \ {0} /\ DfltSize \in BufSizes
  /\ {MaxPkts, MaxBpfCalls} \subseteq Nat

VARIABLES
  bd,          \* bpf_chan[]
  blocks,      \* the heap: buffers allocated
  nlisteners,  \* bpf_nlisteners
  bpfDown,     \* bpf_down, and whether the shutdown is over
  present,     \* interfaces in the list
  reader,      \* where each reader is
  taps,        \* packets seen
  bcalls       \* calls made

bvars == <<bd, blocks, nlisteners, bpfDown, present, reader, taps, bcalls>>

NoIf == "none"
Closed == [inuse |-> FALSE, bif |-> NoIf, filter |-> {}, sbuf |-> 0, hbuf |-> 0, fbuf |-> 0,
           store |-> <<>>, hold |-> <<>>, size |-> 0, immediate |-> FALSE, waiting |-> FALSE,
           rcount |-> 0, dcount |-> 0, ccount |-> 0, gen |-> 0]
Used(q) == FoldLeft(LAMBDA n, r : n + r.cap, 0, q)

BpfInit ==
  /\ bd = [c \in Chans |-> Closed] /\ blocks = {} /\ nlisteners = 0 /\ bpfDown = "no"
  /\ present = BpfIfs /\ taps = 0 /\ bcalls = 0
  /\ reader = [r \in Readers |-> [pc |-> "idle", chan |-> 0, err |-> "none", gen |-> 0, got |-> 0]]

\* bpf_allocbufs: two buffers or, when memory is out, none.
bpf_allocbufs(d, heap, k) ==
  LET i == CHOOSE n \in 1..(2 * Cardinality(Chans) + 2) : {n, n + 1} \cap heap = {}
  IN IF k < 2 THEN [d |-> d, heap |-> heap]
     ELSE [d |-> [d EXCEPT !.sbuf = i, !.fbuf = i + 1, !.hbuf = 0, !.store = <<>>, !.hold = <<>>],
           heap |-> heap \cup {i, i + 1}]

bpf_freebufs(d, heap) ==
  [d |-> [d EXCEPT !.sbuf = 0, !.hbuf = 0, !.fbuf = 0, !.store = <<>>, !.hold = <<>>],
   heap |-> heap \ {d.sbuf, d.hbuf, d.fbuf}]

\* Mutant: the held buffer is not given back as the free one.
bpf_reset_LoseHold(d) ==
  [d EXCEPT !.hbuf = 0, !.store = <<>>, !.hold = <<>>, !.rcount = 0, !.dcount = 0, !.ccount = 0]

bpf_reset(d) ==
  [d EXCEPT !.fbuf = IF d.hbuf # 0 THEN d.hbuf ELSE @, !.hbuf = 0, !.store = <<>>, !.hold = <<>>,
            !.rcount = 0, !.dcount = 0, !.ccount = 0]

Listening(d) == IF d.bif = NoIf THEN 0 ELSE 1

\* bpf_wakeup and wakeup: every reader asleep on the channel is made ready.
Roused(c) ==
  [r \in Readers |-> IF reader[r].pc = "asleep" /\ reader[r].chan = c
                     THEN [reader[r] EXCEPT !.pc = "ready"] ELSE reader[r]]

Configured == bcalls < MaxBpfCalls /\ bcalls' = bcalls + 1

-----------------------------------------------------------------------------
\* bpf_open of a given channel or, with a negative number, of the first free one.
ng_bpf_open(c) ==
  \E k \in {0, 2} :
    LET a == bpf_allocbufs([Closed EXCEPT !.size = DfltSize, !.gen = bcalls + 1], blocks, k)
    IN /\ bpfDown = "no" /\ ~bd[c].inuse /\ Configured
       /\ bd' = [bd EXCEPT ![c] = IF k = 2 THEN [a.d EXCEPT !.inuse = TRUE] ELSE a.d]
       /\ blocks' = a.heap
       /\ UNCHANGED <<nlisteners, bpfDown, present, reader, taps>>

CloseChannel(c) ==
  LET f == bpf_freebufs(bd[c], blocks)
  IN /\ bd' = [bd EXCEPT ![c] = [f.d EXCEPT !.inuse = FALSE, !.waiting = FALSE, !.bif = NoIf, !.filter = {}]]
     /\ blocks' = f.heap /\ reader' = Roused(c)
     /\ nlisteners' = IF nlisteners > 0 THEN nlisteners - Listening(bd[c]) ELSE nlisteners

ng_bpf_close(c) == bd[c].inuse /\ Configured /\ CloseChannel(c) /\ UNCHANGED <<bpfDown, present, taps>>

\* ng_bpf_shutdown closes the channels one by one; a restart clears the table.
ng_bpf_shutdown ==
  \/ /\ bpfDown = "no" /\ Configured /\ bpfDown' = "closing"
     /\ UNCHANGED <<bd, blocks, nlisteners, present, reader, taps>>
  \/ /\ bpfDown = "closing" /\ UNCHANGED <<present, taps, bcalls>>
     /\ \/ \E c \in Chans : bd[c].inuse /\ CloseChannel(c) /\ UNCHANGED bpfDown
        \/ /\ \A c \in Chans : ~bd[c].inuse
           /\ nlisteners' = 0 /\ bpfDown' = "done" /\ UNCHANGED <<bd, blocks, reader>>

ng_bpf_init ==
  /\ bpfDown = "done" /\ Configured
  /\ bd' = [c \in Chans |-> Closed] /\ nlisteners' = 0 /\ bpfDown' = "no"
  /\ UNCHANGED <<blocks, present, reader, taps>>

\* The interface goes; no channel may keep a pointer to it.
ng_bpf_ifdetach(i) ==
  LET on == {c \in Chans : bd[c].inuse /\ bd[c].bif = i}
  IN /\ i \in present /\ present' = present \ {i}
     /\ bd' = [c \in Chans |-> IF c \in on THEN [bd[c] EXCEPT !.bif = NoIf] ELSE bd[c]]
     /\ nlisteners' = nlisteners - Cardinality(on)
     /\ UNCHANGED <<blocks, bpfDown, reader, taps, bcalls>>

-----------------------------------------------------------------------------
\* The loop of ng_bpf_read from its top: to sleep, or to the end with the hold
\* buffer, after a rotation when only the store buffer has something.
ReadOn(r, c) ==
  LET d == bd[c]
      e == IF d.hbuf # 0 THEN d
           ELSE [d EXCEPT !.hbuf = d.sbuf, !.hold = d.store, !.sbuf = d.fbuf, !.fbuf = 0, !.store = <<>>]
      started == [reader[r] EXCEPT !.chan = c, !.gen = IF reader[r].pc = "idle" THEN d.gen ELSE @]
  IN /\ UNCHANGED <<blocks, nlisteners, bpfDown, present, taps, bcalls>>
     /\ IF d.hbuf = 0 /\ ~(d.immediate /\ d.store # <<>>)
        THEN /\ bd' = [bd EXCEPT ![c].waiting = TRUE]
             /\ reader' = [reader EXCEPT ![r] = [started EXCEPT !.pc = "asleep", !.err = "none"]]
        ELSE \/ /\ bd' = [bd EXCEPT ![c] = [e EXCEPT !.fbuf = e.hbuf, !.hbuf = 0, !.hold = <<>>]]
                /\ reader' = [reader EXCEPT ![r] = [started EXCEPT !.pc = "idle", !.got = d.gen]]
             \/ \* the caller's buffer is too small
                /\ bd' = [bd EXCEPT ![c] = e]
                /\ reader' = [reader EXCEPT ![r] = [started EXCEPT !.pc = "idle", !.got = 0]]

ng_bpf_read(r, c) == reader[r].pc = "idle" /\ bd[c].inuse /\ ReadOn(r, c)

\* tsleep returns: the channel was closed, the sleep failed, or there is something.
ReadWoken(r) ==
  LET c == reader[r].chan
      gone == [reader EXCEPT ![r] = [@ EXCEPT !.pc = "idle", !.got = 0]]
  IN /\ reader[r].pc = "ready"
     /\ \/ ~bd[c].inuse /\ reader' = gone /\ UNCHANGED <<bd, blocks, nlisteners, bpfDown, present, taps, bcalls>>
        \/ /\ bd[c].inuse /\ reader[r].err # "none" /\ reader' = gone
           /\ bd' = [bd EXCEPT ![c].waiting = FALSE]
           /\ UNCHANGED <<blocks, nlisteners, bpfDown, present, taps, bcalls>>
        \/ bd[c].inuse /\ reader[r].err = "none" /\ ReadOn(r, c)

\* The timeout of the channel, or a break signal.
ReadFails(r) ==
  /\ reader[r].pc = "asleep"
  /\ reader' = [reader EXCEPT ![r] = [@ EXCEPT !.pc = "ready", !.err = "failed"]]
  /\ UNCHANGED <<bd, blocks, nlisteners, bpfDown, present, taps, bcalls>>

-----------------------------------------------------------------------------
\* BIOCSBLEN, refused while the channel is attached.
SetBufLen(c) ==
  \E n \in BufSizes, k \in {0, 2} :
    LET f == bpf_freebufs(bd[c], blocks)
        a == bpf_allocbufs([f.d EXCEPT !.size = n, !.waiting = FALSE], f.heap, k)
    IN /\ bd[c].inuse /\ bd[c].bif = NoIf /\ Configured
       /\ bd' = [bd EXCEPT ![c] = a.d] /\ blocks' = a.heap
       /\ reader' = IF bd[c].waiting THEN Roused(c) ELSE reader
       /\ UNCHANGED <<nlisteners, bpfDown, present, taps>>

\* BIOCSETF: a filter that takes the odd packets, or none.
bpf_setf(c) ==
  \E f \in {{}, {"odd"}} :
    /\ bd[c].inuse /\ Configured
    /\ bd' = [bd EXCEPT ![c] = bpf_reset([@ EXCEPT !.filter = f])]
    /\ UNCHANGED <<blocks, nlisteners, bpfDown, present, reader, taps>>

\* BIOCSETIF: bpf_attachd, then bpf_reset.
bpf_setif(c) ==
  \E i \in present :
    /\ bd[c].inuse /\ bd[c].sbuf # 0 /\ Configured
    /\ bd' = [bd EXCEPT ![c] = bpf_reset([@ EXCEPT !.bif = i])]
    /\ nlisteners' = nlisteners + 1 - Listening(bd[c])
    /\ UNCHANGED <<blocks, bpfDown, present, reader, taps>>

\* BIOCFLUSH, BIOCIMMEDIATE; the others only read or set what nobody waits for.
ng_bpf_ioctl(c) ==
  /\ bd[c].inuse /\ Configured
  /\ \/ bd' = [bd EXCEPT ![c] = bpf_reset(@)]
     \/ bd' = [bd EXCEPT ![c].immediate = ~@]
  /\ UNCHANGED <<blocks, nlisteners, bpfDown, present, reader, taps>>

-----------------------------------------------------------------------------
\* A packet of n units into channel d: [d, wake].
bpf_catchpacket(d, no, n) ==
  LET cap == IF n > d.size THEN d.size ELSE n
      rotated == [d EXCEPT !.hbuf = d.sbuf, !.hold = d.store, !.sbuf = d.fbuf, !.fbuf = 0, !.store = <<>>]
      into(e) == [e EXCEPT !.store = Append(@, [no |-> no, cap |-> cap]), !.ccount = @ + 1]
      dropped == [d |-> [d EXCEPT !.dcount = @ + 1], wake |-> FALSE]
  IN IF d.sbuf = 0 THEN dropped
     ELSE IF Used(d.store) + cap <= d.size THEN [d |-> into(d), wake |-> d.immediate]
     ELSE IF d.fbuf = 0 THEN dropped
     ELSE [d |-> into(rotated), wake |-> TRUE]

\* A packet passes interface i; every channel attached to it that wants it gets it.
ng_bpf_tap(i) ==
  \E n \in {1, 2} :
    LET no == taps + 1
        on == {c \in Chans : bd[c].inuse /\ bd[c].bif = i}
        seen(c) == [bd[c] EXCEPT !.rcount = @ + 1]
        takes(c) == bd[c].filter = {} \/ no % 2 = 1
        r(c) == IF takes(c) THEN bpf_catchpacket(seen(c), no, n) ELSE [d |-> seen(c), wake |-> FALSE]
        woken == {c \in on : r(c).wake /\ bd[c].waiting}
    IN /\ nlisteners > 0 /\ i \in present /\ taps < MaxPkts /\ taps' = no
       /\ bd' = [c \in Chans |-> IF c \in on
                                 THEN [r(c).d EXCEPT !.waiting = @ /\ c \notin woken] ELSE bd[c]]
       /\ reader' = [t \in Readers |-> IF reader[t].pc = "asleep" /\ reader[t].chan \in woken
                                       THEN [reader[t] EXCEPT !.pc = "ready"] ELSE reader[t]]
       /\ UNCHANGED <<blocks, nlisteners, bpfDown, present, bcalls>>

BpfNext ==
  \/ ng_bpf_shutdown \/ ng_bpf_init
  \/ \E i \in BpfIfs : ng_bpf_ifdetach(i) \/ ng_bpf_tap(i)
  \/ \E r \in Readers : ReadWoken(r) \/ ReadFails(r) \/ \E c \in Chans : ng_bpf_read(r, c)
  \/ \E c \in Chans :
       \/ ng_bpf_open(c) \/ ng_bpf_close(c) \/ SetBufLen(c)
       \/ bpf_setf(c) \/ bpf_setif(c) \/ ng_bpf_ioctl(c)

BpfSpec == BpfInit /\ [][BpfNext]_bvars

-----------------------------------------------------------------------------
\* The buffers: a channel has two different ones or none, the one that is filled
\* among them, none belongs to two channels, and none is lost.
BuffersKept ==
  LET of(c) == {bd[c].sbuf, bd[c].hbuf, bd[c].fbuf} \ {0}
  IN /\ \A c \in Chans : /\ Cardinality(of(c)) = (IF bd[c].sbuf = 0 THEN 0 ELSE 2)
                         /\ bd[c].inuse \/ of(c) = {}
     /\ \A c, e \in Chans : c # e => of(c) \cap of(e) = {}
     /\ UNION {of(c) : c \in Chans} = blocks

\* What is captured stays in order and inside the buffers, and every packet seen is
\* stored, dropped or refused by the filter.
CaptureSound ==
  \A c \in Chans :
    LET q == bd[c].hold \o bd[c].store
    IN /\ \A m, n \in DOMAIN q : m < n => q[m].no < q[n].no
       /\ Used(bd[c].store) <= bd[c].size /\ (bd[c].hbuf = 0 => bd[c].hold = <<>>)
       /\ (bd[c].inuse /\ bd[c].filter = {} => bd[c].rcount = bd[c].dcount + bd[c].ccount)

\* The tap is not switched off while a channel listens, and no channel listens to an
\* interface that is gone.
ListenersCounted ==
  /\ nlisteners = Cardinality({c \in Chans : bd[c].bif # NoIf})
  /\ \A c \in Chans : bd[c].bif \in present \cup {NoIf}

\* With one reader to a channel, it does not sleep on when a buffer is ready for it.
ReaderWoken ==
  \A r \in Readers : reader[r].pc = "asleep" => bd[reader[r].chan].hbuf = 0 /\ bd[reader[r].chan].inuse

\* The buffers, listeners and readers of a capture channel agree, whatever arrives
\* between the calls of bpf_open, bpf_read and bpf_close.
BpfSound == BuffersKept /\ CaptureSound /\ ListenersCounted /\ ReaderWoken

\* "The woken reader re-checks bd_inuse (see ng_bpf_read) and returns ENXIO": what a
\* reader is given was captured by the channel it called bpf_read on, not by one that
\* was opened under the same number while it slept.
SessionKept == \A r \in Readers : reader[r].pc = "idle" => reader[r].got \in {0, reader[r].gen}
=============================================================================
