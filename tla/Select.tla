------------------------------- MODULE Select -------------------------------
(***************************************************************************)
(* WaitSelect: src/src/api/amiga_generic.c (WaitSelect, selscan, selenter, *)
(* unselect, selwakeup, soo_select), with sbselqueue and sowakeup of       *)
(* kern/uipc_socket2.c and the sleep primitives of kern/kern_synch.c.      *)
(*                                                                         *)
(* WaitSelect does not hold syscall_semaphore.  A selecting task links one *)
(* select item per watched buffer into that buffer's chain (sb_sel) and    *)
(* sleeps on its own newselbuf.  The chains are intrusive lists: an item   *)
(* keeps the address of the pointer that points at it (si_prev), which is  *)
(* either the header of the chain or the si_next of another item.  They    *)
(* are changed under select_semaphore only.  soo_select tests the buffer   *)
(* and links the item at splnet (Forbid), which lapses when                *)
(* ObtainSemaphore has to wait.                                            *)
(*                                                                         *)
(* tsleep_main and wakeup are one step each; KernSynch has their detail.   *)
(***************************************************************************)
EXTENDS Integers, Sequences, FiniteSets, SequencesExt

CONSTANTS
  Tasks,     \* tasks that call WaitSelect
  Net,       \* the network task, which makes buffers ready
  Nobody,    \* no task
  Bufs,      \* socket buffers (struct sockbuf) that are selected on
  Watch,     \* Watch[t]: the calls t makes, each the sequence of buffers it
             \* scans: read set, then write set, then exception set
  Nil,       \* the NULL item
  Stealers,  \* buffers another task may drain while they are selected on
  Timeouts   \* the kinds of timeout callers pass

MaxItems == 2   \* bound on the length of a scan

ASSUME TaskAssumption  == Net \notin Tasks /\ Nobody \notin Tasks \cup {Net}
ASSUME WatchAssumption ==
  \A t \in Tasks : \A w \in Watch[t] : w \in Seq(Bufs) /\ Len(w) \in 1 .. MaxItems
ASSUME StealAssumption == Stealers \subseteq Bufs
ASSUME TimeAssumption  == Timeouts \subseteq {"forever", "poll", "timed"}
ASSUME TasksAssumption == IsFiniteSet(Tasks)

Agents == Tasks \cup {Net}
Items  == Tasks \X (1 .. MaxItems)      \* s_item[i] of each task's newselbuf
Hdr(b)  == <<"hdr", b>>                 \* &sb->sb_sel
NextOf(i) == <<"next", i>>              \* &si->si_next
Addrs  == {Hdr(b) : b \in Bufs} \cup {NextOf(i) : i \in Items}

ASSUME NilAssumption == Nil \notin Items /\ Nil \notin Bufs

VARIABLES
  ready,     \* is the buffer readable (writeable)
  sbsel,     \* SB_SEL in sb_flags
  mem,       \* the pointer stored at each address of the chains
  prev,      \* si_prev of each item
  sem,       \* select_semaphore: owner and FIFO of waiters
  netbuf,    \* the buffer Net is in selwakeup for, or Nil
  pc,        \* where each task is in WaitSelect
  watch,     \* the buffers of the current call
  idx,       \* position of the current scan
  found,     \* retval of the current scan is not 0
  p_sb,      \* p_sb is set: selenter links items
  s_state, s_count,   \* the task's newselbuf
  timeout,   \* the timeout argument of the current call
  sc_ready,  \* the sleep context exists
  timer,     \* its timer request: idle, out at the device, in the reply port
  wchan,     \* sc_wchan is set
  sig,       \* signals received: the context's bit, and the caller's sigmask
  error      \* what tsleep_main returned last

chainVars == <<mem, prev>>
bufVars   == <<ready, sbsel>>
scanVars  == <<watch, idx, found, p_sb>>
sleepVars == <<timeout, sc_ready, timer, wchan, sig, error>>
vars == <<chainVars, bufVars, sem, netbuf, pc, scanVars, s_state, s_count,
          sleepVars>>

Init ==
  /\ ready = [b \in Bufs |-> FALSE] /\ sbsel = [b \in Bufs |-> FALSE]
  /\ mem = [a \in Addrs |-> Nil]
  /\ prev = [i \in Items |-> NextOf(i)]
  /\ sem = [owner |-> Nobody, q |-> <<>>]
  /\ netbuf = Nil
  /\ pc = [t \in Tasks |-> "user"]
  /\ watch = [t \in Tasks |-> <<>>]
  /\ idx = [t \in Tasks |-> 1]
  /\ found = [t \in Tasks |-> FALSE]
  /\ p_sb = [t \in Tasks |-> FALSE]
  /\ s_state = [t \in Tasks |-> "CLEAR"]
  /\ s_count = [t \in Tasks |-> 0]
  /\ timeout = [t \in Tasks |-> "forever"]
  /\ sc_ready = [t \in Tasks |-> FALSE]
  /\ timer = [t \in Tasks |-> "idle"]
  /\ wchan = [t \in Tasks |-> FALSE]
  /\ sig = [t \in Tasks |-> {}]
  /\ error = [t \in Tasks |-> "ok"]

-----------------------------------------------------------------------------
(* Exec's semaphore, and the chains.                                       *)

Free == sem.owner = Nobody

\* ObtainSemaphore that has to wait, or gets the semaphore at once
Obtain(x) == sem' = IF Free THEN [sem EXCEPT !.owner = x]
                            ELSE [sem EXCEPT !.q = Append(@, x)]

\* ReleaseSemaphore hands over to the first waiter
Release == sem' = IF sem.q = <<>> THEN [sem EXCEPT !.owner = Nobody]
                                  ELSE [owner |-> Head(sem.q), q |-> Tail(sem.q)]

\* the items a walk from address a meets; the walk is cut at |Items| steps,
\* which only a cyclic chain exceeds
Walk(a) ==
  LET w[n \in 0 .. Cardinality(Items)] ==
        IF n = 0 \/ mem[a] = Nil THEN (IF mem[a] = Nil THEN <<>> ELSE <<mem[a]>>)
        ELSE LET p == w[n - 1]
                 nx == mem[NextOf(Last(p))]
             IN  IF nx = Nil \/ Len(p) # n THEN p ELSE Append(p, nx)
  IN  w[Cardinality(Items)]

Chain(b) == Range(Walk(Hdr(b)))
Cyclic(b) == Len(Walk(Hdr(b))) > Cardinality(Items)

\* selenter: the next item of the selbuf goes to the head of the chain
Enter(t, b) ==
  LET i == <<t, s_count[t] + 1>>
      n == mem[Hdr(b)]
  IN  /\ s_count' = [s_count EXCEPT ![t] = @ + 1]
      /\ mem' = [mem EXCEPT ![NextOf(i)] = n, ![Hdr(b)] = i]
      /\ prev' = IF n = Nil THEN [prev EXCEPT ![i] = Hdr(b)]
                 ELSE [prev EXCEPT ![i] = Hdr(b), ![n] = NextOf(i)]

\* unselect: for every item of the selbuf, *si->si_prev = si->si_next
Unselected(t) ==
  LET u[n \in 0 .. s_count[t]] ==
        IF n = 0 THEN mem
        ELSE LET m == u[n - 1]
             IN  [m EXCEPT ![prev[<<t, n>>]] = m[NextOf(<<t, n>>)]]
  IN  u[s_count[t]]

\* sbselqueue: ask sowakeup to look at the chain
SbSelQueue(b) == sbsel' = [sbsel EXCEPT ![b] = TRUE]

\* selwakeup: every task on the chain is marked SB_CLEAR, those already
\* asleep are woken, the items point at themselves, the chain is emptied
SelWakeup(b) ==
  LET woken == {i[1] : i \in Chain(b)}
      asleep == {t \in woken : s_state[t] = "WAITING" /\ wchan[t]}
  IN  /\ prev' = [i \in Items |-> IF i \in Chain(b) THEN NextOf(i) ELSE prev[i]]
      /\ s_state' = [t \in Tasks |-> IF t \in woken THEN "CLEAR" ELSE s_state[t]]
      /\ wchan' = [t \in Tasks |-> wchan[t] /\ t \notin asleep]
      /\ sig' = [t \in Tasks |-> IF t \in asleep THEN sig[t] \cup {"sleep"}
                                                  ELSE sig[t]]
      /\ mem' = [mem EXCEPT ![Hdr(b)] = Nil]

-----------------------------------------------------------------------------
(* The scan.                                                               *)

Goto(t, l) == pc' = [pc EXCEPT ![t] = l]

StartScan(t, enter) ==
  /\ Goto(t, "scan")
  /\ idx' = [idx EXCEPT ![t] = 1]
  /\ found' = [found EXCEPT ![t] = FALSE]
  /\ p_sb' = [p_sb EXCEPT ![t] = enter]

\* the call, up to the first fast scan
SelectCall(t) ==
  /\ pc[t] = "user"
  /\ \E w \in Watch[t], o \in Timeouts :
       /\ watch' = [watch EXCEPT ![t] = w]
       /\ timeout' = [timeout EXCEPT ![t] = o]
  /\ error' = [error EXCEPT ![t] = "ok"]
  /\ sc_ready' = [sc_ready EXCEPT ![t] = FALSE]
  /\ StartScan(t, FALSE)
  /\ UNCHANGED <<chainVars, bufVars, sem, netbuf, s_state, s_count, timer,
                 wchan, sig>>

Current(t) == watch[t][idx[t]]
Scanning(t) == pc[t] = "scan" /\ idx[t] <= Len(watch[t])
Advance(t)  == idx' = [idx EXCEPT ![t] = @ + 1]

\* soo_select finds the condition true
ScanReady(t) ==
  /\ Scanning(t) /\ ready[Current(t)]
  /\ found' = [found EXCEPT ![t] = TRUE]
  /\ Advance(t)
  /\ UNCHANGED <<chainVars, bufVars, sem, netbuf, pc, watch, p_sb, s_state,
                 s_count, sleepVars>>

\* it is false: sbselqueue links an item (only with p_sb set) and sets SB_SEL.
\* With the semaphore free this is atomic, at splnet.
ScanQueue(t) ==
  /\ Scanning(t) /\ ~ready[Current(t)]
  /\ IF p_sb[t] THEN Free /\ Enter(t, Current(t))
                ELSE UNCHANGED <<chainVars, s_count>>
  /\ SbSelQueue(Current(t))
  /\ Advance(t)
  /\ UNCHANGED <<ready, sem, netbuf, pc, watch, found, p_sb, s_state,
                 sleepVars>>

\* with the semaphore taken, selenter waits and the Forbid of splnet lapses
ScanBlocks(t) ==
  /\ Scanning(t) /\ ~ready[Current(t)] /\ p_sb[t] /\ ~Free
  /\ Obtain(t) /\ Goto(t, "selenter")
  /\ UNCHANGED <<chainVars, bufVars, netbuf, scanVars, s_state, s_count,
                 sleepVars>>

\* selenter has been given the semaphore: link, set SB_SEL, go on
ScanResumes(t) ==
  /\ pc[t] = "selenter" /\ sem.owner = t
  /\ Enter(t, Current(t)) /\ Release
  /\ SbSelQueue(Current(t))
  /\ Advance(t) /\ Goto(t, "scan")
  /\ UNCHANGED <<ready, netbuf, watch, found, p_sb, s_state, sleepVars>>

ScanDone(t) == pc[t] = "scan" /\ idx[t] > Len(watch[t])

Leave(t) ==
  /\ Goto(t, "user")
  /\ timer' = [timer EXCEPT ![t] = "idle"]      \* ng_sleepctx_done
  /\ sc_ready' = [sc_ready EXCEPT ![t] = FALSE]
  /\ p_sb' = [p_sb EXCEPT ![t] = FALSE]
  \* *sigmp &= SetSignal(0L, sigmask), on success only
  /\ sig' = [sig EXCEPT ![t] = {}]

\* a fast scan that found something, or a poll, ends the call
FastReturn(t) ==
  /\ ScanDone(t) /\ ~p_sb[t]
  /\ found[t] \/ (~sc_ready[t] /\ timeout[t] = "poll")
  /\ Leave(t)
  /\ UNCHANGED <<chainVars, bufVars, sem, netbuf, watch, idx, found, s_state,
                 s_count, timeout, wchan, error>>

\* no signal bit, or no memory for the select items: ENOMEM
SetupFails(t) ==
  /\ ScanDone(t) /\ ~p_sb[t] /\ ~found[t] /\ ~sc_ready[t]
  /\ timeout[t] # "poll"
  /\ Goto(t, "user")
  /\ UNCHANGED <<chainVars, bufVars, sem, netbuf, scanVars, s_state, s_count,
                 sleepVars>>

FreshCount(t) == 0

\* the top of the loop: SB_WILLWAIT, no items, and the scan that links them.
\* The first time round the sleep context is made and the timeout sent.
BeginWait(t) ==
  /\ ScanDone(t) /\ ~p_sb[t] /\ ~found[t]
  /\ sc_ready[t] \/ timeout[t] # "poll"
  /\ sc_ready' = [sc_ready EXCEPT ![t] = TRUE]
  /\ timer' = [timer EXCEPT ![t] =
                 IF ~sc_ready[t] /\ timeout[t] = "timed" THEN "out" ELSE @]
  /\ s_state' = [s_state EXCEPT ![t] = "WILLWAIT"]
  /\ s_count' = [s_count EXCEPT ![t] = FreshCount(t)]
  /\ StartScan(t, TRUE)
  /\ UNCHANGED <<chainVars, bufVars, sem, netbuf, watch, timeout, wchan, sig,
                 error>>

\* after the linking scan: ask for select_semaphore, to unlink the items again
\* (something was found) or to go to sleep
AfterScan(t) ==
  /\ ScanDone(t) /\ p_sb[t]
  /\ Obtain(t)
  /\ Goto(t, IF found[t] THEN "unselect" ELSE "check")
  /\ UNCHANGED <<chainVars, bufVars, netbuf, scanVars, s_state, s_count,
                 sleepVars>>

-----------------------------------------------------------------------------
(* The sleep.                                                              *)

CheckClear_Skip(t) == FALSE

\* a selwakeup slipped in after the scan
CheckClear(t) == s_state[t] = "CLEAR"

\* so unlink and scan again without sleeping
CheckRescan(t) ==
  /\ pc[t] = "check" /\ sem.owner = t /\ CheckClear(t)
  /\ mem' = Unselected(t) /\ Release
  /\ StartScan(t, FALSE)
  /\ UNCHANGED <<prev, bufVars, netbuf, watch, s_state, s_count, sleepVars>>

\* otherwise SB_WAITING and tsleep_enter, still under the semaphore
CheckSleep(t) ==
  /\ pc[t] = "check" /\ sem.owner = t /\ ~CheckClear(t)
  /\ s_state' = [s_state EXCEPT ![t] = "WAITING"]
  /\ wchan' = [wchan EXCEPT ![t] = TRUE]
  /\ Release /\ Goto(t, "sleep")
  /\ UNCHANGED <<chainVars, bufVars, netbuf, scanVars, s_count, timeout,
                 sc_ready, timer, sig, error>>

SleepResult_IgnoreReply(t) ==
  IF "user" \in sig[t] THEN "ERESTART" ELSE IF ~wchan[t] THEN "woken" ELSE "again"

\* how tsleep_main reads what Wait() returned, in this order
SleepResult(t) ==
  IF "user" \in sig[t] THEN "ERESTART"
  ELSE IF ~wchan[t] THEN "woken"
  ELSE IF timer[t] = "port" THEN "EWOULDBLOCK"
  ELSE "again"

\* Wait() returns, or is not reached because the task was woken before.  A
\* signal without a reason sends the task back to Wait(); otherwise tsleep_main
\* ends, the other signals are put back, and WaitSelect asks for the semaphore.
\* The reply port is emptied only on the timeout path.
SleepEnds(t) ==
  LET r == IF ~wchan[t] /\ sig[t] = {} THEN "woken" ELSE SleepResult(t)
  IN  /\ pc[t] = "sleep" /\ (~wchan[t] \/ sig[t] # {})
      /\ sig' = [sig EXCEPT ![t] = @ \ {"sleep"}]
      /\ IF r = "again" THEN UNCHANGED <<pc, sem, error, timer, wchan>>
         ELSE /\ error' = [error EXCEPT ![t] = IF r = "woken" THEN "ok" ELSE r]
              /\ timer' = [timer EXCEPT ![t] = IF r = "EWOULDBLOCK" THEN "idle"
                                                                   ELSE @]
              /\ wchan' = [wchan EXCEPT ![t] = FALSE]
              /\ Obtain(t) /\ Goto(t, "unselect")
      /\ UNCHANGED <<chainVars, bufVars, netbuf, scanVars, s_state, s_count,
                     timeout, sc_ready>>

\* woken before Wait() was called: the signal stays pending
SleepSkipped(t) ==
  /\ pc[t] = "sleep" /\ ~wchan[t] /\ sig[t] # {}
  /\ error' = [error EXCEPT ![t] = "ok"]
  /\ Obtain(t) /\ Goto(t, "unselect")
  /\ UNCHANGED <<chainVars, bufVars, netbuf, scanVars, s_state, s_count,
                 timeout, sc_ready, timer, wchan, sig>>

\* unselect under the semaphore, then scan again, or leave when something was
\* found or the sleep ended by a signal or the timeout
Unselect(t) ==
  /\ pc[t] = "unselect" /\ sem.owner = t
  /\ mem' = Unselected(t) /\ Release
  /\ IF found[t] \/ error[t] # "ok"
       THEN Leave(t) /\ UNCHANGED <<idx, found>>
       ELSE StartScan(t, FALSE) /\ UNCHANGED <<timer, sc_ready, sig>>
  /\ UNCHANGED <<prev, bufVars, netbuf, watch, s_state, s_count, timeout,
                 wchan, error>>

-----------------------------------------------------------------------------
(* The rest of the system.                                                 *)

\* sowakeup: a buffer becomes ready and, with SB_SEL set, its selectors are
\* woken; the network task waits for select_semaphore if it must
Deliver(b) ==
  /\ netbuf = Nil /\ ~ready[b]
  /\ ready' = [ready EXCEPT ![b] = TRUE]
  /\ sbsel' = [sbsel EXCEPT ![b] = FALSE]
  /\ IF sbsel[b] /\ Free
       THEN SelWakeup(b) /\ UNCHANGED <<sem, netbuf>>
       ELSE /\ UNCHANGED <<chainVars, s_state, wchan, sig>>
            /\ IF sbsel[b] THEN Obtain(Net) /\ netbuf' = b
                           ELSE UNCHANGED <<sem, netbuf>>
  /\ UNCHANGED <<pc, scanVars, s_count, timeout, sc_ready, timer, error>>

DeliverResumes ==
  /\ netbuf # Nil /\ sem.owner = Net
  /\ SelWakeup(netbuf) /\ Release /\ netbuf' = Nil
  /\ UNCHANGED <<bufVars, pc, scanVars, s_count, timeout, sc_ready, timer,
                 error>>

\* recv drains the buffer: its reader between two selects, or another task
Drain(b) ==
  /\ ready[b]
  /\ b \in Stealers \/ \A t \in Tasks : pc[t] # "user" => b \notin Range(watch[t])
  /\ ready' = [ready EXCEPT ![b] = FALSE]
  /\ UNCHANGED <<sbsel, chainVars, sem, netbuf, pc, scanVars, s_state, s_count,
                 sleepVars>>

\* timer.device replies: the message reaches sc_port and raises its signal,
\* the same bit wakeup uses
TimerReply(t) ==
  /\ timer[t] = "out"
  /\ timer' = [timer EXCEPT ![t] = "port"]
  /\ sig' = [sig EXCEPT ![t] = @ \cup {"sleep"}]
  /\ UNCHANGED <<chainVars, bufVars, sem, netbuf, pc, scanVars, s_state,
                 s_count, timeout, sc_ready, wchan, error>>

\* a signal of the caller's sigmask arrives
UserSignal(t) ==
  /\ pc[t] # "user" /\ "user" \notin sig[t]
  /\ sig' = [sig EXCEPT ![t] = @ \cup {"user"}]
  /\ UNCHANGED <<chainVars, bufVars, sem, netbuf, pc, scanVars, s_state,
                 s_count, timeout, sc_ready, timer, wchan, error>>

TaskStep(t) ==
  \/ ScanReady(t) \/ ScanQueue(t) \/ ScanBlocks(t) \/ ScanResumes(t)
  \/ FastReturn(t) \/ SetupFails(t) \/ BeginWait(t) \/ AfterScan(t)
  \/ CheckRescan(t) \/ CheckSleep(t)
  \/ SleepEnds(t) \/ SleepSkipped(t) \/ Unselect(t)

Next ==
  \/ \E t \in Tasks : SelectCall(t) \/ TaskStep(t) \/ TimerReply(t)
                      \/ UserSignal(t)
  \/ \E b \in Bufs : Deliver(b) \/ Drain(b)
  \/ DeliverResumes

Spec == Init /\ [][Next]_vars

\* tasks and the network task are scheduled, the timer device replies; nobody
\* has to call, signal, send or drain
FairSpec ==
  /\ Spec
  /\ \A t \in Tasks : WF_vars(TaskStep(t)) /\ WF_vars(TimerReply(t))
  /\ WF_vars(DeliverResumes)

-----------------------------------------------------------------------------
(* Properties.                                                             *)

(* Types of the state of WaitSelect.                                       *)
TypeOK ==
  /\ ready \in [Bufs -> BOOLEAN] /\ sbsel \in [Bufs -> BOOLEAN]
  /\ mem \in [Addrs -> Items \cup {Nil}] /\ prev \in [Items -> Addrs]
  /\ sem.owner \in Agents \cup {Nobody} /\ sem.q \in Seq(Agents)
  /\ netbuf \in Bufs \cup {Nil}
  /\ pc \in [Tasks -> {"user", "scan", "selenter", "check", "sleep", "unselect"}]
  /\ \A t \in Tasks : watch[t] \in Watch[t] \cup {<<>>}
  /\ idx \in [Tasks -> 1 .. MaxItems + 1]
  /\ found \in [Tasks -> BOOLEAN] /\ p_sb \in [Tasks -> BOOLEAN]
  /\ s_state \in [Tasks -> {"WILLWAIT", "CLEAR", "WAITING"}]
  /\ s_count \in [Tasks -> 0 .. MaxItems]
  /\ timeout \in [Tasks -> {"forever", "poll", "timed"}]
  /\ sc_ready \in [Tasks -> BOOLEAN]
  /\ timer \in [Tasks -> {"idle", "out", "port"}]
  /\ wchan \in [Tasks -> BOOLEAN]
  /\ sig \in [Tasks -> SUBSET {"sleep", "user"}]
  /\ error \in [Tasks -> {"ok", "ERESTART", "EWOULDBLOCK"}]

Asleep(t) == pc[t] = "sleep" /\ wchan[t]

(* A task asleep in WaitSelect has none of its conditions true, unless the *)
(* network task is on its way to wake it: selscan, sbselqueue and          *)
(* selwakeup together lose no event.                                       *)
NoMissedEvent ==
  \A t \in Tasks : Asleep(t) =>
    \A n \in DOMAIN watch[t] : ready[watch[t][n]] => netbuf = watch[t][n]

(* Every item on a chain belongs to a WaitSelect in progress that linked   *)
(* it for that buffer, and a chain ends: selwakeup never follows an item   *)
(* of a call that has returned, and never loops.                           *)
ChainsClean ==
  \A b \in Bufs :
    /\ ~Cyclic(b)
    /\ \A i \in Chain(b) : /\ pc[i[1]] # "user" /\ sc_ready[i[1]]
                           /\ i[2] <= s_count[i[1]]
                           /\ b \in Range(watch[i[1]])

(* A task about to Wait() whose timeout has been replied still has the     *)
(* reply's signal pending: the timeout of WaitSelect is not lost.          *)
TimeoutKept ==
  \A t \in Tasks : Asleep(t) /\ timer[t] = "port" => "sleep" \in sig[t]

(* A WaitSelect with a timeout returns.                                    *)
TimedSelectReturns ==
  \A t \in Tasks : (pc[t] # "user" /\ timeout[t] = "timed") ~> pc[t] = "user"

(* A WaitSelect one of whose conditions is true returns.                   *)
ReadySelectReturns ==
  \A t \in Tasks : \A b \in Bufs :
    (pc[t] # "user" /\ b \in Range(watch[t]) /\ ready[b]) ~> pc[t] = "user"

(* What WaitSelect waits for reaches it: the chains of selscan and          *)
(* sbselqueue, the wakeup of selwakeup and the reply of the timer agree.    *)
SelectSound == TimeoutKept /\ NoMissedEvent /\ ChainsClean

(* A WaitSelect ends: its timeout, or one of its conditions, ends it.       *)
SelectReturns == TimedSelectReturns /\ ReadySelectReturns
=============================================================================
