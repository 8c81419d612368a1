----------------------------- MODULE KernSynch -----------------------------
(***************************************************************************)
(* BSD sleep/wakeup on Exec signals: src/src/kern/kern_synch.c, with the   *)
(* spl emulation of src/src/sys/synch.h and the library-call bracket of    *)
(* src/src/api/amiga_api.h.                                                *)
(*                                                                         *)
(* Agents are application tasks calling into the library and the one       *)
(* network task Net.  Every application call holds syscall_semaphore; a    *)
(* sleeping call gives it up.  Net never takes it: it relies on spl, which *)
(* in the production build is Exec's Forbid() count, so at spl > 0 no      *)
(* other task runs until the holder blocks.  A task that blocks under      *)
(* Forbid() (Wait, ObtainSemaphore) lets others run, and gets its own      *)
(* nesting count back when it resumes.                                     *)
(*                                                                         *)
(* A sleep context (struct ng_sleepctx) lives in the stack frame of the    *)
(* sleeper, so at most one exists per task and the task names it.          *)
(***************************************************************************)
EXTENDS Integers, Sequences, FiniteSets

CONSTANTS
  Tasks,      \* application tasks
  Net,        \* the AmiTCP network task
  NoTask,     \* the NULL task pointer
  Chans,      \* sleep channels: addresses of sb_cc, sb_flags, so_timeo, ...
  NoChan,     \* the NULL channel
  Buckets,    \* indices of sleep_queue[]
  Hash,       \* SLEEP_HASH: channel -> bucket
  Bases,      \* library bases (struct SocketBase)
  Base,       \* the base each task calls through; tasks may share one
  OwnPri,     \* the Exec priority each task runs at outside the library
  NetPri,     \* the priority of the network task
  IntrTasks   \* tasks whose base has a sigIntrMask, so can be interrupted

Agents == Tasks \cup {Net}

ASSUME NetAssumption  == /\ Net \notin Tasks
                         /\ NoTask \notin Agents
ASSUME ChanAssumption == NoChan \notin Chans
ASSUME HashAssumption == Hash \in [Chans -> Buckets]
ASSUME BaseAssumption == Base \in [Tasks -> Bases]
ASSUME IntrAssumption == IntrTasks \subseteq Tasks
ASSUME PriAssumption  == OwnPri \in [Tasks -> Int] /\ NetPri \in Int

VARIABLES
  pc,          \* where each agent is
  forbid,      \* the agent running with task switching off, or NoTask
  spl,         \* is the agent's own TDNestCnt raised (splnet/splimp)
  syscall,     \* syscall_semaphore: its owner and its FIFO of waiters
  sleepsem,    \* sleep_semaphore
  chan,        \* the channel argument of the current tsleep or wakeup
  timo,        \* does the current tsleep have a time_out
  live,        \* does the task's sleep context exist (its frame is live)
  wchan,       \* sc_wchan
  queue,       \* sleep_queue[b]: the contexts linked into each bucket
  sig,         \* received signals: the context's bit, and sigIntrMask
  bmask,       \* what the last Wait() returned
  timer,       \* sc_timer: not at the device, out, being aborted, in the port
  timerbusy,   \* sc_timerbusy
  portsig,     \* is sc_port's mp_Flags PA_SIGNAL
  res,         \* the result of the last tsleep
  cur,         \* the context a wakener has marked and not yet signalled
  pri,         \* the Exec priority of each task
  callerTask, libCallPri, myPri,   \* priority bookkeeping on each base
  snap         \* tsleep's locals: boostTask, boostPri, boostCallPri, old_spl

queueVars == <<queue, wchan>>
timerVars == <<timer, timerbusy, portsig>>
frameVars == <<live, timo>>
prioVars  == <<pri, callerTask, libCallPri, myPri, snap>>
vars == <<pc, forbid, spl, syscall, sleepsem, chan, bmask, sig, res, cur,
          queueVars, timerVars, frameVars, prioVars>>

Results   == {"none", "ok", "EINTR", "EWOULDBLOCK", "ENOMEM"}
SigBits   == {"sleep", "intr"}
FramePCs  == {"enter", "send", "main", "wait", "woke", "remove", "resys",
              "done", "waitio", "iowait"}
WakePCs   == {"wobtain", "wloop", "wmark"}
SysPCs    == {"run", "enter", "send", "done", "waitio", "iowait"} \cup WakePCs
PCs       == {"user", "getsys"} \cup FramePCs \cup SysPCs

SemType  == [owner : Agents \cup {NoTask}, q : Seq(Agents)]
FreeSem  == [owner |-> NoTask, q |-> <<>>]
SnapType == [task : Tasks \cup {NoTask}, pri : Int, call : Int, spl : BOOLEAN]
NoSnap   == [task |-> NoTask, pri |-> 0, call |-> 0, spl |-> FALSE]

Init ==
  /\ pc = [x \in Agents |-> IF x = Net THEN "run" ELSE "user"]
  /\ forbid = NoTask
  /\ spl = [x \in Agents |-> FALSE]
  /\ syscall = FreeSem /\ sleepsem = FreeSem
  /\ chan = [x \in Agents |-> NoChan]
  /\ timo = [t \in Tasks |-> FALSE]
  /\ live = [t \in Tasks |-> FALSE]
  /\ wchan = [t \in Tasks |-> NoChan]
  /\ queue = [b \in Buckets |-> {}]
  /\ sig = [t \in Tasks |-> {}]
  /\ bmask = [t \in Tasks |-> {}]
  /\ timer = [t \in Tasks |-> "none"]
  /\ timerbusy = [t \in Tasks |-> FALSE]
  /\ portsig = [t \in Tasks |-> FALSE]
  /\ res = [t \in Tasks |-> "none"]
  /\ cur = [x \in Agents |-> NoTask]
  /\ pri = OwnPri
  /\ callerTask = [b \in Bases |-> NoTask]
  /\ libCallPri = [b \in Bases |-> 0]
  /\ myPri = [b \in Bases |-> 0]
  /\ snap = [t \in Tasks |-> NoSnap]

-----------------------------------------------------------------------------
(* Exec: Forbid() and SignalSemaphores.  ReleaseSemaphore hands ownership   *)
(* to the first waiter; a requester either owns the semaphore at once or    *)
(* queues and blocks, which suspends its Forbid().                          *)

CanRun(x) == forbid \in {NoTask, x}

Holding(x, level) == IF level THEN x ELSE NoTask

Obtain(sem, x) == IF sem.owner = NoTask
                    THEN [owner |-> x, q |-> sem.q]
                    ELSE [owner |-> sem.owner, q |-> Append(sem.q, x)]

Release(sem) == IF sem.q = <<>>
                  THEN FreeSem
                  ELSE [owner |-> Head(sem.q), q |-> Tail(sem.q)]

\* Run on with the nesting level `level', or block and let others run.
GoesOn(x, level) == forbid' = Holding(x, level)
Requests(sem, x, level) ==
  forbid' = IF sem.owner = NoTask THEN Holding(x, level) ELSE NoTask

Goto(x, label) == pc' = [pc EXCEPT ![x] = label]

-----------------------------------------------------------------------------
(* The bracket of a library call, and spl.                                  *)

\* An application task calls into the library: ObtainSemaphore.
ObtainSyscallSemaphore(t) ==
  /\ CanRun(t) /\ pc[t] = "user"
  /\ syscall' = Obtain(syscall, t)
  /\ GoesOn(t, FALSE)
  /\ Goto(t, "getsys")
  /\ UNCHANGED <<spl, sleepsem, chan, bmask, sig, res, cur,
                 queueVars, timerVars, frameVars, prioVars>>

\* It owns the semaphore: raise the caller to the net task's priority.
EnterCall(t) ==
  LET b == Base[t]
      want == IF pri[t] > NetPri THEN pri[t] ELSE NetPri
  IN /\ CanRun(t) /\ pc[t] = "getsys" /\ syscall.owner = t
     /\ callerTask' = [callerTask EXCEPT ![b] = t]
     /\ libCallPri' = [libCallPri EXCEPT ![b] = want]
     /\ myPri' = [myPri EXCEPT ![b] = pri[t]]
     /\ pri' = [pri EXCEPT ![t] = want]
     /\ GoesOn(t, FALSE)
     /\ Goto(t, "run")
     /\ UNCHANGED <<spl, syscall, sleepsem, chan, bmask, sig, res, cur, snap,
                    queueVars, timerVars, frameVars>>

\* SetTaskPri(callerTask, myPri) returns the priority it replaced; when that
\* is not the boost we set, somebody else changed it meanwhile and it is kept.
ReleaseSyscallSemaphore(t) ==
  LET b == Base[t]
      c == callerTask[b]
      old == pri[c]
  IN /\ CanRun(t) /\ pc[t] = "run" /\ ~spl[t]
     /\ pri' = [pri EXCEPT ![c] = IF libCallPri[b] # old THEN old ELSE myPri[b]]
     /\ myPri' = [myPri EXCEPT ![b] = old]
     /\ syscall' = Release(syscall)
     /\ res' = [res EXCEPT ![t] = "none"]
     /\ GoesOn(t, FALSE)
     /\ Goto(t, "user")
     /\ UNCHANGED <<spl, sleepsem, chan, bmask, sig, cur, callerTask,
                    libCallPri, snap, queueVars, timerVars, frameVars>>

\* splnet() / splimp(), and splx() back to level 0.
Splnet(x) ==
  /\ CanRun(x) /\ pc[x] = "run" /\ ~spl[x]
  /\ spl' = [spl EXCEPT ![x] = TRUE]
  /\ GoesOn(x, TRUE)
  /\ UNCHANGED <<pc, syscall, sleepsem, chan, bmask, sig, res, cur,
                 queueVars, timerVars, frameVars, prioVars>>

Splx(x) ==
  /\ CanRun(x) /\ pc[x] = "run" /\ spl[x]
  /\ spl' = [spl EXCEPT ![x] = FALSE]
  /\ GoesOn(x, FALSE)
  /\ UNCHANGED <<pc, syscall, sleepsem, chan, bmask, sig, res, cur,
                 queueVars, timerVars, frameVars, prioVars>>

-----------------------------------------------------------------------------
(* tsleep(p, chan, wmesg, time_out), one action per stretch of code between *)
(* two points where another agent's step makes a difference.                *)

\* ng_sleepctx_init fails: the task has no signal bit left.
NoSignalBit_Raw == "-1"      \* mutant: AllocSignal's own result comes through
NoSignalBit == "ENOMEM"

SleepCtxFails(t) ==
  /\ CanRun(t) /\ pc[t] = "run"
  /\ res' = [res EXCEPT ![t] = NoSignalBit]
  /\ GoesOn(t, spl[t])
  /\ UNCHANGED <<pc, spl, syscall, sleepsem, chan, bmask, sig, cur,
                 queueVars, timerVars, frameVars, prioVars>>

\* FreeSignal() and AllocSignal(): the bit starts out cleared.
ClearedBits == {"sleep"}

\* ng_sleepctx_init, then tsleep_enter asks for sleep_semaphore.
SleepCtxInit(t, c, timed) ==
  /\ CanRun(t) /\ pc[t] = "run"
  /\ chan' = [chan EXCEPT ![t] = c]
  /\ timo' = [timo EXCEPT ![t] = timed]
  /\ live' = [live EXCEPT ![t] = TRUE]
  /\ wchan' = [wchan EXCEPT ![t] = NoChan]
  /\ timerbusy' = [timerbusy EXCEPT ![t] = FALSE]
  /\ portsig' = [portsig EXCEPT ![t] = FALSE]
  /\ sig' = [sig EXCEPT ![t] = @ \ ClearedBits]
  /\ sleepsem' = Obtain(sleepsem, t)
  /\ Requests(sleepsem, t, spl[t])
  /\ Goto(t, "enter")
  /\ UNCHANGED <<spl, syscall, bmask, res, cur, queue, timer, prioVars>>

\* tsleep_enter, owning sleep_semaphore.
TsleepEnter(t) ==
  /\ CanRun(t) /\ pc[t] = "enter" /\ sleepsem.owner = t
  /\ wchan' = [wchan EXCEPT ![t] = chan[t]]
  /\ queue' = [queue EXCEPT ![Hash[chan[t]]] = @ \cup {t}]
  /\ sleepsem' = Release(sleepsem)
  /\ GoesOn(t, spl[t])
  /\ Goto(t, "send")
  /\ UNCHANGED <<spl, syscall, chan, bmask, sig, res, cur,
                 timerVars, frameVars, prioVars>>

\* mp_Flags while a time-out is armed, and during the reap: PA_SIGNAL.
Flags_Ignore == FALSE        \* mutant: the port is left at PA_IGNORE
ArmedFlags == TRUE
ReapFlags == TRUE

\* tsleep_send_timeout; spl0; give the boost and syscall_semaphore back.
TsleepRelease(t) ==
  LET b == Base[t] IN
  /\ CanRun(t) /\ pc[t] = "send"
  /\ timer' = IF timo[t] THEN [timer EXCEPT ![t] = "out"] ELSE timer
  /\ portsig' = IF timo[t] THEN [portsig EXCEPT ![t] = ArmedFlags] ELSE portsig
  /\ timerbusy' = IF timo[t] THEN [timerbusy EXCEPT ![t] = TRUE] ELSE timerbusy
  /\ snap' = [snap EXCEPT ![t] = [task |-> callerTask[b], pri |-> myPri[b],
                                  call |-> libCallPri[b], spl |-> spl[t]]]
  /\ pri' = [pri EXCEPT ![callerTask[b]] = myPri[b]]
  /\ spl' = [spl EXCEPT ![t] = FALSE]
  /\ syscall' = Release(syscall)
  /\ GoesOn(t, FALSE)
  /\ Goto(t, "main")
  /\ UNCHANGED <<sleepsem, chan, bmask, sig, res, cur, queueVars, frameVars,
                 callerTask, libCallPri, myPri>>

\* tsleep returns to its caller's locks: ask for syscall_semaphore again.
AsksSyscall(t) ==
  /\ syscall' = Obtain(syscall, t)
  /\ Goto(t, "resys")

\* tsleep_main, top of its loop: already woken, or Wait().  sc_wchan is read
\* without sleep_semaphore.
TsleepMainWoken(t) ==
  /\ CanRun(t) /\ pc[t] = "main" /\ wchan[t] = NoChan
  /\ res' = [res EXCEPT ![t] = "ok"]
  /\ GoesOn(t, FALSE)
  /\ AsksSyscall(t)
  /\ UNCHANGED <<spl, sleepsem, chan, bmask, sig, cur,
                 queueVars, timerVars, frameVars, prioVars>>

TsleepMainWaits(t) ==
  /\ CanRun(t) /\ pc[t] = "main" /\ wchan[t] # NoChan
  /\ GoesOn(t, FALSE)
  /\ Goto(t, "wait")
  /\ UNCHANGED <<spl, syscall, sleepsem, chan, bmask, sig, res, cur,
                 queueVars, timerVars, frameVars, prioVars>>

\* Wait() returns the pending signals of its mask and clears them.
WaitReturns(t) ==
  /\ CanRun(t) /\ pc[t] = "wait" /\ sig[t] # {}
  /\ bmask' = [bmask EXCEPT ![t] = sig[t]]
  /\ sig' = [sig EXCEPT ![t] = {}]
  /\ GoesOn(t, FALSE)
  /\ Goto(t, "woke")
  /\ UNCHANGED <<spl, syscall, sleepsem, chan, res, cur,
                 queueVars, timerVars, frameVars, prioVars>>

\* Leave the loop by `break': sleep_semaphore is needed to unlink.
Breaks(t, result) ==
  /\ res' = [res EXCEPT ![t] = result]
  /\ sleepsem' = Obtain(sleepsem, t)
  /\ Goto(t, "remove")
  /\ UNCHANGED syscall

\* The signals of the program that Wait() took are set again.
PutBack_None(t) == {}        \* mutant: SetSignal is forgotten
PutBack(t) == bmask[t] \cap {"intr"}

\* An interrupt signal comes first, and is put back for the program to see.
WokeIntr(t) ==
  /\ CanRun(t) /\ pc[t] = "woke" /\ "intr" \in bmask[t]
  /\ sig' = [sig EXCEPT ![t] = @ \cup PutBack(t)]
  /\ bmask' = [bmask EXCEPT ![t] = {}]
  /\ GoesOn(t, FALSE)
  /\ Breaks(t, "EINTR")
  /\ UNCHANGED <<spl, chan, cur, queueVars, timerVars, frameVars,
                 prioVars>>

\* Then a wakeup: the wakener has cleared sc_wchan.
WokeUp(t) ==
  /\ CanRun(t) /\ pc[t] = "woke" /\ "intr" \notin bmask[t]
  /\ wchan[t] = NoChan
  /\ res' = [res EXCEPT ![t] = "ok"]
  /\ bmask' = [bmask EXCEPT ![t] = {}]
  /\ GoesOn(t, FALSE)
  /\ AsksSyscall(t)
  /\ UNCHANGED <<spl, sleepsem, chan, sig, cur, queueVars, timerVars,
                 frameVars, prioVars>>

\* Then the timer: GetMsg() takes the reply off the port.
WokeTimer(t) ==
  /\ CanRun(t) /\ pc[t] = "woke" /\ "intr" \notin bmask[t]
  /\ wchan[t] # NoChan /\ "sleep" \in bmask[t] /\ timer[t] = "replied"
  /\ timer' = [timer EXCEPT ![t] = "none"]
  /\ timerbusy' = [timerbusy EXCEPT ![t] = FALSE]
  /\ bmask' = [bmask EXCEPT ![t] = {}]
  /\ GoesOn(t, FALSE)
  /\ Breaks(t, "EWOULDBLOCK")
  /\ UNCHANGED <<spl, chan, sig, cur, queueVars, portsig, frameVars,
                 prioVars>>

\* None of these would mean round the loop again. Wait() never returns so in
\* this model; a task that did would stay here, and TimedSleepReturns fail.

\* Mutant: sc_wchan is cleared and the context stays linked.
Unlink_ClearOnly(t) == /\ wchan' = [wchan EXCEPT ![t] = NoChan]
                       /\ UNCHANGED queue

Unlink(t) == /\ queue' = [queue EXCEPT ![Hash[wchan[t]]] = @ \ {t}]
             /\ wchan' = [wchan EXCEPT ![t] = NoChan]

\* Unlink unless a wakener already did; then back for syscall_semaphore.
TsleepUnlink(t) ==
  /\ CanRun(t) /\ pc[t] = "remove" /\ sleepsem.owner = t /\ wchan[t] # NoChan
  /\ Unlink(t)
  /\ sleepsem' = Release(sleepsem)
  /\ GoesOn(t, FALSE)
  /\ AsksSyscall(t)
  /\ UNCHANGED <<spl, chan, bmask, sig, res, cur, timerVars, frameVars,
                 prioVars>>

TsleepUnlinked(t) ==
  /\ CanRun(t) /\ pc[t] = "remove" /\ sleepsem.owner = t /\ wchan[t] = NoChan
  /\ sleepsem' = Release(sleepsem)
  /\ GoesOn(t, FALSE)
  /\ AsksSyscall(t)
  /\ UNCHANGED <<spl, chan, bmask, sig, res, cur, queueVars, timerVars,
                 frameVars, prioVars>>

\* Whom to boost again: the snapshot.  Mutant: whoever the base names now.
BoostTask_FromBase(t) == callerTask[Base[t]]
BoostTask(t) == snap[t].task

\* Owning syscall_semaphore again: the boost from the snapshot, splx, and
\* tsleep_abort_timeout.
TsleepResume(t) ==
  LET b == Base[t] IN
  /\ CanRun(t) /\ pc[t] = "resys" /\ syscall.owner = t
  /\ callerTask' = [callerTask EXCEPT ![b] = BoostTask(t)]
  /\ libCallPri' = [libCallPri EXCEPT ![b] = snap[t].call]
  /\ myPri' = [myPri EXCEPT ![b] = pri[BoostTask(t)]]
  /\ pri' = [pri EXCEPT ![BoostTask(t)] = snap[t].call]
  /\ spl' = [spl EXCEPT ![t] = snap[t].spl]
  /\ portsig' = IF res[t] # "EWOULDBLOCK" /\ timo[t]
                  THEN [portsig EXCEPT ![t] = FALSE] ELSE portsig
  /\ GoesOn(t, snap[t].spl)
  /\ Goto(t, "done")
  /\ UNCHANGED <<syscall, sleepsem, chan, bmask, sig, res, cur, snap, timer,
                 timerbusy, queueVars, frameVars>>

\* tsleep returns: FreeSignal(), and the frame, the context in it and the
\* locals are gone.
Returns(t) == /\ live' = [live EXCEPT ![t] = FALSE]
              /\ chan' = [chan EXCEPT ![t] = NoChan]
              /\ timo' = [timo EXCEPT ![t] = FALSE]
              /\ portsig' = [portsig EXCEPT ![t] = FALSE]
              /\ snap' = [snap EXCEPT ![t] = NoSnap]
              /\ sig' = [sig EXCEPT ![t] = @ \ ClearedBits]
              /\ Goto(t, "run")

\* Is the timer request still to be reclaimed?  Mutant: it never is.
MustReap_Never(t) == FALSE
MustReap(t) == timerbusy[t]

\* ng_sleepctx_done with nothing to reclaim.
SleepCtxDone(t) ==
  /\ CanRun(t) /\ pc[t] = "done" /\ ~MustReap(t)
  /\ Returns(t)
  /\ GoesOn(t, spl[t])
  /\ UNCHANGED <<spl, syscall, sleepsem, bmask, res, cur, queueVars, timer,
                 timerbusy, pri, callerTask, libCallPri, myPri>>

\* ng_sleepctx_done: re-arm the port, AbortIO unless already replied.
SleepCtxAbort(t) ==
  /\ CanRun(t) /\ pc[t] = "done" /\ MustReap(t)
  /\ portsig' = [portsig EXCEPT ![t] = ReapFlags]
  /\ timer' = [timer EXCEPT ![t] = IF @ = "out" THEN "aborting" ELSE @]
  /\ GoesOn(t, spl[t])
  /\ Goto(t, "waitio")
  /\ UNCHANGED <<spl, syscall, sleepsem, chan, bmask, sig, res, cur,
                 timerbusy, queueVars, frameVars, prioVars>>

\* WaitIO: take a request that came back, or Wait for the port's bit.
WaitIOTakes(t) ==
  /\ CanRun(t) /\ pc[t] = "waitio" /\ timer[t] = "replied"
  /\ timer' = [timer EXCEPT ![t] = "none"]
  /\ timerbusy' = [timerbusy EXCEPT ![t] = FALSE]
  /\ Returns(t)
  /\ GoesOn(t, spl[t])
  /\ UNCHANGED <<spl, syscall, sleepsem, bmask, res, cur, queueVars,
                 pri, callerTask, libCallPri, myPri>>

WaitIOBlocks(t) ==
  /\ CanRun(t) /\ pc[t] = "waitio" /\ timer[t] # "replied"
  /\ Goto(t, "iowait")
  /\ forbid' = NoTask
  /\ UNCHANGED <<spl, syscall, sleepsem, chan, bmask, sig, res, cur,
                 queueVars, timerVars, frameVars, prioVars>>

WaitIOSignalled(t) ==
  /\ CanRun(t) /\ pc[t] = "iowait" /\ "sleep" \in sig[t]
  /\ sig' = [sig EXCEPT ![t] = @ \ {"sleep"}]
  /\ GoesOn(t, spl[t])
  /\ Goto(t, "waitio")
  /\ UNCHANGED <<spl, syscall, sleepsem, chan, bmask, res, cur,
                 queueVars, timerVars, frameVars, prioVars>>

-----------------------------------------------------------------------------
(* wakeup(chan), called by a task inside a library call or by Net at spl.   *)

WakeupStart(x, c) ==
  /\ CanRun(x) /\ pc[x] = "run"
  /\ x = Net => spl[x]
  /\ chan' = [chan EXCEPT ![x] = c]
  /\ sleepsem' = Obtain(sleepsem, x)
  /\ Requests(sleepsem, x, spl[x])
  /\ Goto(x, "wobtain")
  /\ UNCHANGED <<spl, syscall, bmask, sig, res, cur,
                 queueVars, timerVars, frameVars, prioVars>>

\* Sleepers in the bucket whose sc_wchan is the channel.
Matches_Bucket(x) == queue[Hash[chan[x]]]    \* mutant: sc_wchan not compared
Matches(x) == {s \in queue[Hash[chan[x]]] : wchan[s] = chan[x]}

\* The next sleeper on the channel: sc_wchan = NULL.
WakeupMark(x, s) ==
  /\ CanRun(x) /\ pc[x] \in {"wobtain", "wloop"} /\ sleepsem.owner = x
  /\ s \in Matches(x)
  /\ wchan' = [wchan EXCEPT ![s] = NoChan]
  /\ cur' = [cur EXCEPT ![x] = s]
  /\ GoesOn(x, spl[x])
  /\ Goto(x, "wmark")
  /\ UNCHANGED <<spl, syscall, sleepsem, chan, bmask, sig, res, queue,
                 timerVars, frameVars, prioVars>>

\* 1 << mp_SigBit.  Mutant: the shift is missing, another bit is signalled.
WakeMask_NotShifted == {}
WakeMask == {"sleep"}

\* Unlink it, and Signal the task that owns it.
WakeupSignal(x) ==
  /\ CanRun(x) /\ pc[x] = "wmark"
  /\ queue' = [queue EXCEPT ![Hash[chan[x]]] = @ \ {cur[x]}]
  /\ sig' = [sig EXCEPT ![cur[x]] = @ \cup WakeMask]
  /\ cur' = [cur EXCEPT ![x] = NoTask]
  /\ GoesOn(x, spl[x])
  /\ Goto(x, "wloop")
  /\ UNCHANGED <<spl, syscall, sleepsem, chan, bmask, res, wchan,
                 timerVars, frameVars, prioVars>>

WakeupEnd(x) ==
  /\ CanRun(x) /\ pc[x] \in {"wobtain", "wloop"} /\ sleepsem.owner = x
  /\ Matches(x) = {}
  /\ sleepsem' = Release(sleepsem)
  /\ chan' = [chan EXCEPT ![x] = NoChan]
  /\ GoesOn(x, spl[x])
  /\ Goto(x, "run")
  /\ UNCHANGED <<spl, syscall, bmask, sig, res, cur,
                 queueVars, timerVars, frameVars, prioVars>>

-----------------------------------------------------------------------------
(* The environment, which no Forbid() stops: timer.device replies to the    *)
(* request when its time is up or it was aborted; an interrupt signal       *)
(* (CTRL-C) reaches the task, and the program sees it outside the library.  *)

TimerReply(t) ==
  /\ timer[t] \in {"out", "aborting"}
  /\ timer' = [timer EXCEPT ![t] = "replied"]
  /\ sig' = IF portsig[t] THEN [sig EXCEPT ![t] = @ \cup {"sleep"}] ELSE sig
  /\ UNCHANGED <<pc, forbid, spl, syscall, sleepsem, chan, bmask, res, cur,
                 queueVars, timerbusy, portsig, frameVars, prioVars>>

Interrupt(t) ==
  /\ pc[t] # "user" /\ "intr" \notin sig[t]
  /\ sig' = [sig EXCEPT ![t] = @ \cup {"intr"}]
  /\ UNCHANGED <<pc, forbid, spl, syscall, sleepsem, chan, bmask, res, cur,
                 queueVars, timerVars, frameVars, prioVars>>

SeesInterrupt(t) ==
  /\ CanRun(t) /\ pc[t] = "user" /\ "intr" \in sig[t]
  /\ sig' = [sig EXCEPT ![t] = @ \ {"intr"}]
  /\ GoesOn(t, FALSE)
  /\ UNCHANGED <<pc, spl, syscall, sleepsem, chan, bmask, res, cur,
                 queueVars, timerVars, frameVars, prioVars>>

-----------------------------------------------------------------------------
(* The steps the code takes of itself once a call is under way ...          *)
SleepStep(t) ==
  \/ EnterCall(t) \/ TsleepEnter(t) \/ TsleepRelease(t)
  \/ TsleepMainWoken(t) \/ TsleepMainWaits(t) \/ WaitReturns(t)
  \/ WokeIntr(t) \/ WokeUp(t) \/ WokeTimer(t)
  \/ TsleepUnlink(t) \/ TsleepUnlinked(t) \/ TsleepResume(t)
  \/ SleepCtxDone(t) \/ SleepCtxAbort(t)
  \/ WaitIOTakes(t) \/ WaitIOBlocks(t) \/ WaitIOSignalled(t)

WakeStep(x) ==
  (\E s \in Tasks : WakeupMark(x, s)) \/ WakeupSignal(x) \/ WakeupEnd(x)

(* ... and what the callers of tsleep and wakeup may do.                    *)
CallerStep(t) ==
  \/ ObtainSyscallSemaphore(t) \/ ReleaseSyscallSemaphore(t)
  \/ SleepCtxFails(t) \/ SeesInterrupt(t)
  \/ \E c \in Chans, timed \in BOOLEAN : SleepCtxInit(t, c, timed)

AgentStep(x) == Splnet(x) \/ Splx(x) \/ \E c \in Chans : WakeupStart(x, c)

Next ==
  \/ \E t \in Tasks : SleepStep(t) \/ CallerStep(t)
  \/ \E x \in Agents : WakeStep(x) \/ AgentStep(x)
  \/ \E t \in Tasks : TimerReply(t)
  \/ \E t \in IntrTasks : Interrupt(t)

Spec == Init /\ [][Next]_vars

(* Fairness: Exec runs every ready task again and again (strong, because    *)
(* the Forbid() of others disables a ready task from time to time), a       *)
(* library call does not hold the library for ever, and timer.device        *)
(* replies.  Nothing is assumed of wakeups, interrupts or new calls.        *)
Fairness ==
  /\ \A t \in Tasks : /\ SF_vars(SleepStep(t))
                      /\ SF_vars(Splx(t))
                      /\ SF_vars(ReleaseSyscallSemaphore(t))
                      /\ WF_vars(TimerReply(t))
  /\ \A x \in Agents : SF_vars(WakeStep(x))
  /\ SF_vars(Splx(Net))

FairSpec == Spec /\ Fairness

-----------------------------------------------------------------------------
(***************************************************************************)
(* Properties.                                                             *)
(***************************************************************************)

\* Types of the sleep/wakeup state: contexts, semaphores, queues, priorities.
TypeOK ==
  /\ pc \in [Agents -> PCs]
  /\ forbid \in Agents \cup {NoTask}
  /\ spl \in [Agents -> BOOLEAN]
  /\ syscall \in SemType /\ sleepsem \in SemType
  /\ chan \in [Agents -> Chans \cup {NoChan}]
  /\ timo \in [Tasks -> BOOLEAN] /\ live \in [Tasks -> BOOLEAN]
  /\ wchan \in [Tasks -> Chans \cup {NoChan}]
  /\ queue \in [Buckets -> SUBSET Tasks]
  /\ sig \in [Tasks -> SUBSET SigBits] /\ bmask \in [Tasks -> SUBSET SigBits]
  /\ timer \in [Tasks -> {"none", "out", "aborting", "replied"}]
  /\ timerbusy \in [Tasks -> BOOLEAN] /\ portsig \in [Tasks -> BOOLEAN]
  /\ res \in [Tasks -> Results]
  /\ cur \in [Agents -> Tasks \cup {NoTask}]
  /\ pri \in [Tasks -> Int]
  /\ callerTask \in [Bases -> Tasks \cup {NoTask}]
  /\ libCallPri \in [Bases -> Int] /\ myPri \in [Bases -> Int]
  /\ snap \in [Tasks -> SnapType]

Marked(t) == \E x \in Agents : cur[x] = t

\* "While a context is in a sleep queue its sc_wchan field is nonzero": a
\* context is linked in the bucket of its channel, and in no other, exactly
\* while sc_wchan is set, except under a wakener that holds sleep_semaphore
\* and has cleared sc_wchan but not unlinked yet.
QueueConsistent ==
  \A t \in Tasks : ~Marked(t) =>
    \A b \in Buckets :
      t \in queue[b] <=> wchan[t] # NoChan /\ b = Hash[wchan[t]]

\* Nothing reaches into a dead stack frame: a context that is linked, that a
\* wakener is about to unlink and signal, or whose timer request has not been
\* reclaimed, belongs to a frame that still exists.
NoDeadFrame ==
  \A t \in Tasks :
    (Marked(t) \/ timer[t] # "none" \/ \E b \in Buckets : t \in queue[b])
      => live[t]

\* A wakeup is never lost on its way to a task blocked in Wait(): if sc_wchan
\* has been cleared, the signal is pending or the wakener is about to send it.
WakeupDelivered ==
  \A t \in Tasks : pc[t] = "wait" /\ wchan[t] = NoChan =>
    "sleep" \in sig[t] \/ Marked(t)

\* A task blocked with a time-out will be told: the request is still out, or
\* its reply has raised the bit the task waits on.
TimeoutDelivered ==
  \A t \in Tasks : pc[t] = "wait" /\ timo[t] =>
    timer[t] = "out" \/ "sleep" \in sig[t]

\* Whoever is blocked in Wait() will be told of the end it waits for, wakeup or time-out,
\* whatever wakeups, replies and interrupts cross between wakeup1 and tsleep_main.
Delivered == WakeupDelivered /\ TimeoutDelivered

\* tsleep never swallows an interrupt: once raised it stays pending (or in the
\* hands of tsleep_main, which puts it back) until the program takes it.
InterruptKept ==
  [][\A t \in Tasks :
       LET pending == "intr" \in sig[t] \/ (pc[t] = "woke" /\ "intr" \in bmask[t])
       IN pending /\ pc[t] # "user" => pending']_vars

\* A wakeup only ends sleeps on its own channel, although a bucket is shared:
\* sc_wchan is cleared by the sleeper itself or by a wakener of that channel.
WakesOnlyItsChannel ==
  [][\A t \in Tasks : wchan[t] # NoChan /\ wchan'[t] = NoChan =>
       pc[t] = "remove" \/ \E x \in Agents : cur'[x] = t /\ chan[x] = wchan[t]]_vars

\* The priority boost follows the call: a task outside the library or asleep
\* in it runs at its own priority, and one holding syscall_semaphore runs no
\* lower than the net task, also when other tasks use the same base meanwhile.
BoostFollowsCall ==
  \A t \in Tasks :
    pri[t] = IF pc[t] \in SysPCs /\ NetPri > OwnPri[t] THEN NetPri ELSE OwnPri[t]

\* A sleep with a time-out comes back to its caller.
TimedSleepReturns ==
  \A t \in Tasks : (pc[t] = "main" /\ timo[t]) ~> (pc[t] = "run")

\* So does a sleep whose channel has been woken.
WokenSleepReturns ==
  \A t \in Tasks : (pc[t] \in {"main", "wait"} /\ wchan[t] = NoChan)
                      ~> (pc[t] = "run")

\* Every sleep that was given an end, by a wakeup or a time-out, comes back from tsleep.
SleepReturns == TimedSleepReturns /\ WokenSleepReturns

-----------------------------------------------------------------------------
(***************************************************************************)
(* The inductive invariant behind TypeOK, QueueConsistent, NoDeadFrame and *)
(* BoostFollowsCall.                                                       *)
(***************************************************************************)

SleepPCs == {"main", "wait", "woke", "remove", "resys"}

\* Who holds which lock where.
LockInv ==
  /\ \A t \in Tasks : pc[t] \in SysPCs => syscall.owner = t
  /\ \A x \in Agents : pc[x] \in {"wloop", "wmark"} => sleepsem.owner = x
  /\ pc[Net] \in {"run"} \cup WakePCs
  /\ pc[Net] \in WakePCs => spl[Net]
  /\ pc[Net] \in {"wloop", "wmark"} => forbid = Net

\* A context exists from ng_sleepctx_init to the return of tsleep, and is
\* linked at most from tsleep_enter until the sleeper asks for
\* syscall_semaphore again.
FrameInv ==
  \A t \in Tasks :
    /\ live[t] <=> pc[t] \in FramePCs
    /\ wchan[t] # NoChan => pc[t] \in {"send", "main", "wait", "woke", "remove"}
    /\ timer[t] # "none" => timerbusy[t]
    /\ timerbusy[t] => pc[t] \in SleepPCs \cup {"done", "waitio", "iowait"}

\* A wakener between its two writes to a context: the owner of the frame is
\* stopped, at the latest, at syscall_semaphore.
MarkInv ==
  \A x \in Agents :
    /\ pc[x] \in WakePCs \cup {"enter"} => chan[x] \in Chans
    /\ cur[x] # NoTask <=> pc[x] = "wmark"
    /\ cur[x] # NoTask =>
         /\ wchan[cur[x]] = NoChan
         /\ pc[cur[x]] \in {"send"} \cup SleepPCs
         /\ cur[x] \in queue[Hash[chan[x]]]
         /\ \A b \in Buckets : cur[x] \in queue[b] => b = Hash[chan[x]]

\* The priority bookkeeping of a call in progress and of a sleeping one.
BoostPri(t) == IF NetPri > OwnPri[t] THEN NetPri ELSE OwnPri[t]

BoostInv ==
  \A t \in Tasks :
    /\ pc[t] \in SysPCs =>
         /\ callerTask[Base[t]] = t
         /\ libCallPri[Base[t]] = BoostPri(t)
         /\ myPri[Base[t]] = OwnPri[t]
    /\ pc[t] \in SleepPCs =>
         snap[t].task = t /\ snap[t].call = BoostPri(t)

IInv == /\ TypeOK /\ LockInv /\ FrameInv /\ MarkInv /\ QueueConsistent
        /\ BoostInv /\ BoostFollowsCall

=============================================================================
