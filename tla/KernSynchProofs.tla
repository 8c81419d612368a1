-------------------------- MODULE KernSynchProofs --------------------------
(***************************************************************************)
(* Proofs about KernSynch, for any number of tasks, channels, buckets and  *)
(* bases.  IInv, of KernSynch, is inductive; TypeOK, QueueConsistent,      *)
(* NoDeadFrame and BoostFollowsCall follow from it.  DeliverInv is         *)
(* inductive relative to it and gives Delivered; the action properties     *)
(* InterruptKept and WakesOnlyItsChannel follow from IInv step by step.    *)
(***************************************************************************)
EXTENDS KernSynch, TLAPS

USE NetAssumption, ChanAssumption, HashAssumption, BaseAssumption,
    PriAssumption, IntrAssumption

USE DEF CanRun, GoesOn, Holding, Goto, queueVars, timerVars, frameVars, prioVars

\* Semaphore operations keep the owner an agent and the waiters a sequence.
LEMMA SemTypes ==
  ASSUME NEW sem \in SemType, NEW x \in Agents
  PROVE  Obtain(sem, x) \in SemType /\ Release(sem) \in SemType
<1>1. Obtain(sem, x) \in SemType
  BY DEF Obtain, SemType
<1>2. CASE sem.q = <<>>
  BY <1>1, <1>2 DEF Release, SemType, FreeSem
<1>3. CASE sem.q # <<>>
  <2>1. Head(sem.q) \in Agents /\ Tail(sem.q) \in Seq(Agents)
    BY <1>3 DEF SemType
  <2> QED BY <1>1, <1>3, <2>1 DEF Release, SemType
<1> QED BY <1>2, <1>3

\* Obtaining does not take a semaphore from its owner.
LEMMA ObtainKeepsOwner ==
  ASSUME NEW sem \in SemType, NEW x \in Agents, NEW y \in Agents,
         sem.owner = y
  PROVE  Obtain(sem, x).owner = y
BY DEF Obtain, SemType

\* Both lemmas for the two semaphores, in the form the steps below use.
SemFacts ==
  /\ syscall \in SemType /\ sleepsem \in SemType
  /\ Release(syscall) \in SemType /\ Release(sleepsem) \in SemType
  /\ \A y \in Agents :
       /\ Obtain(syscall, y) \in SemType /\ Obtain(sleepsem, y) \in SemType
       /\ syscall.owner \in Agents => Obtain(syscall, y).owner = syscall.owner
       /\ sleepsem.owner \in Agents => Obtain(sleepsem, y).owner = sleepsem.owner

LEMMA SemLemma == ASSUME IInv PROVE SemFacts
<1>1. syscall \in SemType /\ sleepsem \in SemType
  BY DEF IInv, TypeOK
<1> QED BY <1>1, SemTypes, ObtainKeepsOwner DEF SemFacts, Agents

\* The boost is the larger of the two priorities.
LEMMA BoostIsMax ==
  ASSUME NEW t \in Tasks
  PROVE  BoostPri(t) = IF OwnPri[t] > NetPri THEN OwnPri[t] ELSE NetPri
BY DEF BoostPri

\* Linking a context that is not linked, and unlinking one that nobody has
\* marked, keep queues and sc_wchan in step.
LEMMA LinkKeepsConsistent ==
  ASSUME QueueConsistent, wchan \in [Tasks -> Chans \cup {NoChan}],
         queue \in [Buckets -> SUBSET Tasks],
         NEW t \in Tasks, chan[t] \in Chans, wchan[t] = NoChan, ~Marked(t),
         wchan' = [wchan EXCEPT ![t] = chan[t]],
         queue' = [queue EXCEPT ![Hash[chan[t]]] = queue[Hash[chan[t]]] \cup {t}],
         UNCHANGED cur
  PROVE  QueueConsistent'
BY DEF QueueConsistent, Marked

LEMMA UnlinkKeepsConsistent ==
  ASSUME QueueConsistent, wchan \in [Tasks -> Chans \cup {NoChan}],
         queue \in [Buckets -> SUBSET Tasks],
         NEW t \in Tasks, wchan[t] # NoChan, ~Marked(t),
         wchan' = [wchan EXCEPT ![t] = NoChan],
         queue' = [queue EXCEPT ![Hash[wchan[t]]] = queue[Hash[wchan[t]]] \ {t}],
         UNCHANGED cur
  PROVE  QueueConsistent'
BY DEF QueueConsistent, Marked

\* Every action keeps the types; TsleepEnter and ReleaseSyscallSemaphore need
\* that the channel is one and that callerTask is a task.
LEMMA TypeStep == ASSUME IInv, [Next]_vars PROVE TypeOK'
<1> USE DEF IInv, TypeOK, BoostInv, MarkInv, PCs, SysPCs, FramePCs,
           WakePCs, SleepPCs, SigBits, Results, SnapType, Agents
<1>0. SemFacts
  BY SemLemma
<1>1. ASSUME NEW t \in Tasks, SleepStep(t) PROVE TypeOK'
  <2>1. CASE EnterCall(t)
    BY <1>0, <2>1 DEF SemFacts, EnterCall
  <2>2. CASE TsleepEnter(t)
    <3>1. chan[t] \in Chans
      BY <2>2 DEF TsleepEnter
    <3> QED BY <1>0, <2>2, <3>1 DEF SemFacts, TsleepEnter
  <2>3. CASE TsleepRelease(t)
    BY <1>0, <2>3 DEF SemFacts, TsleepRelease, ArmedFlags
  <2>4. CASE TsleepMainWoken(t)
    BY <1>0, <2>4 DEF SemFacts, TsleepMainWoken, AsksSyscall
  <2>5. CASE TsleepMainWaits(t)
    BY <1>0, <2>5 DEF SemFacts, TsleepMainWaits
  <2>6. CASE WaitReturns(t)
    BY <1>0, <2>6 DEF SemFacts, WaitReturns
  <2>7. CASE WokeIntr(t)
    BY <1>0, <2>7 DEF SemFacts, WokeIntr, PutBack, Breaks
  <2>8. CASE WokeUp(t)
    BY <1>0, <2>8 DEF SemFacts, WokeUp, AsksSyscall
  <2>9. CASE WokeTimer(t)
    BY <1>0, <2>9 DEF SemFacts, WokeTimer, Breaks
  <2>10. CASE TsleepUnlink(t)
    BY <1>0, <2>10 DEF SemFacts, TsleepUnlink, Unlink, AsksSyscall
  <2>11. CASE TsleepUnlinked(t)
    BY <1>0, <2>11 DEF SemFacts, TsleepUnlinked, AsksSyscall
  <2>12. CASE TsleepResume(t)
    BY <1>0, <2>12 DEF SemFacts, TsleepResume, BoostTask
  <2>13. CASE SleepCtxDone(t)
    BY <1>0, <2>13 DEF SemFacts, SleepCtxDone, MustReap, Returns, ClearedBits, NoSnap
  <2>14. CASE SleepCtxAbort(t)
    BY <1>0, <2>14 DEF SemFacts, SleepCtxAbort, MustReap, ReapFlags
  <2>15. CASE WaitIOTakes(t)
    BY <1>0, <2>15 DEF SemFacts, WaitIOTakes, Returns, ClearedBits, NoSnap
  <2>16. CASE WaitIOBlocks(t)
    BY <1>0, <2>16 DEF SemFacts, WaitIOBlocks
  <2>17. CASE WaitIOSignalled(t)
    BY <1>0, <2>17 DEF SemFacts, WaitIOSignalled
  <2> QED BY <1>1, <2>1, <2>2, <2>3, <2>4, <2>5, <2>6, <2>7, <2>8, <2>9, <2>10, <2>11, <2>12, <2>13, <2>14, <2>15, <2>16, <2>17 DEF SleepStep
<1>2. ASSUME NEW t \in Tasks, CallerStep(t) PROVE TypeOK'
  <2>1. CASE ObtainSyscallSemaphore(t)
    BY <1>0, <2>1 DEF SemFacts, ObtainSyscallSemaphore
  <2>2. CASE ReleaseSyscallSemaphore(t)
    BY <1>0, <2>2 DEF SemFacts, ReleaseSyscallSemaphore
  <2>3. CASE SleepCtxFails(t)
    BY <1>0, <2>3 DEF SemFacts, SleepCtxFails, NoSignalBit
  <2>4. CASE SeesInterrupt(t)
    BY <1>0, <2>4 DEF SemFacts, SeesInterrupt
  <2>5. CASE \E c \in Chans, timed \in BOOLEAN : SleepCtxInit(t, c, timed)
    BY <1>0, <2>5 DEF SemFacts, SleepCtxInit, Requests, ClearedBits
  <2> QED BY <1>2, <2>1, <2>2, <2>3, <2>4, <2>5 DEF CallerStep
<1>3. ASSUME NEW x \in Agents, WakeStep(x) PROVE TypeOK'
  <2>1. CASE \E s \in Tasks : WakeupMark(x, s)
    BY <1>0, <2>1 DEF SemFacts, WakeupMark, Matches
  <2>2. CASE WakeupSignal(x)
    BY <1>0, <2>2 DEF SemFacts, WakeupSignal, WakeMask
  <2>3. CASE WakeupEnd(x)
    BY <1>0, <2>3 DEF SemFacts, WakeupEnd
  <2> QED BY <1>3, <2>1, <2>2, <2>3 DEF WakeStep
<1>4. ASSUME NEW x \in Agents, AgentStep(x) PROVE TypeOK'
  <2>1. CASE Splnet(x)
    BY <1>0, <2>1 DEF SemFacts, Splnet
  <2>2. CASE Splx(x)
    BY <1>0, <2>2 DEF SemFacts, Splx
  <2>3. CASE \E c \in Chans : WakeupStart(x, c)
    BY <1>0, <2>3 DEF SemFacts, WakeupStart, Requests
  <2> QED BY <1>4, <2>1, <2>2, <2>3 DEF AgentStep
<1>5. ASSUME NEW t \in Tasks, TimerReply(t) \/ Interrupt(t) PROVE TypeOK'
  <2>1. CASE TimerReply(t)
    BY <2>1 DEF TimerReply
  <2>2. CASE Interrupt(t)
    BY <2>2 DEF Interrupt
  <2> QED BY <1>5, <2>1, <2>2
<1>6. CASE UNCHANGED vars
  BY <1>6 DEF vars
<1> QED BY <1>1, <1>2, <1>3, <1>4, <1>5, <1>6 DEF Next

\* A lock is only held where LockInv says: its owner gives it up in the step
\* that leaves those places, and while Net is in wakeup nobody else runs.
LEMMA LockStep == ASSUME IInv, [Next]_vars PROVE LockInv'
<1> USE DEF IInv, TypeOK, LockInv, SysPCs, WakePCs, Agents
<1>0. SemFacts
  BY SemLemma
<1>1. ASSUME NEW t \in Tasks, SleepStep(t) PROVE LockInv'
  <2>1. CASE EnterCall(t)
    BY <1>0, <2>1 DEF SemFacts, EnterCall
  <2>2. CASE TsleepEnter(t)
    BY <1>0, <2>2 DEF SemFacts, TsleepEnter
  <2>3. CASE TsleepRelease(t)
    BY <1>0, <2>3 DEF SemFacts, TsleepRelease, ArmedFlags
  <2>4. CASE TsleepMainWoken(t)
    BY <1>0, <2>4, SMTT(30) DEF SemFacts, TsleepMainWoken, AsksSyscall
  <2>5. CASE TsleepMainWaits(t)
    BY <1>0, <2>5 DEF SemFacts, TsleepMainWaits
  <2>6. CASE WaitReturns(t)
    BY <1>0, <2>6 DEF SemFacts, WaitReturns
  <2>7. CASE WokeIntr(t)
    <3>1. /\ CanRun(t) /\ pc[t] = "woke" /\ forbid' = NoTask
          /\ sleepsem' = Obtain(sleepsem, t)
          /\ pc' = [pc EXCEPT ![t] = "remove"]
          /\ UNCHANGED <<spl, syscall>>
      BY ONLY <2>7 DEF WokeIntr, Breaks
    <3> QED BY <1>0, <3>1, SMTT(60) DEF SemFacts
  <2>8. CASE WokeUp(t)
    BY <1>0, <2>8, SMTT(30) DEF SemFacts, WokeUp, AsksSyscall
  <2>9. CASE WokeTimer(t)
    <3>1. /\ CanRun(t) /\ pc[t] = "woke" /\ forbid' = NoTask
          /\ sleepsem' = Obtain(sleepsem, t)
          /\ pc' = [pc EXCEPT ![t] = "remove"]
          /\ UNCHANGED <<spl, syscall>>
      BY ONLY <2>9 DEF WokeTimer, Breaks
    <3> QED BY <1>0, <3>1, SMTT(60) DEF SemFacts
  <2>10. CASE TsleepUnlink(t)
    <3>1. /\ CanRun(t) /\ pc[t] = "remove" /\ sleepsem.owner = t
          /\ sleepsem' = Release(sleepsem) /\ GoesOn(t, FALSE)
          /\ AsksSyscall(t) /\ UNCHANGED spl
      BY ONLY <2>10 DEF TsleepUnlink
    <3> QED BY <1>0, <3>1, SMTT(30) DEF SemFacts, AsksSyscall
  <2>11. CASE TsleepUnlinked(t)
    BY <1>0, <2>11, SMTT(30) DEF SemFacts, TsleepUnlinked, AsksSyscall
  <2>12. CASE TsleepResume(t)
    BY <1>0, <2>12 DEF SemFacts, TsleepResume, BoostTask
  <2>13. CASE SleepCtxDone(t)
    BY <1>0, <2>13 DEF SemFacts, SleepCtxDone, MustReap, Returns, ClearedBits, NoSnap
  <2>14. CASE SleepCtxAbort(t)
    BY <1>0, <2>14 DEF SemFacts, SleepCtxAbort, MustReap, ReapFlags
  <2>15. CASE WaitIOTakes(t)
    BY <1>0, <2>15 DEF SemFacts, WaitIOTakes, Returns, ClearedBits, NoSnap
  <2>16. CASE WaitIOBlocks(t)
    BY <1>0, <2>16 DEF SemFacts, WaitIOBlocks
  <2>17. CASE WaitIOSignalled(t)
    BY <1>0, <2>17 DEF SemFacts, WaitIOSignalled
  <2> QED BY <1>1, <2>1, <2>2, <2>3, <2>4, <2>5, <2>6, <2>7, <2>8, <2>9, <2>10, <2>11, <2>12, <2>13, <2>14, <2>15, <2>16, <2>17 DEF SleepStep
<1>2. ASSUME NEW t \in Tasks, CallerStep(t) PROVE LockInv'
  <2>1. CASE ObtainSyscallSemaphore(t)
    BY <1>0, <2>1, SMTT(30) DEF SemFacts, ObtainSyscallSemaphore
  <2>2. CASE ReleaseSyscallSemaphore(t)
    BY <1>0, <2>2 DEF SemFacts, ReleaseSyscallSemaphore
  <2>3. CASE SleepCtxFails(t)
    BY <1>0, <2>3 DEF SemFacts, SleepCtxFails, NoSignalBit
  <2>4. CASE SeesInterrupt(t)
    BY <1>0, <2>4 DEF SemFacts, SeesInterrupt
  <2>5. CASE \E c \in Chans, timed \in BOOLEAN : SleepCtxInit(t, c, timed)
    BY <1>0, <2>5 DEF SemFacts, SleepCtxInit, Requests, ClearedBits
  <2> QED BY <1>2, <2>1, <2>2, <2>3, <2>4, <2>5 DEF CallerStep
<1>3. ASSUME NEW x \in Agents, WakeStep(x) PROVE LockInv'
  <2>1. CASE \E s \in Tasks : WakeupMark(x, s)
    BY <1>0, <2>1 DEF SemFacts, WakeupMark, Matches
  <2>2. CASE WakeupSignal(x)
    BY <1>0, <2>2 DEF SemFacts, WakeupSignal, WakeMask
  <2>3. CASE WakeupEnd(x)
    BY <1>0, <2>3 DEF SemFacts, WakeupEnd
  <2> QED BY <1>3, <2>1, <2>2, <2>3 DEF WakeStep
<1>4. ASSUME NEW x \in Agents, AgentStep(x) PROVE LockInv'
  <2>1. CASE Splnet(x)
    BY <1>0, <2>1 DEF SemFacts, Splnet
  <2>2. CASE Splx(x)
    BY <1>0, <2>2 DEF SemFacts, Splx
  <2>3. CASE \E c \in Chans : WakeupStart(x, c)
    BY <1>0, <2>3 DEF SemFacts, WakeupStart, Requests
  <2> QED BY <1>4, <2>1, <2>2, <2>3 DEF AgentStep
<1>5. ASSUME NEW t \in Tasks, TimerReply(t) \/ Interrupt(t) PROVE LockInv'
  BY <1>5 DEF TimerReply, Interrupt
<1>6. CASE UNCHANGED vars
  BY <1>6 DEF vars
<1> QED BY <1>1, <1>2, <1>3, <1>4, <1>5, <1>6 DEF Next

\* A frame ends only after its context is unlinked and its timer reclaimed.
LEMMA FrameStep == ASSUME IInv, [Next]_vars PROVE FrameInv'
<1> USE DEF IInv, TypeOK, FrameInv, LockInv, MarkInv, SleepPCs, FramePCs,
           Agents
<1>0. SemFacts
  BY SemLemma
<1>1. ASSUME NEW t \in Tasks, SleepStep(t) PROVE FrameInv'
  <2>1. CASE EnterCall(t)
    BY <1>0, <2>1 DEF SemFacts, EnterCall
  <2>2. CASE TsleepEnter(t)
    BY <1>0, <2>2 DEF SemFacts, TsleepEnter
  <2>3. CASE TsleepRelease(t)
    BY <1>0, <2>3 DEF SemFacts, TsleepRelease, ArmedFlags
  <2>4. CASE TsleepMainWoken(t)
    BY <1>0, <2>4 DEF SemFacts, TsleepMainWoken, AsksSyscall
  <2>5. CASE TsleepMainWaits(t)
    BY <1>0, <2>5 DEF SemFacts, TsleepMainWaits
  <2>6. CASE WaitReturns(t)
    BY <1>0, <2>6 DEF SemFacts, WaitReturns
  <2>7. CASE WokeIntr(t)
    BY <1>0, <2>7 DEF SemFacts, WokeIntr, PutBack, Breaks
  <2>8. CASE WokeUp(t)
    BY <1>0, <2>8 DEF SemFacts, WokeUp, AsksSyscall
  <2>9. CASE WokeTimer(t)
    BY <1>0, <2>9 DEF SemFacts, WokeTimer, Breaks
  <2>10. CASE TsleepUnlink(t)
    BY <1>0, <2>10 DEF SemFacts, TsleepUnlink, Unlink, AsksSyscall
  <2>11. CASE TsleepUnlinked(t)
    BY <1>0, <2>11 DEF SemFacts, TsleepUnlinked, AsksSyscall
  <2>12. CASE TsleepResume(t)
    BY <1>0, <2>12 DEF SemFacts, TsleepResume, BoostTask
  <2>13. CASE SleepCtxDone(t)
    BY <1>0, <2>13 DEF SemFacts, SleepCtxDone, MustReap, Returns, ClearedBits, NoSnap
  <2>14. CASE SleepCtxAbort(t)
    BY <1>0, <2>14 DEF SemFacts, SleepCtxAbort, MustReap, ReapFlags
  <2>15. CASE WaitIOTakes(t)
    BY <1>0, <2>15 DEF SemFacts, WaitIOTakes, Returns, ClearedBits, NoSnap
  <2>16. CASE WaitIOBlocks(t)
    BY <1>0, <2>16 DEF SemFacts, WaitIOBlocks
  <2>17. CASE WaitIOSignalled(t)
    BY <1>0, <2>17 DEF SemFacts, WaitIOSignalled
  <2> QED BY <1>1, <2>1, <2>2, <2>3, <2>4, <2>5, <2>6, <2>7, <2>8, <2>9, <2>10, <2>11, <2>12, <2>13, <2>14, <2>15, <2>16, <2>17 DEF SleepStep
<1>2. ASSUME NEW t \in Tasks, CallerStep(t) PROVE FrameInv'
  <2>1. CASE ObtainSyscallSemaphore(t)
    BY <1>0, <2>1 DEF SemFacts, ObtainSyscallSemaphore
  <2>2. CASE ReleaseSyscallSemaphore(t)
    BY <1>0, <2>2 DEF SemFacts, ReleaseSyscallSemaphore
  <2>3. CASE SleepCtxFails(t)
    BY <1>0, <2>3 DEF SemFacts, SleepCtxFails, NoSignalBit
  <2>4. CASE SeesInterrupt(t)
    BY <1>0, <2>4 DEF SemFacts, SeesInterrupt
  <2>5. CASE \E c \in Chans, timed \in BOOLEAN : SleepCtxInit(t, c, timed)
    BY <1>0, <2>5 DEF SemFacts, SleepCtxInit, Requests, ClearedBits
  <2> QED BY <1>2, <2>1, <2>2, <2>3, <2>4, <2>5 DEF CallerStep
<1>3. ASSUME NEW x \in Agents, WakeStep(x) PROVE FrameInv'
  <2>1. CASE \E s \in Tasks : WakeupMark(x, s)
    BY <1>0, <2>1 DEF SemFacts, WakeupMark, Matches
  <2>2. CASE WakeupSignal(x)
    BY <1>0, <2>2 DEF SemFacts, WakeupSignal, WakeMask
  <2>3. CASE WakeupEnd(x)
    BY <1>0, <2>3 DEF SemFacts, WakeupEnd
  <2> QED BY <1>3, <2>1, <2>2, <2>3 DEF WakeStep
<1>4. ASSUME NEW x \in Agents, AgentStep(x) PROVE FrameInv'
  <2>1. CASE Splnet(x)
    BY <1>0, <2>1 DEF SemFacts, Splnet
  <2>2. CASE Splx(x)
    BY <1>0, <2>2 DEF SemFacts, Splx
  <2>3. CASE \E c \in Chans : WakeupStart(x, c)
    BY <1>0, <2>3 DEF SemFacts, WakeupStart, Requests
  <2> QED BY <1>4, <2>1, <2>2, <2>3 DEF AgentStep
<1>5. ASSUME NEW t \in Tasks, TimerReply(t) \/ Interrupt(t) PROVE FrameInv'
  BY <1>5 DEF TimerReply, Interrupt
<1>6. CASE UNCHANGED vars
  BY <1>6 DEF vars
<1> QED BY <1>1, <1>2, <1>3, <1>4, <1>5, <1>6 DEF Next

\* The owner of a marked context cannot leave tsleep: it needs
\* syscall_semaphore, which a task that calls wakeup holds, or the processor,
\* which Net holds.
LEMMA MarkStep == ASSUME IInv, [Next]_vars PROVE MarkInv'
<1> USE DEF IInv, TypeOK, MarkInv, LockInv, FrameInv, QueueConsistent,
           Marked, SleepPCs, WakePCs, SysPCs, Agents
<1>0. SemFacts
  BY SemLemma
<1>1. ASSUME NEW t \in Tasks, SleepStep(t) PROVE MarkInv'
  <2>1. CASE EnterCall(t)
    BY <1>0, <2>1 DEF SemFacts, EnterCall
  <2>2. CASE TsleepEnter(t)
    BY <1>0, <2>2 DEF SemFacts, TsleepEnter
  <2>3. CASE TsleepRelease(t)
    BY <1>0, <2>3 DEF SemFacts, TsleepRelease, ArmedFlags
  <2>4. CASE TsleepMainWoken(t)
    BY <1>0, <2>4 DEF SemFacts, TsleepMainWoken, AsksSyscall
  <2>5. CASE TsleepMainWaits(t)
    BY <1>0, <2>5 DEF SemFacts, TsleepMainWaits
  <2>6. CASE WaitReturns(t)
    BY <1>0, <2>6 DEF SemFacts, WaitReturns
  <2>7. CASE WokeIntr(t)
    BY <1>0, <2>7 DEF SemFacts, WokeIntr, PutBack, Breaks
  <2>8. CASE WokeUp(t)
    BY <1>0, <2>8 DEF SemFacts, WokeUp, AsksSyscall
  <2>9. CASE WokeTimer(t)
    BY <1>0, <2>9 DEF SemFacts, WokeTimer, Breaks
  <2>10. CASE TsleepUnlink(t)
    BY <1>0, <2>10 DEF SemFacts, TsleepUnlink, Unlink, AsksSyscall
  <2>11. CASE TsleepUnlinked(t)
    BY <1>0, <2>11 DEF SemFacts, TsleepUnlinked, AsksSyscall
  <2>12. CASE TsleepResume(t)
    BY <1>0, <2>12 DEF SemFacts, TsleepResume, BoostTask
  <2>13. CASE SleepCtxDone(t)
    BY <1>0, <2>13 DEF SemFacts, SleepCtxDone, MustReap, Returns, ClearedBits, NoSnap
  <2>14. CASE SleepCtxAbort(t)
    BY <1>0, <2>14 DEF SemFacts, SleepCtxAbort, MustReap, ReapFlags
  <2>15. CASE WaitIOTakes(t)
    BY <1>0, <2>15 DEF SemFacts, WaitIOTakes, Returns, ClearedBits, NoSnap
  <2>16. CASE WaitIOBlocks(t)
    BY <1>0, <2>16 DEF SemFacts, WaitIOBlocks
  <2>17. CASE WaitIOSignalled(t)
    BY <1>0, <2>17 DEF SemFacts, WaitIOSignalled
  <2> QED BY <1>1, <2>1, <2>2, <2>3, <2>4, <2>5, <2>6, <2>7, <2>8, <2>9, <2>10, <2>11, <2>12, <2>13, <2>14, <2>15, <2>16, <2>17 DEF SleepStep
<1>2. ASSUME NEW t \in Tasks, CallerStep(t) PROVE MarkInv'
  <2>1. CASE ObtainSyscallSemaphore(t)
    BY <1>0, <2>1 DEF SemFacts, ObtainSyscallSemaphore
  <2>2. CASE ReleaseSyscallSemaphore(t)
    BY <1>0, <2>2 DEF SemFacts, ReleaseSyscallSemaphore
  <2>3. CASE SleepCtxFails(t)
    BY <1>0, <2>3 DEF SemFacts, SleepCtxFails, NoSignalBit
  <2>4. CASE SeesInterrupt(t)
    BY <1>0, <2>4 DEF SemFacts, SeesInterrupt
  <2>5. CASE \E c \in Chans, timed \in BOOLEAN : SleepCtxInit(t, c, timed)
    BY <1>0, <2>5 DEF SemFacts, SleepCtxInit, Requests, ClearedBits
  <2> QED BY <1>2, <2>1, <2>2, <2>3, <2>4, <2>5 DEF CallerStep
<1>3. ASSUME NEW x \in Agents, WakeStep(x) PROVE MarkInv'
  <2>1. CASE \E s \in Tasks : WakeupMark(x, s)
    <3>1. PICK s \in Tasks : WakeupMark(x, s)
      BY <2>1
    <3>2. /\ s \in queue[Hash[chan[x]]] /\ wchan[s] = chan[x]
          /\ chan[x] \in Chans /\ pc[x] \in WakePCs /\ sleepsem.owner = x
      BY <3>1 DEF WakeupMark, Matches
    <3>3. \A y \in Agents : y # x => pc[y] # "wmark" /\ cur[y] = NoTask
      BY <3>1, <3>2 DEF WakeupMark
    <3>a. cur[x] = NoTask /\ pc[x] # "wmark"
      BY <3>1 DEF WakeupMark
    <3>b. pc[s] \in {"send", "main", "wait", "woke", "remove"}
      BY <3>2
    <3>4. ~Marked(s) /\ s # x
      BY <3>2, <3>3, <3>a, <3>b
    <3>5. /\ pc[s] \in {"send"} \cup SleepPCs
          /\ \A b \in Buckets : s \in queue[b] => b = Hash[chan[x]]
      BY <3>2, <3>4, SMTT(30)
    <3>6. /\ wchan' = [wchan EXCEPT ![s] = NoChan]
          /\ cur' = [cur EXCEPT ![x] = s]
          /\ pc' = [pc EXCEPT ![x] = "wmark"]
          /\ UNCHANGED <<queue, chan>>
      BY <3>1 DEF WakeupMark
    <3> QED BY <3>2, <3>3, <3>4, <3>5, <3>6
  <2>2. CASE WakeupSignal(x)
    BY <1>0, <2>2 DEF SemFacts, WakeupSignal, WakeMask
  <2>3. CASE WakeupEnd(x)
    BY <1>0, <2>3 DEF SemFacts, WakeupEnd
  <2> QED BY <1>3, <2>1, <2>2, <2>3 DEF WakeStep
<1>4. ASSUME NEW x \in Agents, AgentStep(x) PROVE MarkInv'
  <2>1. CASE Splnet(x)
    BY <1>0, <2>1 DEF SemFacts, Splnet
  <2>2. CASE Splx(x)
    BY <1>0, <2>2 DEF SemFacts, Splx
  <2>3. CASE \E c \in Chans : WakeupStart(x, c)
    BY <1>0, <2>3 DEF SemFacts, WakeupStart, Requests
  <2> QED BY <1>4, <2>1, <2>2, <2>3 DEF AgentStep
<1>5. ASSUME NEW t \in Tasks, TimerReply(t) \/ Interrupt(t) PROVE MarkInv'
  BY <1>5 DEF TimerReply, Interrupt
<1>6. CASE UNCHANGED vars
  BY <1>6 DEF vars
<1> QED BY <1>1, <1>2, <1>3, <1>4, <1>5, <1>6 DEF Next

\* Linking and sc_wchan change together, or under a wakener's mark.
LEMMA QueueStep == ASSUME IInv, [Next]_vars PROVE QueueConsistent'
<1> USE DEF IInv, TypeOK, QueueConsistent, LockInv, FrameInv, MarkInv,
           Marked, WakePCs, Agents
<1>0. SemFacts
  BY SemLemma
<1>1. ASSUME NEW t \in Tasks, SleepStep(t) PROVE QueueConsistent'
  <2>1. CASE EnterCall(t)
    <3>1. UNCHANGED <<queue, wchan, cur>>
      BY <2>1 DEF EnterCall
    <3> QED BY <3>1
  <2>2. CASE TsleepEnter(t)
    <3>1. pc[t] = "enter" /\ chan[t] \in Chans
      BY <2>2 DEF TsleepEnter
    <3>a. wchan[t] = NoChan
      BY <3>1
    <3>b. ASSUME NEW x \in Agents, cur[x] = t PROVE FALSE
      BY <3>1, <3>b, SMTT(30) DEF SleepPCs
    <3>2. wchan[t] = NoChan /\ ~Marked(t)
      BY <3>a, <3>b
    <3>3. /\ wchan' = [wchan EXCEPT ![t] = chan[t]]
          /\ queue' = [queue EXCEPT ![Hash[chan[t]]] = queue[Hash[chan[t]]] \cup {t}]
          /\ UNCHANGED cur
      BY <2>2, Zenon DEF TsleepEnter
    <3> QED BY <3>1, <3>2, <3>3, LinkKeepsConsistent
  <2>3. CASE TsleepRelease(t)
    BY <1>0, <2>3 DEF SemFacts, TsleepRelease, ArmedFlags
  <2>4. CASE TsleepMainWoken(t)
    BY <1>0, <2>4 DEF SemFacts, TsleepMainWoken, AsksSyscall
  <2>5. CASE TsleepMainWaits(t)
    BY <1>0, <2>5 DEF SemFacts, TsleepMainWaits
  <2>6. CASE WaitReturns(t)
    BY <1>0, <2>6 DEF SemFacts, WaitReturns
  <2>7. CASE WokeIntr(t)
    BY <1>0, <2>7 DEF SemFacts, WokeIntr, PutBack, Breaks
  <2>8. CASE WokeUp(t)
    BY <1>0, <2>8, SMTT(30) DEF SemFacts, WokeUp, AsksSyscall
  <2>9. CASE WokeTimer(t)
    BY <1>0, <2>9 DEF SemFacts, WokeTimer, Breaks
  <2>10. CASE TsleepUnlink(t)
    <3>1. wchan[t] # NoChan
      BY <2>10 DEF TsleepUnlink
    <3>2. ~Marked(t)
      BY <3>1
    <3>3. /\ wchan' = [wchan EXCEPT ![t] = NoChan]
          /\ queue' = [queue EXCEPT ![Hash[wchan[t]]] = queue[Hash[wchan[t]]] \ {t}]
          /\ UNCHANGED cur
      BY <2>10, Zenon DEF TsleepUnlink, Unlink
    <3> QED BY <3>1, <3>2, <3>3, UnlinkKeepsConsistent
  <2>11. CASE TsleepUnlinked(t)
    BY <1>0, <2>11 DEF SemFacts, TsleepUnlinked, AsksSyscall
  <2>12. CASE TsleepResume(t)
    BY <1>0, <2>12 DEF SemFacts, TsleepResume, BoostTask
  <2>13. CASE SleepCtxDone(t)
    BY <1>0, <2>13 DEF SemFacts, SleepCtxDone, MustReap, Returns, ClearedBits, NoSnap
  <2>14. CASE SleepCtxAbort(t)
    BY <1>0, <2>14 DEF SemFacts, SleepCtxAbort, MustReap, ReapFlags
  <2>15. CASE WaitIOTakes(t)
    <3>1. UNCHANGED <<queue, wchan, cur>>
      BY <2>15 DEF WaitIOTakes
    <3> QED BY <3>1
  <2>16. CASE WaitIOBlocks(t)
    BY <1>0, <2>16 DEF SemFacts, WaitIOBlocks
  <2>17. CASE WaitIOSignalled(t)
    BY <1>0, <2>17, SMTT(30) DEF SemFacts, WaitIOSignalled
  <2> QED BY <1>1, <2>1, <2>2, <2>3, <2>4, <2>5, <2>6, <2>7, <2>8, <2>9, <2>10, <2>11, <2>12, <2>13, <2>14, <2>15, <2>16, <2>17 DEF SleepStep
<1>2. ASSUME NEW t \in Tasks, CallerStep(t) PROVE QueueConsistent'
  <2>1. CASE ObtainSyscallSemaphore(t)
    BY <1>0, <2>1, SMTT(30) DEF SemFacts, ObtainSyscallSemaphore
  <2>2. CASE ReleaseSyscallSemaphore(t)
    BY <1>0, <2>2 DEF SemFacts, ReleaseSyscallSemaphore
  <2>3. CASE SleepCtxFails(t)
    BY <1>0, <2>3 DEF SemFacts, SleepCtxFails, NoSignalBit
  <2>4. CASE SeesInterrupt(t)
    BY <1>0, <2>4 DEF SemFacts, SeesInterrupt
  <2>5. CASE \E c \in Chans, timed \in BOOLEAN : SleepCtxInit(t, c, timed)
    BY <1>0, <2>5 DEF SemFacts, SleepCtxInit, Requests, ClearedBits
  <2> QED BY <1>2, <2>1, <2>2, <2>3, <2>4, <2>5 DEF CallerStep
<1>3. ASSUME NEW x \in Agents, WakeStep(x) PROVE QueueConsistent'
  <2>1. CASE \E s \in Tasks : WakeupMark(x, s)
    BY <1>0, <2>1 DEF SemFacts, WakeupMark, Matches
  <2>2. CASE WakeupSignal(x)
    BY <1>0, <2>2, SMTT(30) DEF SemFacts, WakeupSignal, WakeMask
  <2>3. CASE WakeupEnd(x)
    BY <1>0, <2>3, SMTT(30) DEF SemFacts, WakeupEnd
  <2> QED BY <1>3, <2>1, <2>2, <2>3 DEF WakeStep
<1>4. ASSUME NEW x \in Agents, AgentStep(x) PROVE QueueConsistent'
  <2>1. CASE Splnet(x)
    BY <1>0, <2>1, SMTT(30) DEF SemFacts, Splnet
  <2>2. CASE Splx(x)
    BY <1>0, <2>2, SMTT(30) DEF SemFacts, Splx
  <2>3. CASE \E c \in Chans : WakeupStart(x, c)
    BY <1>0, <2>3, SMTT(30) DEF SemFacts, WakeupStart, Requests
  <2> QED BY <1>4, <2>1, <2>2, <2>3 DEF AgentStep
<1>5. ASSUME NEW t \in Tasks, TimerReply(t) \/ Interrupt(t) PROVE QueueConsistent'
  BY <1>5 DEF TimerReply, Interrupt
<1>6. CASE UNCHANGED vars
  BY <1>6 DEF vars
<1> QED BY <1>1, <1>2, <1>3, <1>4, <1>5, <1>6 DEF Next

\* Only the owner of syscall_semaphore writes the bookkeeping of a base.
LEMMA BoostInvStep == ASSUME IInv, [Next]_vars PROVE BoostInv'
<1> USE DEF IInv, TypeOK, BoostInv, LockInv, BoostFollowsCall, BoostPri,
           SysPCs, WakePCs, SleepPCs, SnapType, Agents
<1>0. SemFacts
  BY SemLemma
<1>1. ASSUME NEW t \in Tasks, SleepStep(t) PROVE BoostInv'
  <2>1. CASE EnterCall(t)
    BY <1>0, <2>1, SMTT(30) DEF SemFacts, EnterCall
  <2>2. CASE TsleepEnter(t)
    BY <1>0, <2>2 DEF SemFacts, TsleepEnter
  <2>3. CASE TsleepRelease(t)
    BY <1>0, <2>3 DEF SemFacts, TsleepRelease, ArmedFlags
  <2>4. CASE TsleepMainWoken(t)
    BY <1>0, <2>4 DEF SemFacts, TsleepMainWoken, AsksSyscall
  <2>5. CASE TsleepMainWaits(t)
    BY <1>0, <2>5 DEF SemFacts, TsleepMainWaits
  <2>6. CASE WaitReturns(t)
    BY <1>0, <2>6 DEF SemFacts, WaitReturns
  <2>7. CASE WokeIntr(t)
    BY <1>0, <2>7 DEF SemFacts, WokeIntr, PutBack, Breaks
  <2>8. CASE WokeUp(t)
    BY <1>0, <2>8 DEF SemFacts, WokeUp, AsksSyscall
  <2>9. CASE WokeTimer(t)
    BY <1>0, <2>9 DEF SemFacts, WokeTimer, Breaks
  <2>10. CASE TsleepUnlink(t)
    BY <1>0, <2>10 DEF SemFacts, TsleepUnlink, Unlink, AsksSyscall
  <2>11. CASE TsleepUnlinked(t)
    BY <1>0, <2>11 DEF SemFacts, TsleepUnlinked, AsksSyscall
  <2>12. CASE TsleepResume(t)
    BY <1>0, <2>12 DEF SemFacts, TsleepResume, BoostTask
  <2>13. CASE SleepCtxDone(t)
    BY <1>0, <2>13 DEF SemFacts, SleepCtxDone, MustReap, Returns, ClearedBits, NoSnap
  <2>14. CASE SleepCtxAbort(t)
    BY <1>0, <2>14 DEF SemFacts, SleepCtxAbort, MustReap, ReapFlags
  <2>15. CASE WaitIOTakes(t)
    BY <1>0, <2>15 DEF SemFacts, WaitIOTakes, Returns, ClearedBits, NoSnap
  <2>16. CASE WaitIOBlocks(t)
    BY <1>0, <2>16 DEF SemFacts, WaitIOBlocks
  <2>17. CASE WaitIOSignalled(t)
    BY <1>0, <2>17 DEF SemFacts, WaitIOSignalled
  <2> QED BY <1>1, <2>1, <2>2, <2>3, <2>4, <2>5, <2>6, <2>7, <2>8, <2>9, <2>10, <2>11, <2>12, <2>13, <2>14, <2>15, <2>16, <2>17 DEF SleepStep
<1>2. ASSUME NEW t \in Tasks, CallerStep(t) PROVE BoostInv'
  <2>1. CASE ObtainSyscallSemaphore(t)
    BY <1>0, <2>1 DEF SemFacts, ObtainSyscallSemaphore
  <2>2. CASE ReleaseSyscallSemaphore(t)
    BY <1>0, <2>2 DEF SemFacts, ReleaseSyscallSemaphore
  <2>3. CASE SleepCtxFails(t)
    BY <1>0, <2>3 DEF SemFacts, SleepCtxFails, NoSignalBit
  <2>4. CASE SeesInterrupt(t)
    BY <1>0, <2>4 DEF SemFacts, SeesInterrupt
  <2>5. CASE \E c \in Chans, timed \in BOOLEAN : SleepCtxInit(t, c, timed)
    BY <1>0, <2>5 DEF SemFacts, SleepCtxInit, Requests, ClearedBits
  <2> QED BY <1>2, <2>1, <2>2, <2>3, <2>4, <2>5 DEF CallerStep
<1>3. ASSUME NEW x \in Agents, WakeStep(x) PROVE BoostInv'
  <2>1. CASE \E s \in Tasks : WakeupMark(x, s)
    BY <1>0, <2>1 DEF SemFacts, WakeupMark, Matches
  <2>2. CASE WakeupSignal(x)
    BY <1>0, <2>2 DEF SemFacts, WakeupSignal, WakeMask
  <2>3. CASE WakeupEnd(x)
    BY <1>0, <2>3 DEF SemFacts, WakeupEnd
  <2> QED BY <1>3, <2>1, <2>2, <2>3 DEF WakeStep
<1>4. ASSUME NEW x \in Agents, AgentStep(x) PROVE BoostInv'
  <2>1. CASE Splnet(x)
    BY <1>0, <2>1 DEF SemFacts, Splnet
  <2>2. CASE Splx(x)
    BY <1>0, <2>2 DEF SemFacts, Splx
  <2>3. CASE \E c \in Chans : WakeupStart(x, c)
    BY <1>0, <2>3 DEF SemFacts, WakeupStart, Requests
  <2> QED BY <1>4, <2>1, <2>2, <2>3 DEF AgentStep
<1>5. ASSUME NEW t \in Tasks, TimerReply(t) \/ Interrupt(t) PROVE BoostInv'
  BY <1>5 DEF TimerReply, Interrupt
<1>6. CASE UNCHANGED vars
  BY <1>6 DEF vars
<1> QED BY <1>1, <1>2, <1>3, <1>4, <1>5, <1>6 DEF Next

\* Every SetTaskPri acts on the task that makes the call.
LEMMA BoostStep == ASSUME IInv, [Next]_vars PROVE BoostFollowsCall'
<1> USE DEF IInv, TypeOK, BoostFollowsCall, LockInv, BoostInv, BoostPri,
           SysPCs, WakePCs, SleepPCs, SnapType, Agents
<1>0. SemFacts
  BY SemLemma
<1>1. ASSUME NEW t \in Tasks, SleepStep(t) PROVE BoostFollowsCall'
  <2>1. CASE EnterCall(t)
    <3>1. pc[t] = "getsys"
      BY <2>1 DEF EnterCall
    <3>2. pri[t] = OwnPri[t]
      BY <3>1
    <3>3. pri' = [pri EXCEPT ![t] = IF pri[t] > NetPri THEN pri[t] ELSE NetPri]
      BY <2>1, Zenon DEF EnterCall
    <3>4. pc' = [pc EXCEPT ![t] = "run"]
      BY <2>1, Zenon DEF EnterCall
    <3>a. pri'[t] = IF OwnPri[t] > NetPri THEN OwnPri[t] ELSE NetPri
      BY <3>2, <3>3
    <3>b. OwnPri[t] \in Int /\ NetPri \in Int
      OBVIOUS
    <3>5. pri'[t] = BoostPri(t)
      BY <3>a, <3>b, BoostIsMax
    <3>6. \A u \in Tasks : u # t => pri'[u] = pri[u] /\ pc'[u] = pc[u]
      BY <3>3, <3>4
    <3>7. pc'[t] \in SysPCs
      BY <3>4
    <3> QED BY <3>5, <3>6, <3>7
  <2>2. CASE TsleepEnter(t)
    BY <1>0, <2>2 DEF SemFacts, TsleepEnter
  <2>3. CASE TsleepRelease(t)
    BY <1>0, <2>3 DEF SemFacts, TsleepRelease, ArmedFlags
  <2>4. CASE TsleepMainWoken(t)
    BY <1>0, <2>4 DEF SemFacts, TsleepMainWoken, AsksSyscall
  <2>5. CASE TsleepMainWaits(t)
    BY <1>0, <2>5 DEF SemFacts, TsleepMainWaits
  <2>6. CASE WaitReturns(t)
    BY <1>0, <2>6 DEF SemFacts, WaitReturns
  <2>7. CASE WokeIntr(t)
    BY <1>0, <2>7 DEF SemFacts, WokeIntr, PutBack, Breaks
  <2>8. CASE WokeUp(t)
    BY <1>0, <2>8 DEF SemFacts, WokeUp, AsksSyscall
  <2>9. CASE WokeTimer(t)
    BY <1>0, <2>9 DEF SemFacts, WokeTimer, Breaks
  <2>10. CASE TsleepUnlink(t)
    BY <1>0, <2>10 DEF SemFacts, TsleepUnlink, Unlink, AsksSyscall
  <2>11. CASE TsleepUnlinked(t)
    BY <1>0, <2>11 DEF SemFacts, TsleepUnlinked, AsksSyscall
  <2>12. CASE TsleepResume(t)
    BY <1>0, <2>12 DEF SemFacts, TsleepResume, BoostTask
  <2>13. CASE SleepCtxDone(t)
    BY <1>0, <2>13 DEF SemFacts, SleepCtxDone, MustReap, Returns, ClearedBits, NoSnap
  <2>14. CASE SleepCtxAbort(t)
    BY <1>0, <2>14 DEF SemFacts, SleepCtxAbort, MustReap, ReapFlags
  <2>15. CASE WaitIOTakes(t)
    BY <1>0, <2>15 DEF SemFacts, WaitIOTakes, Returns, ClearedBits, NoSnap
  <2>16. CASE WaitIOBlocks(t)
    BY <1>0, <2>16 DEF SemFacts, WaitIOBlocks
  <2>17. CASE WaitIOSignalled(t)
    BY <1>0, <2>17 DEF SemFacts, WaitIOSignalled
  <2> QED BY <1>1, <2>1, <2>2, <2>3, <2>4, <2>5, <2>6, <2>7, <2>8, <2>9, <2>10, <2>11, <2>12, <2>13, <2>14, <2>15, <2>16, <2>17 DEF SleepStep
<1>2. ASSUME NEW t \in Tasks, CallerStep(t) PROVE BoostFollowsCall'
  <2>1. CASE ObtainSyscallSemaphore(t)
    BY <1>0, <2>1 DEF SemFacts, ObtainSyscallSemaphore
  <2>2. CASE ReleaseSyscallSemaphore(t)
    BY <1>0, <2>2 DEF SemFacts, ReleaseSyscallSemaphore
  <2>3. CASE SleepCtxFails(t)
    BY <1>0, <2>3 DEF SemFacts, SleepCtxFails, NoSignalBit
  <2>4. CASE SeesInterrupt(t)
    BY <1>0, <2>4 DEF SemFacts, SeesInterrupt
  <2>5. CASE \E c \in Chans, timed \in BOOLEAN : SleepCtxInit(t, c, timed)
    BY <1>0, <2>5 DEF SemFacts, SleepCtxInit, Requests, ClearedBits
  <2> QED BY <1>2, <2>1, <2>2, <2>3, <2>4, <2>5 DEF CallerStep
<1>3. ASSUME NEW x \in Agents, WakeStep(x) PROVE BoostFollowsCall'
  <2>1. CASE \E s \in Tasks : WakeupMark(x, s)
    BY <1>0, <2>1 DEF SemFacts, WakeupMark, Matches
  <2>2. CASE WakeupSignal(x)
    BY <1>0, <2>2 DEF SemFacts, WakeupSignal, WakeMask
  <2>3. CASE WakeupEnd(x)
    BY <1>0, <2>3 DEF SemFacts, WakeupEnd
  <2> QED BY <1>3, <2>1, <2>2, <2>3 DEF WakeStep
<1>4. ASSUME NEW x \in Agents, AgentStep(x) PROVE BoostFollowsCall'
  <2>1. CASE Splnet(x)
    BY <1>0, <2>1 DEF SemFacts, Splnet
  <2>2. CASE Splx(x)
    BY <1>0, <2>2 DEF SemFacts, Splx
  <2>3. CASE \E c \in Chans : WakeupStart(x, c)
    BY <1>0, <2>3 DEF SemFacts, WakeupStart, Requests
  <2> QED BY <1>4, <2>1, <2>2, <2>3 DEF AgentStep
<1>5. ASSUME NEW t \in Tasks, TimerReply(t) \/ Interrupt(t) PROVE BoostFollowsCall'
  BY <1>5 DEF TimerReply, Interrupt
<1>6. CASE UNCHANGED vars
  BY <1>6 DEF vars
<1> QED BY <1>1, <1>2, <1>3, <1>4, <1>5, <1>6 DEF Next

\* The invariant holds initially.
LEMMA InitIInv == Init => IInv
BY DEF Init, IInv, TypeOK, LockInv, FrameInv, MarkInv, QueueConsistent, Marked,
       BoostInv, BoostFollowsCall, PCs, SysPCs, FramePCs, WakePCs, SleepPCs,
       SigBits, Results, SnapType, NoSnap, SemType, FreeSem, Agents

\* Every step keeps it.
LEMMA NextIInv == IInv /\ [Next]_vars => IInv'
BY TypeStep, LockStep, FrameStep, MarkStep, QueueStep, BoostInvStep, BoostStep
   DEF IInv

\* IInv is an invariant of the sleep/wakeup machinery.
THEOREM SpecIInv == Spec => []IInv
BY InitIInv, NextIInv, PTL DEF Spec

\* Every variable of kern_synch keeps its type in every run.
THEOREM SpecTypeOK == Spec => []TypeOK
<1>1. IInv => TypeOK
  BY DEF IInv
<1> QED BY <1>1, SpecIInv, PTL

\* A context is in the bucket of its channel exactly while sc_wchan is set
\* (tsleep_enter, tsleep_main and wakeup), whatever the interleaving.
THEOREM SpecQueueConsistent == Spec => []QueueConsistent
<1>1. IInv => QueueConsistent
  BY DEF IInv
<1> QED BY <1>1, SpecIInv, PTL

\* No wakener and no timer reply ever reaches a stack frame that is gone.
THEOREM SpecNoDeadFrame == Spec => []NoDeadFrame
<1>1. IInv => NoDeadFrame
  <2>1. ASSUME IInv, NEW t \in Tasks, Marked(t) PROVE live[t]
    BY <2>1 DEF IInv, FrameInv, MarkInv, Marked, SleepPCs, FramePCs, Agents
  <2>2. ASSUME IInv, NEW t \in Tasks, timer[t] # "none" PROVE live[t]
    BY <2>2 DEF IInv, FrameInv, SleepPCs, FramePCs
  <2>3. ASSUME IInv, NEW t \in Tasks, ~Marked(t),
               NEW b \in Buckets, t \in queue[b]
        PROVE  live[t]
    BY <2>3 DEF IInv, FrameInv, QueueConsistent, FramePCs
  <2> QED BY <2>1, <2>2, <2>3 DEF NoDeadFrame
<1> QED BY <1>1, SpecIInv, PTL

\* The priority boost of a call is never left behind and never lands on a
\* task that shares the base.
THEOREM SpecBoostFollowsCall == Spec => []BoostFollowsCall
<1>1. IInv => BoostFollowsCall
  BY DEF IInv
<1> QED BY <1>1, SpecIInv, PTL

-----------------------------------------------------------------------------
(* What is pending reaches the sleeper.                                    *)

\* A task that is about to wait, or waits, with a time-out has its request
\* out on a port that signals, or the bit is up; and one that was woken has
\* the bit up or a wakener that is about to raise it.
DeliverInv ==
  \A t \in Tasks :
    /\ pc[t] = "wait" /\ wchan[t] = NoChan => "sleep" \in sig[t] \/ Marked(t)
    /\ pc[t] \in {"main", "wait"} /\ timo[t] =>
         /\ portsig[t]
         /\ timer[t] = "out" \/ "sleep" \in sig[t]

\* The bit is only taken down where the task is not, and a wakener clears
\* sc_wchan and raises the bit of the same task.
LEMMA DeliverStep == ASSUME IInv, DeliverInv, [Next]_vars PROVE DeliverInv'
<1> USE DEF IInv, TypeOK, DeliverInv, MarkInv, FrameInv, LockInv, Marked, SysPCs, WakePCs, SleepPCs, FramePCs, Agents
<1>1. ASSUME NEW t \in Tasks, SleepStep(t) PROVE DeliverInv'
  <2>1. CASE EnterCall(t)
    BY <2>1 DEF EnterCall
  <2>2. CASE TsleepEnter(t)
    BY <2>2 DEF TsleepEnter
  <2>3. CASE TsleepRelease(t)
    BY <2>3 DEF TsleepRelease, ArmedFlags
  <2>4. CASE TsleepMainWoken(t)
    BY <2>4 DEF TsleepMainWoken, AsksSyscall
  <2>5. CASE TsleepMainWaits(t)
    BY <2>5 DEF TsleepMainWaits
  <2>6. CASE WaitReturns(t)
    BY <2>6 DEF WaitReturns
  <2>7. CASE WokeIntr(t)
    BY <2>7 DEF WokeIntr, PutBack, Breaks
  <2>8. CASE WokeUp(t)
    BY <2>8 DEF WokeUp, AsksSyscall
  <2>9. CASE WokeTimer(t)
    BY <2>9 DEF WokeTimer, Breaks
  <2>10. CASE TsleepUnlink(t)
    BY <2>10 DEF TsleepUnlink, Unlink, AsksSyscall
  <2>11. CASE TsleepUnlinked(t)
    BY <2>11 DEF TsleepUnlinked, AsksSyscall
  <2>12. CASE TsleepResume(t)
    BY <2>12 DEF TsleepResume, BoostTask
  <2>13. CASE SleepCtxDone(t)
    BY <2>13 DEF SleepCtxDone, MustReap, Returns, ClearedBits, NoSnap
  <2>14. CASE SleepCtxAbort(t)
    BY <2>14 DEF SleepCtxAbort, MustReap, ReapFlags
  <2>15. CASE WaitIOTakes(t)
    BY <2>15 DEF WaitIOTakes, Returns, ClearedBits, NoSnap
  <2>16. CASE WaitIOBlocks(t)
    BY <2>16 DEF WaitIOBlocks
  <2>17. CASE WaitIOSignalled(t)
    BY <2>17 DEF WaitIOSignalled
  <2> QED BY <1>1, <2>1, <2>2, <2>3, <2>4, <2>5, <2>6, <2>7, <2>8, <2>9, <2>10, <2>11, <2>12, <2>13, <2>14, <2>15, <2>16, <2>17 DEF SleepStep
<1>2. ASSUME NEW t \in Tasks, CallerStep(t) PROVE DeliverInv'
  <2>1. CASE ObtainSyscallSemaphore(t)
    BY <2>1 DEF ObtainSyscallSemaphore
  <2>2. CASE ReleaseSyscallSemaphore(t)
    BY <2>2 DEF ReleaseSyscallSemaphore
  <2>3. CASE SleepCtxFails(t)
    BY <2>3 DEF SleepCtxFails, NoSignalBit
  <2>4. CASE SeesInterrupt(t)
    BY <2>4 DEF SeesInterrupt
  <2>5. CASE \E c \in Chans, timed \in BOOLEAN : SleepCtxInit(t, c, timed)
    BY <2>5 DEF SleepCtxInit, Requests, ClearedBits
  <2> QED BY <1>2, <2>1, <2>2, <2>3, <2>4, <2>5 DEF CallerStep
<1>3. ASSUME NEW x \in Agents, WakeStep(x) PROVE DeliverInv'
  <2>1. CASE \E s \in Tasks : WakeupMark(x, s)
    BY <2>1 DEF WakeupMark, Matches
  <2>2. CASE WakeupSignal(x)
    BY <2>2 DEF WakeupSignal, WakeMask
  <2>3. CASE WakeupEnd(x)
    BY <2>3 DEF WakeupEnd
  <2> QED BY <1>3, <2>1, <2>2, <2>3 DEF WakeStep
<1>4. ASSUME NEW x \in Agents, AgentStep(x) PROVE DeliverInv'
  <2>1. CASE Splnet(x)
    BY <2>1 DEF Splnet
  <2>2. CASE Splx(x)
    BY <2>2 DEF Splx
  <2>3. CASE \E c \in Chans : WakeupStart(x, c)
    BY <2>3 DEF WakeupStart, Requests
  <2> QED BY <1>4, <2>1, <2>2, <2>3 DEF AgentStep
<1>5. ASSUME NEW t \in Tasks, TimerReply(t) \/ Interrupt(t) PROVE DeliverInv'
  <2>1. CASE TimerReply(t)
    BY <2>1 DEF TimerReply
  <2>2. CASE Interrupt(t)
    BY <2>2 DEF Interrupt
  <2> QED BY <1>5, <2>1, <2>2
<1>6. CASE UNCHANGED vars
  BY <1>6 DEF vars
<1> QED BY <1>1, <1>2, <1>3, <1>4, <1>5, <1>6 DEF Next

\* Neither end of a sleep is ever lost on its way to the task blocked in
\* Wait(): not a wakeup1 that crosses tsleep_main, not the reply of the timer.
THEOREM SpecDelivered == Spec => []Delivered
<1>1. Init => DeliverInv
  BY DEF Init, DeliverInv, Agents
<1>2. IInv /\ DeliverInv /\ [Next]_vars => DeliverInv'
  BY DeliverStep
<1>3. DeliverInv => Delivered
  BY DEF DeliverInv, Delivered, WakeupDelivered, TimeoutDelivered
<1> QED BY <1>1, <1>2, <1>3, SpecIInv, PTL DEF Spec

\* An interrupt that has been raised and not yet shown to the program.
Pending(t) == "intr" \in sig[t] \/ (pc[t] = "woke" /\ "intr" \in bmask[t])

\* Wait() moves it from the task to tsleep_main, which puts it back.
LEMMA InterruptStep == ASSUME IInv, [Next]_vars, NEW i \in Tasks, Pending(i), pc[i] # "user" PROVE Pending(i)'
<1> USE DEF IInv, TypeOK, LockInv, MarkInv, Pending, SigBits, SysPCs, WakePCs, SleepPCs, Agents
<1>1. ASSUME NEW t \in Tasks, SleepStep(t) PROVE Pending(i)'
  <2>1. CASE EnterCall(t)
    BY <2>1 DEF EnterCall
  <2>2. CASE TsleepEnter(t)
    BY <2>2 DEF TsleepEnter
  <2>3. CASE TsleepRelease(t)
    BY <2>3 DEF TsleepRelease, ArmedFlags
  <2>4. CASE TsleepMainWoken(t)
    BY <2>4 DEF TsleepMainWoken, AsksSyscall
  <2>5. CASE TsleepMainWaits(t)
    BY <2>5 DEF TsleepMainWaits
  <2>6. CASE WaitReturns(t)
    BY <2>6 DEF WaitReturns
  <2>7. CASE WokeIntr(t)
    BY <2>7 DEF WokeIntr, PutBack, Breaks
  <2>8. CASE WokeUp(t)
    BY <2>8 DEF WokeUp, AsksSyscall
  <2>9. CASE WokeTimer(t)
    BY <2>9 DEF WokeTimer, Breaks
  <2>10. CASE TsleepUnlink(t)
    BY <2>10 DEF TsleepUnlink, Unlink, AsksSyscall
  <2>11. CASE TsleepUnlinked(t)
    BY <2>11 DEF TsleepUnlinked, AsksSyscall
  <2>12. CASE TsleepResume(t)
    BY <2>12 DEF TsleepResume, BoostTask
  <2>13. CASE SleepCtxDone(t)
    BY <2>13 DEF SleepCtxDone, MustReap, Returns, ClearedBits, NoSnap
  <2>14. CASE SleepCtxAbort(t)
    BY <2>14 DEF SleepCtxAbort, MustReap, ReapFlags
  <2>15. CASE WaitIOTakes(t)
    BY <2>15 DEF WaitIOTakes, Returns, ClearedBits, NoSnap
  <2>16. CASE WaitIOBlocks(t)
    BY <2>16 DEF WaitIOBlocks
  <2>17. CASE WaitIOSignalled(t)
    BY <2>17 DEF WaitIOSignalled
  <2> QED BY <1>1, <2>1, <2>2, <2>3, <2>4, <2>5, <2>6, <2>7, <2>8, <2>9, <2>10, <2>11, <2>12, <2>13, <2>14, <2>15, <2>16, <2>17 DEF SleepStep
<1>2. ASSUME NEW t \in Tasks, CallerStep(t) PROVE Pending(i)'
  <2>1. CASE ObtainSyscallSemaphore(t)
    BY <2>1 DEF ObtainSyscallSemaphore
  <2>2. CASE ReleaseSyscallSemaphore(t)
    BY <2>2 DEF ReleaseSyscallSemaphore
  <2>3. CASE SleepCtxFails(t)
    BY <2>3 DEF SleepCtxFails, NoSignalBit
  <2>4. CASE SeesInterrupt(t)
    BY <2>4 DEF SeesInterrupt
  <2>5. CASE \E c \in Chans, timed \in BOOLEAN : SleepCtxInit(t, c, timed)
    BY <2>5 DEF SleepCtxInit, Requests, ClearedBits
  <2> QED BY <1>2, <2>1, <2>2, <2>3, <2>4, <2>5 DEF CallerStep
<1>3. ASSUME NEW x \in Agents, WakeStep(x) PROVE Pending(i)'
  <2>1. CASE \E s \in Tasks : WakeupMark(x, s)
    BY <2>1 DEF WakeupMark, Matches
  <2>2. CASE WakeupSignal(x)
    BY <2>2 DEF WakeupSignal, WakeMask
  <2>3. CASE WakeupEnd(x)
    BY <2>3 DEF WakeupEnd
  <2> QED BY <1>3, <2>1, <2>2, <2>3 DEF WakeStep
<1>4. ASSUME NEW x \in Agents, AgentStep(x) PROVE Pending(i)'
  <2>1. CASE Splnet(x)
    BY <2>1 DEF Splnet
  <2>2. CASE Splx(x)
    BY <2>2 DEF Splx
  <2>3. CASE \E c \in Chans : WakeupStart(x, c)
    BY <2>3 DEF WakeupStart, Requests
  <2> QED BY <1>4, <2>1, <2>2, <2>3 DEF AgentStep
<1>5. ASSUME NEW t \in Tasks, TimerReply(t) \/ Interrupt(t) PROVE Pending(i)'
  BY <1>5, SMTT(30) DEF TimerReply, Interrupt
<1>6. CASE UNCHANGED vars
  BY <1>6 DEF vars
<1> QED BY <1>1, <1>2, <1>3, <1>4, <1>5, <1>6 DEF Next

\* tsleep never swallows an interrupt signal of the program.
THEOREM SpecInterruptKept == Spec => InterruptKept
<1>1. IInv /\ [Next]_vars =>
        [\A t \in Tasks :
           LET pending == "intr" \in sig[t] \/ (pc[t] = "woke" /\ "intr" \in bmask[t])
           IN pending /\ pc[t] # "user" => pending']_vars
  BY InterruptStep DEF Pending
<1> QED BY <1>1, SpecIInv, PTL DEF Spec, InterruptKept

\* sc_wchan is cleared by its own task or by a wakener of that channel.
LEMMA ChannelStep ==
  ASSUME IInv, [Next]_vars, NEW t \in Tasks, wchan[t] # NoChan, wchan'[t] = NoChan
  PROVE  pc[t] = "remove" \/ \E x \in Agents : cur'[x] = t /\ chan[x] = wchan[t]
<1>0. wchan \in [Tasks -> Chans \cup {NoChan}] /\ cur \in [Agents -> Tasks \cup {NoTask}]
  BY DEF IInv, TypeOK
<1>1. ASSUME NEW u \in Tasks, SleepStep(u) PROVE u = t /\ pc[t] = "remove"
  <2>1. CASE TsleepEnter(u)
    <3>1. chan[u] \in Chans /\ wchan' = [wchan EXCEPT ![u] = chan[u]]
      BY <2>1 DEF TsleepEnter, IInv, MarkInv, Agents
    <3> QED BY <3>1, <1>0
  <2>2. CASE TsleepUnlink(u)
    <3>1. pc[u] = "remove" /\ wchan' = [wchan EXCEPT ![u] = NoChan]
      BY <2>2 DEF TsleepUnlink, Unlink
    <3> QED BY <3>1, <1>0
  <2>3. CASE ~TsleepEnter(u) /\ ~TsleepUnlink(u)
    <3>1. wchan' = wchan
      BY <1>1, <2>3 DEF SleepStep, EnterCall, TsleepRelease, TsleepMainWoken,
         TsleepMainWaits, WaitReturns, WokeIntr, WokeUp, WokeTimer, TsleepUnlinked,
         TsleepResume, SleepCtxDone, SleepCtxAbort, WaitIOTakes, WaitIOBlocks,
         WaitIOSignalled
    <3> QED BY <3>1
  <2> QED BY <2>1, <2>2, <2>3
<1>2. ASSUME NEW u \in Tasks, CallerStep(u) PROVE FALSE
  <2>1. CASE \E c \in Chans, timed \in BOOLEAN : SleepCtxInit(u, c, timed)
    <3>1. pc[u] = "run" /\ wchan' = [wchan EXCEPT ![u] = NoChan]
      BY <2>1 DEF SleepCtxInit
    <3>2. wchan[u] = NoChan
      BY <3>1 DEF IInv, FrameInv
    <3> QED BY <3>1, <3>2, <1>0
  <2>2. CASE ~\E c \in Chans, timed \in BOOLEAN : SleepCtxInit(u, c, timed)
    <3>1. wchan' = wchan
      BY <1>2, <2>2 DEF CallerStep, ObtainSyscallSemaphore, ReleaseSyscallSemaphore,
         SleepCtxFails, SeesInterrupt
    <3> QED BY <3>1
  <2> QED BY <2>1, <2>2
<1>3. ASSUME NEW x \in Agents, WakeStep(x) PROVE cur'[x] = t /\ chan[x] = wchan[t]
  <2>1. CASE WakeupSignal(x) \/ WakeupEnd(x)
    BY <2>1 DEF WakeupSignal, WakeupEnd
  <2>2. CASE \E s \in Tasks : WakeupMark(x, s)
    <3>1. PICK s \in Tasks : WakeupMark(x, s)
      BY <2>2
    <3>2. /\ wchan[s] = chan[x] /\ wchan' = [wchan EXCEPT ![s] = NoChan]
          /\ cur' = [cur EXCEPT ![x] = s]
      BY <3>1 DEF WakeupMark, Matches
    <3> QED BY <3>2, <1>0
  <2> QED BY <1>3, <2>1, <2>2 DEF WakeStep
<1>4. ASSUME NEW x \in Agents, AgentStep(x) PROVE FALSE
  BY <1>4 DEF AgentStep, Splnet, Splx, WakeupStart
<1>5. ASSUME NEW u \in Tasks, TimerReply(u) \/ Interrupt(u) PROVE FALSE
  BY <1>5 DEF TimerReply, Interrupt
<1>6. CASE UNCHANGED vars
  BY <1>6 DEF vars
<1> QED BY <1>1, <1>2, <1>3, <1>4, <1>5, <1>6 DEF Next

\* wakeup() ends only sleeps on its own channel, although buckets are shared.
THEOREM SpecWakesOnlyItsChannel == Spec => WakesOnlyItsChannel
<1>1. IInv /\ [Next]_vars =>
        [\A t \in Tasks : wchan[t] # NoChan /\ wchan'[t] = NoChan =>
           pc[t] = "remove" \/ \E x \in Agents : cur'[x] = t /\ chan[x] = wchan[t]]_vars
  BY ChannelStep
<1> QED BY <1>1, SpecIInv, PTL DEF Spec, WakesOnlyItsChannel
=============================================================================
