--------------------------- MODULE SocketsProofs ---------------------------
(***************************************************************************)
(* What is proved of SockLife: what calls that slept do to the descriptor  *)
(* tables, then descriptors, references and the lives of sockets.          *)
(***************************************************************************)
EXTENDS SockLife, WellFoundedInduction, SequenceTheorems, FiniteSetTheorems, TLAPS

-----------------------------------------------------------------------------
(***************************************************************************)
(* ReturnKeepsDescriptors, proved for any number of tasks, bases, sockets  *)
(* and descriptors and whatever calls and resource failures are switched   *)
(* on: accept, Dup2Socket and the closes that sleep write, when they come  *)
(* back, only a descriptor that is free at that moment.                    *)
(*                                                                         *)
(* The invariant it rests on ties the two halves of a descriptor together: *)
(* a slot of the table that names a socket is marked in the bitmask, so    *)
(* that what sdFind and Dup2Socket's second look find free is free.        *)
(***************************************************************************)

TableTypes == /\ DOMAIN dTable = Bases /\ DOMAIN used = Bases /\ DOMAIN call = Tasks
              /\ \A b \in Bases : DOMAIN dTable[b] = Fds

SlotsMarked == \A b \in Bases, fd \in Fds : dTable[b][fd] # NoSock => fd \in used[b]

\* A Dup2Socket asleep in its close remembers a descriptor of the table.
DupTargets == \A t \in Tasks : call[t].op = "dup" => call[t].fd \in Fds

\* The inductive invariant.
TableInv == TableTypes /\ SlotsMarked /\ DupTargets

\* What a step may do to the tables and to the calls.
TablesKept == \A b \in Bases, fd \in Fds :
                dTable[b][fd] # NoSock => dTable'[b][fd] = dTable[b][fd]
NobodyReturns == \A t \in Tasks : call[t].op # "none" => call'[t].op # "none"
\* Nobody's call goes on: they are as they were, or a task begins one.
CallsKept ==
  \/ call' = call
  \/ \E t \in Tasks :
       /\ call[t].op = "none"
       /\ \E c : call' = [call EXCEPT ![t] = c] /\ (c.op = "dup" => c.fd \in Fds)

\* The ways a step changes the tables.
SlotFilled == \E b \in Bases : \E fd \in FreeFds(b) : \E s : SetFd(b, fd, s)
SlotCleared == \E b \in Bases, fd \in Fds : ClearFd(b, fd)
SlotReserved == \E b \in Bases, fd \in Fds :
                  dTable' = dTable /\ used' = [used EXCEPT ![b] = @ \cup {fd}]

USE HomeAssumption, BoundAssumption

-----------------------------------------------------------------------------
(* Steps of the tables.                                                    *)

\* sdFind returns a free descriptor when there is one.
LEMMA SdFindFree ==
  ASSUME NEW b, FreeFds(b) # {}
  PROVE  SdFind(b) \in FreeFds(b)
<1>1. FreeFds(b) \subseteq Nat
  BY DEF FreeFds, Fds
<1>2. PICK x \in FreeFds(b) : \A y \in FreeFds(b) : <<y, x>> \notin OpToRel(<, Nat)
  BY <1>1, NatLessThanWellFounded, WFMin, Zenon
<1>3. \A y \in FreeFds(b) : ~(y < x)
  BY <1>1, <1>2, Zenon DEF OpToRel
<1>4. \A y \in FreeFds(b) : x <= y
  BY <1>1, <1>3
<1> QED BY <1>4 DEF SdFind

\* Filling a free slot disturbs no other; clearing and reserving keep the
\* halves together.
LEMMA FilledStep ==
  ASSUME TableInv, SlotFilled
  PROVE  /\ TablesKept /\ SlotsMarked'
         /\ DOMAIN dTable' = Bases /\ DOMAIN used' = Bases
         /\ \A b \in Bases : DOMAIN dTable'[b] = Fds
<1>1. PICK b \in Bases : \E fd \in FreeFds(b) : \E s : SetFd(b, fd, s)
  BY DEF SlotFilled
<1>a. PICK fd \in FreeFds(b) : \E s : SetFd(b, fd, s)
  BY <1>1
<1>b. PICK s : SetFd(b, fd, s)
  BY <1>a
<1>2. /\ fd \in Fds /\ dTable[b][fd] = NoSock
      /\ dTable' = [dTable EXCEPT ![b][fd] = s]
      /\ used' = [used EXCEPT ![b] = @ \cup {fd}]
  BY <1>b DEF SetFd, FreeFds, TableInv, SlotsMarked
<1> QED BY <1>2 DEF TablesKept, TableInv, TableTypes, SlotsMarked

LEMMA ClearedStep ==
  ASSUME TableInv, SlotCleared
  PROVE  /\ SlotsMarked'
         /\ DOMAIN dTable' = Bases /\ DOMAIN used' = Bases
         /\ \A b \in Bases : DOMAIN dTable'[b] = Fds
<1>1. PICK b \in Bases, fd \in Fds : ClearFd(b, fd)
  BY DEF SlotCleared
<1> QED BY <1>1 DEF ClearFd, TableInv, TableTypes, SlotsMarked

LEMMA ReservedStep ==
  ASSUME TableInv, SlotReserved
  PROVE  /\ TablesKept /\ SlotsMarked'
         /\ DOMAIN dTable' = Bases /\ DOMAIN used' = Bases
         /\ \A b \in Bases : DOMAIN dTable'[b] = Fds
  BY DEF SlotReserved, TablesKept, TableInv, TableTypes, SlotsMarked

LEMMA UnchangedStep ==
  ASSUME TableInv, dTable' = dTable, used' = used
  PROVE  /\ TablesKept /\ SlotsMarked'
         /\ DOMAIN dTable' = Bases /\ DOMAIN used' = Bases
         /\ \A b \in Bases : DOMAIN dTable'[b] = Fds
  BY DEF TablesKept, TableInv, TableTypes, SlotsMarked

\* What the tables may do in a step that ends a call, and in any other.
TablesGrow == SlotFilled \/ SlotReserved \/ (dTable' = dTable /\ used' = used)
TablesSafe == /\ SlotsMarked' /\ DOMAIN dTable' = Bases /\ DOMAIN used' = Bases
              /\ \A b \in Bases : DOMAIN dTable'[b] = Fds

LEMMA GrowKeeps ==
  ASSUME TableInv, TablesGrow
  PROVE  TablesKept /\ TablesSafe
  BY FilledStep, ReservedStep, UnchangedStep DEF TablesGrow, TablesSafe

\* A step that begins or continues calls lets nobody return.
LEMMA KeptCalls ==
  ASSUME TableInv, CallsKept
  PROVE  NobodyReturns /\ DOMAIN call' = Tasks /\ DupTargets'
<1>1. CASE call' = call
  BY <1>1 DEF NobodyReturns, TableInv, TableTypes, DupTargets
<1>2. ASSUME NEW t \in Tasks, call[t].op = "none", NEW c, call' = [call EXCEPT ![t] = c],
             c.op = "dup" => c.fd \in Fds
      PROVE  NobodyReturns /\ DOMAIN call' = Tasks /\ DupTargets'
  <2>1. DOMAIN call' = Tasks /\ call'[t] = c /\ \A u \in Tasks : u # t => call'[u] = call[u]
    BY <1>2 DEF TableInv, TableTypes
  <2> QED BY <1>2, <2>1 DEF NobodyReturns, TableInv, DupTargets
<1>3. CASE call' # call
  <2>1. PICK t \in Tasks :
          /\ call[t].op = "none"
          /\ \E c : call' = [call EXCEPT ![t] = c] /\ (c.op = "dup" => c.fd \in Fds)
    BY <1>3 DEF CallsKept
  <2>2. PICK c : call' = [call EXCEPT ![t] = c] /\ (c.op = "dup" => c.fd \in Fds)
    BY <2>1
  <2> QED BY <1>2, <2>1, <2>2
<1> QED BY <1>1, <1>3

-----------------------------------------------------------------------------
(* The rest of accept, and of Dup2Socket after its close.                  *)

LEMMA AcceptTailGrows ==
  ASSUME NEW t \in Tasks, NEW s, AcceptTail(t, s)
  PROVE  TablesGrow /\ call' = [call EXCEPT ![t] = NoCall]
<1> DEFINE b == Home[t]
<1>1. b \in Bases
  OBVIOUS
<1>2. call' = [call EXCEPT ![t] = NoCall]
  BY DEF AcceptTail, Return
<1>3. CASE dTable' = dTable /\ used' = used
  BY <1>2, <1>3 DEF TablesGrow
<1>4. CASE FreeFds(b) # {} /\ TakeConnection(b, s, SdFind(b))
  <2>1. SetFd(b, SdFind(b), so[s].q[1])
    BY <1>4 DEF TakeConnection
  <2> QED BY <1>1, <1>2, <1>4, <2>1, SdFindFree DEF TablesGrow, SlotFilled
<1> QED BY <1>3, <1>4 DEF AcceptTail

\* Dup2Socket installs into a slot that is free on the second look.
LEMMA DupTailGrows ==
  ASSUME NEW b \in Bases, NEW S, NEW fd1, NEW s1, NEW fd2 \in Fds,
         DupTail(b, S, dTable, used, fd1, s1, fd2)
  PROVE  TablesGrow
<1>1. CASE ~DupStillValid(b, dTable, used, fd1, s1, fd2)
  BY <1>1 DEF DupTail, TablesGrow
<1>2. CASE DupStillValid(b, dTable, used, fd1, s1, fd2)
  <2>1. fd2 \in FreeFds(b)
    BY <1>2 DEF DupStillValid, FreeFds
  <2>2. DupInstall(b, S, dTable, used, s1, fd2)
    BY <1>2 DEF DupTail
  <2>3. CASE s1 = NoSock
    BY <2>2, <2>3 DEF DupInstall, TablesGrow, SlotReserved
  <2>4. CASE s1 # NoSock
    <3>1. SetFd(b, fd2, s1)
      BY <2>2, <2>4 DEF DupInstall, SetFd
    <3> QED BY <2>1, <3>1 DEF TablesGrow, SlotFilled
  <2> QED BY <2>3, <2>4
<1> QED BY <1>1, <1>2

-----------------------------------------------------------------------------
(* The steps of Next, in two groups: calls that begin or sleep on, and     *)
(* calls that return.                                                      *)

\* Going to sleep is no Dup2Socket with a bad target.
LEMMA SleepKeeps ==
  ASSUME NEW t \in Tasks, NEW op, NEW s, op # "dup", call[t].op = "none",
         Sleep(t, op, s)
  PROVE  CallsKept
<1> DEFINE c == [NoCall EXCEPT !.op = op, !.so = s]
<1>1. c.op = op
  BY DEF NoCall
<1>2. call' = [call EXCEPT ![t] = c]
  BY DEF Sleep
<1> HIDE DEF c
<1> QED BY <1>1, <1>2 DEF CallsKept

\* A close that sleeps: c is the call it came from.
LEMMA LingerKeeps ==
  ASSUME NEW t \in Tasks, NEW fd, NEW c, call[t].op = "none", DOMAIN c = DOMAIN NoCall,
         c.op = "dup" => c.fd \in Fds, LingerSleep(t, fd, c)
  PROVE  CallsKept
<1> DEFINE d == [c EXCEPT !.so = Sock(t, fd)]
<1>1. d.op = c.op /\ d.fd = c.fd
  BY DEF NoCall
<1>2. call' = [call EXCEPT ![t] = d]
  BY DEF LingerSleep
<1> HIDE DEF d
<1> QED BY <1>1, <1>2 DEF CallsKept

LEMMA CloseOneStep ==
  ASSUME TableInv, NEW t \in Tasks, NEW fd \in Fds, NEW op, NEW nbio,
         op # "dup", call[t].op = "none", CloseOne(t, fd, op, nbio)
  PROVE  TablesSafe /\ CallsKept
<1>1. SlotCleared
  BY DEF CloseOne, SlotCleared
<1>2. CASE call' = call
  BY <1>1, <1>2, ClearedStep DEF TablesSafe, CallsKept
<1>3. CASE LingerSleep(t, fd, [NoCall EXCEPT !.op = op])
  <2> DEFINE c == [NoCall EXCEPT !.op = op]
  <2>1. DOMAIN c = DOMAIN NoCall /\ c.op = op
    BY DEF NoCall
  <2>2. LingerSleep(t, fd, c)
    BY <1>3
  <2> HIDE DEF c
  <2> QED BY <1>1, <2>1, <2>2, ClearedStep, LingerKeeps DEF TablesSafe
<1> QED BY <1>2, <1>3 DEF CloseOne

\* Dup2Socket onto a descriptor in use: the slot is emptied, then it sleeps,
\* or installs into it.
LEMMA DupOverStep ==
  ASSUME TableInv, NEW t \in Tasks, NEW fd1 \in Fds \cup {NoFd}, NEW fd2 \in Fds, NEW nbio,
         DupOver(t, fd1, fd2, nbio)
  PROVE  TablesSafe /\ CallsKept
<1> DEFINE b == Home[t]
           s1 == SockOrNone(t, fd1)
           tab == [dTable EXCEPT ![b][fd2] = NoSock]
           usd == [used EXCEPT ![b] = @ \ {fd2}]
           S == ClosedNow(b, fd2)
           c == [NoCall EXCEPT !.op = "dup", !.fd = fd2, !.fd1 = fd1, !.so1 = s1]
<1>1. b \in Bases /\ call[t].op = "none"
  BY DEF DupOver, CanCall
<1>2. CASE LingerSleep(t, fd2, c) /\ dTable' = tab /\ used' = usd
  <2>1. SlotCleared
    BY <1>1, <1>2 DEF SlotCleared, ClearFd
  <2>2. DOMAIN c = DOMAIN NoCall /\ c.fd = fd2
    BY DEF NoCall
  <2> HIDE DEF c
  <2>3. CallsKept
    BY <1>1, <1>2, <2>2, LingerKeeps
  <2> QED BY <2>1, <2>3, ClearedStep DEF TablesSafe
<1>3. CASE call' = call /\ DupTail(b, S, tab, usd, fd1, s1, fd2)
  <2> HIDE DEF s1, S
  <2>1. CASE dTable' = tab /\ used' = usd
    <3>1. SlotCleared
      BY <1>1, <2>1 DEF SlotCleared, ClearFd
    <3> QED BY <1>3, <3>1, ClearedStep DEF TablesSafe, CallsKept
  <2>2. CASE DupInstall(b, S, tab, usd, s1, fd2)
    <3>1. /\ dTable' = IF s1 = NoSock THEN tab ELSE [tab EXCEPT ![b][fd2] = s1]
          /\ used' = [usd EXCEPT ![b] = @ \cup {fd2}]
      BY <2>2 DEF DupInstall
    <3>2. DOMAIN dTable' = Bases /\ DOMAIN used' = Bases
          /\ \A x \in Bases : DOMAIN dTable'[x] = Fds
      BY <3>1 DEF TableInv, TableTypes
    <3>3. ASSUME NEW x \in Bases, NEW fd \in Fds, dTable'[x][fd] # NoSock
          PROVE  fd \in used'[x]
      <4>1. CASE x = b /\ fd = fd2
        BY <3>1, <4>1 DEF TableInv, TableTypes
      <4>2. CASE ~(x = b /\ fd = fd2)
        <5>1. dTable'[x][fd] = dTable[x][fd] /\ (fd \in used[x] => fd \in used'[x])
          BY <3>1, <4>2 DEF TableInv, TableTypes
        <5> QED BY <3>3, <5>1 DEF TableInv, SlotsMarked
      <4> QED BY <4>1, <4>2
    <3> QED BY <1>3, <3>2, <3>3 DEF TablesSafe, SlotsMarked, CallsKept
  <2> QED BY <1>3, <2>1, <2>2 DEF DupTail
<1> QED BY <1>2, <1>3 DEF DupOver

\* The calls on one descriptor: none of them ends a call that slept.
LEMMA FdCallStep ==
  ASSUME TableInv, NEW t \in Tasks, NEW fd \in Fds,
         SetupCall(t, fd) \/ BlockingCall(t, fd) \/ DescriptorCall(t, fd)
  PROVE  TablesSafe /\ CallsKept
<1>0. Home[t] \in Bases
  OBVIOUS
<1>1. CASE SetupCall(t, fd)
  <2>1. UNCHANGED <<dTable, used, call>>
    BY <1>1 DEF SetupCall, Listen, SetLinger, SetOwner, ShutdownRcv, ShutdownSnd, tableVars
  <2> QED BY <2>1, UnchangedStep DEF TablesSafe, CallsKept
<1>2. CASE Accept(t, fd)
  <2>1. call[t].op = "none"
    BY <1>2 DEF Accept, CanCall
  <2>2. CASE Sleep(t, "accept", Sock(t, fd)) /\ UNCHANGED <<dTable, used>>
    BY <2>1, <2>2, SleepKeeps, UnchangedStep DEF TablesSafe
  <2>3. CASE AcceptTail(t, Sock(t, fd))
    <3>1. TablesGrow /\ call' = [call EXCEPT ![t] = NoCall]
      BY <2>3, AcceptTailGrows
    <3>2. NoCall.op = "none"
      BY DEF NoCall
    <3>3. CallsKept
      BY <2>1, <3>1, <3>2 DEF CallsKept
    <3> QED BY <3>1, <3>3, GrowKeeps
  <2> QED BY <1>2, <2>2, <2>3 DEF Accept
<1>3. CASE Recv(t, fd) \/ ConnectRefused(t, fd)
  <2>1. call[t].op = "none" /\ UNCHANGED <<dTable, used>>
    BY <1>3 DEF Recv, ConnectRefused, CanCall, tableVars
  <2>2. call' = call \/ Sleep(t, "recv", Sock(t, fd))
    BY <1>3 DEF Recv, ConnectRefused
  <2> QED BY <2>1, <2>2, SleepKeeps, UnchangedStep DEF TablesSafe, CallsKept
<1>4. ASSUME NEW nbio, Connect(t, fd, nbio) PROVE TablesSafe /\ CallsKept
  <2>1. call[t].op = "none" /\ UNCHANGED <<dTable, used>>
    BY <1>4 DEF Connect, CanCall, tableVars
  <2>2. call' = call \/ Sleep(t, "connect", Sock(t, fd))
    BY <1>4 DEF Connect
  <2> QED BY <2>1, <2>2, SleepKeeps, UnchangedStep DEF TablesSafe, CallsKept
<1>5. ASSUME NEW nbio, CloseSocket(t, fd, nbio) PROVE TablesSafe /\ CallsKept
  BY <1>5, CloseOneStep DEF CloseSocket, CanCall
<1>6. CASE CloseReserved(t, fd)
  <2>1. /\ dTable' = dTable /\ call' = call /\ dTable[Home[t]][fd] = NoSock
        /\ used' = [used EXCEPT ![Home[t]] = @ \ {fd}]
    BY <1>6 DEF CloseReserved, Sock
  <2>2. SlotsMarked'
    BY <2>1 DEF TableInv, TableTypes, SlotsMarked
  <2> QED BY <2>1, <2>2 DEF TablesSafe, CallsKept, TableInv, TableTypes
<1>7. ASSUME NEW fd1 \in Fds \cup {NoFd}, DupIntoFree(t, fd1, fd)
      PROVE  TablesSafe /\ CallsKept
  <2> DEFINE s1 == SockOrNone(t, fd1)
  <2>1. /\ call' = call
        /\ dTable' = IF s1 = NoSock THEN dTable ELSE [dTable EXCEPT ![Home[t]][fd] = s1]
        /\ used' = [used EXCEPT ![Home[t]] = @ \cup {fd}]
    BY <1>7 DEF DupIntoFree, DupInstall
  <2> HIDE DEF s1
  <2>2. SlotsMarked' /\ DOMAIN dTable' = Bases /\ DOMAIN used' = Bases
        /\ \A b \in Bases : DOMAIN dTable'[b] = Fds
    BY <2>1, <1>0 DEF TableInv, TableTypes, SlotsMarked
  <2> QED BY <2>1, <2>2 DEF TablesSafe, CallsKept
<1>8. ASSUME NEW fd1 \in Fds \cup {NoFd}, NEW nbio, DupOver(t, fd1, fd, nbio)
      PROVE  TablesSafe /\ CallsKept
  BY <1>8, DupOverStep
<1>9. ASSUME NEW id, ReleaseSocket(t, fd, id) PROVE TablesSafe /\ CallsKept
  <2>1. SlotCleared /\ call' = call
    BY <1>9, <1>0 DEF ReleaseSocket, SlotCleared
  <2> QED BY <2>1, ClearedStep DEF TablesSafe, CallsKept
<1>10. ASSUME NEW id, ReleaseCopyOfSocket(t, fd, id) PROVE TablesSafe /\ CallsKept
  <2>1. UNCHANGED <<dTable, used, call>>
    BY <1>10 DEF ReleaseCopyOfSocket
  <2> QED BY <2>1, UnchangedStep DEF TablesSafe, CallsKept
<1>11. CASE BlockingCall(t, fd)
  BY <1>2, <1>3, <1>4, <1>11 DEF BlockingCall
<1>12. CASE DescriptorCall(t, fd)
  BY <1>5, <1>6, <1>7, <1>8, <1>9, <1>10, <1>12 DEF DescriptorCall
<1> QED BY <1>1, <1>11, <1>12

\* A sleeper that comes back fills at most a free descriptor.
LEMMA ResumeStep ==
  ASSUME TableInv, NEW t \in Tasks, Resume(t)
  PROVE  TablesGrow /\ DOMAIN call' = Tasks /\ DupTargets'
<1>0. Home[t] \in Bases /\ NoCall.op = "none"
  BY DEF NoCall
<1>1. ASSUME call' = call \/ call' = [call EXCEPT ![t] = NoCall]
      PROVE  DOMAIN call' = Tasks /\ DupTargets'
  BY <1>0, <1>1 DEF TableInv, TableTypes, DupTargets
<1>2. CASE AcceptResume(t)
  <2>1. CASE UNCHANGED <<call, dTable, used>>
    BY <1>1, <2>1 DEF TablesGrow
  <2>2. CASE AcceptTail(t, call[t].so)
    BY <1>1, <2>2, AcceptTailGrows
  <2> QED BY <1>2, <2>1, <2>2 DEF AcceptResume
<1>3. CASE ConnectResume(t) \/ RecvResume(t) \/ Interrupted(t)
  <2>1. UNCHANGED <<dTable, used>>
    BY <1>3 DEF ConnectResume, RecvResume, Interrupted, tableVars
  <2>2. call' = call \/ call' = [call EXCEPT ![t] = NoCall]
    BY <1>3 DEF ConnectResume, RecvResume, Interrupted, Return
  <2> QED BY <1>1, <2>1, <2>2 DEF TablesGrow
<1>4. ASSUME LingerOver(t) PROVE TablesGrow /\ DOMAIN call' = Tasks /\ DupTargets'
  <2>1. call' = [call EXCEPT ![t] = NoCall]
    BY <1>4 DEF LingerOver, Return
  <2>2. CASE call[t].op = "dup"
    <3>1. call[t].fd \in Fds
      BY <2>2 DEF TableInv, DupTargets
    <3>2. DupTail(Home[t], CloseFinish(so, call[t].so), dTable, used,
                  call[t].fd1, call[t].so1, call[t].fd)
      BY <1>4, <2>2 DEF LingerOver
    <3> QED BY <1>0, <1>1, <2>1, <3>1, <3>2, DupTailGrows
  <2>3. CASE call[t].op # "dup"
    BY <1>1, <1>4, <2>1, <2>3 DEF LingerOver, TablesGrow
  <2> QED BY <2>2, <2>3
<1>5. CASE LingerResume(t) \/ LingerExpires(t)
  <2>1. CASE UNCHANGED <<dTable, used, call>>
    BY <1>1, <2>1 DEF TablesGrow
  <2>2. CASE LingerOver(t)
    BY <1>4, <2>2
  <2> QED BY <1>5, <2>1, <2>2 DEF LingerResume, LingerExpires
<1> QED BY <1>2, <1>3, <1>5 DEF Resume

\* The other library calls and the network begin or end no call on a descriptor.
LEMMA OtherStep ==
  ASSUME TableInv,
         \/ \E t \in Tasks : Socket(t) \/ LibraryCall(t)
         \/ \E t \in Tasks, id \in Ids : ObtainSocket(t, id)
         \/ Network
  PROVE  TablesSafe /\ CallsKept
<1>1. ASSUME NEW t \in Tasks, Socket(t) PROVE TablesSafe /\ CallsKept
  <2>1. call' = call /\ FreeFds(Home[t]) # {}
    BY <1>1 DEF Socket
  <2>2. UNCHANGED <<dTable, used>> \/ \E s : SetFd(Home[t], SdFind(Home[t]), s)
    BY <1>1 DEF Socket
  <2>3. TablesGrow
    BY <2>1, <2>2, SdFindFree DEF TablesGrow, SlotFilled
  <2> QED BY <2>1, <2>3, GrowKeeps DEF CallsKept
<1>2. ASSUME NEW t \in Tasks, NEW id, ObtainSocket(t, id) PROVE TablesSafe /\ CallsKept
  <2>1. call' = call /\ FreeFds(Home[t]) # {}
    BY <1>2 DEF ObtainSocket
  <2>2. \E s : SetFd(Home[t], SdFind(Home[t]), s)
    BY <1>2 DEF ObtainSocket
  <2>3. TablesGrow
    BY <2>1, <2>2, SdFindFree DEF TablesGrow, SlotFilled
  <2> QED BY <2>1, <2>3, GrowKeeps DEF CallsKept
<1>3. ASSUME NEW t \in Tasks, CloseLibrary(t) \/ CloseLibraryFree(t)
      PROVE  TablesSafe /\ CallsKept
  <2>1. UNCHANGED <<dTable, used, call>>
    BY <1>3 DEF CloseLibrary, CloseLibraryFree, tableVars
  <2> QED BY <2>1, UnchangedStep DEF TablesSafe, CallsKept
<1>4. ASSUME NEW t \in Tasks, NEW fd \in Fds, NEW nbio, CloseLibrarySweep(t, fd, nbio)
      PROVE  TablesSafe /\ CallsKept
  BY <1>4, CloseOneStep DEF CloseLibrarySweep, Closing
<1>5. CASE Network
  <2>1. UNCHANGED <<dTable, used, call>>
    BY <1>5 DEF Network, NewConn, Established, DataArrives, PeerFin, FinAcked,
       ConnectionGone, NetShutdown, Reap, tableVars
  <2> QED BY <2>1, UnchangedStep DEF TablesSafe, CallsKept
<1> QED BY <1>1, <1>2, <1>3, <1>4, <1>5 DEF LibraryCall

-----------------------------------------------------------------------------
LEMMA InitInv == Init => TableInv
  BY DEF Init, TableInv, TableTypes, SlotsMarked, DupTargets, NoCall

\* Every step keeps the invariant, and one in which a call that slept returns
\* keeps the descriptors.
LEMMA NextStep ==
  ASSUME TableInv, [Next]_vars
  PROVE  TableInv' /\ (NobodyReturns \/ TablesKept)
<1>1. ASSUME TablesSafe, CallsKept
      PROVE  TableInv' /\ NobodyReturns
  <2>1. NobodyReturns /\ DOMAIN call' = Tasks /\ DupTargets'
    BY <1>1, KeptCalls
  <2> QED BY <1>1, <2>1 DEF TablesSafe, TableInv, TableTypes
<1>2. ASSUME NEW t \in Tasks, Resume(t) PROVE TableInv' /\ TablesKept
  <2>1. TablesGrow /\ DOMAIN call' = Tasks /\ DupTargets'
    BY <1>2, ResumeStep
  <2>2. TablesKept /\ TablesSafe
    BY <2>1, GrowKeeps
  <2> QED BY <2>1, <2>2 DEF TablesSafe, TableInv, TableTypes
<1>3. CASE UNCHANGED vars
  <2>1. UNCHANGED <<dTable, used, call>>
    BY <1>3 DEF vars
  <2> QED BY <1>1, <2>1, UnchangedStep DEF TablesSafe, CallsKept
<1>4. CASE Next
  BY <1>1, <1>2, <1>4, FdCallStep, OtherStep DEF Next
<1> QED BY <1>3, <1>4

\* The two halves of a descriptor agree in every reachable state.
LEMMA SpecTableInv == Spec => []TableInv
<1>1. TableInv /\ [Next]_vars => TableInv'
  BY NextStep
<1> QED BY <1>1, InitInv, PTL DEF Spec

\* Theorem: when accept, Dup2Socket or a lingering close comes back from its
\* sleep, every descriptor then in use still names the socket it named, though
\* sharers of the base opened, duplicated and closed descriptors meanwhile.
THEOREM SpecReturnKeepsDescriptors == Spec => ReturnKeepsDescriptors
<1>1. TableInv /\ [Next]_vars =>
        [\A t \in Tasks : call[t].op # "none" /\ call'[t].op = "none" =>
           \A b \in Bases, fd \in Fds :
             dTable[b][fd] # NoSock => dTable'[b][fd] = dTable[b][fd]]_vars
  BY NextStep DEF NobodyReturns, TablesKept
<1> QED BY <1>1, SpecTableInv, PTL DEF Spec, ReturnKeepsDescriptors

-----------------------------------------------------------------------------
(***************************************************************************)
(* DescriptorsSound and SocketsSound of SockLife, proved for any number of *)
(* tasks, bases, sockets and descriptors, as long as none of the           *)
(* circumstances the code does not survive is switched on (SafeUses).      *)
(*                                                                         *)
(* A live socket is in exactly one of four conditions, which its own       *)
(* record tells apart: held by references, being closed by a task asleep   *)
(* in soclose, queued on a listener, or left to the protocol.  RecOK says  *)
(* what each implies, Linked ties so_head to the queues.  Every operation  *)
(* of the socket layer moves a socket between these conditions, and the    *)
(* operations are composed as soclose composes them: drop the reference,   *)
(* start, finish.                                                          *)
(***************************************************************************)

HIDE BoundAssumption
HIDE HomeAssumption

\* No call and no failure that the code does not survive.
SafeUses == Uses \cap {"closebusy", "mbufdry", "fdcbfail"} = {}

SockFields == {"alive", "ref", "state", "tp", "acc", "linger", "q0", "q", "head", "err",
               "cc", "pgid", "slp", "rslp"}
Connected == {"SYN", "EST", "FIN", "FIN2"}

\* The four conditions of a live socket.
Held(r)    == /\ r.ref > 0 /\ r.head = NoSock
              /\ r.state \cap {"NOFDREF", "ISDISCONNECTING"} = {}
Ending(r)  == r.alive /\ r.ref = 0 /\ r.head = NoSock /\ "NOFDREF" \notin r.state
Waiting(r) == /\ r.ref = 0 /\ r.head # NoSock /\ r.tp # "NOPCB" /\ ~r.acc
              /\ "NOFDREF" \in r.state /\ "ISDISCONNECTING" \notin r.state
Orphan(r)  == /\ r.ref = 0 /\ r.head = NoSock /\ r.tp \in Connected /\ ~r.acc
              /\ "NOFDREF" \in r.state

NoDup(seq) == \A i, j \in DOMAIN seq : seq[i] = seq[j] => i = j
Kids(r)    == Elems(r.q0) \cup Elems(r.q)

\* A queue holds a socket once; only a listener has queues.
QueuesOK(r) == /\ r.q0 \in Seq(Socks) /\ r.q \in Seq(Socks)
               /\ NoDup(r.q0) /\ NoDup(r.q) /\ Elems(r.q0) \cap Elems(r.q) = {}
               /\ ~r.acc => r.q0 = <<>> /\ r.q = <<>>

\* Connecting or connected, never both.
OneState(r) == "ISCONNECTING" \notin r.state \/ "ISCONNECTED" \notin r.state

RecOK(r) == /\ DOMAIN r = SockFields /\ r.ref \in Nat
            /\ ~r.alive => r = FreeSock
            /\ r.alive => Held(r) \/ Ending(r) \/ Waiting(r) \/ Orphan(r)
            /\ r.tp \in {"NOPCB", "CLOSED", "LISTEN"} \cup Connected
            /\ r.acc => r.tp \in {"LISTEN", "NOPCB"}
            /\ QueuesOK(r) /\ OneState(r)

\* so_head and the queues name each other.
Linked(S) == /\ \A h \in Socks : \A c \in Kids(S[h]) : S[c].head = h
             /\ \A s \in Socks : S[s].head # NoSock =>
                  S[s].head \in Socks /\ s \in Kids(S[S[s].head])

SockInv(S) == DOMAIN S = Socks /\ (\A s \in Socks : RecOK(S[s])) /\ Linked(S)

\* The references, of a table tab and a list of released sockets rel.
SlotsOf(tab, s) == {p \in Bases \X Fds : tab[p[1]][p[2]] = s}
NodesOf(rel, s) == {i \in DOMAIN rel : rel[i].so = s}
RefsExact(S, tab, rel) ==
  \A s \in Socks : S[s].ref = Cardinality(SlotsOf(tab, s)) + Cardinality(NodesOf(rel, s))

TablesTyped(tab, rel) == /\ tab \in [Bases -> [Fds -> Socks \cup {NoSock}]]
                         /\ rel \in Seq([id : Ids, so : Socks])

\* A call: what it sleeps on is held, or is what it is closing; a Dup2Socket that is to
\* duplicate nothing remembers no socket.
WaitOps == {"accept", "connect", "recv"}
CallOK(c, S) ==
  /\ DOMAIN c = {"op", "so", "fd", "fd1", "so1"}
  /\ c.op \in {"none"} \cup WaitOps \cup CloseOps
  /\ c.op # "none" => c.so \in Socks
  /\ c.op \in WaitOps => S[c.so].ref > 0
  /\ c.op \in CloseOps => Ending(S[c.so]) /\ ~S[c.so].acc
  /\ c.op = "dup" => /\ c.fd1 \in Fds \cup {NoFd} /\ c.so1 \in Socks \cup {NoSock}
                     /\ c.fd1 = NoFd => c.so1 = NoSock

\* A socket that is being closed has its one closer.
OneCloser(cl, S) ==
  /\ \A t, u \in Tasks : cl[t].op \in CloseOps /\ cl[u].op \in CloseOps
                           /\ cl[t].so = cl[u].so => t = u
  /\ \A s \in Socks : Ending(S[s]) => \E t \in Tasks : cl[t].op \in CloseOps /\ cl[t].so = s

CallsOK(cl, S) == /\ DOMAIN cl = Tasks /\ \A t \in Tasks : CallOK(cl[t], S)
                  /\ OneCloser(cl, S)

\* SleepsForAReason, of one task.
ReasonOK(t, c, r) ==
  /\ c.op = "accept" /\ t \in r.slp => r.q = <<>> /\ ~r.err
  /\ c.op = "connect" /\ t \in r.slp => ~r.err /\ "ISCONNECTED" \notin r.state
  /\ c.op = "recv" /\ t \in r.rslp => ~r.cc /\ ~r.err /\ "CANTRCVMORE" \notin r.state
  /\ c.op \in CloseOps /\ t \in r.slp => "ISCONNECTED" \in r.state
Reasons(cl, S) == \A t \in Tasks : cl[t].op # "none" => ReasonOK(t, cl[t], S[cl[t].so])

\* The inductive invariant.
LifeInv == /\ SockInv(so) /\ TablesTyped(dTable, released)
           /\ RefsExact(so, dTable, released)
           /\ CallsOK(call, so) /\ Reasons(call, so) /\ ~panicked

-----------------------------------------------------------------------------
(* Queues.                                                                 *)

\* What is left of a sequence when its n-th element is taken out.
LEMMA RemoveAtProps ==
  ASSUME NEW S, NEW q \in Seq(S), NEW n \in DOMAIN q
  PROVE  /\ RemoveAt(q, n) \in Seq(S) /\ Len(RemoveAt(q, n)) = Len(q) - 1
         /\ \A i \in 1..(Len(q) - 1) :
              RemoveAt(q, n)[i] = IF i < n THEN q[i] ELSE q[i + 1]
<1> DEFINE a == SubSeq(q, 1, n - 1)
           z == SubSeq(q, n + 1, Len(q))
           r == a \o z
<1>1. Len(q) \in Nat /\ DOMAIN q = 1..Len(q) /\ n \in 1..Len(q)
  BY LenProperties
<1>2. a \in Seq(S) /\ Len(a) = n - 1 /\ \A i \in 1..(n - 1) : a[i] = q[i]
  BY <1>1, SubSeqProperties
<1>3. /\ z \in Seq(S) /\ Len(z) = Len(q) - n
      /\ \A i \in 1..(Len(q) - n) : z[i] = q[n + i]
  BY <1>1, SubSeqProperties
<1> HIDE DEF a, z
<1>4. r \in Seq(S) /\ Len(r) = (n - 1) + (Len(q) - n)
  BY <1>2, <1>3, ConcatProperties
<1>5. \A i \in 1..((n - 1) + (Len(q) - n)) :
        r[i] = IF i <= n - 1 THEN a[i] ELSE z[i - (n - 1)]
  BY <1>2, <1>3, ConcatProperties, SMTT(30)
<1>6. RemoveAt(q, n) = r
  BY DEF RemoveAt, a, z
<1> HIDE DEF r
<1>7. Len(r) = Len(q) - 1
  BY <1>1, <1>4
<1>8. ASSUME NEW i \in 1..(Len(q) - 1)
      PROVE  r[i] = IF i < n THEN q[i] ELSE q[i + 1]
  <2>1. r[i] = IF i <= n - 1 THEN a[i] ELSE z[i - (n - 1)]
    BY <1>1, <1>5
  <2>2. CASE i < n
    BY <2>1, <2>2, <1>1, <1>2
  <2>3. CASE i >= n
    <3>1. i - (n - 1) \in 1..(Len(q) - n) /\ n + (i - (n - 1)) = i + 1
      BY <2>3, <1>1
    <3>2. r[i] = z[i - (n - 1)]
      BY <2>1, <2>3, <1>1
    <3>3. r[i] = q[n + (i - (n - 1))]
      BY <3>1, <3>2, <1>3, Zenon
    <3> QED BY <3>1, <3>3, <2>3, <1>1
  <2> QED BY <2>2, <2>3, <1>1
<1> QED BY <1>4, <1>6, <1>7, <1>8

\* Unlinking s leaves the other members, each once.
LEMMA WithoutProps ==
  ASSUME NEW q \in Seq(Socks), NoDup(q), NEW s
  PROVE  /\ Without(q, s) \in Seq(Socks) /\ NoDup(Without(q, s))
         /\ Elems(Without(q, s)) = Elems(q) \ {s}
         /\ q = <<>> => Without(q, s) = <<>>
<1> DEFINE at == {i \in DOMAIN q : q[i] = s}
           n == CHOOSE i \in at : TRUE
           r == RemoveAt(q, n)
<1>1. Len(q) \in Nat /\ DOMAIN q = 1..Len(q)
  BY LenProperties
<1>2. CASE at = {}
  <2>1. Without(q, s) = q
    BY <1>2 DEF Without
  <2>2. s \notin Elems(q)
    BY <1>2 DEF Elems
  <2> QED BY <2>1, <2>2
<1>3. CASE at # {}
  <2>1. n \in DOMAIN q /\ q[n] = s
    BY <1>3
  <2>2. Without(q, s) = r
    BY <1>3 DEF Without
  <2> HIDE DEF n
  <2>3. /\ r \in Seq(Socks) /\ Len(r) = Len(q) - 1
        /\ \A i \in 1..(Len(q) - 1) : r[i] = IF i < n THEN q[i] ELSE q[i + 1]
    BY <2>1, RemoveAtProps
  <2> HIDE DEF r
  <2>4. DOMAIN r = 1..(Len(q) - 1)
    BY <2>3, LenProperties
  <2>5. NoDup(r)
    <3> SUFFICES ASSUME NEW i \in DOMAIN r, NEW j \in DOMAIN r, r[i] = r[j] PROVE i = j
      BY DEF NoDup
    <3> DEFINE f(k) == IF k < n THEN k ELSE k + 1
    <3>1. f(i) \in DOMAIN q /\ f(j) \in DOMAIN q /\ r[i] = q[f(i)] /\ r[j] = q[f(j)]
      BY <1>1, <2>1, <2>3, <2>4
    <3>2. f(i) = f(j)
      BY <3>1 DEF NoDup
    <3> QED BY <1>1, <2>1, <2>4, <3>2
  <2>6. ASSUME NEW x \in Elems(r) PROVE x \in Elems(q) \ {s}
    <3>1. PICK i \in DOMAIN r : x = r[i]
      BY DEF Elems
    <3> DEFINE k == IF i < n THEN i ELSE i + 1
    <3>2. k \in DOMAIN q /\ r[i] = q[k] /\ k # n
      BY <1>1, <2>1, <2>3, <2>4
    <3> HIDE DEF k
    <3> QED BY <2>1, <3>1, <3>2 DEF Elems, NoDup
  <2>7. ASSUME NEW x \in Elems(q), x # s PROVE x \in Elems(r)
    <3>1. PICK k \in DOMAIN q : x = q[k]
      BY DEF Elems
    <3> DEFINE i == IF k < n THEN k ELSE k - 1
    <3>2. k # n
      BY <2>1, <2>7, <3>1
    <3>3. i \in DOMAIN r /\ r[i] = q[k]
      BY <1>1, <2>1, <2>3, <2>4, <3>2
    <3> HIDE DEF i
    <3> QED BY <3>1, <3>3 DEF Elems
  <2>8. q # <<>>
    BY <1>1, <2>1
  <2> QED BY <2>2, <2>3, <2>5, <2>6, <2>7, <2>8
<1> QED BY <1>2, <1>3

\* A new member at the end.
LEMMA AppendProps ==
  ASSUME NEW q \in Seq(Socks), NoDup(q), NEW s \in Socks, s \notin Elems(q)
  PROVE  /\ Append(q, s) \in Seq(Socks) /\ NoDup(Append(q, s))
         /\ Elems(Append(q, s)) = Elems(q) \cup {s}
<1> DEFINE r == Append(q, s)
<1>1. Len(q) \in Nat /\ DOMAIN q = 1..Len(q)
  BY LenProperties
<1>2. /\ r \in Seq(Socks) /\ Len(r) = Len(q) + 1 /\ r[Len(q) + 1] = s
      /\ \A i \in 1..Len(q) : r[i] = q[i]
  BY AppendProperties
<1> HIDE DEF r
<1>3. DOMAIN r = 1..(Len(q) + 1)
  BY <1>2, LenProperties
<1>4. NoDup(r)
  BY <1>1, <1>2, <1>3 DEF NoDup, Elems
<1>5. Elems(r) = Elems(q) \cup {s}
  <2>1. \A x \in Elems(r) : x \in Elems(q) \cup {s}
    BY <1>1, <1>2, <1>3 DEF Elems
  <2>2. \A x \in Elems(q) : x \in Elems(r)
    BY <1>1, <1>2, <1>3 DEF Elems
  <2>3. s \in Elems(r)
    BY <1>1, <1>2, <1>3 DEF Elems
  <2> QED BY <2>1, <2>2, <2>3
<1> QED BY <1>2, <1>4, <1>5 DEF r

LEMMA EmptyProps ==
  /\ <<>> \in Seq(Socks) /\ NoDup(<<>>) /\ Elems(<<>>) = {}
  /\ \A q \in Seq(Socks) : Elems(q) = {} <=> q = <<>>
  /\ \A q \in Seq(Socks) : Elems(q) \subseteq Socks
<1>1. <<>> \in Seq(Socks) /\ DOMAIN <<>> = {}
  OBVIOUS
<1>2. NoDup(<<>>) /\ Elems(<<>>) = {}
  BY <1>1 DEF NoDup, Elems
<1>3. ASSUME NEW q \in Seq(Socks), Elems(q) = {} PROVE q = <<>>
  <2>1. DOMAIN q = 1..Len(q) /\ Len(q) \in Nat
    BY LenProperties
  <2>2. DOMAIN q = {}
    BY <1>3 DEF Elems
  <2>3. Len(q) = 0
    BY <2>1, <2>2
  <2> QED BY <2>3, EmptySeq
<1>4. ASSUME NEW q \in Seq(Socks) PROVE Elems(q) \subseteq Socks
  BY ElementOfSeq, LenProperties DEF Elems
<1> QED BY <1>1, <1>2, <1>3, <1>4

-----------------------------------------------------------------------------
(* Sockets.                                                                *)

\* One record is replaced, with its links.
LEMMA AdjustOK ==
  ASSUME NEW S, SockInv(S), NEW s \in Socks, NEW T, DOMAIN T = Socks,
         \A x \in Socks : x # s => T[x] = S[x],
         RecOK(T[s]), T[s].head = S[s].head, T[s].q0 = S[s].q0, T[s].q = S[s].q
  PROVE  SockInv(T)
<1>1. \A x \in Socks : /\ RecOK(T[x]) /\ T[x].head = S[x].head
                       /\ Kids(T[x]) = Kids(S[x])
  BY DEF SockInv, Kids
<1>2. \A x \in Socks : Kids(S[x]) \subseteq Socks
  BY EmptyProps DEF SockInv, RecOK, QueuesOK, Kids
<1> QED BY <1>1, <1>2 DEF SockInv, Linked

\* A queued socket is no listener, and its head is one.
LEMMA QueuedFacts ==
  ASSUME NEW S, SockInv(S), NEW c \in Socks, S[c].head # NoSock
  PROVE  /\ S[c].head \in Socks /\ S[c].head # c /\ c \in Kids(S[S[c].head])
         /\ S[S[c].head].acc /\ Waiting(S[c]) /\ S[c].alive
         /\ S[c].q0 = <<>> /\ S[c].q = <<>>
<1> DEFINE h == S[c].head
<1>1. h \in Socks /\ c \in Kids(S[h]) /\ RecOK(S[c]) /\ RecOK(S[h])
  BY DEF SockInv, Linked
<1>2. S[c].alive /\ Waiting(S[c])
  BY <1>1 DEF RecOK, FreeSock, Held, Ending, Orphan
<1>3. S[c].q0 = <<>> /\ S[c].q = <<>>
  BY <1>1, <1>2 DEF RecOK, QueuesOK, Waiting
<1>4. S[h].acc
  BY <1>1, EmptyProps DEF RecOK, QueuesOK, Kids
<1> QED BY <1>1, <1>2, <1>3, <1>4 DEF Waiting

\* c leaves the queue of its listener.
LEMMA UnqueueOK ==
  ASSUME NEW S, SockInv(S), NEW c \in Socks, S[c].head # NoSock, NEW T, DOMAIN T = Socks,
         \A x \in Socks : x \notin {c, S[c].head} => T[x] = S[x],
         RecOK(T[c]), T[c].head = NoSock, Kids(T[c]) = {},
         RecOK(T[S[c].head]), T[S[c].head].head = S[S[c].head].head,
         Kids(T[S[c].head]) = Kids(S[S[c].head]) \ {c}
  PROVE  SockInv(T)
<1> DEFINE h == S[c].head
<1>1. h \in Socks /\ h # c /\ c \in Kids(S[h])
  BY QueuedFacts
<1>2. \A x \in Socks : RecOK(T[x]) /\ Kids(T[x]) \subseteq Kids(S[x]) \ {c}
  <2> SUFFICES ASSUME NEW x \in Socks
               PROVE  RecOK(T[x]) /\ Kids(T[x]) \subseteq Kids(S[x]) \ {c}
    OBVIOUS
  <2>1. CASE x \in {c, h}
    BY <2>1
  <2>2. CASE x \notin {c, h}
    <3>1. c \notin Kids(S[x])
      BY <2>2 DEF SockInv, Linked
    <3> QED BY <2>2, <3>1 DEF SockInv
  <2> QED BY <2>1, <2>2
<1>3. \A x \in Socks : x # c => T[x].head = S[x].head /\ Kids(T[x]) = Kids(S[x]) \ {c}
  <2> SUFFICES ASSUME NEW x \in Socks, x # c
               PROVE  T[x].head = S[x].head /\ Kids(T[x]) = Kids(S[x]) \ {c}
    OBVIOUS
  <2>1. CASE x = h
    BY <2>1
  <2>2. CASE x # h
    <3>1. c \notin Kids(S[x])
      BY <2>2 DEF SockInv, Linked
    <3> QED BY <2>2, <3>1
  <2> QED BY <2>1, <2>2
<1>4. \A x \in Socks : Kids(S[x]) \subseteq Socks
  BY EmptyProps DEF SockInv, RecOK, QueuesOK, Kids
<1>5. \A x \in Socks : \A k \in Kids(T[x]) : T[k].head = x
  BY <1>2, <1>3, <1>4 DEF SockInv, Linked
<1>6. ASSUME NEW k \in Socks, T[k].head # NoSock
      PROVE  T[k].head \in Socks /\ k \in Kids(T[T[k].head])
  <2>1. k # c /\ T[k].head = S[k].head
    BY <1>3, <1>6
  <2>2. S[k].head \in Socks /\ k \in Kids(S[S[k].head])
    BY <1>6, <2>1 DEF SockInv, Linked
  <2>3. S[k].head # c
    <3>1. Kids(S[c]) = {}
      BY QueuedFacts, EmptyProps DEF Kids
    <3> QED BY <2>2, <3>1
  <2> QED BY <1>3, <2>1, <2>2, <2>3
<1> QED BY <1>2, <1>5, <1>6 DEF SockInv, Linked

\* The members of a listener's queues stay; one of them and the listener change.
LEMMA MoveOK ==
  ASSUME NEW S, SockInv(S), NEW c \in Socks, S[c].head # NoSock, NEW T, DOMAIN T = Socks,
         \A x \in Socks : x \notin {c, S[c].head} => T[x] = S[x],
         RecOK(T[c]), T[c].head = S[c].head, Kids(T[c]) = Kids(S[c]),
         RecOK(T[S[c].head]), T[S[c].head].head = S[S[c].head].head,
         Kids(T[S[c].head]) = Kids(S[S[c].head])
  PROVE  SockInv(T)
<1>1. S[c].head \in Socks
  BY QueuedFacts
<1>2. \A x \in Socks : /\ RecOK(T[x]) /\ T[x].head = S[x].head
                       /\ Kids(T[x]) = Kids(S[x])
  BY <1>1 DEF SockInv
<1>3. \A x \in Socks : Kids(S[x]) \subseteq Socks
  BY EmptyProps DEF SockInv, RecOK, QueuesOK, Kids
<1> QED BY <1>2, <1>3 DEF SockInv, Linked

\* A socket that was free is queued on h.
Enqueues(S, T, h, c) ==
  /\ DOMAIN T = Socks /\ \A x \in Socks : x \notin {c, h} => T[x] = S[x]
  /\ RecOK(T[c]) /\ T[c].head = h /\ Kids(T[c]) = {}
  /\ RecOK(T[h]) /\ T[h].head = S[h].head /\ Kids(T[h]) = Kids(S[h]) \cup {c}

LEMMA EnqueueOK ==
  ASSUME NEW S, SockInv(S), NEW h \in Socks, NEW c \in Socks, ~S[c].alive, h # c,
         NEW T, Enqueues(S, T, h, c)
  PROVE  SockInv(T)
<1>0. /\ DOMAIN T = Socks /\ \A x \in Socks : x \notin {c, h} => T[x] = S[x]
      /\ RecOK(T[c]) /\ T[c].head = h /\ Kids(T[c]) = {}
      /\ RecOK(T[h]) /\ T[h].head = S[h].head /\ Kids(T[h]) = Kids(S[h]) \cup {c}
  BY DEF Enqueues
<1>1. S[c].head = NoSock /\ Kids(S[c]) = {}
  BY EmptyProps DEF SockInv, RecOK, FreeSock, Kids
<1>2. \A x \in Socks : c \notin Kids(S[x])
  BY <1>1, NullAssumption DEF SockInv, Linked
<1>3. \A x \in Socks : Kids(S[x]) \subseteq Socks
  BY EmptyProps DEF SockInv, RecOK, QueuesOK, Kids
<1>4. \A x \in Socks : RecOK(T[x])
  BY <1>0 DEF SockInv
<1>5. \A x \in Socks : x # c => T[x].head = S[x].head
  BY <1>0
<1>6. ASSUME NEW x \in Socks, NEW k \in Kids(T[x]) PROVE T[k].head = x
  <2>1. CASE k = c
    BY <1>0, <1>2, <1>6, <2>1
  <2>2. CASE k # c
    <3>1. k \in Kids(S[x])
      BY <1>0, <1>6, <2>2
    <3> QED BY <1>3, <1>5, <2>2, <3>1 DEF SockInv, Linked
  <2> QED BY <2>1, <2>2
<1>7. ASSUME NEW k \in Socks, T[k].head # NoSock
      PROVE  T[k].head \in Socks /\ k \in Kids(T[T[k].head])
  <2>1. CASE k = c
    BY <1>0, <2>1
  <2>2. CASE k # c
    <3>1. T[k].head = S[k].head /\ S[k].head \in Socks /\ k \in Kids(S[S[k].head])
      BY <1>5, <1>7, <2>2 DEF SockInv, Linked
    <3> QED BY <1>0, <1>1, <3>1
  <2> QED BY <2>1, <2>2
<1> QED BY <1>0, <1>4, <1>6, <1>7 DEF SockInv, Linked

\* All members of h's queues are freed with the queues.
LEMMA DrainOK ==
  ASSUME NEW S, SockInv(S), NEW h \in Socks, NEW T, DOMAIN T = Socks,
         \A x \in Kids(S[h]) : T[x] = FreeSock,
         \A x \in Socks : x # h /\ x \notin Kids(S[h]) => T[x] = S[x],
         RecOK(T[h]), T[h].head = S[h].head, Kids(T[h]) = {}, S[h].head = NoSock
  PROVE  SockInv(T)
<1>1. \A x \in Socks : Kids(S[x]) \subseteq Socks
  BY EmptyProps DEF SockInv, RecOK, QueuesOK, Kids
<1>2. RecOK(FreeSock) /\ FreeSock.head = NoSock /\ Kids(FreeSock) = {}
  BY EmptyProps DEF RecOK, FreeSock, SockFields, QueuesOK, Kids, OneState
<1>3. \A x \in Socks : RecOK(T[x])
  BY <1>2 DEF SockInv
<1>4. \A x \in Kids(S[h]) : Kids(S[x]) = {} /\ S[x].head = h
  BY <1>1, QueuedFacts, EmptyProps, NullAssumption DEF SockInv, Linked, Kids
<1>5. ASSUME NEW x \in Socks, NEW k \in Kids(T[x]) PROVE T[k].head = x
  <2>1. x # h /\ x \notin Kids(S[h]) /\ k \in Kids(S[x])
    BY <1>2, <1>5
  <2>2. S[k].head = x /\ k \in Socks
    BY <1>1, <2>1 DEF SockInv, Linked
  <2> QED BY <1>4, <2>1, <2>2
<1>6. ASSUME NEW k \in Socks, T[k].head # NoSock
      PROVE  T[k].head \in Socks /\ k \in Kids(T[T[k].head])
  <2>1. k # h /\ k \notin Kids(S[h]) /\ T[k] = S[k]
    BY <1>2, <1>6
  <2>2. S[k].head \in Socks /\ k \in Kids(S[S[k].head])
    BY <1>6, <2>1 DEF SockInv, Linked
  <2>3. S[k].head # h /\ S[k].head \notin Kids(S[h])
    BY <1>4, <2>1, <2>2
  <2> QED BY <2>1, <2>2, <2>3
<1> QED BY <1>3, <1>5, <1>6 DEF SockInv, Linked

-----------------------------------------------------------------------------
(* What an operation leaves alone.                                         *)

\* Of a record: the links, the references and who may free it.
SameLinks(r, r1) ==
  /\ DOMAIN r1 = SockFields
  /\ r1.alive = r.alive /\ r1.ref = r.ref /\ r1.acc = r.acc
  /\ r1.head = r.head /\ r1.q0 = r.q0 /\ r1.q = r.q
  /\ "NOFDREF" \in r1.state <=> "NOFDREF" \in r.state
  /\ OneState(r) => OneState(r1)

Touched(S, T, s) == /\ DOMAIN T = Socks /\ SameLinks(S[s], T[s])
                    /\ \A x \in Socks : x # s => T[x] = S[x]

\* Nobody but A joins the sleepers, and those who stay asleep have what they had to
\* wait for.
Wakes(r, r1, A) ==
  /\ r1.slp \subseteq r.slp \cup A /\ r1.rslp \subseteq r.rslp \cup A
  /\ r1.slp # {} => /\ r.q = <<>> => r1.q = <<>>
                    /\ r1.err => r.err
                    /\ "ISCONNECTED" \in r1.state <=> "ISCONNECTED" \in r.state
  /\ r1.rslp # {} => /\ r1.cc => r.cc
                     /\ r1.err => r.err
                     /\ "CANTRCVMORE" \in r1.state => "CANTRCVMORE" \in r.state

Undisturbed(r, r1) ==
  /\ r1.ref = r.ref /\ (Ending(r1) <=> Ending(r))
  /\ Ending(r) => r1.acc = r.acc
  /\ r.ref > 0 \/ Ending(r) => Wakes(r, r1, {})

OthersKept(S, T, s) == \A x \in Socks : x # s => Undisturbed(S[x], T[x])

LEMMA SameUndisturbed == ASSUME NEW r PROVE Undisturbed(r, r)
  BY DEF Undisturbed, Wakes

LEMMA TouchedKeepsOthers ==
  ASSUME NEW S, NEW T, NEW s, Touched(S, T, s) PROVE OthersKept(S, T, s)
  BY SameUndisturbed DEF Touched, OthersKept

LEMMA WakesTrans ==
  ASSUME NEW r, NEW r1, NEW r2, Wakes(r, r1, {}), Wakes(r1, r2, {})
  PROVE  Wakes(r, r2, {})
  BY DEF Wakes

LEMMA OthersTrans ==
  ASSUME NEW S, NEW T, NEW U, NEW s, OthersKept(S, T, s), OthersKept(T, U, s)
  PROVE  OthersKept(S, U, s)
<1> SUFFICES ASSUME NEW x \in Socks, x # s PROVE Undisturbed(S[x], U[x])
  BY DEF OthersKept
<1>1. Undisturbed(S[x], T[x]) /\ Undisturbed(T[x], U[x])
  BY DEF OthersKept
<1> QED BY <1>1, WakesTrans DEF Undisturbed

LEMMA TouchedTrans ==
  ASSUME NEW S, NEW T, NEW U, NEW s, Touched(S, T, s), Touched(T, U, s)
  PROVE  Touched(S, U, s)
  BY DEF Touched, SameLinks

\* Which touches keep the invariant.
LEMMA TouchedOK ==
  ASSUME NEW S, SockInv(S), NEW s \in Socks, S[s].alive, NEW T, Touched(S, T, s),
         Held(S[s]) \/ Waiting(S[s]) => "ISDISCONNECTING" \notin T[s].state,
         \/ T[s].tp = S[s].tp
         \/ T[s].tp \in Connected /\ ~S[s].acc
         \/ T[s].tp \in {"NOPCB", "LISTEN"} /\ "NOFDREF" \notin S[s].state
  PROVE  SockInv(T) /\ (Ending(T[s]) <=> Ending(S[s]))
<1>1. RecOK(S[s])
  BY DEF SockInv
<1>2. Ending(T[s]) <=> Ending(S[s])
  BY DEF Touched, SameLinks, Ending
<1>3. Held(T[s]) \/ Ending(T[s]) \/ Waiting(T[s]) \/ Orphan(T[s])
  <2>1. CASE Held(S[s])
    BY <2>1 DEF Touched, SameLinks, Held
  <2>2. CASE Ending(S[s])
    BY <2>2, <1>2
  <2>3. CASE Waiting(S[s])
    BY <2>3 DEF Touched, SameLinks, Waiting, Connected
  <2>4. CASE Orphan(S[s])
    BY <2>4 DEF Touched, SameLinks, Orphan, Connected
  <2> QED BY <1>1, <2>1, <2>2, <2>3, <2>4 DEF RecOK
<1>4. RecOK(T[s])
  <2>1. DOMAIN T[s] = SockFields /\ T[s].ref \in Nat /\ T[s].alive /\ QueuesOK(T[s])
    BY <1>1 DEF Touched, SameLinks, RecOK, QueuesOK
  <2>2. /\ T[s].acc => T[s].tp \in {"LISTEN", "NOPCB"}
        /\ T[s].tp \in {"NOPCB", "CLOSED", "LISTEN"} \cup Connected
    BY <1>1 DEF Touched, SameLinks, RecOK
  <2>3. OneState(T[s])
    BY <1>1 DEF Touched, SameLinks, RecOK
  <2> QED BY <1>3, <2>1, <2>2, <2>3 DEF RecOK
<1> QED BY <1>2, <1>4, AdjustOK DEF Touched, SameLinks

\* A socket that is not free: whoever may not be freed by the protocol is held or ending.
LEMMA LiveFacts ==
  ASSUME NEW S, SockInv(S), NEW s \in Socks
  PROVE  /\ DOMAIN S[s] = SockFields /\ DOMAIN S = Socks /\ S[s].ref \in Nat
         /\ S[s].tp # "NOPCB" \/ S[s].ref > 0 \/ S[s].acc => S[s].alive
         /\ S[s].ref > 0 => Held(S[s])
         /\ S[s].alive /\ "NOFDREF" \notin S[s].state => Held(S[s]) \/ Ending(S[s])
         /\ S[s].alive /\ "NOFDREF" \in S[s].state => Waiting(S[s]) \/ Orphan(S[s])
         /\ S[s].acc => Held(S[s]) \/ Ending(S[s])
         /\ S[s].acc => S[s].tp \in {"LISTEN", "NOPCB"}
         /\ S[s].tp \in {"NOPCB", "CLOSED", "LISTEN"} \cup Connected
         /\ ~S[s].acc => S[s].q0 = <<>> /\ S[s].q = <<>>
         /\ Held(S[s]) => ~Ending(S[s])
<1>1. RecOK(S[s]) /\ DOMAIN S = Socks
  BY DEF SockInv
<1>2. /\ S[s].tp # "NOPCB" \/ S[s].ref > 0 \/ S[s].acc => S[s].alive
  BY <1>1 DEF RecOK, FreeSock
<1>3. S[s].ref > 0 => Held(S[s])
  BY <1>1, <1>2 DEF RecOK, Held, Ending, Waiting, Orphan
<1>4. S[s].alive /\ "NOFDREF" \notin S[s].state => Held(S[s]) \/ Ending(S[s])
  BY <1>1 DEF RecOK, Waiting, Orphan
<1>5. S[s].alive /\ "NOFDREF" \in S[s].state => Waiting(S[s]) \/ Orphan(S[s])
  BY <1>1 DEF RecOK, Held, Ending
<1>6. S[s].acc => Held(S[s]) \/ Ending(S[s])
  BY <1>1, <1>2 DEF RecOK, Waiting, Orphan
<1>7. Held(S[s]) => ~Ending(S[s])
  BY DEF Held, Ending
<1> QED BY <1>1, <1>2, <1>3, <1>4, <1>5, <1>6, <1>7 DEF RecOK, QueuesOK

-----------------------------------------------------------------------------
(* The operations of kern/uipc_socket2.c and sofree.                       *)

LEMMA FreeRec == /\ RecOK(FreeSock) /\ ~Ending(FreeSock) /\ FreeSock.ref = 0 /\ ~FreeSock.acc
                 /\ FreeSock.head = NoSock /\ FreeSock.q0 = <<>> /\ FreeSock.q = <<>>
                 /\ DOMAIN FreeSock = SockFields
  BY EmptyProps DEF RecOK, FreeSock, SockFields, QueuesOK, Ending, OneState

\* A listener's record with other queues.
Cut(r, s) == [r EXCEPT !.q0 = Without(@, s), !.q = Without(@, s)]
LEMMA CutFields ==
  ASSUME NEW r, DOMAIN r = SockFields, NEW s
  PROVE  LET g == Cut(r, s)
         IN  /\ DOMAIN g = SockFields /\ g.q0 = Without(r.q0, s) /\ g.q = Without(r.q, s)
             /\ g.alive = r.alive /\ g.ref = r.ref /\ g.state = r.state
             /\ g.tp = r.tp /\ g.acc = r.acc /\ g.head = r.head
             /\ g.err = r.err /\ g.cc = r.cc /\ g.slp = r.slp /\ g.rslp = r.rslp
  BY DEF SockFields, Cut

\* sofree of a socket without a descriptor whose pcb is gone.
LEMMA SoFreeOK ==
  ASSUME NEW S, SockInv(S), NEW s \in Socks, S[s].alive, "NOFDREF" \in S[s].state,
         NEW U, Touched(S, U, s), U[s].tp = "NOPCB"
  PROVE  LET T == SoFree(U, s)
         IN  SockInv(T) /\ T[s] = FreeSock /\ OthersKept(S, T, s)
<1> DEFINE T == SoFree(U, s)
<1>0. /\ DOMAIN U = Socks /\ DOMAIN U[s] = SockFields /\ U[s].head = S[s].head
      /\ "NOFDREF" \in U[s].state /\ \A x \in Socks : x # s => U[x] = S[x]
  BY DEF Touched, SameLinks
<1>1. CASE S[s].head = NoSock
  <2>1. T = [U EXCEPT ![s] = FreeSock]
    BY <1>0, <1>1 DEF SoFree
  <2>2. DOMAIN T = Socks /\ T[s] = FreeSock /\ \A x \in Socks : x # s => T[x] = S[x]
    BY <1>0, <2>1
  <2> HIDE DEF T
  <2>3. ~S[s].acc /\ S[s].q0 = <<>> /\ S[s].q = <<>>
    BY LiveFacts DEF Held, Ending
  <2>4. SockInv(T)
    BY <1>1, <2>2, <2>3, AdjustOK, FreeRec
  <2> QED BY <2>2, <2>4, SameUndisturbed DEF OthersKept, T
<1>2. CASE S[s].head # NoSock
  <2> DEFINE h == S[s].head
             g == Cut(S[h], s)
  <2>1. /\ h \in Socks /\ h # s /\ s \in Kids(S[h]) /\ S[h].acc /\ RecOK(S[h])
        /\ DOMAIN S[h] = SockFields
    BY <1>2, QueuedFacts DEF SockInv, RecOK
  <2>2. T = [SoQRemque(U, s) EXCEPT ![s] = FreeSock]
    BY <1>0, <1>2 DEF SoFree
  <2>3. SoQRemque(U, s) = [U EXCEPT ![h].q0 = Without(@, s), ![h].q = Without(@, s), ![s].head = NoSock]
    BY <1>0 DEF SoQRemque
  <2> HIDE DEF T
  <2>4. DOMAIN T = Socks /\ T[s] = FreeSock /\ \A x \in Socks : x \notin {s, h} => T[x] = S[x]
    BY <1>0, <2>1, <2>2, <2>3
  <2>5. /\ DOMAIN T[h] = SockFields /\ T[h].q0 = Without(S[h].q0, s) /\ T[h].q = Without(S[h].q, s)
        /\ T[h].alive = S[h].alive /\ T[h].ref = S[h].ref /\ T[h].state = S[h].state
        /\ T[h].tp = S[h].tp /\ T[h].acc = S[h].acc /\ T[h].head = S[h].head
        /\ T[h].err = S[h].err /\ T[h].cc = S[h].cc /\ T[h].slp = S[h].slp /\ T[h].rslp = S[h].rslp
    <3>1. T[h] = g
      <4>1. U[h] = S[h]
        BY <1>0, <2>1
      <4>2. SoQRemque(U, s)[h] = Cut(U[h], s)
        BY <1>0, <2>1, <2>3 DEF Cut
      <4> QED BY <1>0, <2>1, <2>2, <2>3, <4>1, <4>2
    <3>2. /\ DOMAIN g = SockFields /\ g.q0 = Without(S[h].q0, s) /\ g.q = Without(S[h].q, s)
          /\ g.alive = S[h].alive /\ g.ref = S[h].ref /\ g.state = S[h].state
          /\ g.tp = S[h].tp /\ g.acc = S[h].acc /\ g.head = S[h].head
          /\ g.err = S[h].err /\ g.cc = S[h].cc /\ g.slp = S[h].slp /\ g.rslp = S[h].rslp
      BY <2>1, CutFields
    <3> HIDE DEF g
    <3> QED BY <3>1, <3>2
  <2>6. /\ S[h].q0 \in Seq(Socks) /\ S[h].q \in Seq(Socks) /\ NoDup(S[h].q0) /\ NoDup(S[h].q)
        /\ Elems(S[h].q0) \cap Elems(S[h].q) = {}
    BY <2>1 DEF RecOK, QueuesOK
  <2>7. /\ QueuesOK(T[h]) /\ Kids(T[h]) = Kids(S[h]) \ {s}
        /\ S[h].q = <<>> => T[h].q = <<>>
    <3>1. /\ T[h].q0 \in Seq(Socks) /\ NoDup(T[h].q0)
          /\ Elems(T[h].q0) = Elems(S[h].q0) \ {s}
      BY <2>5, <2>6, WithoutProps
    <3>2. /\ T[h].q \in Seq(Socks) /\ NoDup(T[h].q) /\ Elems(T[h].q) = Elems(S[h].q) \ {s}
          /\ S[h].q = <<>> => T[h].q = <<>>
      BY <2>5, <2>6, WithoutProps
    <3> QED BY <2>1, <2>5, <2>6, <3>1, <3>2 DEF QueuesOK, Kids
  <2>8. RecOK(T[h]) /\ (Ending(T[h]) <=> Ending(S[h]))
    <3>1. /\ Held(T[h]) <=> Held(S[h])
          /\ Ending(T[h]) <=> Ending(S[h])
      BY <2>5 DEF Held, Ending
    <3>2. Held(S[h]) \/ Ending(S[h])
      BY <2>1, LiveFacts
    <3>3. T[h].alive /\ T[h].ref \in Nat /\ T[h].tp \in {"LISTEN", "NOPCB"}
      BY <2>1, <2>5, LiveFacts
    <3>4. OneState(T[h])
      BY <2>1, <2>5 DEF RecOK, OneState
    <3> QED BY <2>5, <2>7, <3>1, <3>2, <3>3, <3>4, SMTT(20) DEF RecOK
  <2>9. SockInv(T)
    <3>1. RecOK(T[s]) /\ T[s].head = NoSock /\ Kids(T[s]) = {}
      BY <2>4, FreeRec, EmptyProps DEF Kids
    <3>2. RecOK(T[h]) /\ T[h].head = S[h].head /\ Kids(T[h]) = Kids(S[h]) \ {s}
      BY <2>5, <2>7, <2>8
    <3> QED BY <1>2, <2>4, <3>1, <3>2, UnqueueOK
  <2>10. Undisturbed(S[h], T[h])
    BY <2>5, <2>7, <2>8 DEF Undisturbed, Wakes
  <2> QED BY <2>4, <2>9, <2>10, SameUndisturbed DEF OthersKept, T
<1> QED BY <1>1, <1>2

-----------------------------------------------------------------------------
(* TCP, as the socket layer sees it.                                       *)

\* soisdisconnected wakes everybody.
LEMMA DisconnectedProps ==
  ASSUME NEW S, SockInv(S), NEW s \in Socks
  PROVE  LET T == SoIsDisconnected(S, s)
         IN  /\ Touched(S, T, s) /\ T[s].tp = S[s].tp /\ T[s].slp = {} /\ T[s].rslp = {}
             /\ "ISDISCONNECTING" \notin T[s].state
<1> DEFINE T == SoIsDisconnected(S, s)
<1>1. DOMAIN S = Socks /\ DOMAIN S[s] = SockFields
  BY LiveFacts
<1>2. /\ DOMAIN T = Socks /\ \A x \in Socks : x # s => T[x] = S[x]
      /\ T[s] = [S[s] EXCEPT !.state = (@ \ {"ISCONNECTING", "ISCONNECTED",
                               "ISDISCONNECTING"}) \cup {"CANTRCVMORE"},
                             !.slp = {}, !.rslp = {}]
  BY <1>1 DEF SoIsDisconnected
<1> HIDE DEF T
<1>3. SameLinks(S[s], T[s])
  BY <1>1, <1>2 DEF SameLinks, SockFields, OneState
<1>4. /\ T[s].tp = S[s].tp /\ T[s].slp = {} /\ T[s].rslp = {}
      /\ "ISDISCONNECTING" \notin T[s].state
  BY <1>1, <1>2 DEF SockFields
<1> QED BY <1>2, <1>3, <1>4 DEF Touched, T

\* The end of a connection: the socket stays while a program or a close has it, and is
\* freed otherwise.
Ended(S, T, s) ==
  /\ "NOFDREF" \notin S[s].state =>
       /\ Touched(S, T, s) /\ T[s].tp = "NOPCB" /\ T[s].slp = {} /\ T[s].rslp = {}
       /\ "ISDISCONNECTING" \notin T[s].state
  /\ "NOFDREF" \in S[s].state => SockInv(T) /\ T[s] = FreeSock /\ OthersKept(S, T, s)

LEMMA TcpCloseOK ==
  ASSUME NEW S, SockInv(S), NEW s \in Socks, S[s].alive
  PROVE  Ended(S, TcpClose(S, s), s)
<1> DEFINE V == SoIsDisconnected(S, s)
           U == [V EXCEPT ![s].tp = "NOPCB"]
<1>1. /\ Touched(S, V, s) /\ V[s].tp = S[s].tp /\ V[s].slp = {} /\ V[s].rslp = {}
      /\ "ISDISCONNECTING" \notin V[s].state
  BY DisconnectedProps
<1> HIDE DEF V
<1>2. /\ Touched(S, U, s) /\ U[s].tp = "NOPCB" /\ U[s].slp = {} /\ U[s].rslp = {}
      /\ "ISDISCONNECTING" \notin U[s].state
  BY <1>1 DEF Touched, SameLinks, SockFields, OneState
<1>3. TcpClose(S, s) = SoFree(U, s)
  BY DEF TcpClose, V
<1> HIDE DEF U
<1>4. CASE "NOFDREF" \notin S[s].state
  <2>1. SoFree(U, s) = U
    BY <1>2, <1>4 DEF SoFree, Touched, SameLinks
  <2> QED BY <1>2, <1>3, <1>4, <2>1 DEF Ended
<1>5. CASE "NOFDREF" \in S[s].state
  BY <1>2, <1>3, <1>5, SoFreeOK DEF Ended
<1> QED BY <1>4, <1>5

LEMMA TcpDropOK ==
  ASSUME NEW S, SockInv(S), NEW s \in Socks, S[s].alive, NEW e
  PROVE  Ended(S, TcpDrop(S, s, e), s)
<1> DEFINE V == [S EXCEPT ![s].err = e]
           T == TcpClose(V, s)
<1>1. DOMAIN S = Socks /\ DOMAIN S[s] = SockFields
  BY LiveFacts
<1>2. Touched(S, V, s) /\ V[s].tp = S[s].tp /\ V[s].state = S[s].state
  BY <1>1 DEF Touched, SameLinks, SockFields, OneState
<1>3. TcpDrop(S, s, e) = T
  BY DEF TcpDrop
<1> HIDE DEF V
<1>4. SockInv(V)
  BY <1>2, TouchedOK DEF Held, Waiting
<1>5. V[s].alive /\ OthersKept(S, V, s)
  BY <1>2, TouchedKeepsOthers DEF Touched, SameLinks
<1>6. Ended(V, T, s)
  BY <1>4, <1>5, TcpCloseOK
<1> HIDE DEF T
<1> QED BY <1>2, <1>3, <1>5, <1>6, TouchedTrans, OthersTrans DEF Ended

\* A side that sends its FIN: what becomes of a socket that a program or a close has.
LEMMA TcpUsrClosedOK ==
  ASSUME NEW S, SockInv(S), NEW s \in Socks, S[s].alive, "NOFDREF" \notin S[s].state
  PROVE  LET T == TcpUsrClosed(S, s)
         IN  /\ Touched(S, T, s) /\ Wakes(S[s], T[s], {})
             /\ T[s].tp \in {"NOPCB", "FIN", "FIN2"} \/ T[s].tp = S[s].tp
             /\ "ISDISCONNECTING" \in T[s].state => "ISDISCONNECTING" \in S[s].state
             /\ S[s].tp \in {"CLOSED", "LISTEN", "SYN"} => T[s].tp = "NOPCB"
             /\ S[s].tp \in {"EST", "FIN", "FIN2"} => T[s].tp \in {"FIN", "FIN2"}
<1> DEFINE T == TcpUsrClosed(S, s)
<1>1. DOMAIN S = Socks /\ DOMAIN S[s] = SockFields
  BY LiveFacts
<1>2. CASE S[s].tp \in {"CLOSED", "LISTEN", "SYN"}
  <2>1. T = TcpClose(S, s)
    BY <1>2 DEF TcpUsrClosed
  <2>2. Ended(S, T, s)
    BY <2>1, TcpCloseOK
  <2> HIDE DEF T
  <2> QED BY <1>2, <2>2 DEF Ended, Wakes, Touched, SameLinks, T
<1>3. CASE S[s].tp = "EST"
  <2>1. T = [S EXCEPT ![s].tp = "FIN"]
    BY <1>3 DEF TcpUsrClosed
  <2>2. /\ DOMAIN T = Socks /\ \A x \in Socks : x # s => T[x] = S[x]
        /\ T[s] = [S[s] EXCEPT !.tp = "FIN"]
    BY <1>1, <2>1
  <2> HIDE DEF T
  <2>3. SameLinks(S[s], T[s])
    <3> DEFINE r == S[s]
               r1 == T[s]
    <3>1. r1 = [r EXCEPT !.tp = "FIN"] /\ DOMAIN r = SockFields
      BY <1>1, <2>2
    <3> HIDE DEF r, r1
    <3>2. /\ DOMAIN r1 = SockFields /\ r1.alive = r.alive /\ r1.ref = r.ref /\ r1.acc = r.acc
          /\ r1.head = r.head /\ r1.q0 = r.q0 /\ r1.q = r.q /\ r1.state = r.state
      BY <3>1, SMTT(20) DEF SockFields
    <3>3. SameLinks(r, r1)
      BY <3>2 DEF SameLinks, OneState
    <3> QED BY <3>3 DEF r, r1
  <2>4. T[s].tp = "FIN" /\ T[s].state = S[s].state /\ Wakes(S[s], T[s], {})
    BY <1>1, <2>2 DEF Wakes, SockFields
  <2> QED BY <1>3, <2>2, <2>3, <2>4 DEF Touched, T
<1>4. CASE S[s].tp = "FIN2"
  <2>1. T = SoIsDisconnected(S, s)
    BY <1>4 DEF TcpUsrClosed
  <2>2. /\ Touched(S, T, s) /\ T[s].tp = S[s].tp /\ T[s].slp = {} /\ T[s].rslp = {}
        /\ "ISDISCONNECTING" \notin T[s].state
    BY <2>1, DisconnectedProps
  <2> HIDE DEF T
  <2> QED BY <1>4, <2>2 DEF Wakes, Touched, SameLinks, T
<1>5. CASE S[s].tp \notin {"CLOSED", "LISTEN", "SYN", "EST", "FIN2"}
  <2>1. T = S
    BY <1>5 DEF TcpUsrClosed
  <2> QED BY <1>1, <1>5, <2>1 DEF Wakes, Touched, SameLinks
<1> QED BY <1>2, <1>3, <1>4, <1>5

\* The user's disconnect leaves a closed connection, or one whose FIN is on its way.
LEMMA TcpDisconnectOK ==
  ASSUME NEW S, SockInv(S), NEW s \in Socks, Ending(S[s]), S[s].tp # "NOPCB"
  PROVE  LET T == TcpDisconnect(S, s)
         IN  /\ Touched(S, T, s) /\ T[s].tp \in {"NOPCB", "FIN", "FIN2"}
             /\ S[s].tp \in {"CLOSED", "LISTEN"} => T[s].tp = "NOPCB"
<1> DEFINE T == TcpDisconnect(S, s)
<1>1. /\ DOMAIN S = Socks /\ DOMAIN S[s] = SockFields /\ S[s].alive
      /\ "NOFDREF" \notin S[s].state /\ S[s].tp \in {"CLOSED", "LISTEN"} \cup Connected
  BY LiveFacts DEF Ending
<1>2. CASE S[s].tp \in {"CLOSED", "LISTEN", "SYN"}
  <2>1. T = TcpClose(S, s)
    BY <1>2 DEF TcpDisconnect
  <2>2. Ended(S, T, s)
    BY <1>1, <2>1, TcpCloseOK
  <2> HIDE DEF T
  <2> QED BY <1>1, <2>2 DEF Ended, T
<1>3. CASE S[s].tp \in {"EST", "FIN", "FIN2"} /\ S[s].linger = "zero"
  <2>1. T = TcpDrop(S, s, FALSE)
    BY <1>3 DEF TcpDisconnect
  <2>2. Ended(S, T, s)
    BY <1>1, <2>1, TcpDropOK
  <2> HIDE DEF T
  <2> QED BY <1>1, <1>3, <2>2 DEF Ended, T
<1>4. CASE S[s].tp \in {"EST", "FIN", "FIN2"} /\ S[s].linger # "zero"
  <2> DEFINE V == [SoIsDisconnecting(S, s) EXCEPT ![s].cc = FALSE]
  <2>1. T = TcpUsrClosed(V, s)
    BY <1>4 DEF TcpDisconnect
  <2>2. /\ DOMAIN V = Socks /\ \A x \in Socks : x # s => V[x] = S[x]
        /\ V[s] = [S[s] EXCEPT !.state = (@ \ {"ISCONNECTING"})
                            \cup {"ISDISCONNECTING", "CANTRCVMORE"},
                               !.slp = {}, !.rslp = {}, !.cc = FALSE]
    BY <1>1 DEF SoIsDisconnecting
  <2> HIDE DEF V
  <2>3. SameLinks(S[s], V[s]) /\ V[s].tp = S[s].tp
    <3> DEFINE r == S[s]
               st == (r.state \ {"ISCONNECTING"}) \cup {"ISDISCONNECTING", "CANTRCVMORE"}
    <3>1. ("NOFDREF" \in st <=> "NOFDREF" \in r.state) /\ "ISCONNECTING" \notin st
      OBVIOUS
    <3>2. V[s] = [r EXCEPT !.state = st, !.slp = {}, !.rslp = {}, !.cc = FALSE]
      BY <2>2
    <3> HIDE DEF st, r
    <3>3. DOMAIN r = SockFields
      BY <1>1 DEF r
    <3>4. SameLinks(r, V[s]) /\ V[s].tp = r.tp
      BY <3>1, <3>2, <3>3 DEF SameLinks, SockFields, OneState
    <3> QED BY <3>4 DEF r
  <2>4. Touched(S, V, s)
    BY <2>2, <2>3 DEF Touched
  <2>5. SockInv(V)
    BY <1>1, <2>3, <2>4, TouchedOK DEF Ending, Held, Waiting
  <2>6. V[s].alive /\ "NOFDREF" \notin V[s].state
    BY <1>1, <2>3 DEF SameLinks
  <2>7. Touched(V, T, s) /\ T[s].tp \in {"FIN", "FIN2"}
    BY <1>4, <2>1, <2>3, <2>5, <2>6, TcpUsrClosedOK
  <2> HIDE DEF T
  <2> QED BY <1>4, <2>4, <2>7, TouchedTrans DEF T
<1> QED BY <1>1, <1>2, <1>3, <1>4 DEF Connected

LEMMA TcpDetachOK ==
  ASSUME NEW S, SockInv(S), NEW s \in Socks, Ending(S[s]), S[s].tp # "NOPCB"
  PROVE  LET T == TcpDetach(S, s)
         IN  /\ Touched(S, T, s) /\ T[s].tp \in {"NOPCB", "FIN", "FIN2"}
             /\ S[s].tp \in {"CLOSED", "LISTEN"} => T[s].tp = "NOPCB"
<1> DEFINE T == TcpDetach(S, s)
<1>1. S[s].alive /\ "NOFDREF" \notin S[s].state
  BY DEF Ending
<1>2. CASE S[s].tp \in {"CLOSED", "LISTEN"}
  <2>1. T = TcpClose(S, s)
    BY <1>2 DEF TcpDetach
  <2>2. Ended(S, T, s)
    BY <1>1, <2>1, TcpCloseOK
  <2> HIDE DEF T
  <2> QED BY <1>1, <2>2 DEF Ended, T
<1>3. CASE S[s].tp \notin {"CLOSED", "LISTEN"}
  <2>1. T = TcpDisconnect(S, s)
    BY <1>3 DEF TcpDetach
  <2> QED BY <2>1, TcpDisconnectOK
<1> QED BY <1>2, <1>3

-----------------------------------------------------------------------------
(* soclose.                                                                *)

\* The end of a close: the socket is freed, or left to the protocol.
LEMMA CloseFinishOK ==
  ASSUME NEW S, SockInv(S), NEW s \in Socks, Ending(S[s]), Kids(S[s]) = {}
  PROVE  LET T == CloseFinish(S, s)
         IN  SockInv(T) /\ ~Ending(T[s]) /\ T[s].ref = 0 /\ OthersKept(S, T, s)
<1> DEFINE U == IF S[s].tp = "NOPCB" THEN S ELSE TcpDetach(S, s)
           V == [U EXCEPT ![s].state = @ \cup {"NOFDREF"}]
           T == CloseFinish(S, s)
<1>1. /\ DOMAIN S = Socks /\ DOMAIN S[s] = SockFields /\ S[s].alive /\ S[s].ref = 0
      /\ S[s].head = NoSock /\ "NOFDREF" \notin S[s].state
      /\ S[s].acc => S[s].tp \in {"LISTEN", "NOPCB"}
  BY LiveFacts DEF Ending
<1>2. S[s].q0 = <<>> /\ S[s].q = <<>>
  BY EmptyProps DEF Kids, SockInv, RecOK, QueuesOK
<1>3. /\ Touched(S, U, s) /\ U[s].tp \in {"NOPCB", "FIN", "FIN2"}
      /\ S[s].acc => U[s].tp = "NOPCB"
  <2>1. CASE S[s].tp = "NOPCB"
    BY <1>1, <2>1 DEF Touched, SameLinks
  <2>2. CASE S[s].tp # "NOPCB"
    BY <1>1, <2>2, TcpDetachOK
  <2> QED BY <2>1, <2>2
<1>4. T = SoFree(V, s)
  BY DEF CloseFinish
<1> HIDE DEF U
<1>5. /\ DOMAIN U = Socks /\ DOMAIN U[s] = SockFields
      /\ \A x \in Socks : x # s => U[x] = S[x]
      /\ U[s].alive /\ U[s].ref = 0 /\ U[s].head = NoSock /\ U[s].acc = S[s].acc
      /\ U[s].q0 = <<>> /\ U[s].q = <<>>
  BY <1>1, <1>2, <1>3 DEF Touched, SameLinks
<1>6. /\ DOMAIN V = Socks /\ \A x \in Socks : x # s => V[x] = S[x]
      /\ DOMAIN V[s] = SockFields /\ V[s].alive /\ V[s].ref = 0 /\ V[s].head = NoSock
      /\ V[s].acc = S[s].acc /\ V[s].q0 = <<>> /\ V[s].q = <<>> /\ V[s].tp = U[s].tp
      /\ "NOFDREF" \in V[s].state /\ OneState(V[s])
  <2>1. OneState(U[s])
    BY <1>3 DEF Touched, SameLinks, SockInv, RecOK
  <2> QED BY <1>5, <2>1 DEF SockFields, OneState
<1> HIDE DEF V
<1>7. CASE U[s].tp = "NOPCB"
  <2>1. T = [V EXCEPT ![s] = FreeSock]
    BY <1>4, <1>6, <1>7 DEF SoFree
  <2>2. DOMAIN T = Socks /\ T[s] = FreeSock /\ \A x \in Socks : x # s => T[x] = S[x]
    BY <1>6, <2>1
  <2> HIDE DEF T
  <2>3. SockInv(T)
    BY <1>1, <1>2, <2>2, AdjustOK, FreeRec
  <2> QED BY <2>2, <2>3, FreeRec, SameUndisturbed DEF OthersKept, T
<1>8. CASE U[s].tp # "NOPCB"
  <2>1. T = V
    BY <1>4, <1>6, <1>8 DEF SoFree
  <2>2. RecOK(V[s]) /\ ~Ending(V[s])
    <3>1. Orphan(V[s])
      BY <1>3, <1>6, <1>8 DEF Orphan, Connected
    <3>2. QueuesOK(V[s])
      BY <1>6, EmptyProps DEF QueuesOK
    <3> QED BY <3>1, <3>2, <1>3, <1>6, <1>8 DEF RecOK, Ending, Orphan, Connected
  <2>3. SockInv(V)
    BY <1>1, <1>2, <1>6, <2>2, AdjustOK
  <2> QED BY <1>6, <2>1, <2>2, <2>3, SameUndisturbed DEF OthersKept
<1> QED BY <1>7, <1>8

\* soclose frees the connections nobody has accepted.
LEMMA DrainQueuesOK ==
  ASSUME NEW S, SockInv(S), NEW s \in Socks, Ending(S[s])
  PROVE  LET T == DrainQueues(S, s)
         IN  /\ SockInv(T) /\ Ending(T[s]) /\ Kids(T[s]) = {} /\ OthersKept(S, T, s)
             /\ T[s].acc = S[s].acc /\ T[s].state = S[s].state
<1> DEFINE T == DrainQueues(S, s)
           r == S[s]
           K == Kids(r)
<1>1. RecOK(r) /\ DOMAIN r = SockFields /\ r.alive /\ r.head = NoSock /\ r.ref = 0
  BY LiveFacts DEF Ending, SockInv
<1>2. r.q0 \in Seq(Socks) /\ r.q \in Seq(Socks)
  BY <1>1 DEF RecOK, QueuesOK
<1>3. K \subseteq Socks
  BY <1>2, EmptyProps DEF Kids
<1>4. \A c \in K : S[c].head = s /\ Waiting(S[c]) /\ c # s
  BY <1>1, <1>3, QueuedFacts, NullAssumption DEF SockInv, Linked
<1>5. Abortable(S, s) = K
  BY <1>4 DEF Abortable, Kids, Waiting
<1>6. Drained(S, s, r.q0) = <<>> /\ Drained(S, s, r.q) = <<>>
  BY <1>5 DEF Drained, Kids
<1> DEFINE g == [r EXCEPT !.q0 = <<>>, !.q = <<>>]
<1>7. /\ DOMAIN T = Socks /\ T[s] = g /\ \A x \in K : T[x] = FreeSock
      /\ \A x \in Socks : x # s /\ x \notin K => T[x] = S[x]
  <2>1. T = [x \in Socks |-> IF x \in K THEN FreeSock
                             ELSE IF x = s THEN [S[s] EXCEPT !.q0 = Drained(S, s, @),
                                                             !.q = Drained(S, s, @)]
                             ELSE S[x]]
    BY <1>5 DEF DrainQueues
  <2>2. s \notin K
    BY <1>4
  <2>3. [S[s] EXCEPT !.q0 = Drained(S, s, @), !.q = Drained(S, s, @)] = g
    BY <1>1, <1>6 DEF SockFields
  <2> HIDE DEF T, K, g
  <2> QED BY <1>3, <2>1, <2>2, <2>3
<1>8. /\ DOMAIN g = SockFields /\ g.alive = r.alive /\ g.ref = r.ref /\ g.state = r.state
      /\ g.tp = r.tp /\ g.acc = r.acc /\ g.head = r.head /\ g.q0 = <<>> /\ g.q = <<>>
  BY <1>1 DEF SockFields
<1> HIDE DEF T, g, K
<1>9. Ending(g) /\ Kids(g) = {} /\ RecOK(g)
  <2>1. Ending(g) /\ Kids(g) = {}
    BY <1>1, <1>8, EmptyProps DEF Ending, Kids
  <2>2. QueuesOK(g)
    BY <1>8, EmptyProps DEF QueuesOK
  <2> QED BY <1>1, <1>8, <2>1, <2>2 DEF RecOK, OneState
<1>10. SockInv(T)
  BY <1>1, <1>7, <1>8, <1>9, DrainOK DEF K
<1>11. \A x \in K : Undisturbed(S[x], T[x])
  <2>1. \A x \in K : Undisturbed(S[x], FreeSock)
    BY <1>4, FreeRec DEF Undisturbed, Waiting, Ending
  <2> QED BY <1>7, <2>1
<1>12. OthersKept(S, T, s)
  BY <1>7, <1>11, SameUndisturbed DEF OthersKept
<1> QED BY <1>7, <1>8, <1>9, <1>10, <1>12 DEF T

\* The beginning of a close.  A listener never lingers.
LEMMA CloseStartOK ==
  ASSUME NEW S, SockInv(S), NEW s \in Socks, Ending(S[s]),
         "ISDISCONNECTING" \notin S[s].state
  PROVE  LET T == CloseStart(S, s)
         IN  /\ SockInv(T) /\ Ending(T[s]) /\ Kids(T[s]) = {} /\ OthersKept(S, T, s)
             /\ \A nbio : MustLinger(T, s, nbio) => ~T[s].acc
<1> DEFINE U == IF S[s].acc THEN DrainQueues(S, s) ELSE S
           T == CloseStart(S, s)
<1>1. /\ SockInv(U) /\ Ending(U[s]) /\ Kids(U[s]) = {} /\ OthersKept(S, U, s)
      /\ "ISDISCONNECTING" \notin U[s].state
  <2>1. CASE S[s].acc
    BY <2>1, DrainQueuesOK
  <2>2. CASE ~S[s].acc
    BY <2>2, LiveFacts, SameUndisturbed, EmptyProps DEF OthersKept, Kids
  <2> QED BY <2>1, <2>2
<1>2. T = IF U[s].tp # "NOPCB" /\ "ISCONNECTED" \in U[s].state
            THEN SoDisconnect(U, s) ELSE U
  BY DEF CloseStart
<1> HIDE DEF U
<1>3. CASE ~(U[s].tp # "NOPCB" /\ "ISCONNECTED" \in U[s].state)
  BY <1>1, <1>2, <1>3 DEF MustLinger
<1>4. CASE U[s].tp # "NOPCB" /\ "ISCONNECTED" \in U[s].state
  <2>1. T = TcpDisconnect(U, s)
    BY <1>1, <1>2, <1>4 DEF SoDisconnect
  <2>2. /\ Touched(U, T, s) /\ T[s].tp \in {"NOPCB", "FIN", "FIN2"}
        /\ U[s].tp \in {"CLOSED", "LISTEN"} => T[s].tp = "NOPCB"
    BY <1>1, <1>4, <2>1, TcpDisconnectOK
  <2> HIDE DEF T
  <2>3. U[s].acc => U[s].tp \in {"LISTEN", "NOPCB"}
    BY <1>1, LiveFacts
  <2>4. U[s].alive /\ "NOFDREF" \notin U[s].state /\ ~Held(U[s]) /\ ~Waiting(U[s])
    BY <1>1 DEF Ending, Held, Waiting
  <2>5. SockInv(T) /\ Ending(T[s])
    BY <1>1, <1>4, <2>2, <2>3, <2>4, TouchedOK DEF Connected
  <2>6. Kids(T[s]) = {} /\ T[s].acc = U[s].acc
    BY <1>1, <2>2 DEF Touched, SameLinks, Kids
  <2>7. OthersKept(S, T, s)
    BY <1>1, <2>2, TouchedKeepsOthers, OthersTrans
  <2>8. T[s].acc => T[s].tp = "NOPCB"
    BY <1>4, <2>2, <2>3, <2>6
  <2> QED BY <2>5, <2>6, <2>7, <2>8 DEF MustLinger, T
<1> QED BY <1>3, <1>4

\* A reference to s is given up; the owner may change with it.
Unheld(S, D, s) ==
  /\ DOMAIN D = Socks /\ DOMAIN D[s] = SockFields /\ \A x \in Socks : x # s => D[x] = S[x]
  /\ D[s].ref = S[s].ref - 1 /\ D[s].alive = S[s].alive /\ D[s].state = S[s].state
  /\ D[s].tp = S[s].tp /\ D[s].acc = S[s].acc /\ D[s].head = S[s].head
  /\ D[s].q0 = S[s].q0 /\ D[s].q = S[s].q /\ D[s].err = S[s].err /\ D[s].cc = S[s].cc
  /\ D[s].slp = S[s].slp /\ D[s].rslp = S[s].rslp

LEMMA UnheldOK ==
  ASSUME NEW S, SockInv(S), NEW s \in Socks, S[s].ref > 0, NEW D, Unheld(S, D, s)
  PROVE  /\ SockInv(D) /\ OthersKept(S, D, s) /\ Wakes(S[s], D[s], {}) /\ D[s].ref \in Nat
         /\ "NOFDREF" \notin S[s].state /\ "ISDISCONNECTING" \notin D[s].state
         /\ D[s].ref <= 0 => Ending(D[s]) /\ D[s].ref = 0
<1>1. RecOK(S[s]) /\ Held(S[s]) /\ S[s].alive /\ S[s].ref \in Nat
  BY LiveFacts DEF SockInv
<1>2. D[s].ref \in Nat
  BY <1>1 DEF Unheld
<1>3. Held(D[s]) \/ (Ending(D[s]) /\ D[s].ref = 0)
  BY <1>1, <1>2 DEF Held, Ending, Unheld
<1>4. QueuesOK(D[s])
  BY <1>1 DEF RecOK, QueuesOK, Unheld
<1>5. RecOK(D[s])
  BY <1>1, <1>2, <1>3, <1>4 DEF RecOK, Unheld, OneState
<1>6. SockInv(D)
  BY <1>5, AdjustOK DEF Unheld
<1>7. Wakes(S[s], D[s], {}) /\ OthersKept(S, D, s)
  BY SameUndisturbed DEF Wakes, OthersKept, Unheld
<1> QED BY <1>1, <1>2, <1>3, <1>6, <1>7 DEF Held, Unheld

\* The close that follows the last reference, up to where it may sleep and to its end.
LEMMA CloseOK ==
  ASSUME NEW S, SockInv(S), NEW s \in Socks, S[s].ref > 0, NEW D, Unheld(S, D, s),
         D[s].ref <= 0
  PROVE  LET C == CloseStart(D, s)
             F == CloseFinish(C, s)
         IN  /\ SockInv(C) /\ Ending(C[s]) /\ OthersKept(S, C, s)
             /\ \A nbio : MustLinger(C, s, nbio) => ~C[s].acc
             /\ SockInv(F) /\ ~Ending(F[s]) /\ F[s].ref = 0 /\ OthersKept(S, F, s)
             /\ S[s].ref = 1
<1> DEFINE C == CloseStart(D, s)
           F == CloseFinish(C, s)
<1>1. /\ SockInv(D) /\ OthersKept(S, D, s) /\ "ISDISCONNECTING" \notin D[s].state
      /\ Ending(D[s]) /\ D[s].ref = 0
  BY UnheldOK
<1>2. /\ SockInv(C) /\ Ending(C[s]) /\ Kids(C[s]) = {} /\ OthersKept(D, C, s)
      /\ \A nbio : MustLinger(C, s, nbio) => ~C[s].acc
  BY <1>1, CloseStartOK
<1> HIDE DEF C
<1>3. SockInv(F) /\ ~Ending(F[s]) /\ F[s].ref = 0 /\ OthersKept(C, F, s)
  BY <1>2, CloseFinishOK
<1> HIDE DEF F
<1>4. OthersKept(S, C, s) /\ OthersKept(S, F, s)
  BY <1>1, <1>2, <1>3, OthersTrans
<1>5. S[s].ref = 1
  BY <1>1, LiveFacts DEF Unheld
<1> QED BY <1>2, <1>3, <1>4, <1>5 DEF C, F

-----------------------------------------------------------------------------
(* References.                                                             *)

LEMMA FiniteSlots ==
  ASSUME NEW tab, NEW s PROVE IsFiniteSet(SlotsOf(tab, s))
<1>1. IsFiniteSet(Fds)
  <2>1. 0 \in Int /\ NFds - 1 \in Int
    BY BoundAssumption
  <2>2. IsFiniteSet(0 .. (NFds - 1))
    BY <2>1, FS_Interval, Zenon
  <2> QED BY <2>2 DEF Fds
<1>2. IsFiniteSet(Bases \X Fds)
  BY <1>1, FS_Product, FiniteAssumption
<1> QED BY <1>2, FS_Subset DEF SlotsOf

LEMMA FiniteNodes ==
  ASSUME NEW rel, NEW X, rel \in Seq(X), NEW s PROVE IsFiniteSet(NodesOf(rel, s))
<1>1. IsFiniteSet(1..Len(rel)) /\ DOMAIN rel = 1..Len(rel)
  BY FS_Interval, LenProperties
<1> QED BY <1>1, FS_Subset DEF NodesOf

\* The tables differ in one slot, which now names s.
OneSlot(tab, tab1, b, fd) ==
  \A c \in Bases, g \in Fds : c # b \/ g # fd => tab1[c][g] = tab[c][g]
Writes(tab, tab1, b, fd, s) ==
  /\ tab1 \in [Bases -> [Fds -> Socks \cup {NoSock}]]
  /\ tab1[b][fd] = s /\ OneSlot(tab, tab1, b, fd)

LEMMA SlotWritten ==
  ASSUME NEW tab, NEW rel, TablesTyped(tab, rel), NEW b \in Bases,
         NEW fd \in Fds, NEW s \in Socks \cup {NoSock}
  PROVE  Writes(tab, [tab EXCEPT ![b][fd] = s], b, fd, s)
<1> DEFINE tab1 == [tab EXCEPT ![b][fd] = s]
<1>1. /\ tab1 \in [Bases -> [Fds -> Socks \cup {NoSock}]] /\ tab1[b][fd] = s
      /\ \A c \in Bases, g \in Fds : c # b \/ g # fd => tab1[c][g] = tab[c][g]
  BY DEF TablesTyped
<1> QED BY <1>1 DEF OneSlot, Writes

\* A slot that named nothing names s.
Fills(tab, tab1, b, fd, s) ==
  OneSlot(tab, tab1, b, fd) /\ tab[b][fd] = NoSock /\ tab1[b][fd] = s

LEMMA SlotFilledRefs ==
  ASSUME NEW tab, NEW tab1, NEW b \in Bases, NEW fd \in Fds, NEW s \in Socks,
         Fills(tab, tab1, b, fd, s)
  PROVE  /\ Cardinality(SlotsOf(tab1, s)) = Cardinality(SlotsOf(tab, s)) + 1
         /\ \A x \in Socks : x # s => SlotsOf(tab1, x) = SlotsOf(tab, x)
<1> DEFINE p == <<b, fd>>
<1>1. tab[b][fd] = NoSock /\ tab1[b][fd] = s
  BY DEF Fills
<1>3. \A o \in Bases \X Fds : o # p => tab1[o[1]][o[2]] = tab[o[1]][o[2]]
  BY DEF OneSlot, Fills
<1>4. p \in Bases \X Fds /\ p[1] = b /\ p[2] = fd
  OBVIOUS
<1> HIDE DEF p
<1>5. SlotsOf(tab1, s) = SlotsOf(tab, s) \cup {p} /\ p \notin SlotsOf(tab, s)
  BY <1>1, <1>3, <1>4, NullAssumption DEF SlotsOf
<1>6. \A x \in Socks : x # s => SlotsOf(tab1, x) = SlotsOf(tab, x)
  BY <1>1, <1>3, <1>4, NullAssumption DEF SlotsOf
<1>7. Cardinality(SlotsOf(tab1, s)) = Cardinality(SlotsOf(tab, s)) + 1
  BY <1>5, FiniteSlots, FS_AddElement
<1> QED BY <1>6, <1>7

\* A slot that named s names nothing.
LEMMA SlotClearedRefs ==
  ASSUME NEW tab, NEW tab1, NEW b \in Bases, NEW fd \in Fds, NEW s \in Socks,
         Fills(tab1, tab, b, fd, s)
  PROVE  /\ Cardinality(SlotsOf(tab1, s)) = Cardinality(SlotsOf(tab, s)) - 1
         /\ \A x \in Socks : x # s => SlotsOf(tab1, x) = SlotsOf(tab, x)
<1>1. /\ Cardinality(SlotsOf(tab, s)) = Cardinality(SlotsOf(tab1, s)) + 1
      /\ \A x \in Socks : x # s => SlotsOf(tab, x) = SlotsOf(tab1, x)
  BY SlotFilledRefs
<1>2. Cardinality(SlotsOf(tab1, s)) \in Nat
  BY FiniteSlots, FS_CardinalityType
<1> QED BY <1>1, <1>2

\* What a slot or a node names is held.
LEMMA NamedHeld ==
  ASSUME NEW S, NEW tab, NEW rel, RefsExact(S, tab, rel), TablesTyped(tab, rel),
         NEW s \in Socks, SlotsOf(tab, s) # {} \/ NodesOf(rel, s) # {}
  PROVE  S[s].ref > 0
<1>1. IsFiniteSet(SlotsOf(tab, s)) /\ IsFiniteSet(NodesOf(rel, s))
  BY FiniteSlots, FiniteNodes DEF TablesTyped
<1>2. Cardinality(SlotsOf(tab, s)) \in Nat /\ Cardinality(NodesOf(rel, s)) \in Nat
  BY <1>1, FS_CardinalityType
<1>3. Cardinality(SlotsOf(tab, s)) # 0 \/ Cardinality(NodesOf(rel, s)) # 0
  BY <1>1, FS_EmptySet
<1> QED BY <1>2, <1>3 DEF RefsExact

\* A node is added to the list of released sockets.
LEMMA NodeAddedRefs ==
  ASSUME NEW X, NEW rel \in Seq(X), NEW n \in X
  PROVE  LET rel1 == Append(rel, n)
         IN  /\ rel1 \in Seq(X)
             /\ Cardinality(NodesOf(rel1, n.so)) = Cardinality(NodesOf(rel, n.so)) + 1
             /\ \A x : x # n.so => NodesOf(rel1, x) = NodesOf(rel, x)
<1> DEFINE rel1 == Append(rel, n)
           k == Len(rel) + 1
<1>1. Len(rel) \in Nat /\ DOMAIN rel = 1..Len(rel)
  BY LenProperties
<1>2. /\ rel1 \in Seq(X) /\ Len(rel1) = k /\ rel1[k] = n
      /\ \A i \in 1..Len(rel) : rel1[i] = rel[i]
  BY AppendProperties
<1> HIDE DEF rel1
<1>3. DOMAIN rel1 = 1..k
  BY <1>2, LenProperties
<1>4. DOMAIN rel1 = DOMAIN rel \cup {k} /\ k \notin DOMAIN rel
  BY <1>1, <1>3
<1>5. \A i \in DOMAIN rel : rel1[i] = rel[i]
  BY <1>1, <1>2
<1> HIDE DEF k
<1>6. /\ NodesOf(rel1, n.so) = NodesOf(rel, n.so) \cup {k} /\ k \notin NodesOf(rel, n.so)
      /\ \A x : x # n.so => NodesOf(rel1, x) = NodesOf(rel, x)
  BY <1>2, <1>4, <1>5 DEF NodesOf
<1>7. Cardinality(NodesOf(rel1, n.so)) = Cardinality(NodesOf(rel, n.so)) + 1
  BY <1>6, FiniteNodes, FS_AddElement
<1> QED BY <1>2, <1>6, <1>7 DEF rel1

\* A node is taken out of it, and those behind it move up.
LEMMA NodeCutRefs ==
  ASSUME NEW X, NEW rel \in Seq(X), NEW n \in DOMAIN rel,
         NEW rel1 \in Seq(X), Len(rel1) = Len(rel) - 1,
         \A i \in 1..(Len(rel) - 1) : rel1[i] = IF i < n THEN rel[i] ELSE rel[i + 1]
  PROVE  /\ Cardinality(NodesOf(rel1, rel[n].so)) = Cardinality(NodesOf(rel, rel[n].so)) - 1
         /\ \A x : x # rel[n].so =>
              Cardinality(NodesOf(rel1, x)) = Cardinality(NodesOf(rel, x))
<1>1. /\ Len(rel) \in Nat /\ DOMAIN rel = 1..Len(rel) /\ n \in 1..Len(rel)
      /\ DOMAIN rel1 = 1..(Len(rel) - 1)
  BY LenProperties
<1>2. ASSUME NEW x
      PROVE  Cardinality(NodesOf(rel1, x)) = Cardinality(NodesOf(rel, x) \ {n})
  <2> DEFINE P == NodesOf(rel1, x)
             Q == NodesOf(rel, x) \ {n}
             m(i) == IF i < n THEN i ELSE i + 1
             f == [i \in P |-> m(i)]
  <2>1. \A i \in DOMAIN rel1 : m(i) \in DOMAIN rel /\ m(i) # n /\ rel1[i] = rel[m(i)]
    BY <1>1
  <2>2. \A i, j \in DOMAIN rel1 : m(i) = m(j) => i = j
    BY <1>1
  <2>3. \A k \in DOMAIN rel : k # n => \E i \in DOMAIN rel1 : m(i) = k
    <3> SUFFICES ASSUME NEW k \in DOMAIN rel, k # n PROVE \E i \in DOMAIN rel1 : m(i) = k
      OBVIOUS
    <3> DEFINE i == IF k < n THEN k ELSE k - 1
    <3>1. i \in DOMAIN rel1 /\ m(i) = k
      BY <1>1
    <3> QED BY <3>1
  <2> HIDE DEF m
  <2>4. \A i \in P : i \in DOMAIN rel1 /\ rel1[i].so = x
    BY DEF NodesOf
  <2>5. \A k : k \in Q <=> k \in DOMAIN rel /\ rel[k].so = x /\ k # n
    BY DEF NodesOf
  <2>6. f \in [P -> Q]
    BY <2>1, <2>4, <2>5
  <2>7. \A k \in Q : \E i \in P : f[i] = k
    <3> SUFFICES ASSUME NEW k \in Q PROVE \E i \in P : f[i] = k
      OBVIOUS
    <3>1. PICK i \in DOMAIN rel1 : m(i) = k
      BY <2>3, <2>5
    <3>2. rel1[i].so = x
      BY <2>1, <2>5, <3>1
    <3>3. i \in P
      BY <3>2 DEF NodesOf
    <3> QED BY <3>1, <3>3
  <2>8. \A i, j \in P : f[i] = f[j] => i = j
    BY <2>2, <2>4
  <2> HIDE DEF f
  <2>9. f \in Bijection(P, Q)
    BY <2>6, <2>7, <2>8 DEF Bijection, Injection, Surjection, IsInjective
  <2>10. ExistsBijection(P, Q)
    BY <2>9 DEF ExistsBijection
  <2> HIDE DEF P, Q
  <2>11. IsFiniteSet(P)
    BY FiniteNodes DEF P
  <2>12. Cardinality(Q) = Cardinality(P)
    BY <2>10, <2>11, FS_Bijection
  <2> QED BY <2>12 DEF P, Q
<1>3. \A x : IsFiniteSet(NodesOf(rel, x))
  BY FiniteNodes
<1>4. \A x : n \in NodesOf(rel, x) <=> x = rel[n].so
  BY DEF NodesOf
<1>5. Cardinality(NodesOf(rel, rel[n].so) \ {n}) = Cardinality(NodesOf(rel, rel[n].so)) - 1
  BY <1>3, <1>4, FS_RemoveElement
<1>6. \A x : x # rel[n].so =>
        Cardinality(NodesOf(rel, x) \ {n}) = Cardinality(NodesOf(rel, x))
  BY <1>3, <1>4, FS_RemoveElement
<1> QED BY <1>2, <1>5, <1>6

\* Taking out the first one.
LEMMA TailCuts ==
  ASSUME NEW X, NEW rel \in Seq(X), rel # <<>>
  PROVE  /\ Tail(rel) \in Seq(X) /\ Len(Tail(rel)) = Len(rel) - 1 /\ 1 \in DOMAIN rel
         /\ \A i \in 1..(Len(rel) - 1) :
              Tail(rel)[i] = IF i < 1 THEN rel[i] ELSE rel[i + 1]
         /\ Head(rel) = rel[1]
<1>1. Len(rel) \in Nat /\ DOMAIN rel = 1..Len(rel) /\ Len(rel) # 0
  BY LenProperties, EmptySeq
<1>2. /\ Tail(rel) \in Seq(X) /\ Len(Tail(rel)) = Len(rel) - 1 /\ Head(rel) = rel[1]
      /\ \A i \in 1..(Len(rel) - 1) : Tail(rel)[i] = rel[i + 1]
  BY HeadTailProperties
<1> QED BY <1>1, <1>2

-----------------------------------------------------------------------------
(* Sleeping calls.                                                         *)

\* What the tasks other than A that sleep on a socket need of it.
Kept(r, r1, A) == /\ r.ref > 0 => r1.ref > 0
                  /\ Ending(r) => Ending(r1) /\ r1.acc = r.acc
                  /\ Wakes(r, r1, A)

LEMMA CallKept ==
  ASSUME NEW u, NEW c, NEW S, NEW T, NEW A, u \notin A, CallOK(c, S), c.op # "none",
         ReasonOK(u, c, S[c.so]), Kept(S[c.so], T[c.so], A)
  PROVE  CallOK(c, T) /\ ReasonOK(u, c, T[c.so])
<1> DEFINE r == S[c.so]
           r1 == T[c.so]
<1>1. CallOK(c, T)
  BY DEF CallOK, Kept
<1>2. u \in r1.slp => u \in r.slp /\ (r.q = <<>> => r1.q = <<>>) /\ (r1.err => r.err)
                        /\ ("ISCONNECTED" \in r1.state <=> "ISCONNECTED" \in r.state)
  BY DEF Kept, Wakes
<1>3. u \in r1.rslp => u \in r.rslp /\ (r1.cc => r.cc) /\ (r1.err => r.err)
                         /\ ("CANTRCVMORE" \in r1.state => "CANTRCVMORE" \in r.state)
  BY DEF Kept, Wakes
<1> HIDE DEF r, r1
<1>4. ReasonOK(u, c, r)
  BY DEF r
<1>5. ReasonOK(u, c, r1)
  BY <1>2, <1>3, <1>4 DEF ReasonOK
<1> QED BY <1>1, <1>5 DEF r1

\* Nothing that anybody waits for changes.
Gentle(r, r1) == /\ r.ref > 0 \/ Ending(r) => Kept(r, r1, {})
                 /\ Ending(r1) => Ending(r)

LEMMA UndisturbedGentle ==
  ASSUME NEW r, NEW r1, Undisturbed(r, r1) PROVE Gentle(r, r1)
  BY DEF Undisturbed, Gentle, Kept

LEMMA CallsGentle ==
  ASSUME NEW cl, NEW S, CallsOK(cl, S), Reasons(cl, S), NEW T,
         \A x \in Socks : Gentle(S[x], T[x])
  PROVE  CallsOK(cl, T) /\ Reasons(cl, T)
<1>1. ASSUME NEW u \in Tasks
      PROVE  CallOK(cl[u], T) /\ (cl[u].op # "none" => ReasonOK(u, cl[u], T[cl[u].so]))
  <2>1. CallOK(cl[u], S) /\ (cl[u].op # "none" => ReasonOK(u, cl[u], S[cl[u].so]))
    BY DEF CallsOK, Reasons
  <2>2. CASE cl[u].op = "none"
    BY <2>1, <2>2 DEF CallOK, WaitOps, CloseOps
  <2>3. CASE cl[u].op # "none"
    <3>1. /\ cl[u].so \in Socks
          /\ S[cl[u].so].ref > 0 \/ Ending(S[cl[u].so])
      BY <2>1, <2>3 DEF CallOK
    <3>2. Kept(S[cl[u].so], T[cl[u].so], {})
      BY <3>1 DEF Gentle
    <3> QED BY <2>1, <2>3, <3>2, CallKept
  <2> QED BY <2>2, <2>3
<1>2. OneCloser(cl, T)
  BY DEF CallsOK, OneCloser, Gentle
<1> QED BY <1>1, <1>2 DEF CallsOK, Reasons

\* One task's call begins, goes on or ends; the others keep what they sleep on.
OthersSleep(cl, cl1, S, T, t) ==
  \A u \in Tasks : u # t =>
    cl1[u] = cl[u] /\ (cl[u].op # "none" => Kept(S[cl[u].so], T[cl[u].so], {t}))
ActorOK(c, T, t) == CallOK(c, T) /\ (c.op # "none" => ReasonOK(t, c, T[c.so]))
ClosersKept(c, c1, S, T) ==
  /\ \A s \in Socks : Ending(T[s]) =>
       \/ c1.op \in CloseOps /\ c1.so = s
       \/ Ending(S[s]) /\ ~(c.op \in CloseOps /\ c.so = s)
  /\ c1.op \in CloseOps => ~Ending(S[c1.so]) \/ c1 = c

LEMMA CallsStep ==
  ASSUME NEW cl, NEW S, CallsOK(cl, S), Reasons(cl, S), NEW T, NEW t \in Tasks, NEW cl1,
         DOMAIN cl1 = Tasks, OthersSleep(cl, cl1, S, T, t), ActorOK(cl1[t], T, t),
         ClosersKept(cl[t], cl1[t], S, T)
  PROVE  CallsOK(cl1, T) /\ Reasons(cl1, T)
<1>0. /\ \A u \in Tasks : u # t =>
           cl1[u] = cl[u] /\ (cl[u].op # "none" => Kept(S[cl[u].so], T[cl[u].so], {t}))
      /\ CallOK(cl1[t], T) /\ (cl1[t].op # "none" => ReasonOK(t, cl1[t], T[cl1[t].so]))
      /\ \A s \in Socks : Ending(T[s]) =>
           \/ cl1[t].op \in CloseOps /\ cl1[t].so = s
           \/ Ending(S[s]) /\ ~(cl[t].op \in CloseOps /\ cl[t].so = s)
      /\ cl1[t].op \in CloseOps => ~Ending(S[cl1[t].so]) \/ cl1[t] = cl[t]
  BY DEF OthersSleep, ActorOK, ClosersKept
<1>1. ASSUME NEW u \in Tasks, u # t
      PROVE  CallOK(cl1[u], T) /\ (cl1[u].op # "none" => ReasonOK(u, cl1[u], T[cl1[u].so]))
  <2>1. /\ CallOK(cl[u], S) /\ (cl[u].op # "none" => ReasonOK(u, cl[u], S[cl[u].so]))
        /\ cl1[u] = cl[u]
    BY <1>0, <1>1 DEF CallsOK, Reasons
  <2>2. CASE cl[u].op = "none"
    BY <2>1, <2>2 DEF CallOK, WaitOps, CloseOps
  <2>3. CASE cl[u].op # "none"
    BY <1>0, <1>1, <2>1, <2>3, CallKept
  <2> QED BY <2>2, <2>3
<1>2. \A u \in Tasks : CallOK(cl1[u], T)
  BY <1>0, <1>1
<1>3. Reasons(cl1, T)
  BY <1>0, <1>1 DEF Reasons
<1>4. ASSUME NEW u \in Tasks, u # t, cl1[u].op \in CloseOps, cl1[t].op \in CloseOps,
             cl1[u].so = cl1[t].so
      PROVE  FALSE
  <2>1. cl1[u] = cl[u] /\ Ending(S[cl[u].so])
    BY <1>0, <1>4 DEF CallsOK, CallOK
  <2>2. cl1[t] = cl[t]
    BY <1>0, <1>4, <2>1
  <2> QED BY <1>4, <2>1, <2>2 DEF CallsOK, OneCloser
<1>5. \A u, v \in Tasks : cl1[u].op \in CloseOps /\ cl1[v].op \in CloseOps
                            /\ cl1[u].so = cl1[v].so => u = v
  <2> SUFFICES ASSUME NEW u \in Tasks, NEW v \in Tasks, cl1[u].op \in CloseOps,
                      cl1[v].op \in CloseOps, cl1[u].so = cl1[v].so, u # v
               PROVE  FALSE
    OBVIOUS
  <2>1. CASE u = t
    BY <1>4, <2>1
  <2>2. CASE v = t
    BY <1>4, <2>2
  <2>3. CASE u # t /\ v # t
    BY <1>0, <2>3 DEF CallsOK, OneCloser
  <2> QED BY <2>1, <2>2, <2>3
<1>6. ASSUME NEW s \in Socks, Ending(T[s])
      PROVE  \E u \in Tasks : cl1[u].op \in CloseOps /\ cl1[u].so = s
  <2>1. CASE cl1[t].op \in CloseOps /\ cl1[t].so = s
    BY <2>1
  <2>2. CASE Ending(S[s]) /\ ~(cl[t].op \in CloseOps /\ cl[t].so = s)
    <3>1. PICK u \in Tasks : cl[u].op \in CloseOps /\ cl[u].so = s
      BY <2>2 DEF CallsOK, OneCloser
    <3> QED BY <1>0, <2>2, <3>1
  <2> QED BY <1>0, <1>6, <2>1, <2>2
<1> QED BY <1>2, <1>3, <1>5, <1>6 DEF CallsOK, OneCloser

-----------------------------------------------------------------------------
(* Steps that neither give nor take a reference and end nobody's wait.     *)

Quiet(S, T) == SockInv(T) /\ \A x \in Socks : Undisturbed(S[x], T[x])

LEMMA RefsSame ==
  ASSUME NEW S, NEW T, NEW tab, NEW rel, RefsExact(S, tab, rel),
         \A x \in Socks : T[x].ref = S[x].ref
  PROVE  RefsExact(T, tab, rel)
  BY DEF RefsExact

LEMMA QuietStep ==
  ASSUME LifeInv, Quiet(so, so'), UNCHANGED <<dTable, released, call>>, ~panicked'
  PROVE  LifeInv'
<1>1. CallsOK(call, so') /\ Reasons(call, so')
  BY CallsGentle, UndisturbedGentle DEF LifeInv, Quiet
<1>2. RefsExact(so', dTable, released)
  BY RefsSame DEF LifeInv, Quiet, Undisturbed
<1> QED BY <1>1, <1>2 DEF LifeInv, Quiet

LEMMA QuietTouch ==
  ASSUME NEW S, SockInv(S), NEW s \in Socks, S[s].alive, NEW T, Touched(S, T, s),
         Held(S[s]) \/ Waiting(S[s]) => "ISDISCONNECTING" \notin T[s].state,
         \/ T[s].tp = S[s].tp
         \/ T[s].tp \in Connected /\ ~S[s].acc
         \/ T[s].tp \in {"NOPCB", "LISTEN"} /\ "NOFDREF" \notin S[s].state,
         Wakes(S[s], T[s], {})
  PROVE  Quiet(S, T)
<1>1. SockInv(T) /\ (Ending(T[s]) <=> Ending(S[s]))
  BY TouchedOK
<1>2. T[s].ref = S[s].ref /\ T[s].acc = S[s].acc
  BY DEF Touched, SameLinks
<1>3. Undisturbed(S[s], T[s])
  BY <1>1, <1>2 DEF Undisturbed
<1>4. \A x \in Socks : x # s => Undisturbed(S[x], T[x])
  BY SameUndisturbed DEF Touched
<1> QED BY <1>1, <1>3, <1>4 DEF Quiet

LEMMA QuietEnd ==
  ASSUME NEW S, SockInv(S), NEW s \in Socks, S[s].alive, NEW T, Ended(S, T, s)
  PROVE  Quiet(S, T)
<1>1. CASE "NOFDREF" \notin S[s].state
  <2>1. /\ Touched(S, T, s) /\ T[s].tp = "NOPCB" /\ T[s].slp = {} /\ T[s].rslp = {}
        /\ "ISDISCONNECTING" \notin T[s].state
    BY <1>1 DEF Ended
  <2>2. Wakes(S[s], T[s], {})
    BY <2>1 DEF Wakes
  <2> QED BY <1>1, <2>1, <2>2, QuietTouch
<1>2. CASE "NOFDREF" \in S[s].state
  <2>1. SockInv(T) /\ T[s] = FreeSock /\ OthersKept(S, T, s)
    BY <1>2 DEF Ended
  <2>2. S[s].ref = 0 /\ ~Ending(S[s])
    BY <1>2, LiveFacts DEF Waiting, Orphan, Ending
  <2>3. Undisturbed(S[s], T[s])
    BY <2>1, <2>2, FreeRec DEF Undisturbed
  <2> QED BY <2>1, <2>3 DEF Quiet, OthersKept
<1> QED BY <1>1, <1>2

\* soiscantrcvmore, data, the acknowledgment of a FIN: one record's flags.
LEMMA CantRcvMoreQuiet ==
  ASSUME NEW S, SockInv(S), NEW s \in Socks, S[s].alive
  PROVE  Quiet(S, SoCantRcvMore(S, s))
<1> DEFINE T == SoCantRcvMore(S, s)
           r == S[s]
           st == r.state \cup {"CANTRCVMORE"}
<1>1. DOMAIN S = Socks /\ DOMAIN r = SockFields
  BY LiveFacts
<1>2. /\ DOMAIN T = Socks /\ \A x \in Socks : x # s => T[x] = S[x]
      /\ T[s] = [r EXCEPT !.state = st, !.rslp = {}]
  BY <1>1 DEF SoCantRcvMore
<1>3. /\ "NOFDREF" \in st <=> "NOFDREF" \in r.state
      /\ "ISCONNECTED" \in st <=> "ISCONNECTED" \in r.state
      /\ "ISDISCONNECTING" \in st <=> "ISDISCONNECTING" \in r.state
      /\ "ISCONNECTING" \in st <=> "ISCONNECTING" \in r.state
  OBVIOUS
<1> HIDE DEF T, st, r
<1>4. SameLinks(r, T[s]) /\ T[s].tp = r.tp /\ T[s].state = st
  BY <1>1, <1>2, <1>3 DEF SameLinks, SockFields, OneState
<1>5. Wakes(r, T[s], {})
  BY <1>1, <1>2, <1>3 DEF Wakes, SockFields
<1>6. Touched(S, T, s)
  BY <1>2, <1>4 DEF Touched, r
<1>7. Held(r) \/ Waiting(r) => "ISDISCONNECTING" \notin T[s].state
  BY <1>3, <1>4 DEF Held, Waiting
<1> QED BY <1>4, <1>5, <1>6, <1>7, QuietTouch DEF T, r

LEMMA DisconnectedQuiet ==
  ASSUME NEW S, SockInv(S), NEW s \in Socks, S[s].alive
  PROVE  Quiet(S, SoIsDisconnected(S, s))
<1> DEFINE T == SoIsDisconnected(S, s)
<1>1. /\ Touched(S, T, s) /\ T[s].tp = S[s].tp /\ T[s].slp = {} /\ T[s].rslp = {}
      /\ "ISDISCONNECTING" \notin T[s].state
  BY DisconnectedProps
<1> HIDE DEF T
<1>2. Wakes(S[s], T[s], {})
  BY <1>1 DEF Wakes
<1> QED BY <1>1, <1>2, QuietTouch DEF T

LEMMA UndisturbedTrans ==
  ASSUME NEW r, NEW r1, NEW r2, Undisturbed(r, r1), Undisturbed(r1, r2)
  PROVE  Undisturbed(r, r2)
  BY WakesTrans DEF Undisturbed

LEMMA QuietTrans ==
  ASSUME NEW S, NEW T, NEW U, Quiet(S, T), Quiet(T, U) PROVE Quiet(S, U)
  BY UndisturbedTrans DEF Quiet

\* Another connection state, with everything else as it was.
LEMMA TpQuiet ==
  ASSUME NEW S, SockInv(S), NEW s \in Socks, S[s].alive, ~S[s].acc, NEW p \in Connected,
         NEW T, T = [S EXCEPT ![s].tp = p]
  PROVE  Quiet(S, T)
<1> DEFINE r == S[s]
<1>1. DOMAIN S = Socks /\ DOMAIN r = SockFields
  BY LiveFacts
<1>2. /\ DOMAIN T = Socks /\ \A x \in Socks : x # s => T[x] = S[x]
      /\ T[s] = [r EXCEPT !.tp = p]
  BY <1>1
<1>3. SameLinks(r, T[s]) /\ T[s].tp = p /\ T[s].state = r.state
  BY <1>1, <1>2 DEF SameLinks, SockFields, OneState
<1>4. Wakes(r, T[s], {})
  BY <1>1, <1>2 DEF Wakes, SockFields
<1>5. Touched(S, T, s)
  BY <1>2, <1>3 DEF Touched
<1> HIDE DEF r
<1>6. Held(r) \/ Waiting(r) => "ISDISCONNECTING" \notin T[s].state
  BY <1>3 DEF Held, Waiting
<1> QED BY <1>3, <1>4, <1>5, <1>6, QuietTouch DEF r

\* soisconnected moves a queued connection to the completed ones and wakes the listener's
\* sleepers, or wakes the sleepers of the socket itself.
LEMMA ConnectedQuiet ==
  ASSUME NEW S, SockInv(S), NEW s \in Socks, S[s].alive, ~S[s].acc
  PROVE  LET T == SoIsConnected(S, s)
         IN  Quiet(S, T) /\ T[s].alive /\ ~T[s].acc
<1> DEFINE T == SoIsConnected(S, s)
           r == S[s]
           st == NowConnected(r.state)
           h == r.head
<1>1. DOMAIN S = Socks /\ DOMAIN r = SockFields /\ RecOK(r)
  BY LiveFacts DEF SockInv
<1>2. /\ "NOFDREF" \in st <=> "NOFDREF" \in r.state
      /\ "ISDISCONNECTING" \notin st /\ "ISCONNECTING" \notin st
  BY DEF NowConnected
<1>3. CASE h # NoSock /\ s \in Elems(S[h].q0)
  <2> DEFINE g == S[h]
             g1 == [g EXCEPT !.q0 = Without(@, s), !.q = Append(@, s), !.slp = {}, !.rslp = {}]
             r1 == [r EXCEPT !.state = st]
  <2>1. /\ h \in Socks /\ h # s /\ g.acc /\ Waiting(r) /\ r.q0 = <<>> /\ r.q = <<>>
        /\ DOMAIN g = SockFields /\ RecOK(g) /\ g.alive
    BY <1>3, QueuedFacts, LiveFacts DEF SockInv
  <2>2. T = [S EXCEPT ![s].state = NowConnected(@),
                      ![h].q0 = Without(@, s), ![h].q = Append(@, s),
                      ![h].slp = {}, ![h].rslp = {}]
    BY <1>3 DEF SoIsConnected
  <2>3. /\ DOMAIN T = Socks /\ \A x \in Socks : x \notin {s, h} => T[x] = S[x]
        /\ T[s] = r1 /\ T[h] = g1
    BY <1>1, <2>1, <2>2
  <2>4. /\ DOMAIN g1 = SockFields /\ g1.q0 = Without(g.q0, s) /\ g1.q = Append(g.q, s)
        /\ g1.slp = {} /\ g1.rslp = {} /\ g1.alive = g.alive /\ g1.ref = g.ref
        /\ g1.state = g.state /\ g1.tp = g.tp /\ g1.acc = g.acc /\ g1.head = g.head
    BY <2>1 DEF SockFields
  <2> HIDE DEF st
  <2>5. /\ DOMAIN r1 = SockFields /\ r1.q0 = r.q0 /\ r1.q = r.q /\ r1.state = st
        /\ r1.alive = r.alive /\ r1.ref = r.ref /\ r1.tp = r.tp /\ r1.acc = r.acc
        /\ r1.head = r.head
    BY <1>1 DEF SockFields
  <2> HIDE DEF T, g1, r1
  <2>6. RecOK(r1) /\ Kids(r1) = Kids(r) /\ Undisturbed(r, r1)
    <3>1. Waiting(r1) /\ ~Ending(r) /\ ~Ending(r1) /\ r1.ref = 0 /\ r.ref = 0
      BY <1>2, <2>1, <2>5 DEF Waiting, Ending
    <3>2. QueuesOK(r1)
      BY <2>1, <2>5, EmptyProps DEF QueuesOK
    <3> QED BY <1>1, <1>2, <2>5, <3>1, <3>2 DEF RecOK, Kids, Undisturbed, OneState
  <2>7. QueuesOK(g1) /\ Kids(g1) = Kids(g)
    <3>1. /\ g.q0 \in Seq(Socks) /\ g.q \in Seq(Socks) /\ NoDup(g.q0) /\ NoDup(g.q)
          /\ Elems(g.q0) \cap Elems(g.q) = {}
      BY <2>1 DEF RecOK, QueuesOK
    <3>2. /\ g1.q0 \in Seq(Socks) /\ NoDup(g1.q0) /\ Elems(g1.q0) = Elems(g.q0) \ {s}
      BY <2>4, <3>1, WithoutProps
    <3>3. /\ g1.q \in Seq(Socks) /\ NoDup(g1.q) /\ Elems(g1.q) = Elems(g.q) \cup {s}
      BY <1>3, <2>4, <3>1, AppendProps
    <3> QED BY <1>3, <2>1, <2>4, <3>1, <3>2, <3>3 DEF QueuesOK, Kids
  <2>8. RecOK(g1) /\ Undisturbed(g, g1)
    <3>1. (Held(g1) <=> Held(g)) /\ (Ending(g1) <=> Ending(g))
      BY <2>4 DEF Held, Ending
    <3>2. Held(g) \/ Ending(g)
      BY <2>1, LiveFacts
    <3>3. RecOK(g1)
      BY <2>1, <2>4, <2>7, <3>1, <3>2 DEF RecOK, OneState
    <3> QED BY <2>4, <3>1, <3>3 DEF Undisturbed, Wakes
  <2>9. SockInv(T)
    BY <1>3, <2>3, <2>4, <2>5, <2>6, <2>7, <2>8, MoveOK
  <2>10. \A x \in Socks : Undisturbed(S[x], T[x])
    BY <2>3, <2>6, <2>8, SameUndisturbed
  <2> QED BY <2>3, <2>5, <2>9, <2>10 DEF Quiet, T
<1>4. CASE ~(h # NoSock /\ s \in Elems(S[h].q0))
  <2>1. T = [S EXCEPT ![s].state = NowConnected(@), ![s].slp = {}, ![s].rslp = {}]
    BY <1>4 DEF SoIsConnected
  <2>2. /\ DOMAIN T = Socks /\ \A x \in Socks : x # s => T[x] = S[x]
        /\ T[s] = [r EXCEPT !.state = st, !.slp = {}, !.rslp = {}]
    BY <1>1, <2>1
  <2> HIDE DEF T, st, r
  <2>3. /\ SameLinks(r, T[s]) /\ T[s].tp = r.tp /\ T[s].state = st
        /\ T[s].slp = {} /\ T[s].rslp = {}
    BY <1>1, <1>2, <2>2 DEF SameLinks, SockFields, OneState
  <2>4. Touched(S, T, s) /\ Wakes(r, T[s], {})
    BY <2>2, <2>3 DEF Touched, Wakes, r
  <2>5. Quiet(S, T)
    BY <1>2, <2>3, <2>4, QuietTouch DEF r
  <2> QED BY <2>3, <2>5 DEF SameLinks, T, r
<1> QED BY <1>3, <1>4

\* sonewconn queues a new socket on a listener.
LEMMA NewConnQuiet ==
  ASSUME NEW S, SockInv(S), NEW h \in Socks, S[h].alive, S[h].acc, S[h].tp = "LISTEN",
         NEW s \in Socks, ~S[s].alive, NEW T, NEW l, NEW p,
         "ISDISCONNECTING" \notin S[h].state,
         T = [S EXCEPT ![s] = [FreeSock EXCEPT
                        !.alive = TRUE, !.tp = "SYN", !.head = h,
                        !.state = S[h].state \cup {"NOFDREF"}, !.linger = l, !.pgid = p],
                       ![h].q0 = Append(@, s)]
  PROVE  Quiet(S, T)
<1> DEFINE st == S[h].state \cup {"NOFDREF"}
           r == [FreeSock EXCEPT !.alive = TRUE, !.tp = "SYN", !.head = h,
                                 !.state = st, !.linger = l, !.pgid = p]
           g == S[h]
           g1 == [g EXCEPT !.q0 = Append(@, s)]
<1>1. /\ DOMAIN S = Socks /\ h # s /\ DOMAIN g = SockFields /\ RecOK(g) /\ RecOK(S[s])
  BY LiveFacts DEF SockInv
<1>2. /\ DOMAIN T = Socks /\ T[s] = r /\ T[h] = g1
      /\ \A x \in Socks : x \notin {s, h} => T[x] = S[x]
  BY <1>1
<1>3. /\ "NOFDREF" \in st /\ "ISDISCONNECTING" \notin st
      /\ "ISCONNECTING" \notin st \/ "ISCONNECTED" \notin st
  BY <1>1 DEF RecOK, OneState
<1> HIDE DEF st
<1>4. /\ DOMAIN r = SockFields /\ r.alive /\ r.tp = "SYN" /\ r.head = h /\ r.state = st
      /\ r.ref = 0 /\ ~r.acc /\ r.q0 = <<>> /\ r.q = <<>>
  BY DEF FreeSock, SockFields
<1>5. /\ DOMAIN g1 = SockFields /\ g1.q0 = Append(g.q0, s) /\ g1.q = g.q
      /\ g1.slp = g.slp /\ g1.rslp = g.rslp /\ g1.alive = g.alive /\ g1.ref = g.ref
      /\ g1.state = g.state /\ g1.tp = g.tp /\ g1.acc = g.acc /\ g1.head = g.head
      /\ g1.err = g.err /\ g1.cc = g.cc
  BY <1>1 DEF SockFields
<1> HIDE DEF r, g1
<1>6. RecOK(r) /\ Kids(r) = {} /\ ~Ending(r)
  <2>1. Waiting(r) /\ ~Ending(r)
    BY <1>3, <1>4, NullAssumption DEF Waiting, Ending
  <2>2. QueuesOK(r) /\ Kids(r) = {}
    BY <1>4, EmptyProps DEF QueuesOK, Kids
  <2> QED BY <1>3, <1>4, <2>1, <2>2 DEF RecOK, Connected, OneState
<1>7. s \notin Kids(g)
  <2>1. S[s].head = NoSock
    BY <1>1 DEF RecOK, FreeSock
  <2> QED BY <2>1, NullAssumption DEF SockInv, Linked
<1>8. QueuesOK(g1) /\ Kids(g1) = Kids(g) \cup {s}
  <2>1. /\ g.q0 \in Seq(Socks) /\ g.q \in Seq(Socks) /\ NoDup(g.q0) /\ NoDup(g.q)
        /\ Elems(g.q0) \cap Elems(g.q) = {}
    BY <1>1 DEF RecOK, QueuesOK
  <2>2. /\ g1.q0 \in Seq(Socks) /\ NoDup(g1.q0) /\ Elems(g1.q0) = Elems(g.q0) \cup {s}
    BY <1>5, <1>7, <2>1, AppendProps DEF Kids
  <2> QED BY <1>5, <1>7, <2>1, <2>2 DEF QueuesOK, Kids
<1>9. RecOK(g1) /\ Undisturbed(g, g1)
  <2>1. (Held(g1) <=> Held(g)) /\ (Ending(g1) <=> Ending(g))
    BY <1>5 DEF Held, Ending
  <2>2. Held(g) \/ Ending(g)
    BY LiveFacts
  <2>3. RecOK(g1)
    BY <1>1, <1>5, <1>8, <2>1, <2>2 DEF RecOK, OneState
  <2> QED BY <1>5, <2>1, <2>3 DEF Undisturbed, Wakes
<1>10. SockInv(T)
  <2>1. RecOK(T[s]) /\ T[s].head = h /\ Kids(T[s]) = {}
    BY <1>2, <1>4, <1>6
  <2>2. RecOK(T[h]) /\ T[h].head = S[h].head /\ Kids(T[h]) = Kids(S[h]) \cup {s}
    BY <1>2, <1>5, <1>8, <1>9
  <2>3. DOMAIN T = Socks /\ \A x \in Socks : x \notin {s, h} => T[x] = S[x]
    BY <1>2
  <2>4. Enqueues(S, T, h, s)
    BY <2>1, <2>2, <2>3 DEF Enqueues
  <2> QED BY <1>1, <2>4, EnqueueOK
<1>11. S[s] = FreeSock
  BY <1>1 DEF RecOK
<1>12. Undisturbed(S[s], r)
  BY <1>4, <1>6, <1>11, FreeRec DEF Undisturbed
<1> QED BY <1>2, <1>9, <1>10, <1>12, SameUndisturbed DEF Quiet

\* A socket with a pcb, while the invariant holds.
LEMMA ListenersHeld ==
  ASSUME LifeInv, NEW s \in Socks, so[s].acc PROVE Held(so[s])
<1>1. Held(so[s]) \/ Ending(so[s])
  BY LiveFacts DEF LifeInv
<1>2. ~Ending(so[s])
  BY DEF LifeInv, CallsOK, OneCloser, CallOK
<1> QED BY <1>1, <1>2

\* The network task's steps, but for reaping.
LEMMA NetworkStep ==
  ASSUME LifeInv, NEW s \in Socks, NEW e \in BOOLEAN,
         \/ NewConn(s) \/ Established(s) \/ DataArrives(s) \/ PeerFin(s) \/ FinAcked(s)
         \/ ConnectionGone(s, e)
  PROVE  LifeInv'
<1>0. /\ SockInv(so) /\ DOMAIN so = Socks /\ DOMAIN so[s] = SockFields
      /\ so[s].tp # "NOPCB" => so[s].alive
      /\ so[s].tp \in Connected => so[s].alive /\ ~so[s].acc
  BY LiveFacts DEF LifeInv, Connected
<1> SUFFICES Quiet(so, so') /\ UNCHANGED <<dTable, released, call>> /\ ~panicked'
  BY QuietStep
<1>1. CASE NewConn(s)
  <2>1. /\ so[s].alive /\ so[s].tp = "LISTEN" /\ so[s].acc
        /\ UNCHANGED <<dTable, released, call, panicked>>
    BY <1>1 DEF NewConn, tableVars
  <2> DEFINE l == IF so[s].linger = "off" THEN "off" ELSE "timed"
  <2>2. PICK c \in Socks :
          /\ ~so[c].alive
          /\ so' = [so EXCEPT ![c] = [FreeSock EXCEPT
                        !.alive = TRUE, !.tp = "SYN", !.head = s,
                        !.state = so[s].state \cup {"NOFDREF"}, !.linger = l,
                        !.pgid = so[s].pgid],
                       ![s].q0 = Append(@, c)]
    BY <1>1 DEF NewConn
  <2> HIDE DEF l
  <2>3. "ISDISCONNECTING" \notin so[s].state
    BY <2>1, ListenersHeld DEF Held
  <2>4. Quiet(so, so')
    BY <1>0, <2>1, <2>2, <2>3, NewConnQuiet
  <2> QED BY <2>1, <2>4 DEF LifeInv
<1>2. CASE Established(s)
  <2> DEFINE U == SoIsConnected(so, s)
  <2>1. /\ so[s].tp = "SYN" /\ so' = [U EXCEPT ![s].tp = "EST"]
        /\ UNCHANGED <<dTable, released, call, panicked>>
    BY <1>2 DEF Established, tableVars
  <2>2. Quiet(so, U) /\ U[s].alive /\ ~U[s].acc
    BY <1>0, <2>1, ConnectedQuiet DEF Connected
  <2> HIDE DEF U
  <2>3. Quiet(U, so')
    BY <2>1, <2>2, TpQuiet DEF Quiet, Connected
  <2> QED BY <2>1, <2>2, <2>3, QuietTrans DEF LifeInv
<1>3. CASE DataArrives(s)
  <2> DEFINE r == so[s]
             r1 == so'[s]
  <2>1. /\ so[s].alive /\ so' = [so EXCEPT ![s].cc = TRUE, ![s].rslp = {}]
        /\ UNCHANGED <<dTable, released, call, panicked>>
    BY <1>0, <1>3 DEF DataArrives, tableVars
  <2>2. /\ DOMAIN so' = Socks /\ \A x \in Socks : x # s => so'[x] = so[x]
        /\ r1 = [r EXCEPT !.cc = TRUE, !.rslp = {}]
    BY <1>0, <2>1
  <2> HIDE DEF r, r1
  <2>3. SameLinks(r, r1) /\ r1.tp = r.tp /\ r1.state = r.state /\ Wakes(r, r1, {})
    BY <1>0, <2>2 DEF SameLinks, Wakes, SockFields, r, OneState
  <2>4. Held(r) \/ Waiting(r) => "ISDISCONNECTING" \notin r1.state
    BY <2>3 DEF Held, Waiting
  <2>5. Touched(so, so', s)
    BY <2>2, <2>3 DEF Touched, r, r1
  <2>6. Quiet(so, so')
    BY <1>0, <2>1, <2>3, <2>4, <2>5, QuietTouch DEF r, r1
  <2> QED BY <2>1, <2>6 DEF LifeInv
<1>4. CASE PeerFin(s)
  <2>1. /\ so[s].alive /\ (so' = SoCantRcvMore(so, s) \/ so' = SoIsDisconnected(so, s))
        /\ UNCHANGED <<dTable, released, call, panicked>>
    BY <1>0, <1>4 DEF PeerFin, tableVars
  <2> QED BY <1>0, <2>1, CantRcvMoreQuiet, DisconnectedQuiet DEF LifeInv
<1>5. CASE FinAcked(s)
  <2> DEFINE U == [so EXCEPT ![s].tp = "FIN2"]
  <2>1. /\ so[s].tp = "FIN" /\ (so' = U \/ so' = SoIsDisconnected(U, s))
        /\ UNCHANGED <<dTable, released, call, panicked>>
    BY <1>5 DEF FinAcked, tableVars
  <2>2. Quiet(so, U)
    BY <1>0, <2>1, TpQuiet DEF Connected
  <2>3. U[s].alive
    BY <1>0, <2>1 DEF SockFields, Connected
  <2> HIDE DEF U
  <2>4. Quiet(U, SoIsDisconnected(U, s))
    BY <2>2, <2>3, DisconnectedQuiet DEF Quiet
  <2> QED BY <2>1, <2>2, <2>4, QuietTrans DEF LifeInv
<1>6. CASE ConnectionGone(s, e)
  <2>1. /\ so[s].tp \in Connected /\ (so' = TcpDrop(so, s, TRUE) \/ so' = TcpClose(so, s))
        /\ UNCHANGED <<dTable, released, call, panicked>>
    BY <1>6 DEF ConnectionGone, tableVars, Connected
  <2>2. Ended(so, so', s)
    BY <1>0, <2>1, TcpDropOK, TcpCloseOK
  <2> QED BY <1>0, <2>1, <2>2, QuietEnd DEF LifeInv
<1> QED BY <1>1, <1>2, <1>3, <1>4, <1>5, <1>6

-----------------------------------------------------------------------------
(* Calls that neither give nor take a reference.                           *)

LEMMA SlotHeld ==
  ASSUME LifeInv, NEW b \in Bases, NEW fd \in Fds, dTable[b][fd] # NoSock
  PROVE  LET s == dTable[b][fd]
         IN  /\ s \in Socks /\ so[s].ref > 0 /\ Held(so[s]) /\ so[s].alive
             /\ DOMAIN so[s] = SockFields /\ DOMAIN so = Socks /\ SockInv(so)
<1> DEFINE s == dTable[b][fd]
<1>1. s \in Socks
  BY DEF LifeInv, TablesTyped
<1>2. <<b, fd>> \in SlotsOf(dTable, s)
  BY DEF SlotsOf
<1> HIDE DEF s
<1>3. so[s].ref > 0
  BY <1>1, <1>2, NamedHeld DEF LifeInv
<1> QED BY <1>1, <1>3, LiveFacts DEF LifeInv, s

\* A task's call begins, goes on or ends, changing the one socket s.
LEMMA ActStep ==
  ASSUME LifeInv, NEW t \in Tasks, NEW s \in Socks, so[s].alive, Touched(so, so', s),
         Held(so[s]) \/ Waiting(so[s]) => "ISDISCONNECTING" \notin so'[s].state,
         \/ so'[s].tp = so[s].tp
         \/ so'[s].tp \in Connected /\ ~so[s].acc
         \/ so'[s].tp \in {"NOPCB", "LISTEN"} /\ "NOFDREF" \notin so[s].state,
         Wakes(so[s], so'[s], {t}), UNCHANGED <<dTable, released>>, ~panicked',
         NEW c, call' = [call EXCEPT ![t] = c] \/ (call' = call /\ c = call[t]),
         CallOK(c, so'), c.op # "none" => ReasonOK(t, c, so'[c.so]),
         c = call[t] \/ (call[t].op \notin CloseOps /\ c.op \notin CloseOps)
  PROVE  LifeInv'
<1>0. SockInv(so) /\ CallsOK(call, so) /\ Reasons(call, so) /\ DOMAIN call = Tasks
  BY DEF LifeInv, CallsOK
<1>1. SockInv(so') /\ (Ending(so'[s]) <=> Ending(so[s]))
  BY <1>0, TouchedOK
<1>2. so'[s].ref = so[s].ref /\ so'[s].acc = so[s].acc
  BY DEF Touched, SameLinks
<1>3. \A x \in Socks : Kept(so[x], so'[x], {t}) /\ (Ending(so'[x]) <=> Ending(so[x]))
                         /\ so'[x].ref = so[x].ref
  <2>1. Kept(so[s], so'[s], {t})
    BY <1>1, <1>2 DEF Kept
  <2>2. \A r : Kept(r, r, {t})
    BY DEF Kept, Wakes
  <2> QED BY <1>1, <1>2, <2>1, <2>2 DEF Touched
<1>4. DOMAIN call' = Tasks /\ call'[t] = c /\ \A u \in Tasks : u # t => call'[u] = call[u]
  BY <1>0
<1>5. \A u \in Tasks : call[u].op # "none" => call[u].so \in Socks
  BY <1>0 DEF CallsOK, CallOK
<1>6. CallsOK(call', so') /\ Reasons(call', so')
  <2>1. OthersSleep(call, call', so, so', t)
    BY <1>3, <1>4, <1>5 DEF OthersSleep
  <2>2. ClosersKept(call[t], call'[t], so, so')
    BY <1>3, <1>4 DEF ClosersKept
  <2>3. ActorOK(call'[t], so', t)
    BY <1>4 DEF ActorOK
  <2> QED BY <1>0, <1>4, <2>1, <2>2, <2>3, CallsStep
<1>7. RefsExact(so', dTable, released)
  BY <1>3, RefsSame DEF LifeInv
<1> QED BY <1>1, <1>6, <1>7 DEF LifeInv

\* No call, and a call that sleeps in accept, connect or recv.
LEMMA NoCallOK == ASSUME NEW S PROVE CallOK(NoCall, S) /\ NoCall.op = "none"
  BY DEF CallOK, NoCall, WaitOps, CloseOps

LEMMA WaitCallOK ==
  ASSUME NEW S, NEW s \in Socks, S[s].ref > 0, NEW op \in WaitOps
  PROVE  LET c == [NoCall EXCEPT !.op = op, !.so = s]
         IN  CallOK(c, S) /\ c.op = op /\ c.so = s
  BY DEF CallOK, NoCall, WaitOps, CloseOps

\* A socket's record with one more sleeper.
JoinsSleepers(S, T, s, t) ==
  T = [S EXCEPT ![s].slp = @ \cup {t}] \/ T = [S EXCEPT ![s].rslp = @ \cup {t}]

LEMMA SleeperAdded ==
  ASSUME NEW S, SockInv(S), NEW s \in Socks, NEW t, NEW T, JoinsSleepers(S, T, s, t)
  PROVE  /\ Touched(S, T, s) /\ T[s].tp = S[s].tp /\ T[s].state = S[s].state
         /\ T[s].err = S[s].err /\ T[s].cc = S[s].cc /\ T[s].q = S[s].q
         /\ Wakes(S[s], T[s], {t})
<1> DEFINE r == S[s]
           r1 == T[s]
<1>1. DOMAIN S = Socks /\ DOMAIN r = SockFields
  BY LiveFacts
<1>2. /\ DOMAIN T = Socks /\ \A x \in Socks : x # s => T[x] = S[x]
      /\ r1 = [r EXCEPT !.slp = r.slp \cup {t}] \/ r1 = [r EXCEPT !.rslp = r.rslp \cup {t}]
  BY <1>1 DEF JoinsSleepers
<1> HIDE DEF r, r1
<1>3. /\ SameLinks(r, r1) /\ r1.tp = r.tp /\ r1.state = r.state /\ r1.err = r.err
      /\ r1.cc = r.cc /\ r1.q = r.q
      /\ r1.slp \subseteq r.slp \cup {t} /\ r1.rslp \subseteq r.rslp \cup {t}
  BY <1>1, <1>2 DEF SameLinks, SockFields, OneState
<1>4. Wakes(r, r1, {t})
  BY <1>3 DEF Wakes
<1> QED BY <1>2, <1>3, <1>4 DEF Touched, r, r1

\* One record's fields that nobody waits for and that no condition depends on.
LEMMA FlagQuiet ==
  ASSUME NEW S, SockInv(S), NEW s \in Socks, S[s].alive, NEW T, Touched(S, T, s),
         T[s].tp = S[s].tp, Wakes(S[s], T[s], {}),
         "ISDISCONNECTING" \in T[s].state => "ISDISCONNECTING" \in S[s].state
  PROVE  Quiet(S, T)
<1>1. Held(S[s]) \/ Waiting(S[s]) => "ISDISCONNECTING" \notin T[s].state
  BY DEF Held, Waiting
<1> QED BY <1>1, QuietTouch

LEMMA ListenQuiet ==
  ASSUME NEW S, SockInv(S), NEW s \in Socks, Held(S[s])
  PROVE  Quiet(S, [S EXCEPT ![s].tp = "LISTEN", ![s].acc = @ \/ S[s].q = <<>>])
<1> DEFINE T == [S EXCEPT ![s].tp = "LISTEN", ![s].acc = @ \/ S[s].q = <<>>]
           r == S[s]
           a == r.acc \/ r.q = <<>>
           r1 == T[s]
<1>1. DOMAIN S = Socks /\ DOMAIN r = SockFields /\ RecOK(r) /\ r.alive
  BY LiveFacts DEF SockInv, Held
<1>2. /\ DOMAIN T = Socks /\ \A x \in Socks : x # s => T[x] = S[x]
      /\ r1 = [r EXCEPT !.tp = "LISTEN", !.acc = a]
  BY <1>1
<1>3. a
  BY <1>1 DEF RecOK, QueuesOK
<1>4. Held(r)
  OBVIOUS
<1> HIDE DEF T, r, r1, a
<1>5. /\ DOMAIN r1 = SockFields /\ r1.tp = "LISTEN" /\ r1.acc = a /\ r1.alive = r.alive
      /\ r1.ref = r.ref /\ r1.state = r.state /\ r1.head = r.head /\ r1.q0 = r.q0
      /\ r1.q = r.q /\ r1.err = r.err /\ r1.cc = r.cc /\ r1.slp = r.slp /\ r1.rslp = r.rslp
  BY <1>1, <1>2 DEF SockFields
<1>6. RecOK(r1)
  <2>1. Held(r1)
    BY <1>4, <1>5 DEF Held
  <2>2. QueuesOK(r1)
    BY <1>1, <1>3, <1>5 DEF QueuesOK, RecOK
  <2> QED BY <1>1, <1>5, <2>1, <2>2 DEF RecOK, OneState
<1>7. Undisturbed(r, r1)
  BY <1>4, <1>5 DEF Undisturbed, Held, Ending, Wakes
<1>8. /\ RecOK(T[s]) /\ T[s].head = S[s].head /\ T[s].q0 = S[s].q0 /\ T[s].q = S[s].q
      /\ Undisturbed(S[s], T[s])
  BY <1>5, <1>6, <1>7 DEF r, r1
<1>9. SockInv(T)
  BY <1>2, <1>8, AdjustOK
<1> QED BY <1>2, <1>8, <1>9, SameUndisturbed DEF Quiet, T

\* listen, setsockopt, FIOSETOWN, shutdown and a refused connect.
LEMMA SetupStep ==
  ASSUME LifeInv, NEW t \in Tasks, NEW fd \in Fds, SetupCall(t, fd) \/ ConnectRefused(t, fd)
  PROVE  LifeInv'
<1> DEFINE s == Sock(t, fd)
<1>1. Sock(t, fd) # NoSock /\ UNCHANGED <<dTable, released, call, panicked>>
  BY DEF SetupCall, ConnectRefused, Listen, SetLinger, SetOwner, ShutdownRcv, ShutdownSnd,
         tableVars
<1>2. /\ s \in Socks /\ Held(so[s]) /\ so[s].alive /\ DOMAIN so[s] = SockFields
      /\ DOMAIN so = Socks /\ SockInv(so)
  BY <1>1, SlotHeld, HomeAssumption DEF Sock
<1> HIDE DEF s
<1> SUFFICES Quiet(so, so')
  BY <1>1, QuietStep DEF LifeInv
<1>3. CASE Listen(t, fd)
  BY <1>2, <1>3, ListenQuiet DEF Listen, s
<1>4. ASSUME NEW l, SetLinger(t, fd, l) PROVE Quiet(so, so')
  <2> DEFINE r == so[s]
             r1 == so'[s]
  <2>1. so' = [so EXCEPT ![s].linger = l]
    BY <1>4 DEF SetLinger, s
  <2>2. /\ DOMAIN so' = Socks /\ \A x \in Socks : x # s => so'[x] = so[x]
        /\ r1 = [r EXCEPT !.linger = l] /\ DOMAIN r = SockFields
    BY <1>2, <2>1
  <2> HIDE DEF r, r1
  <2>3. SameLinks(r, r1) /\ r1.tp = r.tp /\ r1.state = r.state /\ Wakes(r, r1, {})
    BY <2>2 DEF SameLinks, Wakes, SockFields, OneState
  <2>4. Touched(so, so', s)
    BY <2>2, <2>3 DEF Touched, r, r1
  <2> QED BY <1>2, <2>3, <2>4, FlagQuiet DEF r, r1
<1>5. ASSUME NEW b, SetOwner(t, fd, b) PROVE Quiet(so, so')
  <2> DEFINE r == so[s]
             r1 == so'[s]
  <2>1. so' = [so EXCEPT ![s].pgid = b]
    BY <1>5 DEF SetOwner, s
  <2>2. /\ DOMAIN so' = Socks /\ \A x \in Socks : x # s => so'[x] = so[x]
        /\ r1 = [r EXCEPT !.pgid = b] /\ DOMAIN r = SockFields
    BY <1>2, <2>1
  <2> HIDE DEF r, r1
  <2>3. SameLinks(r, r1) /\ r1.tp = r.tp /\ r1.state = r.state /\ Wakes(r, r1, {})
    BY <2>2 DEF SameLinks, Wakes, SockFields, OneState
  <2>4. Touched(so, so', s)
    BY <2>2, <2>3 DEF Touched, r, r1
  <2> QED BY <1>2, <2>3, <2>4, FlagQuiet DEF r, r1
<1>6. CASE ShutdownRcv(t, fd)
  <2> DEFINE U == SoCantRcvMore(so, s)
             r == U[s]
             r1 == so'[s]
  <2>1. so' = [U EXCEPT ![s].cc = FALSE]
    BY <1>6 DEF ShutdownRcv, s
  <2>2. Quiet(so, U)
    BY <1>2, CantRcvMoreQuiet
  <2>3. r.alive
    BY <1>2 DEF SoCantRcvMore, SockFields
  <2> HIDE DEF U
  <2>4. SockInv(U) /\ DOMAIN U = Socks /\ DOMAIN r = SockFields
    BY <1>2, <2>2, LiveFacts DEF Quiet
  <2>5. /\ DOMAIN so' = Socks /\ \A x \in Socks : x # s => so'[x] = U[x]
        /\ r1 = [r EXCEPT !.cc = FALSE]
    BY <1>2, <2>1, <2>4
  <2> HIDE DEF r, r1
  <2>6. SameLinks(r, r1) /\ r1.tp = r.tp /\ r1.state = r.state /\ Wakes(r, r1, {})
    BY <2>4, <2>5 DEF SameLinks, Wakes, SockFields, OneState
  <2>8. Touched(U, so', s)
    BY <2>5, <2>6 DEF Touched, r, r1
  <2>7. Quiet(U, so')
    BY <1>2, <2>3, <2>4, <2>6, <2>8, FlagQuiet DEF r, r1
  <2> QED BY <2>2, <2>7, QuietTrans
<1>7. CASE ShutdownSnd(t, fd)
  <2>1. so[s].tp # "NOPCB" /\ so' = TcpUsrClosed(so, s)
    BY <1>7 DEF ShutdownSnd, s
  <2>2. "NOFDREF" \notin so[s].state /\ "ISDISCONNECTING" \notin so[s].state
    BY <1>2 DEF Held
  <2>3. /\ Touched(so, so', s) /\ Wakes(so[s], so'[s], {})
        /\ "ISDISCONNECTING" \notin so'[s].state
        /\ so[s].tp \in {"CLOSED", "LISTEN", "SYN"} => so'[s].tp = "NOPCB"
        /\ so[s].tp \in {"EST", "FIN", "FIN2"} => so'[s].tp \in {"FIN", "FIN2"}
    BY <1>2, <2>1, <2>2, TcpUsrClosedOK
  <2>4. /\ so[s].tp \in {"CLOSED", "LISTEN"} \cup Connected
        /\ so[s].acc => so[s].tp \in {"LISTEN", "NOPCB"}
    BY <1>2, <2>1, LiveFacts
  <2>5. \/ so'[s].tp = "NOPCB"
        \/ so'[s].tp \in Connected /\ ~so[s].acc
    BY <2>3, <2>4 DEF Connected
  <2> QED BY <1>2, <2>2, <2>3, <2>5, QuietTouch
<1>8. CASE ConnectRefused(t, fd)
  <2> DEFINE r == so[s]
             r1 == so'[s]
             st == r.state \ {"ISCONNECTING"}
  <2>1. so' = [so EXCEPT ![s].state = @ \ {"ISCONNECTING"}]
    BY <1>8 DEF ConnectRefused, s
  <2>2. /\ DOMAIN so' = Socks /\ \A x \in Socks : x # s => so'[x] = so[x]
        /\ r1 = [r EXCEPT !.state = st] /\ DOMAIN r = SockFields
    BY <1>2, <2>1
  <2>3. \A f \in {"NOFDREF", "ISCONNECTED", "ISDISCONNECTING", "CANTRCVMORE"} :
          f \in st <=> f \in r.state
    OBVIOUS
  <2>6. "ISCONNECTING" \notin st
    OBVIOUS
  <2> HIDE DEF r, r1, st
  <2>4. SameLinks(r, r1) /\ r1.tp = r.tp /\ r1.state = st /\ Wakes(r, r1, {})
    BY <2>2, <2>3, <2>6 DEF SameLinks, Wakes, SockFields, OneState
  <2>5. Touched(so, so', s)
    BY <2>2, <2>4 DEF Touched, r, r1
  <2> QED BY <1>2, <2>3, <2>4, <2>5, FlagQuiet DEF r, r1
<1> QED BY <1>3, <1>4, <1>5, <1>6, <1>7, <1>8 DEF SetupCall

\* What a call waits for has not happened.
MustWait(c, r) ==
  /\ c.op = "accept" => r.q = <<>> /\ ~r.err
  /\ c.op = "connect" => ~r.err /\ "ISCONNECTED" \notin r.state
  /\ c.op = "recv" => ~r.cc /\ ~r.err /\ "CANTRCVMORE" \notin r.state
  /\ c.op \in CloseOps => "ISCONNECTED" \in r.state

\* A woken task finds that it has to wait on.
LEMMA SleepsAgain ==
  ASSUME LifeInv, NEW t \in Tasks, call[t].op # "none", so[call[t].so].alive,
         JoinsSleepers(so, so', call[t].so, t), MustWait(call[t], so[call[t].so]),
         UNCHANGED <<dTable, released, call>>, ~panicked'
  PROVE  LifeInv'
<1> DEFINE s == call[t].so
           c == call[t]
<1>1. /\ SockInv(so) /\ s \in Socks /\ CallOK(c, so) /\ DOMAIN call = Tasks
  BY DEF LifeInv, CallsOK, CallOK
<1>2. /\ JoinsSleepers(so, so', s, t) /\ MustWait(c, so[s])
      /\ so[s].alive /\ c.so = s /\ c.op # "none" /\ c = call[t]
  OBVIOUS
<1> HIDE DEF s, c
<1>3. /\ Touched(so, so', s) /\ so'[s].tp = so[s].tp /\ so'[s].state = so[s].state
      /\ so'[s].err = so[s].err /\ so'[s].cc = so[s].cc /\ so'[s].q = so[s].q
      /\ Wakes(so[s], so'[s], {t})
  BY <1>1, <1>2, SleeperAdded
<1>4. ReasonOK(t, c, so'[s])
  BY <1>2, <1>3 DEF ReasonOK, MustWait
<1>5. CallOK(c, so')
  <2>1. /\ so'[s].ref = so[s].ref /\ so'[s].acc = so[s].acc
        /\ Ending(so'[s]) <=> Ending(so[s])
    BY <1>3 DEF Touched, SameLinks, Ending
  <2> QED BY <1>1, <1>2, <2>1 DEF CallOK
<1>6. call' = call /\ c = call[t]
  BY <1>2
<1>7. Held(so[s]) \/ Waiting(so[s]) => "ISDISCONNECTING" \notin so'[s].state
  BY <1>3 DEF Held, Waiting
<1> QED BY <1>1, <1>2, <1>3, <1>4, <1>5, <1>6, <1>7, ActStep

\* A call begins to wait, on a socket that it holds through a descriptor.
LEMMA FallsAsleep ==
  ASSUME LifeInv, NEW t \in Tasks, NEW s \in Socks, so[s].ref > 0, NEW op \in WaitOps,
         call[t].op = "none", Touched(so, so', s),
         "ISDISCONNECTING" \in so'[s].state => "ISDISCONNECTING" \in so[s].state,
         so'[s].tp = so[s].tp \/ (so'[s].tp \in Connected /\ ~so[s].acc),
         Wakes(so[s], so'[s], {t}), Sleep(t, op, s),
         op = "accept" => so'[s].q = <<>> /\ ~so'[s].err,
         op = "connect" => ~so'[s].err /\ "ISCONNECTED" \notin so'[s].state,
         op = "recv" => ~so'[s].cc /\ ~so'[s].err /\ "CANTRCVMORE" \notin so'[s].state,
         UNCHANGED <<dTable, released>>, ~panicked'
  PROVE  LifeInv'
<1> DEFINE c == [NoCall EXCEPT !.op = op, !.so = s]
<1>1. so'[s].ref > 0 /\ so[s].alive /\ SockInv(so)
  BY LiveFacts DEF LifeInv, Touched, SameLinks
<1>2. CallOK(c, so') /\ c.op = op /\ c.so = s
  BY <1>1, WaitCallOK
<1>3. call' = [call EXCEPT ![t] = c]
  BY DEF Sleep
<1> HIDE DEF c
<1>4. ReasonOK(t, c, so'[s]) /\ c.op \notin CloseOps /\ call[t].op \notin CloseOps
  BY <1>2 DEF ReasonOK, WaitOps, CloseOps
<1>5. Held(so[s]) \/ Waiting(so[s]) => "ISDISCONNECTING" \notin so'[s].state
  BY DEF Held, Waiting
<1> QED BY <1>1, <1>2, <1>3, <1>4, <1>5, ActStep

\* A wait is over, or there was none.
LEMMA CallReturns ==
  ASSUME LifeInv, NEW t \in Tasks, NEW s \in Socks, so[s].alive,
         call[t].op \notin CloseOps, Touched(so, so', s), so'[s].tp = so[s].tp,
         "ISDISCONNECTING" \in so'[s].state => "ISDISCONNECTING" \in so[s].state,
         Wakes(so[s], so'[s], {t}), Return(t), UNCHANGED <<dTable, released>>, ~panicked'
  PROVE  LifeInv'
<1>1. CallOK(NoCall, so') /\ NoCall.op = "none"
  BY NoCallOK
<1>2. call' = [call EXCEPT ![t] = NoCall] /\ NoCall.op \notin CloseOps
  BY <1>1 DEF Return, CloseOps
<1>3. Held(so[s]) \/ Waiting(so[s]) => "ISDISCONNECTING" \notin so'[s].state
  BY DEF Held, Waiting
<1> QED BY <1>1, <1>2, <1>3, ActStep

\* The record of a socket whose connect ends, whose data or error is taken, or whose
\* sleeper was interrupted.
ClearsFlags(S, T, s, t) ==
  \/ T = S
  \/ T = [S EXCEPT ![s].err = FALSE]
  \/ T = [S EXCEPT ![s].cc = FALSE]
  \/ T = [S EXCEPT ![s].err = FALSE, ![s].state = @ \ {"ISCONNECTING"}]
  \/ T = [S EXCEPT ![s].slp = @ \ {t}, ![s].rslp = @ \ {t}]
  \/ T = [[S EXCEPT ![s].slp = @ \ {t}, ![s].rslp = @ \ {t}]
             EXCEPT ![s].state = @ \ {"ISCONNECTING"}]

LEMMA FlagsCleared ==
  ASSUME NEW S, SockInv(S), NEW s \in Socks, NEW t, NEW T, ClearsFlags(S, T, s, t)
  PROVE  /\ Touched(S, T, s) /\ T[s].tp = S[s].tp /\ Wakes(S[s], T[s], {})
         /\ "ISDISCONNECTING" \in T[s].state => "ISDISCONNECTING" \in S[s].state
<1> DEFINE r == S[s]
           r1 == T[s]
           st == r.state \ {"ISCONNECTING"}
           a == r.slp \ {t}
           b == r.rslp \ {t}
<1>1. DOMAIN S = Socks /\ DOMAIN r = SockFields
  BY LiveFacts
<1>2. DOMAIN T = Socks /\ \A x \in Socks : x # s => T[x] = S[x]
  BY <1>1 DEF ClearsFlags
<1>3. \/ r1 = r
      \/ r1 = [r EXCEPT !.err = FALSE]
      \/ r1 = [r EXCEPT !.cc = FALSE]
      \/ r1 = [r EXCEPT !.err = FALSE, !.state = st]
      \/ r1 = [r EXCEPT !.slp = a, !.rslp = b]
      \/ r1 = [r EXCEPT !.slp = a, !.rslp = b, !.state = st]
  <2>1. CASE T = [[S EXCEPT ![s].slp = @ \ {t}, ![s].rslp = @ \ {t}]
                    EXCEPT ![s].state = @ \ {"ISCONNECTING"}]
    <3> DEFINE U == [S EXCEPT ![s].slp = @ \ {t}, ![s].rslp = @ \ {t}]
    <3>1. U[s] = [r EXCEPT !.slp = a, !.rslp = b] /\ DOMAIN U = Socks
      BY <1>1
    <3>2. U[s].state = r.state
      BY <1>1, <3>1 DEF SockFields
    <3> HIDE DEF U
    <3>3. r1 = [U[s] EXCEPT !.state = st]
      BY <2>1, <3>1, <3>2 DEF U
    <3> QED BY <3>1, <3>3
  <2>2. CASE T # [[S EXCEPT ![s].slp = @ \ {t}, ![s].rslp = @ \ {t}]
                    EXCEPT ![s].state = @ \ {"ISCONNECTING"}]
    BY <1>1, <2>2 DEF ClearsFlags
  <2> QED BY <2>1, <2>2
<1>4. /\ \A f \in {"NOFDREF", "ISCONNECTED", "ISDISCONNECTING", "CANTRCVMORE"} :
           f \in st <=> f \in r.state
      /\ a \subseteq r.slp /\ b \subseteq r.rslp /\ "ISCONNECTING" \notin st
  OBVIOUS
<1> HIDE DEF r, r1, st, a, b
<1> DEFINE P == /\ DOMAIN r1 = SockFields /\ r1.alive = r.alive /\ r1.ref = r.ref
                /\ r1.acc = r.acc /\ r1.head = r.head /\ r1.q0 = r.q0 /\ r1.q = r.q
                /\ r1.tp = r.tp
           Q == /\ r1.slp \subseteq r.slp /\ r1.rslp \subseteq r.rslp
                /\ r1.err => r.err
                /\ r1.cc => r.cc
                /\ r1.state = r.state \/ r1.state = st
<1>5. P /\ Q
  <2>1. CASE r1 = r
    BY <1>1, <2>1
  <2>2. CASE r1 = [r EXCEPT !.err = FALSE]
    BY <1>1, <2>2 DEF SockFields
  <2>3. CASE r1 = [r EXCEPT !.cc = FALSE]
    BY <1>1, <2>3 DEF SockFields
  <2>4. CASE r1 = [r EXCEPT !.err = FALSE, !.state = st]
    BY <1>1, <2>4 DEF SockFields
  <2>5. CASE r1 = [r EXCEPT !.slp = a, !.rslp = b]
    BY <1>1, <1>4, <2>5 DEF SockFields
  <2>6. CASE r1 = [r EXCEPT !.slp = a, !.rslp = b, !.state = st]
    BY <1>1, <1>4, <2>6 DEF SockFields
  <2> HIDE DEF P, Q
  <2> QED BY <1>3, <2>1, <2>2, <2>3, <2>4, <2>5, <2>6
<1>7. Wakes(r, r1, {}) /\ ("ISDISCONNECTING" \in r1.state => "ISDISCONNECTING" \in r.state)
  BY <1>4, <1>5 DEF Wakes
<1>8. SameLinks(r, r1)
  BY <1>4, <1>5 DEF SameLinks, OneState
<1> QED BY <1>2, <1>5, <1>7, <1>8 DEF Touched, r, r1

\* connect(), before and after its wait.
LEMMA ConnectStep ==
  ASSUME LifeInv, NEW t \in Tasks, NEW fd \in Fds, NEW nbio \in BOOLEAN,
         Connect(t, fd, nbio)
  PROVE  LifeInv'
<1> DEFINE s == Sock(t, fd)
           r == so[s]
           U == [SoIsConnecting(so, s) EXCEPT ![s].tp = "SYN"]
           st == (r.state \ {"ISCONNECTED", "ISDISCONNECTING"}) \cup {"ISCONNECTING"}
<1>1. /\ s # NoSock /\ ~r.acc /\ r.state \cap {"ISCONNECTED", "ISCONNECTING"} = {}
      /\ UNCHANGED <<dTable, released, panicked>> /\ call[t].op = "none"
      /\ \/ (so' = U \/ so' = ConnectDone(U, s)) /\ UNCHANGED call
         \/ /\ ~r.err /\ so' = [U EXCEPT ![s].slp = @ \cup {t}] /\ Sleep(t, "connect", s)
  BY DEF Connect, CanCall, tableVars
<1>2. /\ s \in Socks /\ r.ref > 0 /\ Held(r) /\ r.alive /\ DOMAIN r = SockFields
      /\ DOMAIN so = Socks /\ SockInv(so)
  BY <1>1, SlotHeld, HomeAssumption DEF Sock
<1> HIDE DEF s
<1> DEFINE r1 == U[s]
<1>3. /\ DOMAIN U = Socks /\ \A x \in Socks : x # s => U[x] = so[x]
      /\ r1 = [r EXCEPT !.state = st, !.tp = "SYN"]
  BY <1>2 DEF SoIsConnecting
<1>4. /\ "NOFDREF" \in st <=> "NOFDREF" \in r.state
      /\ "ISCONNECTED" \notin st /\ "ISDISCONNECTING" \notin st
      /\ "CANTRCVMORE" \in st <=> "CANTRCVMORE" \in r.state
  OBVIOUS
<1>5. "ISCONNECTED" \notin r.state
  BY <1>1
<1> HIDE DEF U, st, r, r1
<1>6. /\ SameLinks(r, r1) /\ r1.tp = "SYN" /\ r1.state = st
      /\ r1.err = r.err /\ r1.cc = r.cc /\ r1.slp = r.slp /\ r1.rslp = r.rslp /\ r1.q = r.q
  BY <1>2, <1>3, <1>4 DEF SameLinks, SockFields, OneState
<1>7. Touched(so, U, s)
  BY <1>3, <1>6 DEF Touched, r, r1
<1>8. Wakes(r, r1, {})
  BY <1>4, <1>5, <1>6 DEF Wakes
<1>9. Quiet(so, U)
  <2>1. "ISDISCONNECTING" \notin r1.state /\ r1.tp \in Connected
    BY <1>4, <1>6 DEF Connected
  <2> QED BY <1>1, <1>2, <1>7, <1>8, <2>1, QuietTouch DEF r, r1
<1>10. SockInv(U) /\ U[s].alive
  BY <1>2, <1>6, <1>9 DEF Quiet, SameLinks, r1
<1>11. CASE so' = U /\ UNCHANGED call
  BY <1>1, <1>9, <1>11, QuietStep DEF LifeInv
<1>12. CASE so' = ConnectDone(U, s) /\ UNCHANGED call
  <2>1. ClearsFlags(U, so', s, t)
    BY <1>12 DEF ConnectDone, ClearsFlags
  <2>2. /\ Touched(U, so', s) /\ so'[s].tp = U[s].tp /\ Wakes(U[s], so'[s], {})
        /\ "ISDISCONNECTING" \in so'[s].state => "ISDISCONNECTING" \in U[s].state
    BY <1>2, <1>10, <2>1, FlagsCleared
  <2>3. Quiet(U, so')
    BY <1>2, <1>10, <2>2, FlagQuiet
  <2>4. Quiet(so, so')
    BY <1>9, <2>3, QuietTrans
  <2> QED BY <1>1, <1>12, <2>4, QuietStep DEF LifeInv
<1>13. CASE ~r.err /\ so' = [U EXCEPT ![s].slp = @ \cup {t}] /\ Sleep(t, "connect", s)
  <2>1. JoinsSleepers(U, so', s, t)
    BY <1>13 DEF JoinsSleepers
  <2>2. /\ Touched(U, so', s) /\ so'[s].tp = r1.tp /\ so'[s].state = r1.state
        /\ so'[s].err = r1.err /\ so'[s].cc = r1.cc /\ so'[s].q = r1.q
        /\ Wakes(r1, so'[s], {t})
    BY <1>2, <1>10, <2>1, SleeperAdded DEF r1
  <2>3. Touched(so, so', s)
    BY <1>7, <2>2, TouchedTrans
  <2>4. Wakes(r, so'[s], {t})
    BY <1>4, <1>5, <1>6, <2>2 DEF Wakes
  <2>5. /\ "ISDISCONNECTING" \notin so'[s].state /\ ~so'[s].err
        /\ "ISCONNECTED" \notin so'[s].state /\ so'[s].tp \in Connected
    BY <1>4, <1>6, <1>13, <2>2 DEF Connected
  <2> QED BY <1>1, <1>2, <1>13, <2>3, <2>4, <2>5, FallsAsleep DEF LifeInv, WaitOps, r
<1> QED BY <1>1, <1>11, <1>12, <1>13

\* recv(): sleeps, or takes what there is.
LEMMA RecvStep ==
  ASSUME LifeInv, NEW t \in Tasks, NEW fd \in Fds, Recv(t, fd)
  PROVE  LifeInv'
<1> DEFINE s == Sock(t, fd)
<1>1. /\ s # NoSock /\ UNCHANGED <<dTable, released, panicked>> /\ call[t].op = "none"
      /\ \/ /\ RecvWaits(so, s) /\ so' = [so EXCEPT ![s].rslp = @ \cup {t}]
            /\ Sleep(t, "recv", s)
         \/ so' = RecvTaken(so, s) /\ UNCHANGED call
  BY DEF Recv, CanCall, tableVars
<1>2. /\ s \in Socks /\ so[s].ref > 0 /\ Held(so[s]) /\ so[s].alive /\ SockInv(so)
  BY <1>1, SlotHeld, HomeAssumption DEF Sock
<1> HIDE DEF s
<1>3. CASE RecvWaits(so, s) /\ so' = [so EXCEPT ![s].rslp = @ \cup {t}] /\ Sleep(t, "recv", s)
  <2>1. JoinsSleepers(so, so', s, t)
    BY <1>3 DEF JoinsSleepers
  <2>2. /\ Touched(so, so', s) /\ so'[s].tp = so[s].tp /\ so'[s].state = so[s].state
        /\ so'[s].err = so[s].err /\ so'[s].cc = so[s].cc /\ so'[s].q = so[s].q
        /\ Wakes(so[s], so'[s], {t})
    BY <1>2, <2>1, SleeperAdded
  <2>3. ~so'[s].cc /\ ~so'[s].err /\ "CANTRCVMORE" \notin so'[s].state
    BY <1>3, <2>2 DEF RecvWaits
  <2> QED BY <1>1, <1>2, <1>3, <2>2, <2>3, FallsAsleep DEF LifeInv, WaitOps
<1>4. CASE so' = RecvTaken(so, s) /\ UNCHANGED call
  <2>1. ClearsFlags(so, so', s, t)
    BY <1>4 DEF RecvTaken, ClearsFlags
  <2>2. /\ Touched(so, so', s) /\ so'[s].tp = so[s].tp /\ Wakes(so[s], so'[s], {})
        /\ "ISDISCONNECTING" \in so'[s].state => "ISDISCONNECTING" \in so[s].state
    BY <1>2, <2>1, FlagsCleared
  <2>3. Quiet(so, so')
    BY <1>2, <2>2, FlagQuiet
  <2> QED BY <1>1, <1>4, <2>3, QuietStep DEF LifeInv
<1> QED BY <1>1, <1>3, <1>4

LEMMA WaiterFacts ==
  ASSUME LifeInv, NEW t \in Tasks, call[t].op \in WaitOps
  PROVE  LET s == call[t].so
         IN  /\ s \in Socks /\ so[s].ref > 0 /\ Held(so[s]) /\ so[s].alive /\ SockInv(so)
             /\ RecOK(so[s])
<1>1. SockInv(so) /\ call[t].so \in Socks /\ so[call[t].so].ref > 0
  BY DEF LifeInv, CallsOK, CallOK, WaitOps
<1> QED BY <1>1, LiveFacts DEF SockInv

\* A call that returns after clearing some of its socket's fields.
LEMMA ClearedReturn ==
  ASSUME LifeInv, NEW t \in Tasks, NEW s \in Socks, so[s].ref > 0, call[t].op \notin CloseOps,
         ClearsFlags(so, so', s, t), Return(t), UNCHANGED <<dTable, released, panicked>>
  PROVE  LifeInv'
<1>1. SockInv(so) /\ so[s].alive /\ ~panicked'
  BY LiveFacts DEF LifeInv
<1>2. /\ Touched(so, so', s) /\ so'[s].tp = so[s].tp /\ Wakes(so[s], so'[s], {})
      /\ "ISDISCONNECTING" \in so'[s].state => "ISDISCONNECTING" \in so[s].state
  BY <1>1, FlagsCleared
<1>3. Wakes(so[s], so'[s], {t})
  BY <1>2 DEF Wakes
<1> QED BY <1>1, <1>2, <1>3, CallReturns

\* The ends of the waits of connect and recv.
LEMMA WaitEnds ==
  ASSUME LifeInv, NEW t \in Tasks, ConnectResume(t) \/ RecvResume(t) \/ Interrupted(t)
  PROVE  LifeInv'
<1> DEFINE s == call[t].so
<1>0. call[t].op \in WaitOps /\ UNCHANGED <<dTable, released, panicked>>
  BY DEF ConnectResume, RecvResume, Interrupted, Awake, Asleep, tableVars, WaitOps
<1>1. /\ s \in Socks /\ so[s].ref > 0 /\ so[s].alive /\ RecOK(so[s])
      /\ call[t].op \notin CloseOps /\ call[t].op # "none"
  BY <1>0, WaiterFacts DEF WaitOps, CloseOps
<1>2. CASE ConnectResume(t)
  <2>1. /\ call[t].op = "connect"
        /\ \/ /\ "ISCONNECTING" \in so[s].state /\ ~so[s].err
              /\ so' = [so EXCEPT ![s].slp = @ \cup {t}] /\ UNCHANGED call
           \/ so' = ConnectDone(so, s) /\ Return(t)
    BY <1>2 DEF ConnectResume, Awake
  <2>2. CASE /\ "ISCONNECTING" \in so[s].state /\ ~so[s].err
             /\ so' = [so EXCEPT ![s].slp = @ \cup {t}] /\ UNCHANGED call
    <3>1. MustWait(call[t], so[s])
      BY <1>1, <2>1, <2>2 DEF MustWait, CloseOps, RecOK, OneState
    <3>2. JoinsSleepers(so, so', s, t)
      BY <2>2 DEF JoinsSleepers
    <3> QED BY <1>0, <1>1, <2>2, <3>1, <3>2, SleepsAgain DEF LifeInv
  <2>3. CASE so' = ConnectDone(so, s) /\ Return(t)
    <3>1. ClearsFlags(so, so', s, t)
      BY <2>3 DEF ConnectDone, ClearsFlags
    <3> QED BY <1>0, <1>1, <2>3, <3>1, ClearedReturn
  <2> QED BY <2>1, <2>2, <2>3
<1>3. CASE RecvResume(t)
  <2>1. /\ call[t].op = "recv"
        /\ \/ /\ RecvWaits(so, s)
              /\ so' = [so EXCEPT ![s].rslp = @ \cup {t}] /\ UNCHANGED call
           \/ so' = RecvTaken(so, s) /\ Return(t)
    BY <1>3 DEF RecvResume, Awake
  <2>2. CASE RecvWaits(so, s) /\ so' = [so EXCEPT ![s].rslp = @ \cup {t}] /\ UNCHANGED call
    <3>1. MustWait(call[t], so[s])
      BY <2>1, <2>2 DEF MustWait, CloseOps, RecvWaits
    <3>2. JoinsSleepers(so, so', s, t)
      BY <2>2 DEF JoinsSleepers
    <3> QED BY <1>0, <1>1, <2>2, <3>1, <3>2, SleepsAgain DEF LifeInv
  <2>3. CASE so' = RecvTaken(so, s) /\ Return(t)
    <3>1. ClearsFlags(so, so', s, t)
      BY <2>3 DEF RecvTaken, ClearsFlags
    <3> QED BY <1>0, <1>1, <2>3, <3>1, ClearedReturn
  <2> QED BY <2>1, <2>2, <2>3
<1>4. CASE Interrupted(t)
  <2>1. /\ Return(t)
        /\ \/ so' = Unslept(t, s)
           \/ so' = [Unslept(t, s) EXCEPT ![s].state = @ \ {"ISCONNECTING"}]
    BY <1>4 DEF Interrupted
  <2>2. ClearsFlags(so, so', s, t)
    BY <2>1 DEF Unslept, ClearsFlags
  <2> QED BY <1>0, <1>1, <2>1, <2>2, ClearedReturn
<1> QED BY <1>2, <1>3, <1>4

-----------------------------------------------------------------------------
(* References given and taken.                                             *)

\* The count of s goes up, or down, by one.
CountUp(S, T, s) == /\ T[s].ref = S[s].ref + 1
                    /\ \A x \in Socks : x # s => T[x].ref = S[x].ref
CountDown(S, T, s) == /\ T[s].ref = S[s].ref - 1
                      /\ \A x \in Socks : x # s => T[x].ref = S[x].ref

\* A slot is filled with s.
LEMMA RefsFilled ==
  ASSUME NEW S, NEW T, NEW tab, NEW rel, RefsExact(S, tab, rel), TablesTyped(tab, rel),
         NEW b \in Bases, NEW fd \in Fds, tab[b][fd] = NoSock, NEW s \in Socks,
         NEW tab1, Writes(tab, tab1, b, fd, s), CountUp(S, T, s)
  PROVE  RefsExact(T, tab1, rel) /\ TablesTyped(tab1, rel)
<1>1. /\ rel \in Seq([id : Ids, so : Socks]) /\ tab1[b][fd] = s /\ OneSlot(tab, tab1, b, fd)
      /\ tab1 \in [Bases -> [Fds -> Socks \cup {NoSock}]]
  BY DEF TablesTyped, Writes
<1>2. /\ Cardinality(SlotsOf(tab1, s)) = Cardinality(SlotsOf(tab, s)) + 1
      /\ \A x \in Socks : x # s => SlotsOf(tab1, x) = SlotsOf(tab, x)
  <2>1. Fills(tab, tab1, b, fd, s)
    BY <1>1 DEF Fills
  <2> QED BY <2>1, SlotFilledRefs
<1>3. Cardinality(SlotsOf(tab, s)) \in Nat /\ Cardinality(NodesOf(rel, s)) \in Nat
  <2>1. IsFiniteSet(SlotsOf(tab, s)) /\ IsFiniteSet(NodesOf(rel, s))
    BY <1>1, FiniteSlots, FiniteNodes
  <2> QED BY <2>1, FS_CardinalityType
<1>4. T[s].ref = Cardinality(SlotsOf(tab1, s)) + Cardinality(NodesOf(rel, s))
  BY <1>2, <1>3 DEF RefsExact, CountUp
<1>5. \A x \in Socks : x # s =>
        T[x].ref = Cardinality(SlotsOf(tab1, x)) + Cardinality(NodesOf(rel, x))
  BY <1>2 DEF RefsExact, CountUp
<1> QED BY <1>1, <1>4, <1>5 DEF RefsExact, TablesTyped

\* A slot that named s is cleared.
LEMMA RefsCleared ==
  ASSUME NEW S, NEW T, NEW tab, NEW rel, RefsExact(S, tab, rel), TablesTyped(tab, rel),
         NEW b \in Bases, NEW fd \in Fds, NEW s \in Socks, tab[b][fd] = s,
         NEW tab1, Writes(tab, tab1, b, fd, NoSock), CountDown(S, T, s)
  PROVE  RefsExact(T, tab1, rel) /\ TablesTyped(tab1, rel)
<1>1. /\ rel \in Seq([id : Ids, so : Socks]) /\ OneSlot(tab, tab1, b, fd)
      /\ tab1[b][fd] = NoSock /\ tab1 \in [Bases -> [Fds -> Socks \cup {NoSock}]]
  BY DEF TablesTyped, Writes
<1>2. /\ Cardinality(SlotsOf(tab1, s)) = Cardinality(SlotsOf(tab, s)) - 1
      /\ \A x \in Socks : x # s => SlotsOf(tab1, x) = SlotsOf(tab, x)
  <2>1. Fills(tab1, tab, b, fd, s)
    BY <1>1 DEF Fills, OneSlot
  <2> QED BY <2>1, SlotClearedRefs
<1>3. Cardinality(SlotsOf(tab, s)) \in Nat /\ Cardinality(NodesOf(rel, s)) \in Nat
  <2>1. IsFiniteSet(SlotsOf(tab, s)) /\ IsFiniteSet(NodesOf(rel, s))
    BY <1>1, FiniteSlots, FiniteNodes
  <2> QED BY <2>1, FS_CardinalityType
<1>4. T[s].ref = Cardinality(SlotsOf(tab1, s)) + Cardinality(NodesOf(rel, s))
  BY <1>2, <1>3 DEF RefsExact, CountDown
<1>5. \A x \in Socks : x # s =>
        T[x].ref = Cardinality(SlotsOf(tab1, x)) + Cardinality(NodesOf(rel, x))
  BY <1>2 DEF RefsExact, CountDown
<1> QED BY <1>1, <1>4, <1>5 DEF RefsExact, TablesTyped

\* LifeInv of given sockets, tables and calls: what a call has reached half-way.
LifeOK(S, tab, rel, cl) == /\ SockInv(S) /\ TablesTyped(tab, rel) /\ RefsExact(S, tab, rel)
                           /\ CallsOK(cl, S) /\ Reasons(cl, S)

LEMMA LifeParts == LifeInv <=> LifeOK(so, dTable, released, call) /\ ~panicked
  BY DEF LifeInv, LifeOK

\* A call that is no close is over.
LEMMA ReturnOK ==
  ASSUME NEW S, NEW tab, NEW rel, NEW cl, LifeOK(S, tab, rel, cl), NEW t \in Tasks,
         cl[t].op \notin CloseOps
  PROVE  LifeOK(S, tab, rel, [cl EXCEPT ![t] = NoCall])
<1> DEFINE cl1 == [cl EXCEPT ![t] = NoCall]
<1>1. CallsOK(cl, S) /\ Reasons(cl, S) /\ DOMAIN cl = Tasks
  BY DEF LifeOK, CallsOK
<1>2. DOMAIN cl1 = Tasks /\ cl1[t] = NoCall /\ \A u \in Tasks : u # t => cl1[u] = cl[u]
  BY <1>1
<1> HIDE DEF cl1
<1>3. \A r : Kept(r, r, {t})
  BY DEF Kept, Wakes
<1>4. OthersSleep(cl, cl1, S, S, t)
  BY <1>2, <1>3 DEF OthersSleep
<1>5. NoCall.op = "none" /\ "none" \notin CloseOps
  BY DEF NoCall, CloseOps
<1>6. ActorOK(cl1[t], S, t) /\ ClosersKept(cl[t], cl1[t], S, S)
  BY <1>2, <1>5, NoCallOK DEF ActorOK, ClosersKept
<1>7. CallsOK(cl1, S) /\ Reasons(cl1, S)
  BY <1>1, <1>2, <1>4, <1>6, CallsStep
<1> QED BY <1>7 DEF LifeOK, cl1

\* Another reference to c, which was not being closed, in a free slot.
Gains(S, T, c) == /\ SockInv(T) /\ OthersKept(S, T, c) /\ T[c].ref = S[c].ref + 1
                  /\ ~Ending(S[c]) /\ (S[c].ref > 0 => Wakes(S[c], T[c], {}))

LEMMA FillOK ==
  ASSUME NEW S, NEW tab, NEW rel, NEW cl, LifeOK(S, tab, rel, cl),
         NEW c \in Socks, NEW T, Gains(S, T, c),
         NEW b \in Bases, NEW fd \in Fds, tab[b][fd] = NoSock
  PROVE  LifeOK(T, [tab EXCEPT ![b][fd] = c], rel, cl)
<1> DEFINE tab1 == [tab EXCEPT ![b][fd] = c]
<1>1. /\ SockInv(S) /\ CallsOK(cl, S) /\ Reasons(cl, S) /\ RefsExact(S, tab, rel)
      /\ TablesTyped(tab, rel)
  BY DEF LifeOK
<1>2. Writes(tab, tab1, b, fd, c)
  BY <1>1, SlotWritten
<1> HIDE DEF tab1
<1>3. S[c].ref \in Nat
  BY <1>1, LiveFacts
<1>4. /\ T[c].ref = S[c].ref + 1 /\ T[c].ref > 0 /\ ~Ending(T[c]) /\ ~Ending(S[c])
      /\ S[c].ref > 0 => Wakes(S[c], T[c], {})
  BY <1>3 DEF Gains, Ending
<1>5. \A x \in Socks : x # c => Undisturbed(S[x], T[x])
  BY DEF Gains, OthersKept
<1>6. RefsExact(T, tab1, rel) /\ TablesTyped(tab1, rel)
  <2>1. CountUp(S, T, c)
    BY <1>4, <1>5 DEF Undisturbed, CountUp
  <2> QED BY <1>1, <1>2, <1>4, <2>1, RefsFilled
<1>7. \A x \in Socks : Gentle(S[x], T[x])
  <2>1. Gentle(S[c], T[c])
    BY <1>4 DEF Gentle, Kept
  <2> QED BY <1>5, <2>1, UndisturbedGentle
<1>8. CallsOK(cl, T) /\ Reasons(cl, T)
  BY <1>1, <1>7, CallsGentle
<1> QED BY <1>6, <1>8 DEF LifeOK, Gains, tab1

\* The reference count of a held socket goes up.
LEMMA CopyGains ==
  ASSUME NEW S, SockInv(S), NEW c \in Socks, S[c].ref > 0
  PROVE  Gains(S, [S EXCEPT ![c].ref = @ + 1], c)
<1> DEFINE T == [S EXCEPT ![c].ref = @ + 1]
           r == S[c]
           n == r.ref + 1
           r1 == T[c]
<1>1. DOMAIN S = Socks /\ DOMAIN r = SockFields /\ RecOK(r) /\ Held(r) /\ r.ref \in Nat
  BY LiveFacts DEF SockInv
<1>2. /\ DOMAIN T = Socks /\ \A x \in Socks : x # c => T[x] = S[x]
      /\ r1 = [r EXCEPT !.ref = n] /\ n \in Nat /\ n > 0
  BY <1>1
<1> HIDE DEF T, r, r1
<1>3. /\ DOMAIN r1 = SockFields /\ r1.ref = n /\ r1.alive = r.alive /\ r1.state = r.state
      /\ r1.tp = r.tp /\ r1.acc = r.acc /\ r1.head = r.head /\ r1.q0 = r.q0 /\ r1.q = r.q
      /\ r1.err = r.err /\ r1.cc = r.cc /\ r1.slp = r.slp /\ r1.rslp = r.rslp
  BY <1>1, <1>2 DEF SockFields
<1>4. r.alive
  BY <1>1, FreeRec DEF RecOK, Held
<1>5. Held(r1) /\ QueuesOK(r1) /\ OneState(r1)
  BY <1>1, <1>2, <1>3 DEF Held, RecOK, QueuesOK, OneState
<1>6. RecOK(r1)
  BY <1>1, <1>2, <1>3, <1>4, <1>5 DEF RecOK
<1>7. Wakes(r, r1, {}) /\ ~Ending(r)
  BY <1>1, <1>3 DEF Wakes, Held, Ending
<1>8. /\ RecOK(T[c]) /\ T[c].head = S[c].head /\ T[c].q0 = S[c].q0 /\ T[c].q = S[c].q
      /\ Wakes(S[c], T[c], {}) /\ ~Ending(S[c]) /\ T[c].ref = S[c].ref + 1
  BY <1>3, <1>6, <1>7 DEF r, r1
<1>9. SockInv(T)
  BY <1>2, <1>8, AdjustOK
<1>10. OthersKept(S, T, c)
  BY <1>2, SameUndisturbed DEF OthersKept
<1> QED BY <1>8, <1>9, <1>10 DEF Gains, T

\* accept takes the first completed connection off its listener's queue.
LEMMA TakeGains ==
  ASSUME NEW S, SockInv(S), NEW s \in Socks, S[s].q # <<>>, NEW b
  PROVE  LET c == S[s].q[1]
         IN  /\ c \in Socks /\ "NOFDREF" \in S[c].state
             /\ Gains(S, [SoQRemque(S, c) EXCEPT ![c].ref = 1, ![c].pgid = b,
                                                 ![c].state = @ \ {"NOFDREF"}], c)
<1> DEFINE c == S[s].q[1]
           st == S[c].state \ {"NOFDREF"}
           T == [SoQRemque(S, c) EXCEPT ![c].ref = 1, ![c].pgid = b,
                                        ![c].state = @ \ {"NOFDREF"}]
           g == Cut(S[s], c)
           r == S[c]
           r1 == T[c]
<1>1. S[s].q \in Seq(Socks) /\ RecOK(S[s]) /\ DOMAIN S = Socks /\ DOMAIN S[s] = SockFields
  BY DEF SockInv, RecOK, QueuesOK
<1>2. 1 \in DOMAIN S[s].q /\ c \in Socks
  BY <1>1, EmptySeq, LenProperties, ElementOfSeq
<1>3. c \in Kids(S[s])
  BY <1>2 DEF Kids, Elems
<1>4. S[c].head = s /\ s # NoSock
  BY <1>3, NullAssumption DEF SockInv, Linked
<1>5. /\ s # c /\ S[s].acc /\ Waiting(r) /\ r.alive /\ r.q0 = <<>> /\ r.q = <<>>
      /\ RecOK(r) /\ DOMAIN r = SockFields
  BY <1>2, <1>4, QueuedFacts DEF SockInv, RecOK
<1> HIDE DEF c, g
<1>6. SoQRemque(S, c) = [S EXCEPT ![s].q0 = Without(@, c), ![s].q = Without(@, c),
                                  ![c].head = NoSock]
  BY <1>4 DEF SoQRemque
<1>7. /\ DOMAIN T = Socks /\ (\A x \in Socks : x \notin {s, c} => T[x] = S[x]) /\ T[s] = g
      /\ r1 = [r EXCEPT !.head = NoSock, !.ref = 1, !.pgid = b, !.state = st]
  <2> DEFINE Q == SoQRemque(S, c)
  <2>1. /\ DOMAIN Q = Socks /\ (\A x \in Socks : x \notin {s, c} => Q[x] = S[x])
        /\ Q[s] = g /\ Q[c] = [r EXCEPT !.head = NoSock]
    BY <1>1, <1>2, <1>5, <1>6 DEF g, Cut
  <2> HIDE DEF Q
  <2>2. T = [Q EXCEPT ![c].ref = 1, ![c].pgid = b, ![c].state = @ \ {"NOFDREF"}]
    BY DEF Q
  <2> HIDE DEF T, r1
  <2>3. DOMAIN T = Socks /\ (\A x \in Socks : x # c => T[x] = Q[x])
    BY <2>1, <2>2
  <2>4. T[c] = [Q[c] EXCEPT !.ref = 1, !.pgid = b, !.state = @ \ {"NOFDREF"}]
    BY <1>2, <2>1, <2>2
  <2>5. Q[c].state = r.state
    BY <1>5, <2>1 DEF SockFields
  <2>6. T[c] = [r EXCEPT !.head = NoSock, !.ref = 1, !.pgid = b, !.state = st]
    BY <1>5, <2>1, <2>4, <2>5
  <2> QED BY <1>5, <2>1, <2>3, <2>6 DEF r1
<1>8. /\ DOMAIN g = SockFields /\ g.q0 = Without(S[s].q0, c) /\ g.q = Without(S[s].q, c)
      /\ g.alive = S[s].alive /\ g.ref = S[s].ref /\ g.state = S[s].state
      /\ g.tp = S[s].tp /\ g.acc = S[s].acc /\ g.head = S[s].head
      /\ g.err = S[s].err /\ g.cc = S[s].cc /\ g.slp = S[s].slp /\ g.rslp = S[s].rslp
  BY <1>1, CutFields DEF g
<1>9. /\ "NOFDREF" \notin st /\ "ISDISCONNECTING" \notin st
      /\ "ISCONNECTING" \in st <=> "ISCONNECTING" \in r.state
      /\ "ISCONNECTED" \in st <=> "ISCONNECTED" \in r.state
  BY <1>5 DEF Waiting
<1> HIDE DEF T, r, r1, st
<1>10. /\ DOMAIN r1 = SockFields /\ r1.ref = 1 /\ r1.head = NoSock /\ r1.state = st
       /\ r1.alive = r.alive /\ r1.tp = r.tp /\ r1.acc = r.acc /\ r1.q0 = r.q0 /\ r1.q = r.q
  BY <1>5, <1>7 DEF SockFields
<1>11. Held(r1) /\ QueuesOK(r1) /\ OneState(r1)
  BY <1>5, <1>9, <1>10 DEF Held, RecOK, QueuesOK, OneState
<1>12. RecOK(r1) /\ Kids(r1) = {}
  BY <1>5, <1>10, <1>11, EmptyProps DEF RecOK, Kids
<1>13. /\ S[s].q0 \in Seq(Socks) /\ NoDup(S[s].q0) /\ NoDup(S[s].q)
       /\ Elems(S[s].q0) \cap Elems(S[s].q) = {}
  BY <1>1 DEF RecOK, QueuesOK
<1>14. /\ QueuesOK(g) /\ Kids(g) = Kids(S[s]) \ {c}
       /\ S[s].q = <<>> => g.q = <<>>
  BY <1>1, <1>5, <1>8, <1>13, WithoutProps DEF QueuesOK, Kids
<1>15. RecOK(g) /\ Undisturbed(S[s], g)
  <2>1. (Held(g) <=> Held(S[s])) /\ (Ending(g) <=> Ending(S[s]))
    BY <1>8 DEF Held, Ending
  <2>2. Held(S[s]) \/ Ending(S[s])
    BY <1>5, LiveFacts
  <2>3. g.alive /\ g.ref \in Nat /\ g.tp \in {"LISTEN", "NOPCB"}
    BY <1>5, <1>8, LiveFacts
  <2>4. OneState(g)
    BY <1>1, <1>8 DEF RecOK, OneState
  <2>5. RecOK(g)
    BY <1>8, <1>14, <2>1, <2>2, <2>3, <2>4 DEF RecOK
  <2>6. Wakes(S[s], g, {})
    BY <1>8, <1>14 DEF Wakes
  <2> QED BY <1>8, <2>1, <2>5, <2>6 DEF Undisturbed
<1>16. SockInv(T)
  <2>1. RecOK(T[c]) /\ T[c].head = NoSock /\ Kids(T[c]) = {}
    BY <1>10, <1>12 DEF r1
  <2>2. RecOK(T[s]) /\ T[s].head = S[s].head /\ Kids(T[s]) = Kids(S[s]) \ {c}
    BY <1>7, <1>8, <1>14, <1>15
  <2> QED BY <1>2, <1>4, <1>7, <2>1, <2>2, UnqueueOK
<1>17. OthersKept(S, T, c)
  BY <1>7, <1>15, SameUndisturbed DEF OthersKept
<1>18. r.ref = 0 /\ ~Ending(r) /\ "NOFDREF" \in r.state
  BY <1>4, <1>5 DEF Waiting, Ending, r
<1>19. T[c].ref = S[c].ref + 1 /\ ~Ending(S[c]) /\ ~(S[c].ref > 0)
  BY <1>10, <1>18 DEF r, r1
<1>20. Gains(S, T, c)
  BY <1>16, <1>17, <1>19 DEF Gains
<1> QED BY <1>2, <1>18, <1>20 DEF T, c, r

\* What a free descriptor is: unmarked, and no socket behind it.
LEMMA FreeSlot ==
  ASSUME TableInv, NEW b \in Bases, NEW fd \in FreeFds(b)
  PROVE  fd \in Fds /\ dTable[b][fd] = NoSock
  BY DEF TableInv, SlotsMarked, FreeFds

\* The rest of accept(), when the wait is over.
LEMMA AcceptTailStep ==
  ASSUME LifeInv, TableInv, SafeUses, NEW t \in Tasks, NEW s \in Socks, so[s].ref > 0,
         call[t].op \notin CloseOps, AcceptTail(t, s), released' = released
  PROVE  LifeInv'
<1> DEFINE b == Home[t]
           fd == SdFind(b)
           c == so[s].q[1]
           T == [SoQRemque(so, c) EXCEPT ![c].ref = 1, ![c].pgid = b,
                                         ![c].state = @ \ {"NOFDREF"}]
           tab1 == [dTable EXCEPT ![b][fd] = c]
           cl == [call EXCEPT ![t] = NoCall]
<1>1. b \in Bases /\ Return(t) /\ call' = cl
  BY HomeAssumption DEF AcceptTail, Return
<1>2. CASE so' = [so EXCEPT ![s].err = FALSE] /\ UNCHANGED <<dTable, used, panicked>>
  BY <1>1, <1>2, ClearedReturn DEF ClearsFlags
<1>3. CASE UNCHANGED <<so, dTable, used, panicked>>
  BY <1>1, <1>3, ClearedReturn DEF ClearsFlags
<1>4. CASE so[s].q # <<>> /\ FreeFds(b) # {} /\ TakeConnection(b, s, fd)
  <2>1. LifeOK(so, dTable, released, call) /\ SockInv(so)
    BY LifeParts DEF LifeOK
  <2>2. c \in Socks /\ "NOFDREF" \in so[c].state /\ Gains(so, T, c)
    BY <1>4, <2>1, TakeGains
  <2>3. so' = T /\ dTable' = tab1 /\ ~panicked'
    BY <1>4, <2>2 DEF TakeConnection, Dry, SafeUses, SetFd
  <2>4. fd \in Fds /\ dTable[b][fd] = NoSock
    BY <1>1, <1>4, SdFindFree, FreeSlot
  <2> HIDE DEF T, c, fd, b, cl
  <2>5. LifeOK(so, dTable, released, cl)
    BY <2>1, ReturnOK DEF cl
  <2>6. LifeOK(T, tab1, released, cl)
    BY <1>1, <2>2, <2>4, <2>5, FillOK
  <2> QED BY <1>1, <2>3, <2>6 DEF LifeInv, LifeOK
<1> QED BY <1>2, <1>3, <1>4 DEF AcceptTail

\* accept(), before and after its wait.
LEMMA AcceptStep ==
  ASSUME LifeInv, TableInv, SafeUses, NEW t \in Tasks,
         (\E fd \in Fds : Accept(t, fd)) \/ AcceptResume(t)
  PROVE  LifeInv'
<1>1. ASSUME NEW fd \in Fds, Accept(t, fd) PROVE LifeInv'
  <2> DEFINE s == Sock(t, fd)
  <2>1. s = dTable[Home[t]][fd] /\ Home[t] \in Bases /\ s # NoSock /\ call[t].op = "none"
    BY <1>1, HomeAssumption DEF Accept, Sock, CanCall
  <2>2. s \in Socks /\ so[s].ref > 0 /\ so[s].alive /\ SockInv(so)
    BY <2>1, SlotHeld
  <2>3. CASE AcceptWaits(so, s) /\ "CANTRCVMORE" \notin so[s].state
    <3>1. /\ so' = [so EXCEPT ![s].slp = @ \cup {t}] /\ Sleep(t, "accept", s)
          /\ UNCHANGED <<dTable, used, panicked, released>>
      BY <1>1, <2>3 DEF Accept
    <3> HIDE DEF s
    <3>2. JoinsSleepers(so, so', s, t)
      BY <3>1 DEF JoinsSleepers
    <3>3. /\ Touched(so, so', s) /\ so'[s].tp = so[s].tp /\ so'[s].state = so[s].state
          /\ so'[s].err = so[s].err /\ so'[s].cc = so[s].cc /\ so'[s].q = so[s].q
          /\ Wakes(so[s], so'[s], {t})
      BY <2>2, <3>2, SleeperAdded
    <3>4. so'[s].q = <<>> /\ ~so'[s].err
      BY <2>3, <3>3 DEF AcceptWaits
    <3>5. ~panicked' /\ UNCHANGED <<dTable, released>> /\ Sleep(t, "accept", s)
      BY <3>1 DEF LifeInv
    <3>6. "accept" \in WaitOps
      BY DEF WaitOps
    <3> QED BY <2>1, <2>2, <3>3, <3>4, <3>5, <3>6, FallsAsleep
  <2>4. CASE ~(AcceptWaits(so, s) /\ "CANTRCVMORE" \notin so[s].state)
    <3>1. AcceptTail(t, s) /\ released' = released
      BY <1>1, <2>4 DEF Accept
    <3> QED BY <2>1, <2>2, <3>1, AcceptTailStep DEF CloseOps
  <2> QED BY <2>3, <2>4
<1>2. CASE AcceptResume(t)
  <2> DEFINE s == call[t].so
  <2>1. call[t].op = "accept"
    BY <1>2 DEF AcceptResume, Awake
  <2>2. s \in Socks /\ so[s].ref > 0 /\ so[s].alive
    BY <2>1, WaiterFacts DEF WaitOps
  <2>3. CASE AcceptWaits(so, s) /\ "CANTRCVMORE" \notin so[s].state
    <3>1. /\ so' = [so EXCEPT ![s].slp = @ \cup {t}]
          /\ UNCHANGED <<dTable, call, panicked, released>>
      BY <1>2, <2>3 DEF AcceptResume
    <3>2. JoinsSleepers(so, so', s, t)
      BY <3>1 DEF JoinsSleepers
    <3>3. MustWait(call[t], so[s])
      BY <2>1, <2>3 DEF MustWait, AcceptWaits, CloseOps
    <3> QED BY <2>1, <2>2, <3>1, <3>2, <3>3, SleepsAgain DEF LifeInv
  <2>4. CASE ~(AcceptWaits(so, s) /\ "CANTRCVMORE" \notin so[s].state)
    <3>1. AcceptTail(t, s) /\ released' = released
      BY <1>2, <2>4 DEF AcceptResume
    <3> QED BY <2>1, <2>2, <3>1, AcceptTailStep DEF CloseOps
  <2> QED BY <2>3, <2>4
<1> QED BY <1>1, <1>2

\* socket(): a new record with one reference.
LEMMA NewGains ==
  ASSUME NEW S, SockInv(S), NEW s \in Socks, ~S[s].alive, NEW b
  PROVE  Gains(S, [S EXCEPT ![s] = [FreeSock EXCEPT !.alive = TRUE, !.tp = "CLOSED",
                                                    !.ref = 1, !.pgid = b]], s)
<1> DEFINE r1 == [FreeSock EXCEPT !.alive = TRUE, !.tp = "CLOSED", !.ref = 1, !.pgid = b]
           T == [S EXCEPT ![s] = r1]
<1>1. DOMAIN S = Socks /\ S[s] = FreeSock
  BY DEF SockInv, RecOK
<1>2. /\ DOMAIN r1 = SockFields /\ r1.alive /\ r1.ref = 1 /\ r1.tp = "CLOSED" /\ r1.state = {}
      /\ ~r1.acc /\ r1.head = NoSock /\ r1.q0 = <<>> /\ r1.q = <<>>
  BY DEF FreeSock, SockFields
<1> HIDE DEF r1
<1>3. DOMAIN T = Socks /\ T[s] = r1 /\ \A x \in Socks : x # s => T[x] = S[x]
  BY <1>1
<1> HIDE DEF T
<1>4. Held(r1) /\ QueuesOK(r1) /\ OneState(r1)
  BY <1>2, EmptyProps DEF Held, QueuesOK, OneState
<1>5. RecOK(r1)
  BY <1>2, <1>4 DEF RecOK
<1>6. SockInv(T)
  BY <1>1, <1>2, <1>3, <1>5, FreeRec, AdjustOK
<1>7. OthersKept(S, T, s)
  BY <1>3, SameUndisturbed DEF OthersKept
<1> QED BY <1>1, <1>2, <1>3, <1>6, <1>7, FreeRec DEF Gains, T, r1

LEMMA SocketStep ==
  ASSUME LifeInv, TableInv, SafeUses, NEW t \in Tasks, Socket(t)
  PROVE  LifeInv'
<1> DEFINE b == Home[t]
           fd == SdFind(b)
<1>1. PICK s \in Socks :
        /\ ~so[s].alive
        /\ so' = [so EXCEPT ![s] = [FreeSock EXCEPT !.alive = TRUE, !.tp = "CLOSED",
                                                    !.ref = 1, !.pgid = b]]
        /\ SetFd(b, fd, s)
  BY DEF Socket, FdCbFails, SafeUses
<1>2. b \in Bases /\ fd \in Fds /\ dTable[b][fd] = NoSock
  BY HomeAssumption, SdFindFree, FreeSlot DEF Socket
<1>3. LifeOK(so, dTable, released, call) /\ SockInv(so) /\ ~panicked
  BY LifeParts DEF LifeOK
<1> HIDE DEF b, fd
<1>4. Gains(so, so', s)
  BY <1>1, <1>3, NewGains
<1>5. LifeOK(so', [dTable EXCEPT ![b][fd] = s], released, call)
  BY <1>2, <1>3, <1>4, FillOK
<1>6. dTable' = [dTable EXCEPT ![b][fd] = s] /\ UNCHANGED <<released, call, panicked>>
  BY <1>1 DEF SetFd, Socket
<1> QED BY <1>3, <1>5, <1>6 DEF LifeInv, LifeOK

-----------------------------------------------------------------------------
(* Closes.                                                                 *)

\* No call sleeps on s: the instance never closes a socket that is in use by another
\* task's call.
Idle(cl, s) == \A u \in Tasks : cl[u].op # "none" => cl[u].so # s

LEMMA CallsIdle ==
  ASSUME NEW cl, NEW S, CallsOK(cl, S), Reasons(cl, S), NEW T, NEW s \in Socks,
         OthersKept(S, T, s), Idle(cl, s), ~Ending(T[s])
  PROVE  CallsOK(cl, T) /\ Reasons(cl, T)
<1>1. ASSUME NEW u \in Tasks
      PROVE  CallOK(cl[u], T) /\ (cl[u].op # "none" => ReasonOK(u, cl[u], T[cl[u].so]))
  <2>1. CallOK(cl[u], S) /\ (cl[u].op # "none" => ReasonOK(u, cl[u], S[cl[u].so]))
    BY DEF CallsOK, Reasons
  <2>2. CASE cl[u].op = "none"
    BY <2>1, <2>2 DEF CallOK, WaitOps, CloseOps
  <2>3. CASE cl[u].op # "none"
    <3>1. /\ cl[u].so \in Socks /\ cl[u].so # s
          /\ S[cl[u].so].ref > 0 \/ Ending(S[cl[u].so])
      BY <2>1, <2>3 DEF CallOK, Idle
    <3>2. Undisturbed(S[cl[u].so], T[cl[u].so])
      BY <3>1 DEF OthersKept
    <3>3. Kept(S[cl[u].so], T[cl[u].so], {})
      BY <3>1, <3>2, UndisturbedGentle DEF Gentle
    <3> QED BY <2>1, <2>3, <3>3, CallKept
  <2> QED BY <2>2, <2>3
<1>2. \A x \in Socks : Ending(T[x]) => Ending(S[x])
  BY DEF OthersKept, Undisturbed
<1>3. OneCloser(cl, T)
  BY <1>2 DEF CallsOK, OneCloser
<1> QED BY <1>1, <1>3 DEF CallsOK, Reasons

\* The sockets after a close: the last reference closes.
AfterClose(D, s) == IF D[s].ref <= 0 THEN CloseFinish(CloseStart(D, s), s) ELSE D

\* The tables and the list of released sockets, when they have lost the reference too.
RefsGone(D, tab, rel) == RefsExact(D, tab, rel) /\ TablesTyped(tab, rel)

LEMMA ClosedOK ==
  ASSUME NEW S, NEW tab, NEW rel, NEW cl, LifeOK(S, tab, rel, cl), NEW s \in Socks,
         S[s].ref > 0, NEW D, Unheld(S, D, s), D[s].ref <= 0 => Idle(cl, s),
         NEW tab1, NEW rel1, RefsGone(D, tab1, rel1)
  PROVE  LifeOK(AfterClose(D, s), tab1, rel1, cl)
<1>1. SockInv(S) /\ CallsOK(cl, S) /\ Reasons(cl, S)
  BY DEF LifeOK
<1>2. RefsExact(D, tab1, rel1) /\ TablesTyped(tab1, rel1)
  BY DEF RefsGone
<1>3. /\ SockInv(D) /\ OthersKept(S, D, s) /\ Wakes(S[s], D[s], {}) /\ D[s].ref \in Nat
      /\ D[s].ref <= 0 => Ending(D[s]) /\ D[s].ref = 0
  BY <1>1, UnheldOK
<1>4. CASE ~(D[s].ref <= 0)
  <2>1. AfterClose(D, s) = D /\ D[s].ref > 0 /\ ~Ending(D[s]) /\ ~Ending(S[s])
    BY <1>3, <1>4 DEF AfterClose, Ending
  <2>2. Gentle(S[s], D[s])
    BY <1>3, <2>1 DEF Gentle, Kept
  <2>3. \A x \in Socks : Gentle(S[x], D[x])
    BY <1>3, <2>2, UndisturbedGentle DEF OthersKept
  <2>4. CallsOK(cl, D) /\ Reasons(cl, D)
    BY <1>1, <2>3, CallsGentle
  <2> QED BY <1>2, <1>3, <2>1, <2>4 DEF LifeOK
<1>5. CASE D[s].ref <= 0
  <2> DEFINE F == CloseFinish(CloseStart(D, s), s)
  <2>1. SockInv(F) /\ ~Ending(F[s]) /\ F[s].ref = 0 /\ OthersKept(S, F, s)
    BY <1>1, <1>5, CloseOK
  <2>2. AfterClose(D, s) = F
    BY <1>5 DEF AfterClose
  <2> HIDE DEF F
  <2>3. \A x \in Socks : F[x].ref = D[x].ref
    <3>1. ASSUME NEW x \in Socks, x # s PROVE F[x].ref = D[x].ref
      BY <3>1, <1>3, <2>1 DEF OthersKept, Undisturbed
    <3> QED BY <1>3, <1>5, <2>1, <3>1
  <2>4. RefsExact(F, tab1, rel1)
    BY <1>2, <2>3, RefsSame
  <2>5. CallsOK(cl, F) /\ Reasons(cl, F)
    BY <1>1, <1>5, <2>1, CallsIdle
  <2> QED BY <1>2, <2>1, <2>2, <2>4, <2>5 DEF LifeOK
<1> QED BY <1>4, <1>5

\* The call of a close that sleeps on s.
ClosingCall(c, s) ==
  /\ DOMAIN c = {"op", "so", "fd", "fd1", "so1"} /\ c.op \in CloseOps /\ c.so = s
  /\ c.op = "dup" => /\ c.fd1 \in Fds \cup {NoFd} /\ c.so1 \in Socks \cup {NoSock}
                     /\ c.fd1 = NoFd => c.so1 = NoSock

LEMMA LingerOK ==
  ASSUME NEW S, NEW tab, NEW rel, NEW cl, LifeOK(S, tab, rel, cl), NEW s \in Socks,
         S[s].ref > 0, NEW D, Unheld(S, D, s), D[s].ref <= 0, Idle(cl, s),
         NEW tab1, NEW rel1, RefsGone(D, tab1, rel1), NEW nbio,
         MustLinger(CloseStart(D, s), s, nbio),
         NEW t \in Tasks, cl[t].op = "none", NEW c, ClosingCall(c, s)
  PROVE  LifeOK([CloseStart(D, s) EXCEPT ![s].slp = @ \cup {t}], tab1, rel1,
                [cl EXCEPT ![t] = c])
<1> DEFINE C == CloseStart(D, s)
           T == [C EXCEPT ![s].slp = @ \cup {t}]
           cl1 == [cl EXCEPT ![t] = c]
<1>1. SockInv(S) /\ CallsOK(cl, S) /\ Reasons(cl, S) /\ DOMAIN cl = Tasks
  BY DEF LifeOK, CallsOK
<1>2. RefsExact(D, tab1, rel1) /\ TablesTyped(tab1, rel1)
  BY DEF RefsGone
<1>3. OthersKept(S, D, s) /\ D[s].ref = 0
  BY <1>1, UnheldOK
<1>4. SockInv(C) /\ Ending(C[s]) /\ OthersKept(S, C, s) /\ ~C[s].acc
  BY <1>1, CloseOK
<1>5. "ISCONNECTED" \in C[s].state
  BY DEF MustLinger
<1>6. DOMAIN cl1 = Tasks /\ cl1[t] = c /\ \A u \in Tasks : u # t => cl1[u] = cl[u]
  BY <1>1
<1> HIDE DEF C, cl1
<1>7. JoinsSleepers(C, T, s, t)
  BY DEF JoinsSleepers
<1> HIDE DEF T
<1>8. /\ Touched(C, T, s) /\ T[s].tp = C[s].tp /\ T[s].state = C[s].state
      /\ T[s].err = C[s].err /\ T[s].cc = C[s].cc /\ T[s].q = C[s].q
      /\ Wakes(C[s], T[s], {t})
  BY <1>4, <1>7, SleeperAdded
<1>9. C[s].alive /\ ~Held(C[s]) /\ ~Waiting(C[s]) /\ C[s].ref = 0
  BY <1>4 DEF Ending, Held, Waiting
<1>10. SockInv(T) /\ Ending(T[s])
  BY <1>4, <1>8, <1>9, TouchedOK
<1>11. ~T[s].acc /\ "ISCONNECTED" \in T[s].state /\ T[s].ref = 0
  BY <1>4, <1>5, <1>8, <1>9 DEF Touched, SameLinks
<1>12. OthersKept(S, T, s)
  BY <1>4, <1>8, TouchedKeepsOthers, OthersTrans
<1>13. \A x \in Socks : T[x].ref = D[x].ref
  <2>1. ASSUME NEW x \in Socks, x # s PROVE T[x].ref = D[x].ref
    BY <2>1, <1>3, <1>12 DEF OthersKept, Undisturbed
  <2> QED BY <1>3, <1>11, <2>1
<1>14. RefsExact(T, tab1, rel1)
  BY <1>2, <1>13, RefsSame
<1>15. OthersSleep(cl, cl1, S, T, t)
  <2> SUFFICES ASSUME NEW u \in Tasks, u # t, cl[u].op # "none"
               PROVE  Kept(S[cl[u].so], T[cl[u].so], {t})
    BY <1>6 DEF OthersSleep
  <2>1. /\ cl[u].so \in Socks /\ cl[u].so # s
        /\ S[cl[u].so].ref > 0 \/ Ending(S[cl[u].so])
    BY <1>1 DEF CallsOK, CallOK, Idle
  <2>2. Undisturbed(S[cl[u].so], T[cl[u].so])
    BY <1>12, <2>1 DEF OthersKept
  <2>3. Kept(S[cl[u].so], T[cl[u].so], {})
    BY <2>1, <2>2, UndisturbedGentle DEF Gentle
  <2> QED BY <2>3 DEF Kept, Wakes
<1>16. ActorOK(c, T, t)
  <2>1. c.op \in CloseOps /\ c.so = s
    BY DEF ClosingCall
  <2>2. CallOK(c, T)
    BY <1>10, <1>11 DEF CallOK, ClosingCall, WaitOps, CloseOps
  <2>3. ReasonOK(t, c, T[s])
    BY <1>11, <2>1 DEF ReasonOK, CloseOps
  <2> QED BY <2>1, <2>2, <2>3 DEF ActorOK
<1>17. ClosersKept(cl[t], c, S, T)
  <2>1. ~Ending(S[s])
    BY DEF Ending
  <2>2. c.op \in CloseOps /\ c.so = s /\ "none" \notin CloseOps
    BY DEF ClosingCall, CloseOps
  <2>3. \A x \in Socks : x # s /\ Ending(T[x]) => Ending(S[x])
    BY <1>12 DEF OthersKept, Undisturbed
  <2> QED BY <2>1, <2>2, <2>3 DEF ClosersKept
<1>18. CallsOK(cl1, T) /\ Reasons(cl1, T)
  BY <1>1, <1>6, <1>15, <1>16, <1>17, CallsStep
<1> QED BY <1>2, <1>10, <1>14, <1>18 DEF LifeOK, T, C, cl1

\* A close that slept is over.
LEMMA LingerDone ==
  ASSUME NEW S, NEW tab, NEW rel, NEW cl, LifeOK(S, tab, rel, cl), NEW t \in Tasks,
         cl[t].op \in CloseOps
  PROVE  /\ cl[t].so \in Socks /\ "NOFDREF" \notin S[cl[t].so].state
         /\ LifeOK(CloseFinish(S, cl[t].so), tab, rel, [cl EXCEPT ![t] = NoCall])
<1> DEFINE s == cl[t].so
           F == CloseFinish(S, s)
           cl1 == [cl EXCEPT ![t] = NoCall]
<1>1. /\ SockInv(S) /\ CallsOK(cl, S) /\ Reasons(cl, S) /\ DOMAIN cl = Tasks
      /\ RefsExact(S, tab, rel) /\ TablesTyped(tab, rel)
  BY DEF LifeOK, CallsOK
<1>2. cl[t].op # "none" /\ CallOK(cl[t], S)
  BY <1>1 DEF CallsOK, CloseOps
<1>3. s \in Socks /\ Ending(S[s]) /\ ~S[s].acc
  BY <1>2 DEF CallOK
<1>4. DOMAIN cl1 = Tasks /\ cl1[t] = NoCall /\ \A u \in Tasks : u # t => cl1[u] = cl[u]
  BY <1>1
<1> HIDE DEF cl1
<1>5. Kids(S[s]) = {}
  BY <1>1, <1>3, LiveFacts, EmptyProps DEF Kids
<1>6. SockInv(F) /\ ~Ending(F[s]) /\ F[s].ref = 0 /\ OthersKept(S, F, s)
  BY <1>1, <1>3, <1>5, CloseFinishOK
<1> HIDE DEF F
<1>7. S[s].ref = 0 /\ "NOFDREF" \notin S[s].state
  BY <1>3 DEF Ending
<1>8. \A x \in Socks : F[x].ref = S[x].ref
  BY <1>6, <1>7 DEF OthersKept, Undisturbed
<1>9. RefsExact(F, tab, rel)
  BY <1>1, <1>8, RefsSame
<1>10. OthersSleep(cl, cl1, S, F, t)
  <2> SUFFICES ASSUME NEW u \in Tasks, u # t, cl[u].op # "none"
               PROVE  Kept(S[cl[u].so], F[cl[u].so], {t})
    BY <1>4 DEF OthersSleep
  <2>1. CallOK(cl[u], S)
    BY <1>1 DEF CallsOK
  <2>2. cl[u].so \in Socks /\ (S[cl[u].so].ref > 0 \/ Ending(S[cl[u].so]))
    BY <2>1 DEF CallOK
  <2>3. cl[u].so # s
    <3>1. CASE cl[u].op \in CloseOps
      BY <1>1, <3>1 DEF CallsOK, OneCloser
    <3>2. CASE cl[u].op \in WaitOps
      BY <1>7, <2>1, <3>2 DEF CallOK
    <3> QED BY <2>1, <3>1, <3>2 DEF CallOK
  <2>4. Undisturbed(S[cl[u].so], F[cl[u].so])
    BY <1>6, <2>2, <2>3 DEF OthersKept
  <2>5. Kept(S[cl[u].so], F[cl[u].so], {})
    BY <2>2, <2>4, UndisturbedGentle DEF Gentle
  <2> QED BY <2>5 DEF Kept, Wakes
<1>11. NoCall.op = "none" /\ "none" \notin CloseOps
  BY DEF NoCall, CloseOps
<1>12. ActorOK(cl1[t], F, t)
  BY <1>4, <1>11, NoCallOK DEF ActorOK
<1>13. ClosersKept(cl[t], cl1[t], S, F)
  BY <1>4, <1>6, <1>11 DEF ClosersKept, OthersKept, Undisturbed
<1>14. CallsOK(cl1, F) /\ Reasons(cl1, F)
  BY <1>1, <1>4, <1>10, <1>12, <1>13, CallsStep
<1> QED BY <1>1, <1>3, <1>6, <1>7, <1>9, <1>14 DEF LifeOK, F, cl1

\* The reference that a descriptor was.
LEMMA DropUnheld ==
  ASSUME LifeInv, NEW b \in Bases, NEW fd \in Fds, dTable[b][fd] # NoSock
  PROVE  LET s == dTable[b][fd]
             D == DropReference(b, fd)
         IN  /\ Unheld(so, D, s) /\ s \in Socks /\ so[s].ref > 0
             /\ RefsGone(D, [dTable EXCEPT ![b][fd] = NoSock], released)
<1> DEFINE s == dTable[b][fd]
           p == IF so[s].pgid = b /\ CountSockets(b, s) = 1 THEN NoBase ELSE so[s].pgid
           D == DropReference(b, fd)
           r == so[s]
           r1 == D[s]
           n == r.ref - 1
           tab1 == [dTable EXCEPT ![b][fd] = NoSock]
<1>1. /\ s \in Socks /\ r.ref > 0 /\ DOMAIN r = SockFields /\ DOMAIN so = Socks /\ SockInv(so)
  BY SlotHeld
<1>2. TablesTyped(dTable, released) /\ RefsExact(so, dTable, released)
  BY DEF LifeInv
<1>3. Writes(dTable, tab1, b, fd, NoSock)
  BY <1>2, SlotWritten
<1> HIDE DEF s, tab1
<1>4. D = [so EXCEPT ![s].ref = @ - 1,
                     ![s].pgid = IF @ = b /\ CountSockets(b, s) = 1 THEN NoBase ELSE @]
  BY DEF DropReference, s
<1> HIDE DEF D
<1>5. /\ DOMAIN D = Socks /\ (\A x \in Socks : x # s => D[x] = so[x])
      /\ r1 = [r EXCEPT !.ref = n, !.pgid = p]
  BY <1>1, <1>4
<1> HIDE DEF r, r1, p, n
<1>6. /\ DOMAIN r1 = SockFields /\ r1.ref = n /\ r1.alive = r.alive /\ r1.state = r.state
      /\ r1.tp = r.tp /\ r1.acc = r.acc /\ r1.head = r.head /\ r1.q0 = r.q0 /\ r1.q = r.q
      /\ r1.err = r.err /\ r1.cc = r.cc /\ r1.slp = r.slp /\ r1.rslp = r.rslp
  BY <1>1, <1>5 DEF SockFields
<1>7. Unheld(so, D, s)
  BY <1>5, <1>6 DEF Unheld, r, r1, n
<1>8. RefsExact(D, tab1, released) /\ TablesTyped(tab1, released)
  <2>1. CountDown(so, D, s)
    BY <1>5, <1>7 DEF Unheld, CountDown
  <2>2. dTable[b][fd] = s
    BY DEF s
  <2> QED BY <1>1, <1>2, <1>3, <2>1, <2>2, RefsCleared
<1> QED BY <1>1, <1>7, <1>8 DEF RefsGone, s, D, tab1, r

\* A close that may be done: nobody sleeps on the socket.
LEMMA NotBusyIdle ==
  ASSUME SafeUses, NEW s, NotBusy(s) PROVE Idle(call, s)
  BY DEF SafeUses, NotBusy, Idle

\* The close of what a descriptor names, when it does not sleep and when it does.
LEMMA CloseNowOK ==
  ASSUME LifeInv, SafeUses, NEW b \in Bases, NEW fd \in Fds, dTable[b][fd] # NoSock,
         LastClose(b, fd) => NotBusy(dTable[b][fd])
  PROVE  /\ LifeOK(ClosedNow(b, fd), [dTable EXCEPT ![b][fd] = NoSock], released, call)
         /\ ~ClosePanics(b, fd)
<1> DEFINE s == dTable[b][fd]
           D == DropReference(b, fd)
           tab1 == [dTable EXCEPT ![b][fd] = NoSock]
<1>1. Unheld(so, D, s) /\ s \in Socks /\ so[s].ref > 0 /\ RefsGone(D, tab1, released)
  BY DropUnheld
<1>2. LifeOK(so, dTable, released, call) /\ SockInv(so)
  BY LifeParts DEF LifeOK
<1>3. LastClose(b, fd) <=> D[s].ref <= 0
  BY DEF LastClose
<1>4. D[s].ref <= 0 => Idle(call, s)
  BY <1>3, NotBusyIdle
<1>5. ClosedNow(b, fd) = AfterClose(D, s)
  BY <1>3 DEF ClosedNow, CloseReached, AfterClose
<1>6. ~ClosePanics(b, fd)
  BY <1>1, <1>2, UnheldOK DEF ClosePanics
<1> HIDE DEF s, D, tab1
<1>7. LifeOK(AfterClose(D, s), tab1, released, call)
  BY <1>1, <1>2, <1>4, ClosedOK
<1> QED BY <1>5, <1>6, <1>7 DEF tab1

LEMMA CloseSleepOK ==
  ASSUME LifeInv, SafeUses, NEW t \in Tasks, NEW fd \in Fds, NEW nbio, NEW c,
         dTable[Home[t]][fd] # NoSock, call[t].op = "none",
         LastClose(Home[t], fd) => NotBusy(dTable[Home[t]][fd]), Lingers(Home[t], fd, nbio),
         ClosingCall([c EXCEPT !.so = dTable[Home[t]][fd]], dTable[Home[t]][fd]),
         LingerSleep(t, fd, c), dTable' = [dTable EXCEPT ![Home[t]][fd] = NoSock],
         UNCHANGED <<released, panicked>>
  PROVE  LifeInv'
<1> DEFINE b == Home[t]
           s == dTable[b][fd]
           D == DropReference(b, fd)
           C == CloseStart(D, s)
           c1 == [c EXCEPT !.so = s]
           tab1 == [dTable EXCEPT ![b][fd] = NoSock]
<1>0. b \in Bases
  BY HomeAssumption
<1>1. Unheld(so, D, s) /\ s \in Socks /\ so[s].ref > 0 /\ RefsGone(D, tab1, released)
  BY <1>0, DropUnheld
<1>2. LifeOK(so, dTable, released, call) /\ ~panicked
  BY LifeParts
<1>3. D[s].ref <= 0 /\ Idle(call, s) /\ MustLinger(C, s, nbio) /\ CloseReached(b, fd) = C
  BY NotBusyIdle DEF Lingers, LastClose, CloseReached
<1>4. so' = [C EXCEPT ![s].slp = @ \cup {t}] /\ call' = [call EXCEPT ![t] = c1]
  BY <1>3 DEF LingerSleep, Sock
<1>5. dTable' = tab1 /\ ClosingCall(c1, s)
  OBVIOUS
<1> HIDE DEF s, b, D, tab1, c1
<1>6. LifeOK([C EXCEPT ![s].slp = @ \cup {t}], tab1, released, [call EXCEPT ![t] = c1])
  BY <1>1, <1>2, <1>3, <1>5, LingerOK
<1>7. LifeOK(so', dTable', released', call')
  BY <1>4, <1>5, <1>6
<1> QED BY <1>2, <1>7 DEF LifeInv, LifeOK

\* CloseSocket(), and a round of UL_Close()'s sweep.
LEMMA CloseOneKeeps ==
  ASSUME LifeInv, SafeUses, NEW t \in Tasks, NEW fd \in Fds, NEW nbio, NEW op \in {"close", "exit"},
         call[t].op = "none", CloseOne(t, fd, op, nbio)
  PROVE  LifeInv'
<1> DEFINE b == Home[t]
           c == [NoCall EXCEPT !.op = op]
<1>1. /\ b \in Bases /\ dTable[b][fd] # NoSock /\ (LastClose(b, fd) => NotBusy(dTable[b][fd]))
      /\ dTable' = [dTable EXCEPT ![b][fd] = NoSock] /\ released' = released
  BY HomeAssumption DEF CloseOne, Sock, ClearFd
<1>2. CASE Lingers(b, fd, nbio)
  <2>1. LingerSleep(t, fd, c) /\ panicked' = panicked
    BY <1>2 DEF CloseOne
  <2>2. ClosingCall([c EXCEPT !.so = dTable[b][fd]], dTable[b][fd])
    BY DEF NoCall, ClosingCall, CloseOps
  <2> HIDE DEF c
  <2> QED BY <1>1, <1>2, <2>1, <2>2, CloseSleepOK
<1>3. CASE ~Lingers(b, fd, nbio)
  <2>1. so' = ClosedNow(b, fd) /\ call' = call /\ panicked' = ClosePanics(b, fd)
    BY <1>3 DEF CloseOne
  <2>2. /\ LifeOK(ClosedNow(b, fd), [dTable EXCEPT ![b][fd] = NoSock], released, call)
        /\ ~ClosePanics(b, fd)
    BY <1>1, CloseNowOK
  <2>3. LifeOK(so', dTable', released', call') /\ ~panicked'
    BY <1>1, <2>1, <2>2
  <2> QED BY <2>3 DEF LifeInv, LifeOK
<1> QED BY <1>2, <1>3

-----------------------------------------------------------------------------
(* Dup2Socket, and the end of a close that slept.                          *)

LEMMA DupInstallOK ==
  ASSUME NEW b \in Bases, NEW S, NEW tab, NEW rel, NEW cl, LifeOK(S, tab, rel, cl), NEW usd,
         NEW s1, s1 # NoSock => s1 \in Socks /\ S[s1].ref > 0, NEW fd2 \in Fds,
         tab[b][fd2] = NoSock, DupInstall(b, S, tab, usd, s1, fd2)
  PROVE  LifeOK(so', dTable', rel, cl)
<1>1. CASE s1 = NoSock
  BY <1>1 DEF DupInstall
<1>2. CASE s1 # NoSock
  <2> DEFINE T == [S EXCEPT ![s1].ref = @ + 1]
  <2>1. so' = T /\ dTable' = [tab EXCEPT ![b][fd2] = s1]
    BY <1>2 DEF DupInstall
  <2>2. Gains(S, T, s1)
    BY <1>2, CopyGains DEF LifeOK
  <2> HIDE DEF T
  <2>3. LifeOK(T, [tab EXCEPT ![b][fd2] = s1], rel, cl)
    BY <1>2, <2>2, FillOK
  <2> QED BY <2>1, <2>3
<1> QED BY <1>1, <1>2

\* The second look: what fd1 named is duplicated only if fd1 still names it, and then it
\* is held.
LEMMA DupTailOK ==
  ASSUME NEW b \in Bases, NEW S, NEW tab, NEW rel, NEW cl, LifeOK(S, tab, rel, cl), NEW usd,
         NEW fd1 \in Fds \cup {NoFd}, NEW s1 \in Socks \cup {NoSock},
         fd1 = NoFd => s1 = NoSock, NEW fd2 \in Fds,
         DupTail(b, S, tab, usd, fd1, s1, fd2)
  PROVE  LifeOK(so', dTable', rel, cl)
<1>1. CASE ~DupStillValid(b, tab, usd, fd1, s1, fd2)
  BY <1>1 DEF DupTail
<1>2. CASE DupStillValid(b, tab, usd, fd1, s1, fd2)
  <2>1. DupInstall(b, S, tab, usd, s1, fd2) /\ tab[b][fd2] = NoSock
    BY <1>2 DEF DupTail, DupStillValid
  <2>2. ASSUME s1 # NoSock PROVE s1 \in Socks /\ S[s1].ref > 0
    <3>1. fd1 \in Fds /\ tab[b][fd1] = s1 /\ s1 \in Socks
      BY <1>2, <2>2 DEF DupStillValid
    <3>2. <<b, fd1>> \in SlotsOf(tab, s1)
      BY <3>1 DEF SlotsOf
    <3> QED BY <3>1, <3>2, NamedHeld DEF LifeOK
  <2> QED BY <2>1, <2>2, DupInstallOK
<1> QED BY <1>1, <1>2

LEMMA SockOrNoneFacts ==
  ASSUME LifeInv, NEW t \in Tasks, NEW fd \in Fds \cup {NoFd}
  PROVE  LET s == SockOrNone(t, fd)
         IN  /\ s \in Socks \cup {NoSock} /\ (fd = NoFd => s = NoSock)
             /\ s # NoSock => s \in Socks /\ so[s].ref > 0
<1> DEFINE s == SockOrNone(t, fd)
<1>1. CASE fd = NoFd
  BY <1>1 DEF SockOrNone
<1>2. CASE fd # NoFd
  <2>1. fd \in Fds /\ s = dTable[Home[t]][fd] /\ Home[t] \in Bases
    BY <1>2, HomeAssumption DEF SockOrNone, Sock
  <2>2. s \in Socks \cup {NoSock}
    BY <2>1 DEF LifeInv, TablesTyped
  <2>3. s # NoSock => s \in Socks /\ so[s].ref > 0
    BY <2>1, SlotHeld
  <2> QED BY <1>2, <2>2, <2>3
<1> QED BY <1>1, <1>2

LEMMA DupStep ==
  ASSUME LifeInv, TableInv, SafeUses, NEW t \in Tasks, NEW fd1 \in Fds \cup {NoFd},
         NEW fd2 \in Fds, NEW nbio, DupIntoFree(t, fd1, fd2) \/ DupOver(t, fd1, fd2, nbio)
  PROVE  LifeInv'
<1> DEFINE b == Home[t]
           s1 == SockOrNone(t, fd1)
           tab == [dTable EXCEPT ![b][fd2] = NoSock]
           usd == [used EXCEPT ![b] = @ \ {fd2}]
<1>1. b \in Bases /\ LifeOK(so, dTable, released, call) /\ ~panicked
  BY HomeAssumption, LifeParts
<1>2. /\ s1 \in Socks \cup {NoSock} /\ (fd1 = NoFd => s1 = NoSock)
      /\ s1 # NoSock => s1 \in Socks /\ so[s1].ref > 0
  BY SockOrNoneFacts
<1>3. CASE DupIntoFree(t, fd1, fd2)
  <2>1. /\ DupInstall(b, so, dTable, used, s1, fd2) /\ UNCHANGED <<released, call, panicked>>
        /\ (FreeFds(b) # {} /\ fd2 = SdFind(b)) \/ dTable[b][fd2] = NoSock
    BY <1>3 DEF DupIntoFree
  <2>2. dTable[b][fd2] = NoSock
    BY <1>1, <2>1, SdFindFree, FreeSlot
  <2> HIDE DEF b, s1
  <2>3. LifeOK(so', dTable', released, call)
    BY <1>1, <1>2, <2>1, <2>2, DupInstallOK
  <2> QED BY <1>1, <2>1, <2>3 DEF LifeInv, LifeOK
<1>4. CASE DupOver(t, fd1, fd2, nbio)
  <2>1. /\ dTable[b][fd2] # NoSock /\ (LastClose(b, fd2) => NotBusy(dTable[b][fd2]))
        /\ call[t].op = "none" /\ released' = released
    BY <1>4 DEF DupOver, CanCall, Sock
  <2>2. CASE Lingers(b, fd2, nbio)
    <3> DEFINE c == [NoCall EXCEPT !.op = "dup", !.fd = fd2, !.fd1 = fd1, !.so1 = s1]
    <3>1. LingerSleep(t, fd2, c) /\ dTable' = tab /\ panicked' = panicked
      BY <1>4, <2>2 DEF DupOver
    <3> HIDE DEF s1
    <3>2. ClosingCall([c EXCEPT !.so = dTable[b][fd2]], dTable[b][fd2])
      BY <1>2 DEF NoCall, ClosingCall, CloseOps
    <3> HIDE DEF c
    <3> QED BY <2>1, <2>2, <3>1, <3>2, CloseSleepOK
  <2>3. CASE ~Lingers(b, fd2, nbio)
    <3>1. /\ DupTail(b, ClosedNow(b, fd2), tab, usd, fd1, s1, fd2)
          /\ panicked' = ClosePanics(b, fd2) /\ call' = call
      BY <1>4, <2>3 DEF DupOver
    <3>2. LifeOK(ClosedNow(b, fd2), tab, released, call) /\ ~ClosePanics(b, fd2)
      BY <1>1, <2>1, CloseNowOK
    <3> HIDE DEF s1, b, tab, usd
    <3>3. LifeOK(so', dTable', released, call)
      BY <1>1, <1>2, <3>1, <3>2, DupTailOK
    <3> QED BY <2>1, <3>1, <3>2, <3>3 DEF LifeInv, LifeOK
  <2> QED BY <2>2, <2>3
<1> QED BY <1>3, <1>4

LEMMA LingerOverStep ==
  ASSUME LifeInv, TableInv, NEW t \in Tasks, call[t].op \in CloseOps, LingerOver(t)
  PROVE  LifeInv'
<1> DEFINE s == call[t].so
           S == CloseFinish(so, s)
           cl == [call EXCEPT ![t] = NoCall]
<1>1. LifeOK(so, dTable, released, call)
  BY LifeParts
<1>2. "NOFDREF" \notin so[s].state /\ LifeOK(S, dTable, released, cl)
  BY <1>1, LingerDone
<1>3. ~panicked' /\ call' = cl /\ released' = released /\ Home[t] \in Bases
  BY <1>2, HomeAssumption DEF LingerOver, Return
<1>4. CASE call[t].op # "dup"
  <2>1. so' = S /\ dTable' = dTable
    BY <1>4 DEF LingerOver
  <2> QED BY <1>2, <1>3, <2>1 DEF LifeInv, LifeOK
<1>5. CASE call[t].op = "dup"
  <2>1. DupTail(Home[t], S, dTable, used, call[t].fd1, call[t].so1, call[t].fd)
    BY <1>5 DEF LingerOver
  <2>2. /\ call[t].fd1 \in Fds \cup {NoFd} /\ call[t].so1 \in Socks \cup {NoSock}
        /\ call[t].fd1 = NoFd => call[t].so1 = NoSock
    BY <1>5 DEF LifeInv, CallsOK, CallOK
  <2>3. call[t].fd \in Fds
    BY <1>5 DEF TableInv, DupTargets
  <2> HIDE DEF S, cl
  <2>4. LifeOK(so', dTable', released, cl)
    BY <1>2, <1>3, <2>1, <2>2, <2>3, DupTailOK
  <2> QED BY <1>3, <2>4 DEF LifeInv, LifeOK
<1> QED BY <1>4, <1>5

LEMMA LingerStep ==
  ASSUME LifeInv, TableInv, NEW t \in Tasks, LingerResume(t) \/ LingerExpires(t)
  PROVE  LifeInv'
<1> DEFINE s == call[t].so
<1>1. call[t].op \in CloseOps /\ so[s].alive /\ ~panicked
  BY DEF LingerResume, LingerExpires, Awake, Asleep
<1>2. CASE LingerOver(t)
  BY <1>1, <1>2, LingerOverStep
<1>3. CASE /\ "ISCONNECTED" \in so[s].state /\ so' = [so EXCEPT ![s].slp = @ \cup {t}]
           /\ UNCHANGED <<dTable, used, released, call, sysVars, panicked>>
  <2>1. JoinsSleepers(so, so', s, t)
    BY <1>3 DEF JoinsSleepers
  <2>2. MustWait(call[t], so[s]) /\ call[t].op # "none"
    BY <1>1, <1>3 DEF MustWait, CloseOps
  <2> QED BY <1>1, <1>3, <2>1, <2>2, SleepsAgain
<1> QED BY <1>2, <1>3 DEF LingerResume, LingerExpires

-----------------------------------------------------------------------------
(* ReleaseSocket, ReleaseCopyOfSocket, ObtainSocket and the reaper.        *)

Node == [id : Ids, so : Socks]

\* A node for s is added to the list.
LEMMA RefsNodeAdded ==
  ASSUME NEW S, NEW T, NEW tab, NEW rel, RefsExact(S, tab, rel), TablesTyped(tab, rel),
         NEW n \in Node, CountUp(S, T, n.so)
  PROVE  RefsExact(T, tab, Append(rel, n)) /\ TablesTyped(tab, Append(rel, n))
<1> DEFINE rel1 == Append(rel, n)
           s == n.so
<1>1. rel \in Seq(Node) /\ s \in Socks
  BY DEF TablesTyped, Node
<1>2. /\ rel1 \in Seq(Node) /\ Cardinality(NodesOf(rel1, s)) = Cardinality(NodesOf(rel, s)) + 1
      /\ \A x : x # s => NodesOf(rel1, x) = NodesOf(rel, x)
  BY <1>1, NodeAddedRefs
<1> HIDE DEF rel1
<1>3. Cardinality(SlotsOf(tab, s)) \in Nat /\ Cardinality(NodesOf(rel, s)) \in Nat
  <2>1. IsFiniteSet(SlotsOf(tab, s)) /\ IsFiniteSet(NodesOf(rel, s))
    BY <1>1, FiniteSlots, FiniteNodes
  <2> QED BY <2>1, FS_CardinalityType
<1>4. T[s].ref = Cardinality(SlotsOf(tab, s)) + Cardinality(NodesOf(rel1, s))
  BY <1>1, <1>2, <1>3 DEF RefsExact, CountUp
<1>5. \A x \in Socks : x # s =>
        T[x].ref = Cardinality(SlotsOf(tab, x)) + Cardinality(NodesOf(rel1, x))
  BY <1>2 DEF RefsExact, CountUp
<1> HIDE DEF s
<1>6. RefsExact(T, tab, rel1)
  BY <1>4, <1>5 DEF RefsExact, CountUp
<1> QED BY <1>2, <1>6 DEF TablesTyped, Node, rel1

\* The n-th node is taken off the list.
Cuts(rel, rel1, n) ==
  /\ n \in DOMAIN rel /\ rel1 \in Seq(Node) /\ Len(rel1) = Len(rel) - 1
  /\ \A i \in 1..(Len(rel) - 1) : rel1[i] = IF i < n THEN rel[i] ELSE rel[i + 1]

LEMMA RefsNodeCut ==
  ASSUME NEW S, NEW T, NEW tab, NEW rel, RefsExact(S, tab, rel), TablesTyped(tab, rel),
         NEW rel1, NEW n, Cuts(rel, rel1, n), NEW s \in Socks, s = rel[n].so,
         CountDown(S, T, s)
  PROVE  RefsExact(T, tab, rel1) /\ TablesTyped(tab, rel1)
<1>1. rel \in Seq(Node) /\ rel1 \in Seq(Node)
  BY DEF TablesTyped, Node, Cuts
<1>2. /\ Cardinality(NodesOf(rel1, s)) = Cardinality(NodesOf(rel, s)) - 1
      /\ \A x : x # s => Cardinality(NodesOf(rel1, x)) = Cardinality(NodesOf(rel, x))
  BY <1>1, NodeCutRefs DEF Cuts
<1>3. Cardinality(SlotsOf(tab, s)) \in Nat /\ Cardinality(NodesOf(rel, s)) \in Nat
  <2>1. IsFiniteSet(SlotsOf(tab, s)) /\ IsFiniteSet(NodesOf(rel, s))
    BY <1>1, FiniteSlots, FiniteNodes
  <2> QED BY <2>1, FS_CardinalityType
<1>4. T[s].ref = Cardinality(SlotsOf(tab, s)) + Cardinality(NodesOf(rel1, s))
  BY <1>2, <1>3 DEF RefsExact, CountDown
<1>5. \A x \in Socks : x # s =>
        T[x].ref = Cardinality(SlotsOf(tab, x)) + Cardinality(NodesOf(rel1, x))
  BY <1>2 DEF RefsExact, CountDown
<1>6. RefsExact(T, tab, rel1)
  BY <1>4, <1>5 DEF RefsExact, CountDown
<1> QED BY <1>1, <1>6 DEF TablesTyped, Node

\* What a node names.
LEMMA NodeHeld ==
  ASSUME LifeInv, NEW i \in DOMAIN released
  PROVE  /\ released[i].so \in Socks /\ so[released[i].so].ref > 0
         /\ released \in Seq(Node)
<1> DEFINE s == released[i].so
<1>1. released \in Seq(Node)
  BY DEF LifeInv, TablesTyped, Node
<1>2. released[i] \in Node
  BY <1>1, ElementOfSeq, LenProperties
<1>3. s \in Socks /\ i \in NodesOf(released, s)
  BY <1>2 DEF Node, NodesOf
<1> HIDE DEF s
<1>4. so[s].ref > 0
  BY <1>3, NamedHeld DEF LifeInv
<1> QED BY <1>1, <1>3, <1>4 DEF s

\* A reference moves from a slot to a node, and back.
LEMMA RefsReleased ==
  ASSUME NEW S, NEW tab, NEW rel, RefsExact(S, tab, rel), TablesTyped(tab, rel),
         NEW s \in Socks, S[s].ref \in Nat, NEW b \in Bases, NEW fd \in Fds, tab[b][fd] = s,
         NEW tab1, Writes(tab, tab1, b, fd, NoSock), NEW n \in Node, n.so = s
  PROVE  RefsExact(S, tab1, Append(rel, n)) /\ TablesTyped(tab1, Append(rel, n))
<1>1. PICK C : CountDown(S, C, s) /\ CountUp(C, S, s)
  <2> DEFINE C == [x \in Socks |-> [ref |-> IF x = s THEN S[x].ref - 1 ELSE S[x].ref]]
  <2>1. CountDown(S, C, s) /\ CountUp(C, S, s)
    BY DEF CountDown, CountUp
  <2> QED BY <2>1
<1>2. RefsExact(C, tab1, rel) /\ TablesTyped(tab1, rel)
  BY <1>1, RefsCleared
<1> QED BY <1>1, <1>2, RefsNodeAdded

LEMMA RefsObtained ==
  ASSUME NEW S, NEW tab, NEW rel, RefsExact(S, tab, rel), TablesTyped(tab, rel),
         NEW s \in Socks, S[s].ref \in Nat, NEW b \in Bases, NEW fd \in Fds,
         tab[b][fd] = NoSock, NEW tab1, Writes(tab, tab1, b, fd, s),
         NEW rel1, NEW n, Cuts(rel, rel1, n), s = rel[n].so
  PROVE  RefsExact(S, tab1, rel1) /\ TablesTyped(tab1, rel1)
<1>1. PICK C : CountDown(S, C, s) /\ CountUp(C, S, s)
  <2> DEFINE C == [x \in Socks |-> [ref |-> IF x = s THEN S[x].ref - 1 ELSE S[x].ref]]
  <2>1. CountDown(S, C, s) /\ CountUp(C, S, s)
    BY DEF CountDown, CountUp
  <2> QED BY <2>1
<1>2. RefsExact(C, tab, rel1) /\ TablesTyped(tab, rel1)
  BY <1>1, RefsNodeCut
<1> QED BY <1>1, <1>2, RefsFilled

\* Records that differ in so_pgid only.
LEMMA OwnerQuiet ==
  ASSUME NEW S, SockInv(S), NEW s, NEW b \in Bases
  PROVE  Quiet(S, Orphaned(S, s, b))
<1> DEFINE T == Orphaned(S, s, b)
<1>1. ASSUME NEW x \in Socks
      PROVE  /\ T[x] = S[x] \/ (S[x].pgid = b /\ T[x] = [S[x] EXCEPT !.pgid = NoBase])
  BY DEF Orphaned
<1>2. DOMAIN T = Socks
  BY DEF Orphaned
<1> HIDE DEF T
<1>3. ASSUME NEW x \in Socks
      PROVE  /\ RecOK(T[x]) /\ T[x].head = S[x].head /\ Kids(T[x]) = Kids(S[x])
             /\ Undisturbed(S[x], T[x])
  <2> DEFINE r == S[x]
             r1 == T[x]
  <2>1. RecOK(r) /\ DOMAIN r = SockFields
    BY DEF SockInv, RecOK
  <2>2. CASE r1 = r
    BY <2>1, <2>2, SameUndisturbed
  <2>3. CASE r.pgid = b /\ r1 = [r EXCEPT !.pgid = NoBase]
    <3>1. r.alive
      BY <2>1, <2>3, NullAssumption DEF RecOK, FreeSock
    <3> HIDE DEF r, r1
    <3>2. /\ DOMAIN r1 = SockFields /\ r1.ref = r.ref /\ r1.alive = r.alive
          /\ r1.state = r.state /\ r1.tp = r.tp /\ r1.acc = r.acc /\ r1.head = r.head
          /\ r1.q0 = r.q0 /\ r1.q = r.q /\ r1.err = r.err /\ r1.cc = r.cc
          /\ r1.slp = r.slp /\ r1.rslp = r.rslp
      BY <2>1, <2>3 DEF SockFields
    <3>3. /\ Held(r1) <=> Held(r)
          /\ Ending(r1) <=> Ending(r)
          /\ Waiting(r1) <=> Waiting(r)
          /\ Orphan(r1) <=> Orphan(r)
          /\ QueuesOK(r1) <=> QueuesOK(r)
          /\ OneState(r1) <=> OneState(r)
      BY <3>2 DEF Held, Ending, Waiting, Orphan, QueuesOK, OneState
    <3>4. RecOK(r1)
      BY <2>1, <3>1, <3>2, <3>3 DEF RecOK
    <3>5. Undisturbed(r, r1) /\ Kids(r1) = Kids(r)
      BY <3>2, <3>3 DEF Undisturbed, Wakes, Kids
    <3> QED BY <3>2, <3>4, <3>5 DEF r, r1
  <2> QED BY <1>1, <2>2, <2>3
<1>4. \A x \in Socks : Kids(S[x]) \subseteq Socks
  BY EmptyProps DEF SockInv, RecOK, QueuesOK, Kids
<1>5. SockInv(T)
  BY <1>2, <1>3, <1>4 DEF SockInv, Linked
<1> QED BY <1>3, <1>5 DEF Quiet, T

\* Calls and counts when every record is undisturbed.
LEMMA QuietParts ==
  ASSUME NEW S, NEW T, Quiet(S, T), NEW cl, CallsOK(cl, S), Reasons(cl, S)
  PROVE  /\ SockInv(T) /\ CallsOK(cl, T) /\ Reasons(cl, T)
         /\ \A x \in Socks : T[x].ref = S[x].ref
<1>1. \A x \in Socks : Gentle(S[x], T[x])
  BY UndisturbedGentle DEF Quiet
<1>2. CallsOK(cl, T) /\ Reasons(cl, T)
  BY <1>1, CallsGentle
<1> QED BY <1>2 DEF Quiet, Undisturbed

\* ReleaseSocket(): the descriptor's reference becomes the node's.
LEMMA ReleaseStep ==
  ASSUME LifeInv, NEW t \in Tasks, NEW fd \in Fds, NEW id \in Ids, ReleaseSocket(t, fd, id)
  PROVE  LifeInv'
<1> DEFINE b == Home[t]
           s == dTable[b][fd]
           n == [id |-> id, so |-> s]
           tab1 == [dTable EXCEPT ![b][fd] = NoSock]
<1>1. /\ s # NoSock /\ b \in Bases /\ dTable' = tab1 /\ released' = Append(released, n)
      /\ UNCHANGED <<call, panicked>> /\ (so' = so \/ so' = Orphaned(so, s, b))
  BY HomeAssumption DEF ReleaseSocket, Sock, ClearFd
<1>2. /\ s \in Socks /\ so[s].ref > 0 /\ SockInv(so) /\ so[s].ref \in Nat
  BY <1>1, SlotHeld, LiveFacts
<1>3. /\ TablesTyped(dTable, released) /\ RefsExact(so, dTable, released)
      /\ CallsOK(call, so) /\ Reasons(call, so) /\ ~panicked
  BY DEF LifeInv
<1>4. n \in Node /\ n.so = s
  BY <1>2 DEF Node
<1>5. Writes(dTable, tab1, b, fd, NoSock)
  BY <1>1, <1>3, SlotWritten
<1>6. dTable[b][fd] = s
  OBVIOUS
<1> HIDE DEF tab1, n, s, b
<1>8. RefsExact(so, tab1, Append(released, n)) /\ TablesTyped(tab1, Append(released, n))
  BY <1>1, <1>2, <1>3, <1>4, <1>5, <1>6, RefsReleased
<1>9. Quiet(so, so')
  BY <1>1, <1>2, OwnerQuiet, SameUndisturbed DEF Quiet
<1>10. /\ SockInv(so') /\ CallsOK(call, so') /\ Reasons(call, so')
       /\ \A x \in Socks : so'[x].ref = so[x].ref
  BY <1>3, <1>9, QuietParts
<1>11. RefsExact(so', tab1, Append(released, n))
  BY <1>8, <1>10, RefsSame
<1> QED BY <1>1, <1>3, <1>8, <1>10, <1>11 DEF LifeInv

\* ReleaseCopyOfSocket(): a node with a reference of its own.
LEMMA ReleaseCopyStep ==
  ASSUME LifeInv, NEW t \in Tasks, NEW fd \in Fds, NEW id \in Ids,
         ReleaseCopyOfSocket(t, fd, id)
  PROVE  LifeInv'
<1> DEFINE s == dTable[Home[t]][fd]
           n == [id |-> id, so |-> s]
<1>1. /\ s # NoSock /\ Home[t] \in Bases /\ released' = Append(released, n)
      /\ UNCHANGED <<dTable, call, panicked>> /\ so' = [so EXCEPT ![s].ref = @ + 1]
  BY HomeAssumption DEF ReleaseCopyOfSocket, Sock, CopyReference
<1>2. s \in Socks /\ so[s].ref > 0 /\ SockInv(so)
  BY <1>1, SlotHeld
<1>3. /\ TablesTyped(dTable, released) /\ RefsExact(so, dTable, released)
      /\ CallsOK(call, so) /\ Reasons(call, so) /\ ~panicked
  BY DEF LifeInv
<1>4. n \in Node /\ n.so = s
  BY <1>2 DEF Node
<1> HIDE DEF s, n
<1>5. Gains(so, so', s)
  BY <1>1, <1>2, CopyGains
<1>6. /\ so'[s].ref = so[s].ref + 1 /\ ~Ending(so[s]) /\ Wakes(so[s], so'[s], {})
      /\ \A x \in Socks : x # s => Undisturbed(so[x], so'[x])
  BY <1>2, <1>5 DEF Gains, OthersKept
<1>7. so[s].ref \in Nat
  BY <1>2, LiveFacts
<1>8. RefsExact(so', dTable, Append(released, n)) /\ TablesTyped(dTable, Append(released, n))
  <2>1. CountUp(so, so', n.so)
    BY <1>4, <1>6 DEF Undisturbed, CountUp
  <2> QED BY <1>3, <1>4, <2>1, RefsNodeAdded
<1>9. \A x \in Socks : Gentle(so[x], so'[x])
  <2>1. Gentle(so[s], so'[s])
    BY <1>2, <1>6, <1>7 DEF Gentle, Kept, Ending
  <2> QED BY <1>6, <2>1, UndisturbedGentle
<1>10. CallsOK(call, so') /\ Reasons(call, so')
  BY <1>3, <1>9, CallsGentle
<1> QED BY <1>1, <1>3, <1>5, <1>8, <1>10 DEF LifeInv, Gains

\* ObtainSocket(): the node's reference becomes the descriptor's.
LEMMA ObtainStep ==
  ASSUME LifeInv, TableInv, NEW t \in Tasks, NEW id \in Ids, ObtainSocket(t, id)
  PROVE  LifeInv'
<1> DEFINE b == Home[t]
           fd == SdFind(b)
<1>1. PICK i \in DOMAIN released : SetFd(b, fd, released[i].so)
                                   /\ released' = RemoveAt(released, i)
  BY DEF ObtainSocket
<1>2. /\ b \in Bases /\ fd \in Fds /\ dTable[b][fd] = NoSock
      /\ UNCHANGED <<so, call, panicked>>
  BY HomeAssumption, SdFindFree, FreeSlot DEF ObtainSocket
<1> DEFINE s == released[i].so
           tab1 == [dTable EXCEPT ![b][fd] = s]
           rel1 == RemoveAt(released, i)
<1>3. s \in Socks /\ so[s].ref > 0 /\ released \in Seq(Node)
  BY NodeHeld
<1>4. Cuts(released, rel1, i)
  BY <1>3, RemoveAtProps DEF Cuts
<1>5. /\ TablesTyped(dTable, released) /\ RefsExact(so, dTable, released)
      /\ CallsOK(call, so) /\ Reasons(call, so) /\ ~panicked /\ SockInv(so)
  BY DEF LifeInv
<1>6. dTable' = tab1 /\ released' = rel1
  BY <1>1 DEF SetFd
<1>7. so[s].ref \in Nat
  BY <1>3, <1>5, LiveFacts
<1>9. s = released[i].so
  OBVIOUS
<1> HIDE DEF s, b, fd, rel1
<1>11. Writes(dTable, tab1, b, fd, s)
  BY <1>2, <1>3, <1>5, SlotWritten
<1> HIDE DEF tab1
<1>12. RefsExact(so, tab1, rel1) /\ TablesTyped(tab1, rel1)
  BY <1>2, <1>3, <1>4, <1>5, <1>7, <1>9, <1>11, RefsObtained
<1> QED BY <1>2, <1>5, <1>6, <1>12 DEF LifeInv

\* reapReleasedSockets(): the node's reference is dropped, and may be the last.
LEMMA ReapStep ==
  ASSUME LifeInv, SafeUses, Reap
  PROVE  LifeInv'
<1> DEFINE s == Head(released).so
           D == [so EXCEPT ![s].ref = @ - 1]
           rel1 == Tail(released)
           r == so[s]
           r1 == D[s]
           n == r.ref - 1
<1>1. /\ released # <<>> /\ (D[s].ref <= 0 => NotBusy(s)) /\ released' = rel1
      /\ so' = (IF D[s].ref <= 0 THEN CloseFinish(CloseStart(D, s), s) ELSE D)
      /\ panicked' = (D[s].ref <= 0 /\ "NOFDREF" \in so[s].state)
      /\ UNCHANGED <<dTable, call>>
  BY DEF Reap
<1>2. released \in Seq(Node)
  BY DEF LifeInv, TablesTyped, Node
<1>3. Cuts(released, rel1, 1) /\ s = released[1].so /\ 1 \in DOMAIN released
  BY <1>1, <1>2, TailCuts DEF Cuts
<1>4. s \in Socks /\ r.ref > 0
  BY <1>3, NodeHeld
<1>5. /\ LifeOK(so, dTable, released, call) /\ SockInv(so) /\ RefsExact(so, dTable, released)
      /\ TablesTyped(dTable, released)
  BY LifeParts DEF LifeOK
<1>6. DOMAIN so = Socks /\ DOMAIN r = SockFields
  BY <1>4, <1>5, LiveFacts
<1> HIDE DEF s, rel1
<1>7. so' = AfterClose(D, s) /\ (D[s].ref <= 0 => Idle(call, s))
  BY <1>1, NotBusyIdle DEF AfterClose
<1>8. /\ DOMAIN D = Socks /\ (\A x \in Socks : x # s => D[x] = so[x])
      /\ r1 = [r EXCEPT !.ref = n]
  BY <1>4, <1>6
<1> HIDE DEF D, r, r1, n
<1>9. /\ DOMAIN r1 = SockFields /\ r1.ref = n /\ r1.alive = r.alive /\ r1.state = r.state
      /\ r1.tp = r.tp /\ r1.acc = r.acc /\ r1.head = r.head /\ r1.q0 = r.q0 /\ r1.q = r.q
      /\ r1.err = r.err /\ r1.cc = r.cc /\ r1.slp = r.slp /\ r1.rslp = r.rslp
  BY <1>6, <1>8 DEF SockFields
<1>10. Unheld(so, D, s)
  BY <1>8, <1>9 DEF Unheld, r, r1, n
<1>11. RefsGone(D, dTable, rel1)
  <2>1. CountDown(so, D, s)
    BY <1>8, <1>10 DEF Unheld, CountDown
  <2> QED BY <1>3, <1>4, <1>5, <2>1, RefsNodeCut DEF RefsGone
<1>12. so[s].ref > 0
  BY <1>4 DEF r
<1>13. ~panicked'
  BY <1>1, <1>4, <1>5, <1>10, <1>12, UnheldOK
<1>14. LifeOK(AfterClose(D, s), dTable, rel1, call)
  BY <1>4, <1>5, <1>7, <1>10, <1>11, <1>12, ClosedOK
<1> QED BY <1>1, <1>7, <1>13, <1>14 DEF LifeInv, LifeOK

-----------------------------------------------------------------------------
(* Every step.                                                             *)

LEMMA SameStep ==
  ASSUME LifeInv, UNCHANGED <<so, dTable, released, call, panicked>>
  PROVE  LifeInv'
  BY DEF LifeInv

\* The calls through a descriptor.
LEMMA DescriptorStep ==
  ASSUME LifeInv, TableInv, SafeUses, NEW t \in Tasks, NEW fd \in Fds,
         SetupCall(t, fd) \/ BlockingCall(t, fd) \/ DescriptorCall(t, fd)
  PROVE  LifeInv'
<1>1. CASE SetupCall(t, fd)
  BY <1>1, SetupStep
<1>2. CASE BlockingCall(t, fd)
  <2>1. CASE Accept(t, fd)
    BY <2>1, AcceptStep
  <2>2. CASE Recv(t, fd)
    BY <2>2, RecvStep
  <2>3. CASE ConnectRefused(t, fd)
    BY <2>3, SetupStep
  <2>4. CASE \E nbio \in BOOLEAN : Connect(t, fd, nbio)
    BY <2>4, ConnectStep
  <2> QED BY <1>2, <2>1, <2>2, <2>3, <2>4 DEF BlockingCall
<1>3. CASE DescriptorCall(t, fd)
  <2>1. CASE \E nbio \in BOOLEAN : CloseSocket(t, fd, nbio)
    <3>1. PICK nbio \in BOOLEAN : CloseSocket(t, fd, nbio)
      BY <2>1
    <3>2. call[t].op = "none" /\ CloseOne(t, fd, "close", nbio)
      BY <3>1 DEF CloseSocket, CanCall
    <3> QED BY <3>2, CloseOneKeeps
  <2>2. CASE CloseReserved(t, fd)
    BY <2>2, SameStep DEF CloseReserved
  <2>3. CASE \E fd1 \in Fds \cup {NoFd} : DupIntoFree(t, fd1, fd)
    BY <2>3, DupStep
  <2>4. CASE \E fd1 \in Fds \cup {NoFd}, nbio \in BOOLEAN : DupOver(t, fd1, fd, nbio)
    BY <2>4, DupStep
  <2>5. CASE \E id \in Ids : ReleaseSocket(t, fd, id) \/ ReleaseCopyOfSocket(t, fd, id)
    BY <2>5, ReleaseStep, ReleaseCopyStep
  <2> QED BY <1>3, <2>1, <2>2, <2>3, <2>4, <2>5 DEF DescriptorCall
<1> QED BY <1>1, <1>2, <1>3

\* socket(), the returns from sleep and UL_Close().
LEMMA TaskStep ==
  ASSUME LifeInv, TableInv, SafeUses, NEW t \in Tasks,
         Socket(t) \/ Resume(t) \/ LibraryCall(t)
  PROVE  LifeInv'
<1>1. CASE Socket(t)
  BY <1>1, SocketStep
<1>2. CASE Resume(t)
  BY <1>2, AcceptStep, WaitEnds, LingerStep DEF Resume
<1>3. CASE LibraryCall(t)
  <2>1. CASE CloseLibrary(t) \/ CloseLibraryFree(t)
    BY <2>1, SameStep DEF CloseLibrary, CloseLibraryFree, tableVars
  <2>2. CASE \E fd \in Fds, nbio \in BOOLEAN : CloseLibrarySweep(t, fd, nbio)
    <3>1. PICK fd \in Fds, nbio \in BOOLEAN : CloseLibrarySweep(t, fd, nbio)
      BY <2>2
    <3>2. call[t].op = "none" /\ CloseOne(t, fd, "exit", nbio)
      BY <3>1 DEF CloseLibrarySweep, Closing
    <3> QED BY <3>2, CloseOneKeeps
  <2> QED BY <1>3, <2>1, <2>2 DEF LibraryCall
<1> QED BY <1>1, <1>2, <1>3

LEMMA NetStep ==
  ASSUME LifeInv, SafeUses, Network
  PROVE  LifeInv'
<1>1. ASSUME NEW s \in Socks,
             NewConn(s) \/ Established(s) \/ DataArrives(s) \/ PeerFin(s) \/ FinAcked(s)
      PROVE  LifeInv'
  BY <1>1, NetworkStep
<1>2. ASSUME NEW s \in Socks, NEW e \in BOOLEAN, ConnectionGone(s, e) PROVE LifeInv'
  BY <1>2, NetworkStep
<1>3. CASE NetShutdown
  BY <1>3, SameStep DEF NetShutdown, tableVars
<1>4. CASE Reap
  BY <1>4, ReapStep
<1> QED BY <1>1, <1>2, <1>3, <1>4 DEF Network

LEMMA LifeStep ==
  ASSUME LifeInv, TableInv, SafeUses, [Next]_vars
  PROVE  LifeInv'
<1>1. CASE UNCHANGED vars
  BY <1>1, SameStep DEF vars
<1>2. CASE Next
  BY <1>2, DescriptorStep, TaskStep, ObtainStep, NetStep DEF Next
<1> QED BY <1>1, <1>2

LEMMA LifeInit == Init => LifeInv
<1> SUFFICES ASSUME Init PROVE LifeInv
  OBVIOUS
<1>1. /\ DOMAIN so = Socks /\ (\A s \in Socks : so[s] = FreeSock) /\ released = <<>>
      /\ dTable = [b \in Bases |-> [fd \in Fds |-> NoSock]] /\ ~panicked
      /\ DOMAIN call = Tasks /\ \A t \in Tasks : call[t] = NoCall
  BY DEF Init
<1>2. SockInv(so)
  BY <1>1, FreeRec, EmptyProps DEF SockInv, Linked, Kids
<1>3. TablesTyped(dTable, released)
  BY <1>1 DEF TablesTyped
<1>4. \A s \in Socks : SlotsOf(dTable, s) = {} /\ NodesOf(released, s) = {}
  <2>1. \A p \in Bases \X Fds : p[1] \in Bases /\ p[2] \in Fds
    OBVIOUS
  <2>2. \A b \in Bases, fd \in Fds : dTable[b][fd] = NoSock
    BY <1>1
  <2>3. \A s \in Socks : SlotsOf(dTable, s) = {}
    BY <2>1, <2>2, NullAssumption DEF SlotsOf
  <2>4. DOMAIN released = {}
    BY <1>1
  <2> QED BY <2>3, <2>4 DEF NodesOf
<1>5. RefsExact(so, dTable, released)
  <2>1. Cardinality({}) = 0
    BY FS_EmptySet
  <2>2. \A s \in Socks : so[s].ref = 0
    BY <1>1, FreeRec
  <2> QED BY <1>4, <2>1, <2>2 DEF RefsExact
<1>6. CallsOK(call, so) /\ Reasons(call, so)
  <2>1. NoCall.op = "none" /\ "none" \notin CloseOps
    BY DEF NoCall, CloseOps
  <2>2. \A t \in Tasks : CallOK(call[t], so) /\ call[t].op = "none"
    BY <1>1, <2>1, NoCallOK
  <2>3. OneCloser(call, so)
    BY <1>1, <2>1, <2>2, FreeRec DEF OneCloser
  <2> QED BY <1>1, <2>2, <2>3 DEF CallsOK, Reasons
<1> QED BY <1>1, <1>2, <1>3, <1>5, <1>6 DEF LifeInv

-----------------------------------------------------------------------------
(* What the invariant implies.                                             *)

LEMMA InvDescriptors ==
  ASSUME LifeInv PROVE DescriptorsSound
<1>1. /\ SockInv(so) /\ RefsExact(so, dTable, released) /\ TablesTyped(dTable, released)
      /\ CallsOK(call, so)
  BY DEF LifeInv
<1>2. \A s : TableRefs(s) = SlotsOf(dTable, s) /\ NodeRefs(s) = NodesOf(released, s)
  BY DEF TableRefs, NodeRefs, SlotsOf, NodesOf
<1>3. RefCountExact
  BY <1>1, <1>2 DEF RefCountExact, RefsExact
<1>4. NoDanglingDescriptor
  <2> SUFFICES ASSUME NEW s \in Socks, TableRefs(s) # {} \/ NodeRefs(s) # {}
               PROVE  so[s].alive /\ "NOFDREF" \notin so[s].state
    BY DEF NoDanglingDescriptor
  <2>1. so[s].ref > 0
    BY <1>1, <1>2, NamedHeld
  <2> QED BY <1>1, <2>1, LiveFacts DEF Held
<1>5. NoLeakedSocket
  <2> SUFFICES ASSUME NEW s \in Socks, so[s].alive, TableRefs(s) = {}, NodeRefs(s) = {}
               PROVE  \/ Queued(s) \/ Closer(s) # {}
                      \/ "NOFDREF" \in so[s].state /\ so[s].tp \in {"SYN", "EST", "FIN", "FIN2"}
    BY DEF NoLeakedSocket
  <2>1. so[s].ref = 0
    BY <1>1, <1>2, FS_EmptySet DEF RefsExact
  <2>2. Ending(so[s]) \/ Waiting(so[s]) \/ Orphan(so[s])
    BY <1>1, <2>1 DEF SockInv, RecOK, Held
  <2>3. CASE Ending(so[s])
    BY <1>1, <2>3 DEF CallsOK, OneCloser, Closer
  <2>4. CASE Waiting(so[s])
    BY <2>4 DEF Waiting, Queued
  <2>5. CASE Orphan(so[s])
    BY <2>5 DEF Orphan, Connected
  <2> QED BY <2>2, <2>3, <2>4, <2>5
<1> QED BY <1>3, <1>4, <1>5 DEF DescriptorsSound

\* Two queues without a common member, one after the other.
LEMMA ConcatNoDup ==
  ASSUME NEW p \in Seq(Socks), NEW q \in Seq(Socks), NoDup(p), NoDup(q),
         Elems(p) \cap Elems(q) = {}
  PROVE  NoDup(p \o q) /\ Elems(p \o q) = Elems(p) \cup Elems(q)
<1> DEFINE r == p \o q
<1>1. /\ Len(p) \in Nat /\ Len(q) \in Nat /\ DOMAIN p = 1..Len(p) /\ DOMAIN q = 1..Len(q)
  BY LenProperties
<1>2. r \in Seq(Socks) /\ Len(r) = Len(p) + Len(q)
  BY ConcatProperties
<1>3. \A i \in 1..(Len(p) + Len(q)) : r[i] = IF i <= Len(p) THEN p[i] ELSE q[i - Len(p)]
  BY ConcatProperties
<1>4. DOMAIN r = 1..(Len(p) + Len(q))
  BY <1>2, LenProperties
<1> HIDE DEF r
<1>5. ASSUME NEW i \in DOMAIN r, i <= Len(p)
      PROVE  i \in DOMAIN p /\ r[i] = p[i] /\ r[i] \in Elems(p)
  BY <1>1, <1>3, <1>4, <1>5 DEF Elems
<1>6. ASSUME NEW i \in DOMAIN r, ~(i <= Len(p))
      PROVE  i - Len(p) \in DOMAIN q /\ r[i] = q[i - Len(p)] /\ r[i] \in Elems(q)
  <2>1. i - Len(p) \in DOMAIN q /\ r[i] = q[i - Len(p)]
    BY <1>1, <1>3, <1>4, <1>6
  <2> QED BY <2>1 DEF Elems
<1>7. NoDup(r)
  <2> SUFFICES ASSUME NEW i \in DOMAIN r, NEW j \in DOMAIN r, r[i] = r[j] PROVE i = j
    BY DEF NoDup
  <2>1. CASE i <= Len(p) /\ j <= Len(p)
    BY <1>5, <2>1 DEF NoDup
  <2>2. CASE ~(i <= Len(p)) /\ ~(j <= Len(p))
    <3>1. i - Len(p) = j - Len(p)
      BY <1>6, <2>2 DEF NoDup
    <3> QED BY <1>1, <1>4, <3>1
  <2>3. CASE (i <= Len(p)) # (j <= Len(p))
    BY <1>5, <1>6, <2>3
  <2> QED BY <2>1, <2>2, <2>3
<1>8. \A x \in Elems(r) : x \in Elems(p) \cup Elems(q)
  BY <1>5, <1>6 DEF Elems
<1>9. \A x \in Elems(p) : x \in Elems(r)
  BY <1>1, <1>3, <1>4 DEF Elems
<1>10. ASSUME NEW x \in Elems(q) PROVE x \in Elems(r)
  <2>1. PICK j \in DOMAIN q : x = q[j]
    BY DEF Elems
  <2>2. j + Len(p) \in DOMAIN r /\ (j + Len(p)) - Len(p) = j /\ ~(j + Len(p) <= Len(p))
    BY <1>1, <1>4
  <2>3. r[j + Len(p)] = q[j]
    BY <1>6, <2>2
  <2> QED BY <2>1, <2>2, <2>3 DEF Elems
<1> QED BY <1>7, <1>8, <1>9, <1>10 DEF r

LEMMA InvSockets ==
  ASSUME LifeInv PROVE SocketsSound
<1>1. /\ SockInv(so) /\ CallsOK(call, so) /\ Reasons(call, so) /\ ~panicked
  BY DEF LifeInv
<1>2. QueuesSound
  <2>1. ASSUME NEW h \in Socks
        PROVE  LET all == so[h].q0 \o so[h].q IN
               /\ \A i, j \in DOMAIN all : all[i] = all[j] => i = j
               /\ \A c \in Elems(all) :
                    /\ so[h].alive /\ so[c].alive /\ so[c].head = h
                    /\ so[c].tp # "NOPCB" /\ "NOFDREF" \in so[c].state /\ so[c].ref = 0
    <3> DEFINE all == so[h].q0 \o so[h].q
    <3>1. QueuesOK(so[h])
      BY <1>1 DEF SockInv, RecOK
    <3>2. NoDup(all) /\ Elems(all) = Kids(so[h])
      BY <3>1, ConcatNoDup DEF QueuesOK, Kids
    <3> HIDE DEF all
    <3>3. ASSUME NEW c \in Elems(all)
          PROVE  /\ so[h].alive /\ so[c].alive /\ so[c].head = h
                 /\ so[c].tp # "NOPCB" /\ "NOFDREF" \in so[c].state /\ so[c].ref = 0
      <4>1. c \in Socks /\ so[c].head = h /\ h # NoSock
        BY <1>1, <3>1, <3>2, EmptyProps, NullAssumption DEF SockInv, Linked, QueuesOK, Kids
      <4>2. so[h].acc /\ Waiting(so[c]) /\ so[c].alive
        BY <1>1, <4>1, QueuedFacts
      <4>3. so[h].alive
        BY <1>1, <4>2, LiveFacts
      <4> QED BY <4>1, <4>2, <4>3 DEF Waiting
    <3> QED BY <3>2, <3>3 DEF NoDup, all
  <2>2. \A s \in Socks : so[s].head # NoSock =>
          s \in Elems(so[so[s].head].q0) \cup Elems(so[so[s].head].q)
    BY <1>1 DEF SockInv, Linked, Kids
  <2> QED BY <2>1, <2>2 DEF QueuesSound
<1>3. SleeperSocketLive
  <2> SUFFICES ASSUME NEW t \in Tasks, call[t].op # "none" PROVE so[call[t].so].alive
    BY DEF SleeperSocketLive
  <2>1. call[t].so \in Socks /\ (so[call[t].so].ref > 0 \/ Ending(so[call[t].so]))
    BY <1>1 DEF CallsOK, CallOK
  <2> QED BY <1>1, <2>1, LiveFacts DEF Ending
<1>4. SleepsForAReason
  <2> SUFFICES ASSUME NEW t \in Tasks
               PROVE  LET s == call[t].so IN
                      /\ call[t].op = "accept" /\ t \in so[s].slp => AcceptWaits(so, s)
                      /\ call[t].op = "connect" /\ t \in so[s].slp =>
                           ~so[s].err /\ "ISCONNECTED" \notin so[s].state
                      /\ call[t].op = "recv" /\ t \in so[s].rslp =>
                           ~so[s].cc /\ ~so[s].err /\ "CANTRCVMORE" \notin so[s].state
                      /\ call[t].op \in CloseOps /\ t \in so[s].slp =>
                           "ISCONNECTED" \in so[s].state
    BY DEF SleepsForAReason
  <2>1. CASE call[t].op = "none"
    BY <2>1 DEF CloseOps
  <2>2. CASE call[t].op # "none"
    <3>1. ReasonOK(t, call[t], so[call[t].so])
      BY <1>1, <2>2 DEF Reasons
    <3> QED BY <3>1 DEF ReasonOK, AcceptWaits
  <2> QED BY <2>1, <2>2
<1> QED BY <1>1, <1>2, <1>3, <1>4 DEF SocketsSound, NoPanic

-----------------------------------------------------------------------------

\* The inductive invariant holds in every reachable state.
LEMMA SpecLifeInv ==
  ASSUME SafeUses PROVE Spec => []LifeInv
<1>1. LifeInv /\ TableInv /\ [Next]_vars => LifeInv'
  BY LifeStep
<1> QED BY <1>1, LifeInit, SpecTableInv, PTL DEF Spec

\* Theorem: in every reachable state so_refcnt counts exactly the descriptors and the
\* released nodes that name the socket, none of them names freed memory or a socket the
\* protocol may free, and a live socket that nothing names is queued on a listener, being
\* closed by a sleeping task, or left to TCP.  It holds for any number of tasks, bases,
\* descriptors and sockets, of programs that do not close a socket on which another task
\* sleeps, while mbufs last and no fd callback refuses a descriptor.
THEOREM SpecDescriptorsSound ==
  ASSUME SafeUses PROVE Spec => []DescriptorsSound
<1>1. LifeInv => DescriptorsSound
  BY InvDescriptors
<1> QED BY <1>1, SpecLifeInv, PTL

\* Theorem: in every reachable state the accept queues and so_head agree and hold each
\* connection once, every task asleep in accept, connect, recv or a lingering close sleeps
\* on a live socket and still has what to wait for, and no panic of soclose or soaccept
\* was reached.  The conditions are those of SpecDescriptorsSound.
THEOREM SpecSocketsSound ==
  ASSUME SafeUses PROVE Spec => []SocketsSound
<1>1. LifeInv => SocketsSound
  BY InvSockets
<1> QED BY <1>1, SpecLifeInv, PTL
=============================================================================
