------------------------------ MODULE SockLife ------------------------------
(***************************************************************************)
(* The life of a socket: descriptor tables, reference counts, accept       *)
(* queues, hand-over between programs and the close that may sleep.        *)
(* Source: api/amiga_syscalls.c, api/amiga_generic.c, UL_Close and         *)
(* api_abandon_bases in api/amiga_api.c, kern/uipc_socket.c,               *)
(* kern/uipc_socket2.c and the socket-facing part of netinet/tcp_usrreq.c, *)
(* tcp_subr.c and in_pcb.c (all under src/src/).                           *)
(*                                                                         *)
(* Application calls hold syscall_semaphore, and the socket layer works at *)
(* splnet, so a call is atomic between the points where it sleeps in       *)
(* tsleep: an action is a call up to its first sleep, or from a wakeup to  *)
(* the next.  Module KernSynch shows that sleep and wakeup deliver this.   *)
(*                                                                         *)
(* The protocol is TCP.  so_pcb and t_state are one value, because inpcb   *)
(* and tcpcb are made and freed together: NOPCB, CLOSED, LISTEN, SYN       *)
(* (SYN_SENT, SYN_RECEIVED), EST (ESTABLISHED, CLOSE_WAIT), FIN (our FIN   *)
(* sent, not acknowledged), FIN2 (FIN_WAIT_2, TIME_WAIT).                  *)
(***************************************************************************)
EXTENDS Integers, FiniteSets, SequencesExt

CONSTANTS
  Bases,     \* library bases (struct SocketBase)
  NoBase,
  Tasks,     \* application tasks
  Home,      \* the base each task calls through
  Opener,    \* the task that opened each base
  Socks,     \* addresses malloc can hand out for a struct socket
  NoSock,
  NFds,      \* dTableSize
  Backlog,   \* the listen() argument
  Ids,       \* ids given to ReleaseSocket; those >= FirstUnique stay unique
  FirstUnique,
  MaxReleased, \* bound on releasedSocketList
  Uses       \* which calls and which resource failures an instance exercises

Fds == 0 .. NFds - 1
NoFd == -1

AllUses == {"listen", "connect", "recv", "linger", "shutdown", "dup",
            "release", "copy", "setown", "netdown",
            \* what the code does not survive; off unless a run asks for it
            "closebusy", "foreignowner", "mbufdry", "fdcbfail"}

ASSUME HomeAssumption   == Home \in [Tasks -> Bases]
ASSUME OpenerAssumption == /\ Opener \in [Bases -> Tasks]
                           /\ \A b \in Bases : Home[Opener[b]] = b
ASSUME NullAssumption   == NoBase \notin Bases /\ NoSock \notin Socks
ASSUME BoundAssumption  == /\ NFds \in Nat /\ Backlog \in Nat
                           /\ MaxReleased \in Nat /\ Ids \subseteq Nat
                           /\ FirstUnique \in Nat
ASSUME UsesAssumption   == Uses \subseteq AllUses
ASSUME FiniteAssumption == IsFiniteSet(Bases)

VARIABLES
  so,        \* the struct socket at each address
  dTable,    \* dTable[b][fd]: the descriptor table of each base
  used,      \* used[b]: the bitmask of descriptors in use behind the table
  released,  \* releasedSocketList
  bstate,    \* open, closing (in UL_Close), dead (sbDead) or freed
  call,      \* the call each task is asleep in, with its locals
  up,        \* the stack runs (api_abandon_bases has not happened)
  panicked

vars == <<so, dTable, used, released, bstate, call, up, panicked>>

Flags == {"ISCONNECTED", "ISCONNECTING", "ISDISCONNECTING", "CANTRCVMORE",
          "NOFDREF"}
SockType ==
  [alive : BOOLEAN,          \* allocated
   ref   : Int,              \* so_refcnt
   state : SUBSET Flags,     \* so_state
   tp    : {"NOPCB", "CLOSED", "LISTEN", "SYN", "EST", "FIN", "FIN2"},
   acc   : BOOLEAN,          \* SO_ACCEPTCONN
   linger : {"off", "zero", "timed"},   \* SO_LINGER and so_linger
   q0    : Seq(Socks),       \* connections in progress
   q     : Seq(Socks),       \* completed connections
   head  : Socks \cup {NoSock},
   err   : BOOLEAN,          \* so_error # 0
   cc    : BOOLEAN,          \* so_rcv.sb_cc # 0
   pgid  : Bases \cup {NoBase},
   slp   : SUBSET Tasks,     \* asleep on so_timeo
   rslp  : SUBSET Tasks]     \* asleep on so_rcv.sb_cc

FreeSock ==
  [alive |-> FALSE, ref |-> 0, state |-> {}, tp |-> "NOPCB", acc |-> FALSE,
   linger |-> "off", q0 |-> <<>>, q |-> <<>>, head |-> NoSock, err |-> FALSE,
   cc |-> FALSE, pgid |-> NoBase, slp |-> {}, rslp |-> {}]

CallType == [op : {"none", "accept", "connect", "recv", "close", "dup", "exit"},
             so : Socks \cup {NoSock},      \* the socket it sleeps on
             fd : Fds \cup {NoFd},          \* dup: fd2
             fd1 : Fds \cup {NoFd},
             so1 : Socks \cup {NoSock}]     \* dup: what fd1 named
NoCall == [op |-> "none", so |-> NoSock, fd |-> NoFd, fd1 |-> NoFd,
           so1 |-> NoSock]

Init ==
  /\ so = [s \in Socks |-> FreeSock]
  /\ dTable = [b \in Bases |-> [fd \in Fds |-> NoSock]]
  /\ used = [b \in Bases |-> {}]
  /\ released = <<>>
  /\ bstate = [b \in Bases |-> "open"]
  /\ call = [t \in Tasks |-> NoCall]
  /\ up = TRUE
  /\ panicked = FALSE

Elems(seq)     == {seq[i] : i \in DOMAIN seq}
\* a queue without s, which is in it at most once
Without(seq, s) == LET at == {i \in DOMAIN seq : seq[i] = s}
                   IN  IF at = {} THEN seq ELSE RemoveAt(seq, CHOOSE i \in at : TRUE)
SharedBase(b)  == \E t \in Tasks : Home[t] = b /\ t # Opener[b]

-----------------------------------------------------------------------------
(* kern/uipc_socket2.c: connection state.  Each operator maps the sockets  *)
(* to the sockets; emptying slp is wakeup(&so_timeo), rslp is sorwakeup.   *)

SoIsConnecting(S, s) ==
  [S EXCEPT ![s].state = (@ \ {"ISCONNECTED", "ISDISCONNECTING"})
                            \cup {"ISCONNECTING"}]

NowConnected(st) ==
  (st \ {"ISCONNECTING", "ISDISCONNECTING"}) \cup {"ISCONNECTED"}

SoIsConnected(S, s) ==
  LET h == S[s].head IN
  IF h # NoSock /\ s \in Elems(S[h].q0)
    THEN [S EXCEPT ![s].state = NowConnected(@),
                   ![h].q0 = Without(@, s), ![h].q = Append(@, s),
                   ![h].slp = {}, ![h].rslp = {}]
    ELSE [S EXCEPT ![s].state = NowConnected(@),
                   ![s].slp = {}, ![s].rslp = {}]

SoIsDisconnecting(S, s) ==
  [S EXCEPT ![s].state = (@ \ {"ISCONNECTING"})
                            \cup {"ISDISCONNECTING", "CANTRCVMORE"},
            ![s].slp = {}, ![s].rslp = {}]

SoIsDisconnected(S, s) ==
  [S EXCEPT ![s].state = (@ \ {"ISCONNECTING", "ISCONNECTED",
                               "ISDISCONNECTING"}) \cup {"CANTRCVMORE"},
            ![s].slp = {}, ![s].rslp = {}]

SoCantRcvMore(S, s) ==
  [S EXCEPT ![s].state = @ \cup {"CANTRCVMORE"}, ![s].rslp = {}]

SoQRemque(S, s) ==
  LET h == S[s].head IN
  [S EXCEPT ![h].q0 = Without(@, s), ![h].q = Without(@, s),
            ![s].head = NoSock]

SoFree(S, s) ==
  IF S[s].tp # "NOPCB" \/ "NOFDREF" \notin S[s].state
    THEN S
    ELSE LET S1 == IF S[s].head = NoSock THEN S ELSE SoQRemque(S, s)
         IN  [S1 EXCEPT ![s] = FreeSock]

-----------------------------------------------------------------------------
(* netinet/tcp_subr.c and tcp_usrreq.c, as the socket layer sees them.     *)

TcpClose(S, s) == SoFree([SoIsDisconnected(S, s) EXCEPT ![s].tp = "NOPCB"], s)

TcpDrop(S, s, e) == TcpClose([S EXCEPT ![s].err = e], s)

TcpUsrClosed(S, s) ==
  CASE S[s].tp \in {"CLOSED", "LISTEN", "SYN"} -> TcpClose(S, s)
    [] S[s].tp = "EST"  -> [S EXCEPT ![s].tp = "FIN"]
    [] S[s].tp = "FIN2" -> SoIsDisconnected(S, s)
    [] OTHER -> S

TcpDisconnect(S, s) ==
  CASE S[s].tp \in {"CLOSED", "LISTEN", "SYN"} -> TcpClose(S, s)
    [] S[s].tp \in {"EST", "FIN", "FIN2"} /\ S[s].linger = "zero" ->
         TcpDrop(S, s, FALSE)
    [] OTHER -> TcpUsrClosed([SoIsDisconnecting(S, s) EXCEPT ![s].cc = FALSE],
                             s)

TcpDetach(S, s) ==
  IF S[s].tp \in {"CLOSED", "LISTEN"} THEN TcpClose(S, s)
                                      ELSE TcpDisconnect(S, s)

-----------------------------------------------------------------------------
(* kern/uipc_socket.c: soclose, in the part before a lingering sleep and   *)
(* the part after it.  A queued connection has a pcb and no descriptor     *)
(* (QueuesSound), so soabort frees it; one without a pcb would stay in its *)
(* queue and the loop would never end.                                     *)

Abortable(S, h) == {c \in Elems(S[h].q0) \cup Elems(S[h].q) :
                      S[c].tp # "NOPCB" /\ "NOFDREF" \in S[c].state}

Drained(S, h, queue) == IF Elems(queue) \subseteq Abortable(S, h) THEN <<>> ELSE queue

DrainQueues(S, h) ==
  [s \in Socks |->
     IF s \in Abortable(S, h) THEN FreeSock
     ELSE IF s = h THEN [S[h] EXCEPT !.q0 = Drained(S, h, @), !.q = Drained(S, h, @)]
     ELSE S[s]]

SoDisconnect(S, s) == IF "ISDISCONNECTING" \in S[s].state
                        THEN S ELSE TcpDisconnect(S, s)

CloseStart(S, s) ==
  LET S1 == IF S[s].acc THEN DrainQueues(S, s) ELSE S
  IN  IF S1[s].tp # "NOPCB" /\ "ISCONNECTED" \in S1[s].state
        THEN SoDisconnect(S1, s) ELSE S1

\* after CloseStart: does soclose wait for the connection to go away
MustLinger(S, s, nbio) ==
  /\ S[s].tp # "NOPCB" /\ S[s].linger # "off" /\ "ISCONNECTED" \in S[s].state
  /\ ~(nbio /\ "ISDISCONNECTING" \in S[s].state)

CloseFinish(S, s) ==
  LET S1 == IF S[s].tp = "NOPCB" THEN S ELSE TcpDetach(S, s)
  IN  SoFree([S1 EXCEPT ![s].state = @ \cup {"NOFDREF"}], s)

-----------------------------------------------------------------------------
(* Library calls.  b is the base of the calling task.                      *)

CanCall(t) == ~panicked /\ call[t].op = "none" /\ bstate[Home[t]] = "open"

Sock(t, fd) == dTable[Home[t]][fd]               \* getSock

\* sdFind: the lowest descriptor not marked used
FreeFds(b) == Fds \ used[b]
SdFind(b)  == CHOOSE fd \in FreeFds(b) : \A g \in FreeFds(b) : fd <= g

CountSockets(b, s) == Cardinality({fd \in Fds : dTable[b][fd] = s})

SetFd(b, fd, s) == /\ dTable' = [dTable EXCEPT ![b][fd] = s]
                   /\ used' = [used EXCEPT ![b] = @ \cup {fd}]
ClearFd(b, fd)  == /\ dTable' = [dTable EXCEPT ![b][fd] = NoSock]
                   /\ used' = [used EXCEPT ![b] = @ \ {fd}]

tableVars == <<dTable, used, released>>
sysVars   == <<bstate, up>>

FdCbFails == IF "fdcbfail" \in Uses THEN BOOLEAN ELSE {FALSE}

\* socket(): the new socket is installed unless the link library's callback
\* refuses the descriptor, in which case it stays allocated and unreferenced
Socket(t) ==
  LET b == Home[t] IN
  /\ CanCall(t) /\ FreeFds(b) # {}
  /\ \E s \in Socks, cbfail \in FdCbFails :
       /\ ~so[s].alive
       /\ so' = [so EXCEPT ![s] = [FreeSock EXCEPT
                   !.alive = TRUE, !.tp = "CLOSED",
                   !.ref = IF cbfail THEN 0 ELSE 1,
                   !.pgid = IF cbfail THEN NoBase ELSE b]]
       /\ IF cbfail THEN UNCHANGED <<dTable, used>>
                    ELSE SetFd(b, SdFind(b), s)
  /\ UNCHANGED <<released, call, sysVars, panicked>>

Listen(t, fd) ==
  LET s == Sock(t, fd) IN
  /\ "listen" \in Uses /\ CanCall(t) /\ s # NoSock
  /\ so[s].tp # "NOPCB"
  /\ so' = [so EXCEPT ![s].tp = "LISTEN",
                      ![s].acc = @ \/ so[s].q = <<>>]
  /\ UNCHANGED <<tableVars, call, sysVars, panicked>>

\* setsockopt(SO_LINGER)
SetLinger(t, fd, l) ==
  LET s == Sock(t, fd) IN
  /\ "linger" \in Uses /\ CanCall(t) /\ s # NoSock
  /\ so' = [so EXCEPT ![s].linger = l]
  /\ UNCHANGED <<tableVars, call, sysVars, panicked>>

\* IoctlSocket(FIOSETOWN): the owner becomes the base of some task
SetOwner(t, fd, b) ==
  LET s == Sock(t, fd) IN
  /\ "setown" \in Uses /\ CanCall(t) /\ s # NoSock
  /\ b = Home[t] \/ "foreignowner" \in Uses
  /\ bstate[b] \in {"open", "closing"}            \* found in socketBaseList
  /\ so' = [so EXCEPT ![s].pgid = b]
  /\ UNCHANGED <<tableVars, call, sysVars, panicked>>

\* shutdown(): receive side (sorflush), send side (PRU_SHUTDOWN)
ShutdownRcv(t, fd) ==
  LET s == Sock(t, fd) IN
  /\ "shutdown" \in Uses /\ CanCall(t) /\ s # NoSock
  /\ so' = [SoCantRcvMore(so, s) EXCEPT ![s].cc = FALSE]
  /\ UNCHANGED <<tableVars, call, sysVars, panicked>>

ShutdownSnd(t, fd) ==
  LET s == Sock(t, fd) IN
  /\ "shutdown" \in Uses /\ CanCall(t) /\ s # NoSock
  /\ so[s].tp # "NOPCB"
  /\ so' = TcpUsrClosed(so, s)
  /\ UNCHANGED <<tableVars, call, sysVars, panicked>>

-----------------------------------------------------------------------------
(* accept(): the loop waits on so_timeo while so_q is empty.               *)

AcceptWaits(S, s) == S[s].q = <<>> /\ ~S[s].err

\* asleep, with the socket whose so_timeo or sb_cc it sleeps on
Sleep(t, op, s) == call' = [call EXCEPT ![t] = [NoCall EXCEPT !.op = op, !.so = s]]
Return(t)       == call' = [call EXCEPT ![t] = NoCall]

Dry == IF "mbufdry" \in Uses THEN BOOLEAN ELSE {FALSE}

TakeConnection_NoSoaccept(b, s, fd) ==
  LET c == so[s].q[1] IN
    /\ so' = [SoQRemque(so, c) EXCEPT ![c].ref = 1, ![c].pgid = b]
    /\ SetFd(b, fd, c)
    /\ panicked' = FALSE

\* take the first completed connection off the queue and install it; with the
\* mbuf pool dry soaccept is skipped and SS_NOFDREF stays
TakeConnection(b, s, fd) ==
  LET c == so[s].q[1] IN
  \E dry \in Dry :
    /\ so' = [SoQRemque(so, c) EXCEPT
                ![c].ref = 1, ![c].pgid = b,
                ![c].state = IF dry THEN @ ELSE @ \ {"NOFDREF"}]
    /\ SetFd(b, fd, c)
    /\ panicked' = (~dry /\ "NOFDREF" \notin so[c].state)

\* the rest of accept() once the wait is over
AcceptTail(t, s) ==
  LET b == Home[t] IN
  /\ Return(t)
  /\ \/ /\ so[s].q = <<>> \/ so[s].err            \* so_error, ECONNABORTED
        /\ so' = [so EXCEPT ![s].err = FALSE]
        /\ UNCHANGED <<dTable, used, panicked>>
     \/ /\ so[s].q # <<>> /\ ~so[s].err
        /\ FreeFds(b) = {}                        \* EMFILE
        /\ UNCHANGED <<so, dTable, used, panicked>>
     \/ /\ so[s].q # <<>> /\ ~so[s].err
        /\ FreeFds(b) # {}
        /\ TakeConnection(b, s, SdFind(b))

Accept(t, fd) ==
  LET s == Sock(t, fd) IN
  /\ "listen" \in Uses /\ CanCall(t) /\ s # NoSock
  /\ so[s].acc
  /\ IF AcceptWaits(so, s) /\ "CANTRCVMORE" \notin so[s].state
       THEN /\ so' = [so EXCEPT ![s].slp = @ \cup {t}]
            /\ Sleep(t, "accept", s)
            /\ UNCHANGED <<dTable, used, panicked>>
       ELSE AcceptTail(t, s)
  /\ UNCHANGED <<released, sysVars>>

\* a sleeper that has been woken holds syscall_semaphore again
Awake(t, op) == /\ ~panicked /\ call[t].op = op /\ so[call[t].so].alive
                /\ t \notin so[call[t].so].slp \cup so[call[t].so].rslp
Asleep(t, op) == /\ ~panicked /\ call[t].op = op /\ so[call[t].so].alive
                 /\ t \in so[call[t].so].slp \cup so[call[t].so].rslp

AcceptResume(t) ==
  LET s == call[t].so IN
  /\ Awake(t, "accept")
  /\ IF AcceptWaits(so, s) /\ "CANTRCVMORE" \notin so[s].state
       THEN /\ so' = [so EXCEPT ![s].slp = @ \cup {t}]
            /\ UNCHANGED <<call, dTable, used, panicked>>
       ELSE AcceptTail(t, s)
  /\ UNCHANGED <<released, sysVars>>

-----------------------------------------------------------------------------
(* connect(): in_pcbconnect or the template allocation may fail.           *)

ConnectDone(S, s) ==
  [S EXCEPT ![s].err = FALSE, ![s].state = @ \ {"ISCONNECTING"}]

\* soconnect fails: the error exit clears SS_ISCONNECTING
ConnectRefused(t, fd) ==
  LET s == Sock(t, fd) IN
  /\ "connect" \in Uses /\ CanCall(t) /\ s # NoSock
  /\ so' = [so EXCEPT ![s].state = @ \ {"ISCONNECTING"}]
  /\ UNCHANGED <<tableVars, call, sysVars, panicked>>

Connect(t, fd, nbio) ==
  LET s  == Sock(t, fd)
      S1 == [SoIsConnecting(so, s) EXCEPT ![s].tp = "SYN"]
  IN
  /\ "connect" \in Uses /\ CanCall(t) /\ s # NoSock
  /\ ~so[s].acc /\ so[s].tp # "NOPCB"
  /\ so[s].state \cap {"ISCONNECTED", "ISCONNECTING"} = {}
  /\ IF nbio
       THEN so' = S1 /\ UNCHANGED call                     \* EINPROGRESS
       ELSE IF so[s].err
         THEN so' = ConnectDone(S1, s) /\ UNCHANGED call
         ELSE /\ so' = [S1 EXCEPT ![s].slp = @ \cup {t}]
              /\ Sleep(t, "connect", s)
  /\ UNCHANGED <<tableVars, sysVars, panicked>>

ConnectResume(t) ==
  LET s == call[t].so IN
  /\ Awake(t, "connect")
  /\ IF "ISCONNECTING" \in so[s].state /\ ~so[s].err
       THEN so' = [so EXCEPT ![s].slp = @ \cup {t}] /\ UNCHANGED call
       ELSE so' = ConnectDone(so, s) /\ Return(t)
  /\ UNCHANGED <<tableVars, sysVars, panicked>>

-----------------------------------------------------------------------------
(* recv(): soreceive waits in sbwait with the buffer unlocked.             *)

RecvWaits(S, s) == /\ ~S[s].cc /\ ~S[s].err
                   /\ "CANTRCVMORE" \notin S[s].state
                   /\ S[s].state \cap {"ISCONNECTED", "ISCONNECTING"} # {}

\* data is taken before an error is reported
RecvTaken(S, s) == IF S[s].cc THEN [S EXCEPT ![s].cc = FALSE]
                              ELSE [S EXCEPT ![s].err = FALSE]

Recv(t, fd) ==
  LET s == Sock(t, fd) IN
  /\ "recv" \in Uses /\ CanCall(t) /\ s # NoSock
  /\ IF RecvWaits(so, s)
       THEN /\ so' = [so EXCEPT ![s].rslp = @ \cup {t}]
            /\ Sleep(t, "recv", s)
       ELSE so' = RecvTaken(so, s) /\ UNCHANGED call
  /\ UNCHANGED <<tableVars, sysVars, panicked>>

RecvResume(t) ==
  LET s == call[t].so IN
  /\ Awake(t, "recv")
  /\ IF RecvWaits(so, s)
       THEN so' = [so EXCEPT ![s].rslp = @ \cup {t}] /\ UNCHANGED call
       ELSE so' = RecvTaken(so, s) /\ Return(t)
  /\ UNCHANGED <<tableVars, sysVars, panicked>>

\* a signal of sigIntrMask or a timeout ends the sleep with an error
Unslept(t, s) == [so EXCEPT ![s].slp = @ \ {t}, ![s].rslp = @ \ {t}]

Interrupted(t) ==
  LET s == call[t].so IN
  /\ \/ Asleep(t, "accept") /\ so' = Unslept(t, s)
     \/ Asleep(t, "recv")   /\ so' = Unslept(t, s)
     \/ /\ Asleep(t, "connect")
        /\ so' = [Unslept(t, s) EXCEPT ![s].state = @ \ {"ISCONNECTING"}]
  /\ Return(t)
  /\ UNCHANGED <<tableVars, sysVars, panicked>>

-----------------------------------------------------------------------------
(* closeSocketLocked(): the descriptor goes first, both halves of it; the  *)
(* last reference then closes the socket, which may linger.                *)

NotBusy(s) == \/ "closebusy" \in Uses
              \/ \A t \in Tasks : call[t].so = s => call[t].op = "none"

DropReference(b, fd) ==
  LET s == dTable[b][fd] IN
  [so EXCEPT ![s].ref = @ - 1,
             ![s].pgid = IF @ = b /\ CountSockets(b, s) = 1 THEN NoBase ELSE @]

\* the sockets when the close stops: done, or at the lingering sleep
CloseReached(b, fd) ==
  LET S == DropReference(b, fd)
      s == dTable[b][fd]
  IN  IF S[s].ref <= 0 THEN CloseStart(S, s) ELSE S

LastClose(b, fd)     == DropReference(b, fd)[dTable[b][fd]].ref <= 0
Lingers(b, fd, nbio) == /\ LastClose(b, fd)
                        /\ MustLinger(CloseReached(b, fd), dTable[b][fd], nbio)
ClosedNow(b, fd) == IF LastClose(b, fd)
                      THEN CloseFinish(CloseReached(b, fd), dTable[b][fd])
                      ELSE CloseReached(b, fd)
ClosePanics(b, fd) == LastClose(b, fd) /\ "NOFDREF" \in so[dTable[b][fd]].state

\* sleep in soclose, remembering what to do afterwards
LingerSleep(t, fd, c) ==
  LET s == Sock(t, fd) IN
  /\ so' = [CloseReached(Home[t], fd) EXCEPT ![s].slp = @ \cup {t}]
  /\ call' = [call EXCEPT ![t] = [c EXCEPT !.so = s]]

\* CloseSocket() and one round of UL_Close()'s sweep; op says which
CloseOne(t, fd, op, nbio) ==
  LET b == Home[t] IN
  /\ Sock(t, fd) # NoSock
  /\ LastClose(b, fd) => NotBusy(Sock(t, fd))
  /\ ClearFd(b, fd)
  /\ IF Lingers(b, fd, nbio)
       THEN /\ LingerSleep(t, fd, [NoCall EXCEPT !.op = op])
            /\ UNCHANGED panicked
       ELSE /\ so' = ClosedNow(b, fd) /\ UNCHANGED call
            /\ panicked' = ClosePanics(b, fd)
  /\ UNCHANGED <<released, sysVars>>

CloseSocket(t, fd, nbio) == CanCall(t) /\ CloseOne(t, fd, "close", nbio)

\* a descriptor that Dup2Socket(-1, fd) marked used has no socket behind it
CloseReserved(t, fd) ==
  /\ CanCall(t) /\ fd \in used[Home[t]] /\ Sock(t, fd) = NoSock
  /\ used' = [used EXCEPT ![Home[t]] = @ \ {fd}]
  /\ UNCHANGED <<so, dTable, released, call, sysVars, panicked>>

-----------------------------------------------------------------------------
(* Dup2Socket(fd1, fd2).  fd1 = -1 only marks fd2 used.  The close of what *)
(* fd2 held may have slept, so fd2 and fd1 are looked at again after it.   *)

DupStillValid(b, tab, usd, fd1, s1, fd2) ==
  /\ fd2 \notin usd[b] /\ tab[b][fd2] = NoSock
  /\ fd1 = NoFd \/ tab[b][fd1] = s1

DupInstall_Uncounted(b, S, tab, usd, s1, fd2) ==
  /\ so' = S
  /\ dTable' = IF s1 = NoSock THEN tab ELSE [tab EXCEPT ![b][fd2] = s1]
  /\ used' = [usd EXCEPT ![b] = @ \cup {fd2}]

DupInstall(b, S, tab, usd, s1, fd2) ==
  /\ so' = IF s1 = NoSock THEN S ELSE [S EXCEPT ![s1].ref = @ + 1]
  /\ dTable' = IF s1 = NoSock THEN tab ELSE [tab EXCEPT ![b][fd2] = s1]
  /\ used' = [usd EXCEPT ![b] = @ \cup {fd2}]

DupTail_ClearsFd2(b, S, tab, usd, fd1, s1, fd2) ==
  IF DupStillValid(b, tab, usd, fd1, s1, fd2)
    THEN DupInstall(b, S, tab, usd, s1, fd2)
    ELSE /\ so' = S /\ dTable' = [tab EXCEPT ![b][fd2] = NoSock]
         /\ used' = [usd EXCEPT ![b] = @ \ {fd2}]

DupTail(b, S, tab, usd, fd1, s1, fd2) ==
  IF DupStillValid(b, tab, usd, fd1, s1, fd2)
    THEN DupInstall(b, S, tab, usd, s1, fd2)
    ELSE so' = S /\ dTable' = tab /\ used' = usd             \* EBADF

SockOrNone(t, fd) == IF fd = NoFd THEN NoSock ELSE Sock(t, fd)

\* fd2 = -1, or a slot that holds no socket
DupIntoFree(t, fd1, fd2) ==
  LET b == Home[t] IN
  /\ "dup" \in Uses /\ CanCall(t)
  /\ fd1 # NoFd => Sock(t, fd1) # NoSock
  /\ \/ FreeFds(b) # {} /\ fd2 = SdFind(b)
     \/ fd2 # fd1 /\ dTable[b][fd2] = NoSock
  /\ DupInstall(b, so, dTable, used, SockOrNone(t, fd1), fd2)
  /\ UNCHANGED <<released, call, sysVars, panicked>>

DupOver(t, fd1, fd2, nbio) ==
  LET b   == Home[t]
      s1  == SockOrNone(t, fd1)
      tab == [dTable EXCEPT ![b][fd2] = NoSock]
      usd == [used EXCEPT ![b] = @ \ {fd2}]
  IN
  /\ "dup" \in Uses /\ CanCall(t)
  /\ fd1 # NoFd => s1 # NoSock
  /\ fd2 # fd1 /\ Sock(t, fd2) # NoSock
  /\ LastClose(b, fd2) => NotBusy(Sock(t, fd2))
  /\ IF Lingers(b, fd2, nbio)
       THEN /\ LingerSleep(t, fd2, [NoCall EXCEPT !.op = "dup", !.fd = fd2,
                                                  !.fd1 = fd1, !.so1 = s1])
            /\ dTable' = tab /\ used' = usd
            /\ UNCHANGED panicked
       ELSE /\ DupTail(b, ClosedNow(b, fd2), tab, usd, fd1, s1, fd2)
            /\ panicked' = ClosePanics(b, fd2)
            /\ UNCHANGED call
  /\ UNCHANGED <<released, sysVars>>

-----------------------------------------------------------------------------
(* The end of a lingering close: the connection went away, or the linger   *)
(* time or a signal cut the wait short.                                    *)

LingerOver(t) ==
  LET s == call[t].so
      b == Home[t]
      S == CloseFinish(so, s)
  IN
  /\ IF call[t].op = "dup"
       THEN DupTail(b, S, dTable, used, call[t].fd1, call[t].so1, call[t].fd)
       ELSE so' = S /\ UNCHANGED <<dTable, used>>
  /\ panicked' = ("NOFDREF" \in so[s].state)
  /\ Return(t)
  /\ UNCHANGED <<released, sysVars>>

CloseOps == {"close", "dup", "exit"}

LingerResume(t) ==
  LET s == call[t].so IN
  /\ \E op \in CloseOps : Awake(t, op)
  /\ IF "ISCONNECTED" \in so[s].state
       THEN /\ so' = [so EXCEPT ![s].slp = @ \cup {t}]
            /\ UNCHANGED <<dTable, used, released, call, sysVars, panicked>>
       ELSE LingerOver(t)

LingerExpires(t) ==
  /\ \E op \in CloseOps : Asleep(t, op)
  /\ LingerOver(t)

-----------------------------------------------------------------------------
(* ReleaseSocket, ReleaseCopyOfSocket and ObtainSocket.                    *)

IdFree(id) == id >= FirstUnique =>                     \* makeId, checkId
                \A i \in DOMAIN released : released[i].id # id

Orphaned_ParentOnly(S, s, b) ==
  [x \in Socks |-> IF x = s /\ S[x].pgid = b
                     THEN [S[x] EXCEPT !.pgid = NoBase] ELSE S[x]]

\* a listener's queued connections carry its owner too
Orphaned(S, s, b) ==
  LET kids == IF S[s].acc THEN Elems(S[s].q0) \cup Elems(S[s].q) ELSE {}
  IN  [x \in Socks |-> IF x \in kids \cup {s} /\ S[x].pgid = b
                         THEN [S[x] EXCEPT !.pgid = NoBase] ELSE S[x]]

ReleaseSocket(t, fd, id) ==
  LET b == Home[t]
      s == Sock(t, fd)
  IN
  /\ "release" \in Uses /\ CanCall(t) /\ s # NoSock
  /\ IdFree(id) /\ Len(released) < MaxReleased
  /\ so' = IF so[s].pgid = b /\ CountSockets(b, s) = 1
             THEN Orphaned(so, s, b) ELSE so
  /\ ClearFd(b, fd)
  /\ released' = Append(released, [id |-> id, so |-> s])
  /\ UNCHANGED <<call, sysVars, panicked>>

CopyReference(S, s) == [S EXCEPT ![s].ref = @ + 1]

ReleaseCopyOfSocket(t, fd, id) ==
  LET s == Sock(t, fd) IN
  /\ "copy" \in Uses /\ CanCall(t) /\ s # NoSock
  /\ IdFree(id) /\ Len(released) < MaxReleased
  /\ so' = CopyReference(so, s)
  /\ released' = Append(released, [id |-> id, so |-> s])
  /\ UNCHANGED <<dTable, used, call, sysVars, panicked>>

\* the first node with the id; the owner is left as it is
ObtainSocket(t, id) ==
  LET b == Home[t] IN
  /\ CanCall(t) /\ FreeFds(b) # {}
  /\ \E i \in DOMAIN released :
       /\ released[i].id = id
       /\ \A j \in 1 .. i - 1 : released[j].id # id
       /\ SetFd(b, SdFind(b), released[i].so)
       /\ released' = RemoveAt(released, i)
  /\ UNCHANGED <<so, call, sysVars, panicked>>

-----------------------------------------------------------------------------
(* UL_Close(): a base that was ever shared is left allocated and marked    *)
(* dead; any other has its sockets closed one by one, then is freed.       *)

CloseLibrary(t) ==
  LET b == Home[t] IN
  /\ CanCall(t) /\ t = Opener[b]
  /\ bstate' = [bstate EXCEPT ![b] = IF SharedBase(b) THEN "dead"
                                                      ELSE "closing"]
  /\ UNCHANGED <<so, tableVars, call, up, panicked>>

Closing(t) == /\ ~panicked /\ t = Opener[Home[t]]
              /\ bstate[Home[t]] = "closing" /\ call[t].op = "none"

OpenFds(b) == {fd \in Fds : dTable[b][fd] # NoSock}

CloseLibrarySweep(t, fd, nbio) ==
  /\ Closing(t)
  /\ fd \in OpenFds(Home[t]) /\ \A g \in OpenFds(Home[t]) : fd <= g
  /\ CloseOne(t, fd, "exit", nbio)

CloseLibraryFree(t) ==
  /\ Closing(t) /\ OpenFds(Home[t]) = {}
  /\ bstate' = [bstate EXCEPT ![Home[t]] = "freed"]
  /\ UNCHANGED <<so, tableVars, call, up, panicked>>

\* api_abandon_bases(): the stack goes down with bases still open.  A UL_Close
\* that is already asleep goes on when it wakes.
NetShutdown ==
  /\ "netdown" \in Uses /\ up /\ ~panicked
  /\ up' = FALSE
  /\ bstate' = [b \in Bases |-> IF bstate[b] = "open" THEN "dead" ELSE bstate[b]]
  /\ UNCHANGED <<so, tableVars, call, panicked>>

\* one round of reapReleasedSockets(); the network task never lingers
Reap ==
  /\ ~up /\ ~panicked /\ released # <<>>
  /\ LET s  == Head(released).so
         S1 == [so EXCEPT ![s].ref = @ - 1]
     IN  /\ S1[s].ref <= 0 => NotBusy(s)
         /\ so' = IF S1[s].ref <= 0 THEN CloseFinish(CloseStart(S1, s), s)
                                    ELSE S1
         /\ panicked' = (S1[s].ref <= 0 /\ "NOFDREF" \in so[s].state)
  /\ released' = Tail(released)
  /\ UNCHANGED <<dTable, used, call, sysVars>>

-----------------------------------------------------------------------------
(* The network task: what tcp_input and the TCP timers do to a socket.     *)

NetRuns == up /\ ~panicked

QueueFull(S, h) == Len(S[h].q) + Len(S[h].q0) > (3 * Backlog) \div 2

\* sonewconn(): state and owner are the listener's, SS_NOFDREF set
NewConn(h) ==
  /\ NetRuns /\ so[h].alive /\ so[h].tp = "LISTEN" /\ so[h].acc
  /\ ~QueueFull(so, h)
  /\ \E s \in Socks :
       /\ ~so[s].alive
       /\ so' = [so EXCEPT
            ![s] = [FreeSock EXCEPT
                      !.alive = TRUE, !.tp = "SYN", !.head = h,
                      !.state = so[h].state \cup {"NOFDREF"},
                      !.linger = IF so[h].linger = "off" THEN "off"
                                                         ELSE "timed",
                      !.pgid = so[h].pgid],
            ![h].q0 = Append(@, s)]
  /\ UNCHANGED <<tableVars, call, sysVars, panicked>>

Established(s) ==
  /\ NetRuns /\ so[s].tp = "SYN"
  /\ so' = [SoIsConnected(so, s) EXCEPT ![s].tp = "EST"]
  /\ UNCHANGED <<tableVars, call, sysVars, panicked>>

DataArrives(s) ==
  /\ NetRuns /\ "recv" \in Uses /\ so[s].tp \in {"EST", "FIN", "FIN2"}
  /\ "CANTRCVMORE" \notin so[s].state
  /\ so' = [so EXCEPT ![s].cc = TRUE, ![s].rslp = {}]
  /\ UNCHANGED <<tableVars, call, sysVars, panicked>>

PeerFin(s) ==
  /\ NetRuns
  /\ \/ so[s].tp \in {"EST", "FIN"} /\ so' = SoCantRcvMore(so, s)
     \/ so[s].tp = "FIN2" /\ so' = SoIsDisconnected(so, s)
  /\ UNCHANGED <<tableVars, call, sysVars, panicked>>

FinAcked(s) ==
  /\ NetRuns /\ so[s].tp = "FIN"
  /\ so' = LET S == [so EXCEPT ![s].tp = "FIN2"]
           IN  IF "CANTRCVMORE" \in so[s].state THEN SoIsDisconnected(S, s)
                                                ELSE S
  /\ UNCHANGED <<tableVars, call, sysVars, panicked>>

\* reset, timeout (so_error set), last ACK or 2MSL expiry (no error)
ConnectionGone(s, e) ==
  /\ NetRuns /\ so[s].tp \in {"SYN", "EST", "FIN", "FIN2"}
  /\ so' = IF e THEN TcpDrop(so, s, TRUE) ELSE TcpClose(so, s)
  /\ UNCHANGED <<tableVars, call, sysVars, panicked>>

-----------------------------------------------------------------------------
SetupCall(t, fd) ==
  \/ Listen(t, fd)
  \/ \E l \in {"off", "zero", "timed"} : SetLinger(t, fd, l)
  \/ \E b \in Bases : SetOwner(t, fd, b)
  \/ ShutdownRcv(t, fd) \/ ShutdownSnd(t, fd)

BlockingCall(t, fd) ==
  \/ Accept(t, fd) \/ Recv(t, fd) \/ ConnectRefused(t, fd)
  \/ \E nbio \in BOOLEAN : Connect(t, fd, nbio)

DescriptorCall(t, fd) ==
  \/ \E nbio \in BOOLEAN : CloseSocket(t, fd, nbio)
  \/ CloseReserved(t, fd)
  \/ \E fd1 \in Fds \cup {NoFd} : DupIntoFree(t, fd1, fd)
  \/ \E fd1 \in Fds \cup {NoFd}, nbio \in BOOLEAN : DupOver(t, fd1, fd, nbio)
  \/ \E id \in Ids : ReleaseSocket(t, fd, id) \/ ReleaseCopyOfSocket(t, fd, id)

Resume(t) == \/ AcceptResume(t) \/ ConnectResume(t) \/ RecvResume(t)
             \/ Interrupted(t) \/ LingerResume(t) \/ LingerExpires(t)

LibraryCall(t) ==
  \/ CloseLibrary(t) \/ CloseLibraryFree(t)
  \/ \E fd \in Fds, nbio \in BOOLEAN : CloseLibrarySweep(t, fd, nbio)

Network ==
  \/ \E s \in Socks : \/ NewConn(s) \/ Established(s) \/ DataArrives(s)
                      \/ PeerFin(s) \/ FinAcked(s)
  \/ \E s \in Socks, e \in BOOLEAN : ConnectionGone(s, e)
  \/ NetShutdown \/ Reap

Next ==
  \/ \E t \in Tasks, fd \in Fds :
       SetupCall(t, fd) \/ BlockingCall(t, fd) \/ DescriptorCall(t, fd)
  \/ \E t \in Tasks : Socket(t) \/ Resume(t) \/ LibraryCall(t)
  \/ \E t \in Tasks, id \in Ids : ObtainSocket(t, id)
  \/ Network

Spec == Init /\ [][Next]_vars

-----------------------------------------------------------------------------
(* Properties.                                                             *)

\* Types of the socket layer's state.
TypeOK ==
  /\ so \in [Socks -> SockType]
  /\ dTable \in [Bases -> [Fds -> Socks \cup {NoSock}]]
  /\ used \in [Bases -> SUBSET Fds]
  /\ released \in Seq([id : Ids, so : Socks])
  /\ bstate \in [Bases -> {"open", "closing", "dead", "freed"}]
  /\ call \in [Tasks -> CallType]
  /\ up \in BOOLEAN /\ panicked \in BOOLEAN

TableRefs(s) == {p \in Bases \X Fds : dTable[p[1]][p[2]] = s}
NodeRefs(s)  == {i \in DOMAIN released : released[i].so = s}
Queued(s)    == so[s].head # NoSock
Closer(s)    == {t \in Tasks : call[t].op \in CloseOps /\ call[t].so = s}

\* so_refcnt counts exactly the descriptors, in all tables, and the nodes of
\* releasedSocketList that name the socket: socket, accept, dup, the two
\* releases, obtain, close, exit and reaping keep it right between them.
RefCountExact ==
  \A s \in Socks : so[s].alive =>
    so[s].ref = Cardinality(TableRefs(s)) + Cardinality(NodeRefs(s))

\* No descriptor and no released node names freed memory or a socket the
\* protocol may free by itself (SS_NOFDREF).
NoDanglingDescriptor ==
  \A s \in Socks :
    (TableRefs(s) # {} \/ NodeRefs(s) # {}) =>
      so[s].alive /\ "NOFDREF" \notin so[s].state

\* A socket nothing refers to is on an accept queue, is being closed by a task
\* asleep in soclose, or belongs to the protocol, which will free it: sockets
\* do not leak.
NoLeakedSocket ==
  \A s \in Socks :
    so[s].alive /\ TableRefs(s) = {} /\ NodeRefs(s) = {} =>
      \/ Queued(s)
      \/ Closer(s) # {}
      \/ "NOFDREF" \in so[s].state /\ so[s].tp \in {"SYN", "EST", "FIN", "FIN2"}

\* Accept queues: each member is a live socket with a pcb and no descriptor
\* whose so_head is this live listener, and is queued once, in one queue.  A
\* member without a pcb would make soclose's drain loop spin at splnet.
QueuesSound ==
  /\ \A h \in Socks :
       LET all == so[h].q0 \o so[h].q IN
       /\ \A i, j \in DOMAIN all : all[i] = all[j] => i = j
       /\ \A c \in Elems(all) :
            /\ so[h].alive /\ so[c].alive /\ so[c].head = h
            /\ so[c].tp # "NOPCB" /\ "NOFDREF" \in so[c].state /\ so[c].ref = 0
  /\ \A s \in Socks : so[s].head # NoSock =>
       s \in Elems(so[so[s].head].q0) \cup Elems(so[so[s].head].q)

\* so_pgid never points into a base UL_Close has freed: sowakeup and
\* sohasoutofband Signal() through it.
OwnerNotFreed ==
  \A s \in Socks : so[s].alive /\ so[s].pgid # NoBase =>
    bstate[so[s].pgid] # "freed"

\* A task asleep in accept, connect, recv or a lingering close sleeps on
\* memory that is still its socket's.
SleeperSocketLive ==
  \A t \in Tasks : call[t].op # "none" => so[call[t].so].alive

\* No lost wakeup: while a task sleeps, what it waits for has not happened.
\* Every protocol event that ends a wait also wakes the right channel.
SleepsForAReason ==
  \A t \in Tasks :
    LET s == call[t].so IN
    /\ call[t].op = "accept" /\ t \in so[s].slp => AcceptWaits(so, s)
    /\ call[t].op = "connect" /\ t \in so[s].slp =>
         ~so[s].err /\ "ISCONNECTED" \notin so[s].state
    /\ call[t].op = "recv" /\ t \in so[s].rslp =>
         ~so[s].cc /\ ~so[s].err /\ "CANTRCVMORE" \notin so[s].state
    /\ call[t].op \in CloseOps /\ t \in so[s].slp =>
         "ISCONNECTED" \in so[s].state

\* The panics "soclose: NOFDREF" and "soaccept: !NOFDREF" are not reached.
NoPanic == ~panicked

\* A call that returns from a sleep leaves every descriptor in use alone: what
\* it looked up before sleeping may since belong to another task's socket.
ReturnKeepsDescriptors ==
  [][\A t \in Tasks : call[t].op # "none" /\ call'[t].op = "none" =>
       \A b \in Bases, fd \in Fds :
         dTable[b][fd] # NoSock => dTable'[b][fd] = dTable[b][fd]]_vars

\* Sharing is safe: queues of connections, the sleepers of accept, connect, recv and close
\* and the memory they sleep on agree, and no panic of soclose or soaccept is reached,
\* however the calls of two tasks and the protocol's events interleave.
SocketsSound == QueuesSound /\ SleeperSocketLive /\ SleepsForAReason /\ NoPanic

\* Descriptors and sockets agree in both directions: references are counted exactly, none
\* names freed memory, and a socket nobody can name is on its way out.
DescriptorsSound == RefCountExact /\ NoDanglingDescriptor /\ NoLeakedSocket

\* Handing sockets over keeps both kinds of reference right: those that are counted and
\* so_pgid, through which UL_Close must leave nothing behind.
OwnersSound == RefCountExact /\ OwnerNotFreed

=============================================================================
