---------------------------- MODULE OwnersProofs ----------------------------
(***************************************************************************)
(* OwnersSound of SockLife: so_pgid never points into a base that UL_Close *)
(* has freed, proved for any number of tasks, bases and sockets.           *)
(*                                                                         *)
(* A socket that has an owner stands in the owner's table, or is queued on *)
(* a listener of the same owner (OwnerHolds).  What the code lacks, and    *)
(* the theorem has to assume, is that a listener is never in two tables at *)
(* once (OwnersSafe): closing it in one of them leaves the connections it  *)
(* has queued with an owner that may go.                                   *)
(***************************************************************************)
EXTENDS SocketsProofs

\* A listener is not copied to another base, nor duplicated and then released.
OwnersSafe == /\ SafeUses /\ "foreignowner" \notin Uses
              /\ "listen" \in Uses =>
                   "copy" \notin Uses /\ ~("dup" \in Uses /\ "release" \in Uses)

Named(tab, b, x) == b \in Bases /\ \E fd \in Fds : tab[b][fd] = x
OwnerHolds(S, tab) ==
  \A x \in Socks : S[x].pgid # NoBase =>
    IF S[x].head = NoSock THEN Named(tab, S[x].pgid, x)
    ELSE S[S[x].head].pgid = S[x].pgid

\* All references of a socket are in one table, or it is one released node.
OnePlace(tab, rel) ==
  /\ "release" \notin Uses => rel = <<>>
  /\ \A s \in Socks :
       /\ \A p, q \in SlotsOf(tab, s) : p[1] = q[1] /\ ("release" \in Uses => p = q)
       /\ SlotsOf(tab, s) # {} => NodesOf(rel, s) = {}
       /\ \A i, j \in NodesOf(rel, s) : i = j
Placed(S, tab, rel) == IF "listen" \in Uses THEN OnePlace(tab, rel)
                                            ELSE \A s \in Socks : ~S[s].acc

\* A base that closes or is freed has one task, which is in UL_Close, or was.
BaseOK(b, st, cl, tab) ==
  /\ st[b] \in {"closing", "freed"} => ~SharedBase(b) /\ cl[Opener[b]].op \in {"none", "exit"}
  /\ st[b] = "freed" => cl[Opener[b]].op = "none" /\ \A fd \in Fds : tab[b][fd] = NoSock
BasesOK(st, cl, tab) == DOMAIN st = Bases /\ \A b \in Bases : BaseOK(b, st, cl, tab)

-----------------------------------------------------------------------------
(* Steps that leave owners and queues alone, or free a socket.             *)

Recs(S) == DOMAIN S = Socks /\ \A x \in Socks : DOMAIN S[x] = SockFields
Blank(r) == r.pgid = NoBase /\ r.head = NoSock /\ ~r.acc
SameOwner(r, r1) == r1.pgid = r.pgid /\ r1.head = r.head /\ r1.acc = r.acc
Tame(S, T) == Recs(T) /\ \A x \in Socks : Blank(T[x]) \/ SameOwner(S[x], T[x])

LEMMA BlankFree == Blank(FreeSock) /\ DOMAIN FreeSock = SockFields
  BY DEF Blank, FreeSock, SockFields

LEMMA InvRecs == ASSUME NEW S, SockInv(S) PROVE Recs(S)
  BY DEF SockInv, RecOK, Recs

LEMMA TameRefl == ASSUME NEW S, Recs(S) PROVE Tame(S, S)
  BY DEF Tame, SameOwner

LEMMA TameTrans ==
  ASSUME NEW S, NEW T, NEW U, Tame(S, T), Tame(T, U) PROVE Tame(S, U)
  BY DEF Tame, SameOwner, Blank

\* One socket changes.
LEMMA TameAt ==
  ASSUME NEW S, Recs(S), NEW s \in Socks, NEW T, DOMAIN T = Socks,
         \A x \in Socks : x # s => T[x] = S[x], DOMAIN T[s] = SockFields,
         SameOwner(S[s], T[s])
  PROVE  Tame(S, T)
  BY DEF Tame, Recs, SameOwner

\* Writing a field that is neither the owner nor a queue link.
LEMMA TameField ==
  ASSUME NEW S, Recs(S), NEW s, NEW v
  PROVE  /\ Tame(S, [S EXCEPT ![s].tp = v]) /\ Tame(S, [S EXCEPT ![s].err = v])
         /\ Tame(S, [S EXCEPT ![s].ref = v]) /\ Tame(S, [S EXCEPT ![s].cc = v])
         /\ Tame(S, [S EXCEPT ![s].state = v]) /\ Tame(S, [S EXCEPT ![s].slp = v])
         /\ Tame(S, [S EXCEPT ![s].rslp = v]) /\ Tame(S, [S EXCEPT ![s].linger = v])
         /\ Tame(S, [S EXCEPT ![s].q0 = v]) /\ Tame(S, [S EXCEPT ![s].q = v])
<1>1. Tame(S, [S EXCEPT ![s].tp = v]) /\ Tame(S, [S EXCEPT ![s].err = v])
  BY DEF Tame, Recs, SameOwner, SockFields
<1>2. Tame(S, [S EXCEPT ![s].ref = v]) /\ Tame(S, [S EXCEPT ![s].cc = v])
  BY DEF Tame, Recs, SameOwner, SockFields
<1>3. Tame(S, [S EXCEPT ![s].state = v]) /\ Tame(S, [S EXCEPT ![s].slp = v])
  BY DEF Tame, Recs, SameOwner, SockFields
<1>4. Tame(S, [S EXCEPT ![s].rslp = v]) /\ Tame(S, [S EXCEPT ![s].linger = v])
  BY DEF Tame, Recs, SameOwner, SockFields
<1>5. Tame(S, [S EXCEPT ![s].q0 = v]) /\ Tame(S, [S EXCEPT ![s].q = v])
  BY DEF Tame, Recs, SameOwner, SockFields
<1> QED BY <1>1, <1>2, <1>3, <1>4, <1>5

LEMMA TameFlags ==
  ASSUME NEW S, Recs(S), NEW s \in Socks
  PROVE  /\ Tame(S, SoIsConnecting(S, s)) /\ Tame(S, SoIsDisconnecting(S, s))
         /\ Tame(S, SoIsDisconnected(S, s)) /\ Tame(S, SoCantRcvMore(S, s))
<1>1. Tame(S, SoIsConnecting(S, s))
  BY DEF SoIsConnecting, Tame, Recs, SameOwner, SockFields
<1>2. Tame(S, SoIsDisconnecting(S, s))
  BY DEF SoIsDisconnecting, Tame, Recs, SameOwner, SockFields
<1>3. Tame(S, SoIsDisconnected(S, s))
  BY DEF SoIsDisconnected, Tame, Recs, SameOwner, SockFields
<1>4. Tame(S, SoCantRcvMore(S, s))
  BY DEF SoCantRcvMore, Tame, Recs, SameOwner, SockFields
<1> QED BY <1>1, <1>2, <1>3, <1>4

\* A connection that moves to the completed queue.
LEMMA TameConnected ==
  ASSUME NEW S, SockInv(S), NEW s \in Socks PROVE Tame(S, SoIsConnected(S, s))
<1> DEFINE h == S[s].head
<1>0. Recs(S)
  BY InvRecs
<1>1. CASE h # NoSock /\ s \in Elems(S[h].q0)
  <2> DEFINE T == SoIsConnected(S, s)
             r1 == [S[s] EXCEPT !.state = NowConnected(@)]
             g1 == [S[h] EXCEPT !.q0 = Without(@, s), !.q = Append(@, s), !.slp = {}, !.rslp = {}]
  <2>1. h \in Socks /\ h # s
    BY <1>1, QueuedFacts
  <2>2. T = [S EXCEPT ![s].state = NowConnected(@),
                      ![h].q0 = Without(@, s), ![h].q = Append(@, s),
                      ![h].slp = {}, ![h].rslp = {}]
    BY <1>1 DEF SoIsConnected
  <2>3. /\ DOMAIN T = Socks /\ \A x \in Socks : x \notin {s, h} => T[x] = S[x]
        /\ T[s] = r1 /\ T[h] = g1
    BY <1>0, <2>1, <2>2 DEF Recs
  <2>4. /\ DOMAIN r1 = SockFields /\ SameOwner(S[s], r1)
        /\ DOMAIN g1 = SockFields /\ SameOwner(S[h], g1)
    BY <1>0, <2>1 DEF Recs, SockFields, SameOwner
  <2> HIDE DEF T, r1, g1
  <2> QED BY <1>0, <2>1, <2>3, <2>4 DEF Tame, Recs, SameOwner, T
<1>2. CASE ~(h # NoSock /\ s \in Elems(S[h].q0))
  <2>1. SoIsConnected(S, s) = [S EXCEPT ![s].state = NowConnected(@),
                   ![s].slp = {}, ![s].rslp = {}]
    BY <1>2 DEF SoIsConnected
  <2> QED BY <1>0, <2>1 DEF Tame, Recs, SameOwner, SockFields
<1> QED BY <1>1, <1>2

\* sofree: the queue entry goes with the socket.
LEMMA TameFree ==
  ASSUME NEW S, Recs(S), NEW s \in Socks PROVE Tame(S, SoFree(S, s))
<1> DEFINE h == S[s].head
           R == SoQRemque(S, s)
<1>1. CASE S[s].tp # "NOPCB" \/ "NOFDREF" \notin S[s].state
  BY <1>1, TameRefl DEF SoFree
<1>2. CASE ~(S[s].tp # "NOPCB" \/ "NOFDREF" \notin S[s].state) /\ S[s].head = NoSock
  <2>1. SoFree(S, s) = [S EXCEPT ![s] = FreeSock]
    BY <1>2 DEF SoFree
  <2> QED BY <2>1, BlankFree DEF Tame, Recs, SameOwner
<1>3. CASE ~(S[s].tp # "NOPCB" \/ "NOFDREF" \notin S[s].state) /\ S[s].head # NoSock
  <2>1. SoFree(S, s) = [R EXCEPT ![s] = FreeSock]
    BY <1>3 DEF SoFree
  <2>2. DOMAIN R = Socks /\ \A x \in Socks : DOMAIN R[x] = SockFields
          /\ (x # s => R[x].pgid = S[x].pgid /\ R[x].head = S[x].head /\ R[x].acc = S[x].acc)
    BY DEF SoQRemque, Recs, SockFields
  <2> HIDE DEF R
  <2> QED BY <2>1, <2>2, BlankFree DEF Tame, Recs, SameOwner
<1> QED BY <1>1, <1>2, <1>3

LEMMA TameClose ==
  ASSUME NEW S, Recs(S), NEW s \in Socks PROVE Tame(S, TcpClose(S, s))
<1> DEFINE V == SoIsDisconnected(S, s)
           U == [V EXCEPT ![s].tp = "NOPCB"]
<1>1. Tame(S, V) /\ Recs(V)
  BY TameFlags DEF Tame
<1> HIDE DEF V
<1>2. Tame(V, U) /\ Recs(U)
  BY <1>1, TameField DEF Tame
<1> HIDE DEF U
<1>3. Tame(U, SoFree(U, s))
  BY <1>2, TameFree
<1> QED BY <1>1, <1>2, <1>3, TameTrans DEF TcpClose, U, V

LEMMA TameDrop ==
  ASSUME NEW S, Recs(S), NEW s \in Socks, NEW e PROVE Tame(S, TcpDrop(S, s, e))
<1> DEFINE V == [S EXCEPT ![s].err = e]
<1>1. Tame(S, V) /\ Recs(V)
  BY TameField DEF Tame
<1> HIDE DEF V
<1>2. Tame(V, TcpClose(V, s))
  BY <1>1, TameClose
<1> QED BY <1>1, <1>2, TameTrans DEF TcpDrop, V

LEMMA TameUsrClosed ==
  ASSUME NEW S, Recs(S), NEW s \in Socks PROVE Tame(S, TcpUsrClosed(S, s))
  BY TameClose, TameField, TameFlags, TameRefl DEF TcpUsrClosed

LEMMA TameDisconnect ==
  ASSUME NEW S, Recs(S), NEW s \in Socks
  PROVE  /\ Tame(S, TcpDisconnect(S, s)) /\ Tame(S, TcpDetach(S, s))
         /\ Tame(S, SoDisconnect(S, s))
<1> DEFINE V == SoIsDisconnecting(S, s)
           U == [V EXCEPT ![s].cc = FALSE]
           T == TcpUsrClosed(U, s)
<1>1. Tame(S, V) /\ Recs(V)
  BY TameFlags DEF Tame
<1> HIDE DEF V
<1>2. Tame(V, U) /\ Recs(U)
  BY <1>1, TameField DEF Tame
<1> HIDE DEF U
<1>3. Tame(U, T)
  BY <1>2, TameUsrClosed
<1>4. Tame(S, T)
  BY <1>1, <1>2, <1>3, TameTrans
<1>5. Tame(S, TcpDisconnect(S, s))
  <2>1. \/ TcpDisconnect(S, s) = TcpClose(S, s) \/ TcpDisconnect(S, s) = TcpDrop(S, s, FALSE)
        \/ TcpDisconnect(S, s) = T
    BY DEF TcpDisconnect, U, V
  <2> QED BY <1>4, <2>1, TameClose, TameDrop
<1> QED BY <1>5, TameClose, TameRefl DEF TcpDetach, SoDisconnect

LEMMA TameFinish ==
  ASSUME NEW S, Recs(S), NEW s \in Socks PROVE Tame(S, CloseFinish(S, s))
<1> DEFINE V == IF S[s].tp = "NOPCB" THEN S ELSE TcpDetach(S, s)
           U == [V EXCEPT ![s].state = @ \cup {"NOFDREF"}]
<1>1. Tame(S, V) /\ Recs(V)
  BY TameDisconnect, TameRefl DEF Tame
<1> HIDE DEF V
<1>2. Tame(V, U) /\ Recs(U)
  BY <1>1, TameField DEF Tame
<1> HIDE DEF U
<1>3. Tame(U, SoFree(U, s))
  BY <1>2, TameFree
<1> QED BY <1>1, <1>2, <1>3, TameTrans DEF CloseFinish, U, V

\* Draining the queues of a listener.
LEMMA TameDrain ==
  ASSUME NEW S, Recs(S), NEW s \in Socks
  PROVE  Tame(S, DrainQueues(S, s))
<1> DEFINE T == DrainQueues(S, s)
           g == [S[s] EXCEPT !.q0 = Drained(S, s, @), !.q = Drained(S, s, @)]
<1>1. DOMAIN g = SockFields /\ SameOwner(S[s], g)
  BY DEF Recs, SockFields, SameOwner
<1>2. /\ DOMAIN T = Socks
      /\ \A x \in Socks : T[x] = IF x \in Abortable(S, s) THEN FreeSock
                                ELSE IF x = s THEN g ELSE S[x]
  BY DEF DrainQueues
<1> HIDE DEF T, g
<1>3. Tame(S, T)
  BY <1>1, <1>2, BlankFree DEF Tame, Recs, SameOwner
<1> QED BY <1>3 DEF T

LEMMA TameStart ==
  ASSUME NEW S, Recs(S), NEW s \in Socks
  PROVE  Tame(S, CloseStart(S, s))
<1> DEFINE V == IF S[s].acc THEN DrainQueues(S, s) ELSE S
<1>1. Tame(S, V) /\ Recs(V)
  BY TameDrain, TameRefl DEF Tame
<1> HIDE DEF V
<1>3. Tame(V, V) /\ Tame(V, SoDisconnect(V, s))
  BY <1>1, TameRefl, TameDisconnect
<1>4. CloseStart(S, s) \in {V, SoDisconnect(V, s)}
  BY DEF CloseStart, V
<1> QED BY <1>1, <1>3, <1>4, TameTrans

-----------------------------------------------------------------------------
(* Owners.                                                                 *)

\* The owner and the queue of a socket are as they were, or the socket is blank.
Loose(S, T, x) == Blank(T[x]) \/ (T[x].pgid = S[x].pgid /\ T[x].head = S[x].head)

\* Slots are only gained.
LEMMA LooseOwners ==
  ASSUME NEW S, NEW T, NEW tab, NEW tab1, OwnerHolds(S, tab), SockInv(T),
         \A x \in Socks : Loose(S, T, x),
         \A b, x : x \in Socks /\ Named(tab, b, x) => Named(tab1, b, x)
  PROVE  OwnerHolds(T, tab1)
<1> SUFFICES ASSUME NEW x \in Socks, T[x].pgid # NoBase
             PROVE  IF T[x].head = NoSock THEN Named(tab1, T[x].pgid, x)
                    ELSE T[T[x].head].pgid = T[x].pgid
  BY DEF OwnerHolds
<1>1. T[x].pgid = S[x].pgid /\ T[x].head = S[x].head
  BY DEF Loose, Blank
<1>2. CASE T[x].head = NoSock
  BY <1>1, <1>2 DEF OwnerHolds
<1>3. CASE T[x].head # NoSock
  <2>1. T[x].head \in Socks /\ T[T[x].head].acc
    BY <1>3, QueuedFacts
  <2>2. T[T[x].head].pgid = S[T[x].head].pgid
    BY <2>1 DEF Loose, Blank
  <2>3. S[S[x].head].pgid = S[x].pgid
    BY <1>1, <1>3 DEF OwnerHolds
  <2> QED BY <1>1, <1>3, <2>2, <2>3
<1> QED BY <1>2, <1>3

\* One socket that is on no queue changes its owner or loses a slot.
LEMMA OwnerChanges ==
  ASSUME NEW S, NEW T, NEW tab, NEW tab1, OwnerHolds(S, tab), SockInv(T), NEW s \in Socks,
         \A x \in Socks : x # s => Loose(S, T, x),
         \A b, x : x \in Socks /\ x # s /\ Named(tab, b, x) => Named(tab1, b, x),
         T[s].head = NoSock, T[s].pgid # NoBase => Named(tab1, T[s].pgid, s),
         \A x \in Socks : T[x].head = s /\ T[x].pgid # NoBase => T[x].pgid = T[s].pgid
  PROVE  OwnerHolds(T, tab1)
<1> SUFFICES ASSUME NEW x \in Socks, T[x].pgid # NoBase, x # s
             PROVE  IF T[x].head = NoSock THEN Named(tab1, T[x].pgid, x)
                    ELSE T[T[x].head].pgid = T[x].pgid
  BY DEF OwnerHolds
<1>1. T[x].pgid = S[x].pgid /\ T[x].head = S[x].head
  BY DEF Loose, Blank
<1>2. CASE T[x].head = NoSock
  BY <1>1, <1>2 DEF OwnerHolds
<1>3. CASE T[x].head # NoSock /\ T[x].head # s
  <2>1. T[x].head \in Socks /\ T[T[x].head].acc
    BY <1>3, QueuedFacts
  <2>2. T[T[x].head].pgid = S[T[x].head].pgid
    BY <1>3, <2>1 DEF Loose, Blank
  <2>3. S[S[x].head].pgid = S[x].pgid
    BY <1>1, <1>3 DEF OwnerHolds
  <2> QED BY <1>1, <1>3, <2>2, <2>3
<1>4. CASE T[x].head = s
  BY <1>4, NullAssumption
<1> QED BY <1>2, <1>3, <1>4

LEMMA TameLoose ==
  ASSUME NEW S, NEW T, Tame(S, T), NEW x \in Socks PROVE Loose(S, T, x)
  BY DEF Tame, SameOwner, Loose

\* sonewconn(): the connection has its listener's owner.
LEMMA NewConnOwners ==
  ASSUME NEW S, NEW T, NEW tab, OwnerHolds(S, tab), SockInv(T), NEW s \in Socks,
         NEW h \in Socks, h # s, \A x \in Socks : x # s => Loose(S, T, x),
         T[s].head = h, T[s].pgid = T[h].pgid
  PROVE  OwnerHolds(T, tab)
<1>1. ~T[s].acc /\ T[s].head # NoSock
  BY NullAssumption, QueuedFacts DEF Waiting
<1> SUFFICES ASSUME NEW x \in Socks, T[x].pgid # NoBase, x # s
             PROVE  IF T[x].head = NoSock THEN Named(tab, T[x].pgid, x)
                    ELSE T[T[x].head].pgid = T[x].pgid
  BY <1>1 DEF OwnerHolds
<1>2. T[x].pgid = S[x].pgid /\ T[x].head = S[x].head
  BY DEF Loose, Blank
<1>3. CASE T[x].head = NoSock
  BY <1>2, <1>3 DEF OwnerHolds
<1>4. CASE T[x].head # NoSock
  <2>1. T[x].head \in Socks /\ T[T[x].head].acc
    BY <1>4, QueuedFacts
  <2>2. T[x].head # s
    BY <1>1, <2>1
  <2>3. T[T[x].head].pgid = S[T[x].head].pgid
    BY <2>1, <2>2 DEF Loose, Blank
  <2>4. S[S[x].head].pgid = S[x].pgid
    BY <1>2, <1>4 DEF OwnerHolds
  <2> QED BY <1>2, <1>4, <2>3, <2>4
<1> QED BY <1>3, <1>4

-----------------------------------------------------------------------------
(* Places.                                                                 *)

\* What the table tab1 names when s has left, or entered, the slot of tab.
Lost(tab, tab1, b, fd, s) ==
  /\ \A c, x : x \in Socks /\ x # s /\ Named(tab, c, x) => Named(tab1, c, x)
  /\ \A c, x : x \in Socks /\ c # b /\ Named(tab, c, x) => Named(tab1, c, x)
  /\ \A g \in Fds : g # fd => tab1[b][g] = tab[b][g]
  /\ \A x \in Socks : SlotsOf(tab1, x) \subseteq SlotsOf(tab, x)
  /\ SlotsOf(tab1, s) = SlotsOf(tab, s) \ {<<b, fd>>}
Gained(tab, tab1, b, fd, s) ==
  /\ \A c, x : x \in Socks /\ Named(tab, c, x) => Named(tab1, c, x)
  /\ Named(tab1, b, s)
  /\ SlotsOf(tab1, s) = SlotsOf(tab, s) \cup {<<b, fd>>}
  /\ \A x \in Socks : x # s => SlotsOf(tab1, x) = SlotsOf(tab, x)

\* A place is lost.
LEMMA PlaceCleared ==
  ASSUME NEW tab, NEW tab1, NEW rel, OnePlace(tab, rel),
         \A s \in Socks : SlotsOf(tab1, s) \subseteq SlotsOf(tab, s)
  PROVE  OnePlace(tab1, rel)
<1> SUFFICES ASSUME NEW s \in Socks
             PROVE  /\ \A p, q \in SlotsOf(tab1, s) : p[1] = q[1] /\ ("release" \in Uses => p = q)
                    /\ SlotsOf(tab1, s) # {} => NodesOf(rel, s) = {}
                    /\ \A i, j \in NodesOf(rel, s) : i = j
  BY DEF OnePlace
<1>1. SlotsOf(tab1, s) \subseteq SlotsOf(tab, s)
  OBVIOUS
<1> QED BY <1>1 DEF OnePlace

\* A socket that had no place gets one slot.
LEMMA PlaceGiven ==
  ASSUME NEW tab, NEW tab1, NEW rel, OnePlace(tab, rel), NEW s \in Socks, NEW b, NEW fd,
         Gained(tab, tab1, b, fd, s), SlotsOf(tab, s) = {}, NodesOf(rel, s) = {}
  PROVE  OnePlace(tab1, rel)
<1> SUFFICES ASSUME NEW x \in Socks
             PROVE  /\ \A o, q \in SlotsOf(tab1, x) : o[1] = q[1] /\ ("release" \in Uses => o = q)
                    /\ SlotsOf(tab1, x) # {} => NodesOf(rel, x) = {}
                    /\ \A i, j \in NodesOf(rel, x) : i = j
  BY DEF OnePlace
<1>1. CASE x = s
  BY <1>1 DEF Gained
<1>2. CASE x # s
  <2>1. SlotsOf(tab1, x) = SlotsOf(tab, x)
    BY <1>2 DEF Gained
  <2> QED BY <2>1 DEF OnePlace
<1> QED BY <1>1, <1>2

\* Dup2Socket gives a second slot in the table that has the first one.
LEMMA PlaceDoubled ==
  ASSUME NEW tab, NEW tab1, NEW rel, OnePlace(tab, rel), NEW s \in Socks, NEW b \in Bases,
         NEW fd, NEW g \in Fds, tab[b][g] = s, Gained(tab, tab1, b, fd, s),
         "release" \notin Uses
  PROVE  OnePlace(tab1, rel)
<1> DEFINE q == <<b, g>>
<1>0. q \in SlotsOf(tab, s) /\ q[1] = b
  BY DEF SlotsOf
<1> HIDE DEF q
<1>1. NodesOf(rel, s) = {}
  BY <1>0 DEF OnePlace
<1> SUFFICES ASSUME NEW x \in Socks
             PROVE  /\ \A o, r \in SlotsOf(tab1, x) : o[1] = r[1]
                    /\ SlotsOf(tab1, x) # {} => NodesOf(rel, x) = {}
                    /\ \A i, j \in NodesOf(rel, x) : i = j
  BY DEF OnePlace
<1>2. CASE x = s
  <2>1. \A o \in SlotsOf(tab, s) : o[1] = q[1]
    BY <1>0 DEF OnePlace
  <2>2. \A o \in SlotsOf(tab1, s) : o[1] = q[1]
    BY <1>0, <2>1 DEF Gained
  <2>3. \A o, r \in SlotsOf(tab1, s) : o[1] = r[1]
    BY <2>2
  <2> QED BY <1>1, <1>2, <2>3
<1>3. CASE x # s
  <2>1. SlotsOf(tab1, x) = SlotsOf(tab, x)
    BY <1>3 DEF Gained
  <2> QED BY <2>1 DEF OnePlace
<1> QED BY <1>2, <1>3

\* A node is taken off the list.
LEMMA PlaceCut ==
  ASSUME NEW tab, NEW rel, rel \in Seq(Node), OnePlace(tab, rel), NEW rel1, NEW n,
         Cuts(rel, rel1, n)
  PROVE  /\ OnePlace(tab, rel1) /\ NodesOf(rel1, rel[n].so) = {}
         /\ rel[n].so \in Socks /\ SlotsOf(tab, rel[n].so) = {} /\ "release" \in Uses
<1> DEFINE f(i) == IF i < n THEN i ELSE i + 1
<1>1. /\ Len(rel) \in Nat /\ DOMAIN rel = 1..Len(rel) /\ n \in 1..Len(rel)
      /\ rel1 \in Seq(Node) /\ Len(rel1) = Len(rel) - 1 /\ DOMAIN rel1 = 1..Len(rel1)
  BY LenProperties DEF Cuts
<1>2. rel[n] \in Node
  BY <1>1, ElementOfSeq
<1>3. \A i \in DOMAIN rel1 : f(i) \in DOMAIN rel /\ rel1[i] = rel[f(i)] /\ f(i) # n
  BY <1>1 DEF Cuts
<1>4. \A i, j \in DOMAIN rel1 : f(i) = f(j) => i = j
  BY <1>1
<1> HIDE DEF f
<1>5. rel # <<>>
  BY <1>1
<1>6. "release" \in Uses
  BY <1>5 DEF OnePlace
<1>7. \A s \in Socks : \A i \in NodesOf(rel1, s) : f(i) \in NodesOf(rel, s) /\ i \in DOMAIN rel1
  BY <1>3 DEF NodesOf
<1>8. rel[n].so \in Socks /\ n \in NodesOf(rel, rel[n].so)
  BY <1>1, <1>2 DEF Node, NodesOf
<1>9. NodesOf(rel1, rel[n].so) = {} /\ SlotsOf(tab, rel[n].so) = {}
  <2> DEFINE s == rel[n].so
  <2>1. s \in Socks /\ n \in NodesOf(rel, s)
    BY <1>8
  <2> HIDE DEF s
  <2>2. SlotsOf(tab, s) = {}
    BY <2>1 DEF OnePlace
  <2>3. \A i \in NodesOf(rel, s) : i = n
    BY <2>1 DEF OnePlace
  <2>4. \A i \in NodesOf(rel1, s) : FALSE
    BY <1>3, <1>7, <2>1, <2>3
  <2> QED BY <2>2, <2>4 DEF s
<1>10. ASSUME NEW s \in Socks
       PROVE  /\ SlotsOf(tab, s) # {} => NodesOf(rel1, s) = {}
              /\ \A i, j \in NodesOf(rel1, s) : i = j
  <2>1. \A i, j \in NodesOf(rel, s) : i = j
    BY DEF OnePlace
  <2>2. SlotsOf(tab, s) # {} => NodesOf(rel, s) = {}
    BY DEF OnePlace
  <2> QED BY <1>4, <1>7, <2>1, <2>2
<1> QED BY <1>6, <1>8, <1>9, <1>10 DEF OnePlace

\* A node is added for a socket that has no other place.
LEMMA PlaceNoded ==
  ASSUME NEW tab, NEW rel, rel \in Seq(Node), OnePlace(tab, rel), NEW n \in Node,
         "release" \in Uses, SlotsOf(tab, n.so) = {}, NodesOf(rel, n.so) = {}
  PROVE  OnePlace(tab, Append(rel, n))
<1> DEFINE rel1 == Append(rel, n)
<1>1. /\ Len(rel) \in Nat /\ DOMAIN rel = 1..Len(rel) /\ rel1[Len(rel) + 1] = n
      /\ DOMAIN rel1 = 1..(Len(rel) + 1) /\ \A i \in 1..Len(rel) : rel1[i] = rel[i]
  BY LenProperties, AppendProperties
<1> HIDE DEF rel1
<1>2. NodesOf(rel1, n.so) = {Len(rel) + 1}
  BY <1>1 DEF NodesOf
<1>3. \A s : s # n.so => NodesOf(rel1, s) = NodesOf(rel, s)
  BY <1>1 DEF NodesOf
<1>4. ASSUME NEW s \in Socks
      PROVE  /\ SlotsOf(tab, s) # {} => NodesOf(rel1, s) = {}
             /\ \A i, j \in NodesOf(rel1, s) : i = j
  <2>1. CASE s = n.so
    BY <1>2, <2>1
  <2>2. CASE s # n.so
    BY <1>3, <2>2 DEF OnePlace
  <2> QED BY <2>1, <2>2
<1> QED BY <1>4 DEF OnePlace, rel1

-----------------------------------------------------------------------------
(* The slots.                                                              *)

LEMMA ClearedSlots ==
  ASSUME NEW tab, NEW rel, TablesTyped(tab, rel), NEW b \in Bases, NEW fd \in Fds,
         NEW s \in Socks, tab[b][fd] = s,
         NEW tab1, tab1 = [tab EXCEPT ![b][fd] = NoSock]
  PROVE  Lost(tab, tab1, b, fd, s)
<1>1. Writes(tab, tab1, b, fd, NoSock)
  BY SlotWritten
<1>2. tab1[b][fd] = NoSock /\ \A c \in Bases, g \in Fds : c # b \/ g # fd => tab1[c][g] = tab[c][g]
  BY <1>1 DEF Writes, OneSlot
<1>3. \A x \in Socks : SlotsOf(tab1, x) = SlotsOf(tab, x) \ {<<b, fd>>}
  <2> SUFFICES ASSUME NEW x \in Socks, NEW p \in Bases \X Fds
               PROVE  p \in SlotsOf(tab1, x) <=> p \in SlotsOf(tab, x) \ {<<b, fd>>}
    BY DEF SlotsOf
  <2>1. p = <<b, fd>> <=> p[1] = b /\ p[2] = fd
    OBVIOUS
  <2>2. p[1] \in Bases /\ p[2] \in Fds
    OBVIOUS
  <2>3. p # <<b, fd>> => tab1[p[1]][p[2]] = tab[p[1]][p[2]]
    BY <1>2, <2>1, <2>2
  <2>4. p = <<b, fd>> => tab1[p[1]][p[2]] = NoSock
    BY <1>2, <2>1
  <2> QED BY <2>3, <2>4, NullAssumption DEF SlotsOf
<1>4. \A c, x : x \in Socks /\ (x # s \/ c # b) /\ Named(tab, c, x) => Named(tab1, c, x)
  BY <1>2, NullAssumption DEF Named
<1> QED BY <1>2, <1>3, <1>4 DEF Lost

LEMMA FilledSlots ==
  ASSUME NEW tab, NEW rel, TablesTyped(tab, rel), NEW b \in Bases, NEW fd \in Fds,
         NEW s \in Socks, tab[b][fd] = NoSock,
         NEW tab1, tab1 = [tab EXCEPT ![b][fd] = s]
  PROVE  Gained(tab, tab1, b, fd, s)
<1>1. Writes(tab, tab1, b, fd, s)
  BY SlotWritten
<1>2. tab1[b][fd] = s /\ \A c \in Bases, g \in Fds : c # b \/ g # fd => tab1[c][g] = tab[c][g]
  BY <1>1 DEF Writes, OneSlot
<1>3. /\ SlotsOf(tab1, s) = SlotsOf(tab, s) \cup {<<b, fd>>}
      /\ \A x \in Socks : x # s => SlotsOf(tab1, x) = SlotsOf(tab, x)
  <2>1. ASSUME NEW x \in Socks, NEW p \in Bases \X Fds
        PROVE  p \in SlotsOf(tab1, x) <=> p \in SlotsOf(tab, x) \/ (x = s /\ p = <<b, fd>>)
    <3>1. p = <<b, fd>> <=> p[1] = b /\ p[2] = fd
      OBVIOUS
    <3>2. p[1] \in Bases /\ p[2] \in Fds
      OBVIOUS
    <3>3. p # <<b, fd>> => tab1[p[1]][p[2]] = tab[p[1]][p[2]]
      BY <1>2, <3>1, <3>2
    <3>4. p = <<b, fd>> => tab1[p[1]][p[2]] = s /\ tab[p[1]][p[2]] = NoSock
      BY <1>2, <3>1
    <3> QED BY <3>3, <3>4, NullAssumption DEF SlotsOf
  <2>2. \A x : SlotsOf(tab1, x) \subseteq Bases \X Fds /\ SlotsOf(tab, x) \subseteq Bases \X Fds
    BY DEF SlotsOf
  <2>3. <<b, fd>> \in Bases \X Fds
    OBVIOUS
  <2>4. \A x \in Socks : \A p \in Bases \X Fds :
          p \in SlotsOf(tab1, x) <=> p \in SlotsOf(tab, x) \/ (x = s /\ p = <<b, fd>>)
    BY <2>1
  <2>5. \A p : p \in SlotsOf(tab1, s) <=> p \in SlotsOf(tab, s) \cup {<<b, fd>>}
    BY <2>2, <2>3, <2>4
  <2>6. ASSUME NEW x \in Socks, x # s PROVE SlotsOf(tab1, x) = SlotsOf(tab, x)
    BY <2>2, <2>4, <2>6
  <2> QED BY <2>5, <2>6
<1>4. \A c, x : x \in Socks /\ Named(tab, c, x) => Named(tab1, c, x)
  BY <1>2, NullAssumption DEF Named
<1> QED BY <1>2, <1>3, <1>4 DEF Named, Gained

\* No slot and no node names a socket that has no references.
LEMMA NoPlace ==
  ASSUME NEW S, NEW tab, NEW rel, RefsExact(S, tab, rel), TablesTyped(tab, rel),
         NEW s \in Socks, S[s].ref = 0
  PROVE  SlotsOf(tab, s) = {} /\ NodesOf(rel, s) = {}
  BY NamedHeld

LEMMA OneSocket ==
  ASSUME NEW b \in Bases, NEW fd \in Fds, NEW s, dTable[b][fd] = s
  PROVE  CountSockets(b, s) = 1 <=> \A g \in Fds : dTable[b][g] = s => g = fd
<1> DEFINE F == {g \in Fds : dTable[b][g] = s}
<1>1. IsFiniteSet(Fds)
  <2>1. 0 \in Int /\ NFds - 1 \in Int
    BY BoundAssumption
  <2>2. IsFiniteSet(0 .. (NFds - 1))
    BY <2>1, FS_Interval, Zenon
  <2> QED BY <2>2 DEF Fds
<1>2. IsFiniteSet(F) /\ fd \in F
  BY <1>1, FS_Subset
<1>3. CountSockets(b, s) = Cardinality(F)
  BY DEF CountSockets
<1>4. Cardinality(F) = 1 => \E x : F = {x}
  BY <1>2, FS_Singleton
<1>5. F = {fd} => Cardinality(F) = 1
  BY FS_Singleton
<1>6. F = {fd} <=> \A g \in Fds : dTable[b][g] = s => g = fd
  BY <1>2
<1> HIDE DEF F
<1> QED BY <1>2, <1>3, <1>4, <1>5, <1>6

\* The only slot of a socket that is in one place is its only reference.
LEMMA OneReference ==
  ASSUME LifeInv, OnePlace(dTable, released), NEW b \in Bases, NEW fd \in Fds,
         NEW s \in Socks, dTable[b][fd] = s, CountSockets(b, s) = 1
  PROVE  so[s].ref = 1
<1> DEFINE X == SlotsOf(dTable, s)
           p == <<b, fd>>
<1>1. p \in X /\ p[1] = b /\ p[2] = fd
  BY DEF SlotsOf
<1>2. \A q \in X : q[1] = p[1] /\ q \in Bases \X Fds /\ dTable[q[1]][q[2]] = s
  BY <1>1 DEF OnePlace, SlotsOf
<1>3. \A q \in X : q[2] = fd
  BY <1>1, <1>2, OneSocket
<1>4. \A q \in X : q = p
  BY <1>1, <1>2, <1>3
<1>5. X = {p}
  BY <1>1, <1>4
<1>6. NodesOf(released, s) = {}
  BY <1>1 DEF OnePlace
<1>7. Cardinality(X) = 1 /\ Cardinality({}) = 0
  BY <1>5, FS_Singleton, FS_EmptySet
<1> HIDE DEF X, p
<1> QED BY <1>6, <1>7 DEF LifeInv, RefsExact, X

\* A close gives up the ownership with the last slot of the owner's table.  The sockets
\* then go on to U: the connections that a listener had queued are gone by then.
LEMMA CloseOwners ==
  ASSUME LifeInv, OwnerHolds(so, dTable), Placed(so, dTable, released),
         NEW b \in Bases, NEW fd \in Fds, dTable[b][fd] # NoSock,
         NEW U, Tame(DropReference(b, fd), U), SockInv(U),
         LastClose(b, fd) => \A x \in Socks : U[x].head # dTable[b][fd]
  PROVE  OwnerHolds(U, [dTable EXCEPT ![b][fd] = NoSock])
<1> DEFINE s == dTable[b][fd]
           D == DropReference(b, fd)
           tab1 == [dTable EXCEPT ![b][fd] = NoSock]
           mine == so[s].pgid = b /\ CountSockets(b, s) = 1
<1>1. /\ s \in Socks /\ so[s].ref > 0 /\ Held(so[s]) /\ DOMAIN so = Socks
      /\ DOMAIN so[s] = SockFields
  BY SlotHeld
<1>2. TablesTyped(dTable, released)
  BY DEF LifeInv
<1>4. /\ \A x \in Socks : x # s => D[x] = so[x]
      /\ D[s].pgid = (IF mine THEN NoBase ELSE so[s].pgid)
      /\ D[s].head = so[s].head /\ D[s].acc = so[s].acc /\ D[s].ref = so[s].ref - 1
  BY <1>1 DEF DropReference, SockFields
<1>5. (LastClose(b, fd) <=> D[s].ref <= 0) /\ Tame(D, U)
  BY DEF LastClose
<1>6. CountSockets(b, s) = 1 <=> \A g \in Fds : dTable[b][g] = s => g = fd
  BY OneSocket
<1>7. s = dTable[b][fd]
  OBVIOUS
<1>0. tab1 = [dTable EXCEPT ![b][fd] = NoSock]
  OBVIOUS
<1> HIDE DEF D, s, tab1
<1>3. /\ \A c, x : x \in Socks /\ x # s /\ Named(dTable, c, x) => Named(tab1, c, x)
      /\ \A c, x : x \in Socks /\ c # b /\ Named(dTable, c, x) => Named(tab1, c, x)
      /\ \A g \in Fds : g # fd => tab1[b][g] = dTable[b][g]
  <2>1. dTable[b][fd] = s /\ s \in Socks
    BY <1>1, <1>7
  <2>2. Lost(dTable, tab1, b, fd, s)
    BY <1>0, <1>2, <2>1, ClearedSlots
  <2> QED BY <2>2 DEF Lost
<1>8. \A x \in Socks : x # s => Loose(so, U, x)
  <2> SUFFICES ASSUME NEW x \in Socks, x # s PROVE Loose(so, U, x)
    OBVIOUS
  <2>1. Loose(D, U, x)
    BY <1>5, TameLoose
  <2> QED BY <1>4, <2>1 DEF Loose
<1>9. U[s].head = NoSock
  BY <1>1, <1>4, <1>5 DEF Tame, SameOwner, Blank, Held
<1>10. ASSUME U[s].pgid # NoBase PROVE Named(tab1, U[s].pgid, s)
  <2>1. U[s].pgid = so[s].pgid /\ ~mine
    BY <1>1, <1>4, <1>5, <1>10 DEF Tame, SameOwner, Blank
  <2>2. Named(dTable, so[s].pgid, s)
    BY <1>1, <1>10, <2>1 DEF OwnerHolds, Held
  <2>3. CASE so[s].pgid # b
    BY <1>1, <1>3, <2>1, <2>2, <2>3
  <2>4. CASE so[s].pgid = b
    <3>1. PICK g \in Fds : dTable[b][g] = s /\ g # fd
      BY <1>6, <2>1, <2>4
    <3> QED BY <1>3, <2>1, <2>4, <3>1 DEF Named
  <2> QED BY <2>3, <2>4
<1>11. ASSUME NEW x \in Socks, U[x].head = s, U[x].pgid # NoBase PROVE U[x].pgid = U[s].pgid
  <2>1. U[x].head # NoSock /\ x # s /\ U[s].acc
    BY <1>1, <1>9, <1>11, NullAssumption, QueuedFacts
  <2>2. U[x].pgid = so[x].pgid /\ so[x].head = s
    BY <1>8, <1>11, <2>1 DEF Loose, Blank
  <2>3. so[s].pgid = so[x].pgid
    BY <1>1, <1>11, <2>2, NullAssumption DEF OwnerHolds
  <2>4. U[s].pgid = D[s].pgid /\ so[s].acc
    BY <1>1, <1>4, <1>5, <2>1 DEF Tame, SameOwner, Blank
  <2>5. CASE ~mine
    BY <1>4, <2>2, <2>3, <2>4, <2>5
  <2>6. CASE mine
    <3>1. OnePlace(dTable, released)
      BY <1>1, <2>4 DEF Placed
    <3>2. so[s].ref = 1
      BY <1>1, <1>7, <2>6, <3>1, OneReference
    <3>3. LastClose(b, fd)
      BY <1>4, <1>5, <3>2
    <3> QED BY <1>7, <1>11, <3>3
  <2> QED BY <2>5, <2>6
<1>12. OwnerHolds(U, tab1)
  BY <1>1, <1>3, <1>8, <1>9, <1>10, <1>11, OwnerChanges
<1> QED BY <1>12 DEF tab1

-----------------------------------------------------------------------------
(* Calls that change descriptors.                                          *)

OwnedOK(S, tab, rel) == OwnerHolds(S, tab) /\ Placed(S, tab, rel)

LEMMA TameOwned ==
  ASSUME NEW S, NEW T, NEW tab, NEW rel, OwnedOK(S, tab, rel), Tame(S, T), SockInv(T)
  PROVE  OwnedOK(T, tab, rel)
<1>1. OwnerHolds(T, tab)
  BY TameLoose, LooseOwners DEF OwnedOK
<1>2. Placed(T, tab, rel)
  BY DEF OwnedOK, Placed, Tame, SameOwner, Blank
<1> QED BY <1>1, <1>2 DEF OwnedOK

\* Dup2Socket: what fd1 names gets a second slot in the same table.
LEMMA DupInstallOwned ==
  ASSUME OwnersSafe, "dup" \in Uses, NEW b \in Bases, NEW S, NEW tab, NEW rel,
         OwnedOK(S, tab, rel), TablesTyped(tab, rel), Recs(S), SockInv(so'), NEW usd,
         NEW fd1 \in Fds \cup {NoFd}, NEW s1 \in Socks \cup {NoSock},
         fd1 = NoFd => s1 = NoSock, fd1 # NoFd => tab[b][fd1] = s1,
         NEW fd2 \in Fds, tab[b][fd2] = NoSock, DupInstall(b, S, tab, usd, s1, fd2)
  PROVE  OwnedOK(so', dTable', rel)
<1>1. CASE s1 = NoSock
  BY <1>1 DEF DupInstall
<1>2. CASE s1 # NoSock
  <2>1. /\ s1 \in Socks /\ fd1 \in Fds /\ tab[b][fd1] = s1
        /\ so' = [S EXCEPT ![s1].ref = @ + 1] /\ dTable' = [tab EXCEPT ![b][fd2] = s1]
    BY <1>2 DEF DupInstall
  <2>2. Tame(S, so')
    BY <2>1, TameField
  <2>3. Gained(tab, dTable', b, fd2, s1)
    BY <2>1, FilledSlots
  <2>4. OwnedOK(so', tab, rel)
    BY <2>2, TameOwned
  <2>5. OwnerHolds(so', dTable')
    <3>1. \A x \in Socks : Loose(S, so', x)
      BY <2>2, TameLoose
    <3> QED BY <2>3, <3>1, LooseOwners DEF Gained, OwnedOK
  <2>6. CASE "listen" \notin Uses
    BY <2>4, <2>5, <2>6 DEF OwnedOK, Placed
  <2>7. CASE "listen" \in Uses
    <3>1. "release" \notin Uses /\ OnePlace(tab, rel)
      BY <2>4, <2>7 DEF OwnersSafe, OwnedOK, Placed
    <3>2. OnePlace(dTable', rel)
      BY <2>1, <2>3, <3>1, PlaceDoubled
    <3> QED BY <2>5, <2>7, <3>2 DEF OwnedOK, Placed
  <2> QED BY <2>6, <2>7
<1> QED BY <1>1, <1>2

LEMMA DupTailOwned ==
  ASSUME OwnersSafe, "dup" \in Uses, NEW b \in Bases, NEW S, NEW tab, NEW rel,
         OwnedOK(S, tab, rel), TablesTyped(tab, rel), Recs(S), SockInv(so'), NEW usd,
         NEW fd1 \in Fds \cup {NoFd}, NEW s1 \in Socks \cup {NoSock},
         fd1 = NoFd => s1 = NoSock, NEW fd2 \in Fds,
         DupTail(b, S, tab, usd, fd1, s1, fd2)
  PROVE  OwnedOK(so', dTable', rel)
<1>1. CASE ~DupStillValid(b, tab, usd, fd1, s1, fd2)
  BY <1>1 DEF DupTail
<1>2. CASE DupStillValid(b, tab, usd, fd1, s1, fd2)
  <2>1. /\ DupInstall(b, S, tab, usd, s1, fd2) /\ tab[b][fd2] = NoSock
        /\ fd1 # NoFd => tab[b][fd1] = s1
    BY <1>2 DEF DupTail, DupStillValid
  <2> QED BY <2>1, DupInstallOwned
<1> QED BY <1>1, <1>2

\* What a close has reached: no connection is queued any more.
LEMMA ReachedAlone ==
  ASSUME LifeInv, NEW b \in Bases, NEW fd \in Fds, dTable[b][fd] # NoSock
  PROVE  LET s == dTable[b][fd]
             C == CloseReached(b, fd)
         IN  /\ Tame(DropReference(b, fd), C) /\ Recs(C) /\ s \in Socks
             /\ SockInv(C)
             /\ LastClose(b, fd) => \A x \in Socks : C[x].head # s
<1> DEFINE s == dTable[b][fd]
           D == DropReference(b, fd)
           C == CloseReached(b, fd)
<1>1. Unheld(so, D, s) /\ s \in Socks /\ so[s].ref > 0
  BY DropUnheld
<1>2. SockInv(so)
  BY DEF LifeInv
<1>3. C = (IF D[s].ref <= 0 THEN CloseStart(D, s) ELSE D) /\ (LastClose(b, fd) <=> D[s].ref <= 0)
  BY DEF CloseReached, LastClose
<1> HIDE DEF D, s, C
<1>4. /\ SockInv(D) /\ "ISDISCONNECTING" \notin D[s].state
      /\ D[s].ref <= 0 => Ending(D[s])
  BY <1>1, <1>2, UnheldOK
<1>5. Recs(D)
  BY <1>4, InvRecs
<1>6. CASE ~(D[s].ref <= 0)
  <2>1. C = D /\ Tame(D, C)
    BY <1>3, <1>5, <1>6, TameRefl
  <2> QED BY <1>1, <1>3, <1>4, <1>5, <1>6, <2>1 DEF D, s, C
<1>7. CASE D[s].ref <= 0
  <2>1. C = CloseStart(D, s) /\ Tame(D, C)
    BY <1>1, <1>3, <1>5, <1>7, TameStart
  <2>2. SockInv(C) /\ Kids(C[s]) = {}
    BY <1>1, <1>4, <1>7, <2>1, CloseStartOK
  <2>3. \A x \in Socks : C[x].head # s
    BY <1>1, <2>2, NullAssumption, QueuedFacts
  <2> QED BY <1>1, <1>3, <2>1, <2>2, <2>3 DEF Tame, D, s, C
<1> QED BY <1>6, <1>7

\* A descriptor is closed: the sockets go on from there to U, with the slot empty.
LEMMA ClosedOwned ==
  ASSUME LifeInv, OwnedOK(so, dTable, released), NEW b \in Bases, NEW fd \in Fds,
         dTable[b][fd] # NoSock, NEW U, Tame(CloseReached(b, fd), U), SockInv(U)
  PROVE  OwnedOK(U, [dTable EXCEPT ![b][fd] = NoSock], released)
<1> DEFINE s == dTable[b][fd]
           D == DropReference(b, fd)
           C == CloseReached(b, fd)
           tab1 == [dTable EXCEPT ![b][fd] = NoSock]
<1>1. /\ Tame(D, C) /\ s \in Socks
      /\ LastClose(b, fd) => \A x \in Socks : C[x].head # s
  BY ReachedAlone
<1>2. Unheld(so, D, s)
  BY DropUnheld
<1>3. Tame(D, U)
  BY <1>1, TameTrans
<1>4. LastClose(b, fd) => \A x \in Socks : U[x].head # s
  <2> SUFFICES ASSUME LastClose(b, fd), NEW x \in Socks PROVE U[x].head # s
    OBVIOUS
  <2>1. Loose(C, U, x) /\ C[x].head # s
    BY <1>1, TameLoose
  <2> HIDE DEF C, s
  <2> QED BY <1>1, <2>1, NullAssumption DEF Loose, Blank
<1>5. OwnerHolds(U, tab1)
  BY <1>3, <1>4, CloseOwners DEF OwnedOK
<1>6. Placed(U, tab1, released)
  <2>1. CASE "listen" \in Uses
    <3>1. dTable[b][fd] = s /\ tab1 = [dTable EXCEPT ![b][fd] = NoSock]
      OBVIOUS
    <3> HIDE DEF s, tab1
    <3>2. Lost(dTable, tab1, b, fd, s)
      BY <1>1, <3>1, ClearedSlots DEF LifeInv
    <3>3. OnePlace(dTable, released)
      BY <2>1 DEF OwnedOK, Placed
    <3>4. OnePlace(tab1, released)
      BY <3>2, <3>3, PlaceCleared DEF Lost
    <3> QED BY <2>1, <3>4 DEF Placed
  <2>2. CASE "listen" \notin Uses
    <3>1. \A x \in Socks : ~so[x].acc
      BY <2>2 DEF OwnedOK, Placed
    <3> HIDE DEF D, s
    <3>2. \A x \in Socks : ~D[x].acc
      BY <1>1, <1>2, <3>1 DEF Unheld
    <3>3. \A x \in Socks : ~U[x].acc
      BY <1>3, <3>2 DEF Tame, SameOwner, Blank
    <3> QED BY <2>2, <3>3 DEF Placed
  <2> QED BY <2>1, <2>2
<1> QED BY <1>5, <1>6 DEF OwnedOK

LEMMA ClosedNowTame ==
  ASSUME LifeInv, NEW b \in Bases, NEW fd \in Fds, dTable[b][fd] # NoSock
  PROVE  Tame(CloseReached(b, fd), ClosedNow(b, fd)) /\ Recs(ClosedNow(b, fd))
<1> DEFINE s == dTable[b][fd]
           C == CloseReached(b, fd)
<1>1. Recs(C) /\ s \in Socks
  BY ReachedAlone
<1>2. ClosedNow(b, fd) = (IF LastClose(b, fd) THEN CloseFinish(C, s) ELSE C)
  BY DEF ClosedNow
<1> HIDE DEF C, s
<1>3. Tame(C, ClosedNow(b, fd))
  BY <1>1, <1>2, TameFinish, TameRefl
<1> QED BY <1>3 DEF Tame, C

\* CloseSocket(), and a round of UL_Close()'s sweep.
LEMMA CloseOneOwned ==
  ASSUME LifeInv, LifeInv', OwnedOK(so, dTable, released), NEW t \in Tasks, NEW fd \in Fds,
         NEW op, NEW nbio, CloseOne(t, fd, op, nbio)
  PROVE  OwnedOK(so', dTable', released')
<1> DEFINE b == Home[t]
           C == CloseReached(b, fd)
<1>1. /\ b \in Bases /\ dTable[b][fd] # NoSock /\ released' = released
      /\ dTable' = [dTable EXCEPT ![b][fd] = NoSock]
  BY HomeAssumption DEF CloseOne, Sock, ClearFd
<1>2. SockInv(so')
  BY DEF LifeInv
<1>3. Tame(C, so')
  <2>1. CASE Lingers(b, fd, nbio)
    <3> DEFINE s == Sock(t, fd)
    <3>1. so' = [C EXCEPT ![s].slp = @ \cup {t}]
      BY <2>1 DEF CloseOne, LingerSleep
    <3>2. Recs(C)
      BY <1>1, ReachedAlone
    <3> HIDE DEF C, s
    <3> QED BY <3>1, <3>2, TameField
  <2>2. CASE ~Lingers(b, fd, nbio)
    <3>1. so' = ClosedNow(b, fd)
      BY <2>2 DEF CloseOne
    <3> QED BY <1>1, <3>1, ClosedNowTame
  <2> QED BY <2>1, <2>2
<1>4. OwnedOK(so', [dTable EXCEPT ![b][fd] = NoSock], released)
  BY <1>1, <1>2, <1>3, ClosedOwned
<1> QED BY <1>1, <1>4

LEMMA DupOwned ==
  ASSUME LifeInv, TableInv, LifeInv', OwnersSafe, OwnedOK(so, dTable, released),
         NEW t \in Tasks, NEW fd1 \in Fds \cup {NoFd}, NEW fd2 \in Fds, NEW nbio,
         DupIntoFree(t, fd1, fd2) \/ DupOver(t, fd1, fd2, nbio)
  PROVE  OwnedOK(so', dTable', released')
<1> DEFINE b == Home[t]
           s1 == SockOrNone(t, fd1)
           tab == [dTable EXCEPT ![b][fd2] = NoSock]
           usd == [used EXCEPT ![b] = @ \ {fd2}]
           C == CloseReached(b, fd2)
<1>1. /\ b \in Bases /\ SockInv(so) /\ SockInv(so') /\ Recs(so) /\ TablesTyped(dTable, released)
      /\ "dup" \in Uses /\ released' = released /\ SafeUses
  BY HomeAssumption, InvRecs DEF LifeInv, DupIntoFree, DupOver, OwnersSafe
<1>2. /\ s1 \in Socks \cup {NoSock} /\ (fd1 = NoFd => s1 = NoSock)
      /\ fd1 # NoFd => dTable[b][fd1] = s1
  BY SockOrNoneFacts DEF SockOrNone, Sock
<1>3. CASE DupIntoFree(t, fd1, fd2)
  <2>1. /\ DupInstall(b, so, dTable, used, s1, fd2)
        /\ (FreeFds(b) # {} /\ fd2 = SdFind(b)) \/ dTable[b][fd2] = NoSock
    BY <1>3 DEF DupIntoFree
  <2>2. dTable[b][fd2] = NoSock
    BY <1>1, <2>1, SdFindFree, FreeSlot
  <2> HIDE DEF b, s1
  <2> QED BY <1>1, <1>2, <2>1, <2>2, DupInstallOwned
<1>4. CASE DupOver(t, fd1, fd2, nbio)
  <2>1. /\ dTable[b][fd2] # NoSock /\ (LastClose(b, fd2) => NotBusy(dTable[b][fd2]))
    BY <1>4 DEF DupOver, Sock
  <2>2. CASE Lingers(b, fd2, nbio)
    <3> DEFINE s == Sock(t, fd2)
    <3>1. so' = [C EXCEPT ![s].slp = @ \cup {t}] /\ dTable' = tab
      BY <1>4, <2>2 DEF DupOver, LingerSleep
    <3>2. Recs(C)
      BY <1>1, <2>1, ReachedAlone
    <3>3. Tame(C, so')
      <4> HIDE DEF C, s
      <4> QED BY <3>1, <3>2, TameField
    <3> QED BY <1>1, <2>1, <3>1, <3>3, ClosedOwned
  <2>3. CASE ~Lingers(b, fd2, nbio)
    <3> DEFINE S == ClosedNow(b, fd2)
    <3>1. DupTail(b, S, tab, usd, fd1, s1, fd2)
      BY <1>4, <2>3 DEF DupOver
    <3>2. SockInv(S) /\ TablesTyped(tab, released)
      BY <1>1, <2>1, CloseNowOK DEF LifeOK
    <3>3. Tame(C, S) /\ Recs(S)
      BY <1>1, <2>1, ClosedNowTame
    <3>4. OwnedOK(S, tab, released)
      BY <1>1, <2>1, <3>2, <3>3, ClosedOwned
    <3> HIDE DEF S, tab, usd, s1, b
    <3> QED BY <1>1, <1>2, <3>1, <3>2, <3>3, <3>4, DupTailOwned
  <2> QED BY <2>2, <2>3
<1> QED BY <1>3, <1>4

\* The end of a close that slept.
LEMMA LingerOverOwned ==
  ASSUME LifeInv, TableInv, LifeInv', OwnersSafe, OwnedOK(so, dTable, released),
         NEW t \in Tasks, call[t].op \in CloseOps, call[t].op = "dup" => "dup" \in Uses,
         LingerOver(t)
  PROVE  OwnedOK(so', dTable', released')
<1> DEFINE s == call[t].so
           S == CloseFinish(so, s)
<1>1. /\ SockInv(so) /\ SockInv(so') /\ Recs(so) /\ TablesTyped(dTable, released)
      /\ released' = released /\ Home[t] \in Bases
  BY InvRecs, HomeAssumption DEF LifeInv, LingerOver
<1>2. LifeOK(so, dTable, released, call)
  BY LifeParts
<1>3. s \in Socks
  BY DEF LifeInv, CallsOK, CallOK, CloseOps
<1>4. SockInv(S)
  BY <1>2, LingerDone DEF LifeOK
<1>5. Tame(so, S) /\ Recs(S)
  BY <1>1, <1>3, TameFinish DEF Tame
<1>6. OwnedOK(S, dTable, released)
  BY <1>4, <1>5, TameOwned
<1>7. CASE call[t].op # "dup"
  BY <1>1, <1>6, <1>7 DEF LingerOver
<1>8. CASE call[t].op = "dup"
  <2>1. DupTail(Home[t], S, dTable, used, call[t].fd1, call[t].so1, call[t].fd)
    BY <1>8 DEF LingerOver
  <2>2. /\ call[t].fd1 \in Fds \cup {NoFd} /\ call[t].so1 \in Socks \cup {NoSock}
        /\ call[t].fd1 = NoFd => call[t].so1 = NoSock
    BY <1>8 DEF LifeInv, CallsOK, CallOK
  <2>3. call[t].fd \in Fds
    BY <1>8 DEF TableInv, DupTargets
  <2> HIDE DEF S
  <2> QED BY <1>1, <1>5, <1>6, <1>8, <2>1, <2>2, <2>3, DupTailOwned
<1> QED BY <1>7, <1>8

LEMMA LingerOwned ==
  ASSUME LifeInv, TableInv, LifeInv', OwnersSafe, OwnedOK(so, dTable, released),
         NEW t \in Tasks, call[t].op = "dup" => "dup" \in Uses,
         LingerResume(t) \/ LingerExpires(t)
  PROVE  OwnedOK(so', dTable', released')
<1>1. call[t].op \in CloseOps
  BY DEF LingerResume, LingerExpires, Awake, Asleep
<1>2. CASE LingerOver(t)
  BY <1>1, <1>2, LingerOverOwned
<1>3. CASE /\ so' = [so EXCEPT ![call[t].so].slp = @ \cup {t}]
           /\ UNCHANGED <<dTable, released>>
  <2>1. Tame(so, so') /\ SockInv(so')
    BY <1>3, InvRecs, TameField DEF LifeInv
  <2> QED BY <1>3, <2>1, TameOwned
<1> QED BY <1>2, <1>3 DEF LingerResume, LingerExpires

-----------------------------------------------------------------------------
(* New sockets, and sockets that change hands.                             *)

\* A slot is given to a socket that had no place; the owner is the table's base.
LEMMA GivenOwned ==
  ASSUME LifeInv, LifeInv', OwnedOK(so, dTable, released), NEW b, NEW fd, NEW c \in Socks,
         so[c].ref = 0, Gained(dTable, dTable', b, fd, c), released' = released,
         \A x \in Socks : x # c => Loose(so, so', x) /\ so'[x].acc = so[x].acc,
         so'[c].head = NoSock, ~so'[c].acc, so'[c].pgid = b
  PROVE  OwnedOK(so', dTable', released')
<1>1. /\ TablesTyped(dTable, released) /\ RefsExact(so, dTable, released) /\ SockInv(so')
      /\ OwnerHolds(so, dTable)
  BY DEF LifeInv, OwnedOK
<1>2. ASSUME NEW x \in Socks, so'[x].head = c PROVE FALSE
  <2>1. so'[x].head # NoSock
    BY <1>2, NullAssumption
  <2>2. so'[so'[x].head].acc
    BY <1>1, <2>1, QueuedFacts
  <2> QED BY <1>2, <2>2
<1>3. Named(dTable', so'[c].pgid, c)
      /\ \A a, x : x \in Socks /\ x # c /\ Named(dTable, a, x) => Named(dTable', a, x)
  BY DEF Gained
<1>4. OwnerHolds(so', dTable')
  BY <1>1, <1>2, <1>3, OwnerChanges
<1>5. CASE "listen" \in Uses
  <2>1. SlotsOf(dTable, c) = {} /\ NodesOf(released, c) = {} /\ OnePlace(dTable, released)
    BY <1>1, <1>5, NoPlace DEF OwnedOK, Placed
  <2>2. OnePlace(dTable', released)
    BY <2>1, PlaceGiven
  <2> QED BY <1>4, <1>5, <2>2 DEF OwnedOK, Placed
<1>6. CASE "listen" \notin Uses
  BY <1>4, <1>6 DEF OwnedOK, Placed
<1> QED BY <1>5, <1>6

LEMMA SocketOwned ==
  ASSUME LifeInv, TableInv, LifeInv', SafeUses, OwnedOK(so, dTable, released),
         NEW t \in Tasks, Socket(t)
  PROVE  OwnedOK(so', dTable', released')
<1> DEFINE b == Home[t]
           fd == SdFind(b)
           r1 == [FreeSock EXCEPT !.alive = TRUE, !.tp = "CLOSED", !.ref = 1, !.pgid = b]
<1>1. PICK s \in Socks : ~so[s].alive /\ so' = [so EXCEPT ![s] = r1] /\ SetFd(b, fd, s)
  BY DEF Socket, FdCbFails, SafeUses
<1>2. /\ b \in Bases /\ fd \in Fds /\ dTable[b][fd] = NoSock /\ released' = released
      /\ dTable' = [dTable EXCEPT ![b][fd] = s]
  BY <1>1, HomeAssumption, SdFindFree, FreeSlot DEF Socket, SetFd
<1>3. so[s] = FreeSock /\ so[s].ref = 0 /\ DOMAIN so = Socks
  BY <1>1 DEF LifeInv, SockInv, RecOK, FreeSock
<1>4. r1.head = NoSock /\ ~r1.acc /\ r1.pgid = b
  BY DEF FreeSock
<1> HIDE DEF b, fd, r1
<1>5. so'[s] = r1 /\ \A x \in Socks : x # s => so'[x] = so[x]
  BY <1>1, <1>3
<1>6. \A x \in Socks : x # s => Loose(so, so', x) /\ so'[x].acc = so[x].acc
  BY <1>5 DEF Loose
<1>7. Gained(dTable, dTable', b, fd, s)
  BY <1>2, FilledSlots DEF LifeInv
<1> QED BY <1>2, <1>3, <1>4, <1>5, <1>6, <1>7, GivenOwned

\* accept takes a connection off the queue.
LEMMA TakeOwned ==
  ASSUME LifeInv, LifeInv', SafeUses, OwnedOK(so, dTable, released), NEW b \in Bases,
         NEW fd \in Fds, dTable[b][fd] = NoSock, NEW s \in Socks, so[s].q # <<>>,
         TakeConnection(b, s, fd), released' = released
  PROVE  OwnedOK(so', dTable', released')
<1> DEFINE c == so[s].q[1]
           R == SoQRemque(so, c)
           h == so[c].head
<1>1. /\ so' = [R EXCEPT ![c].ref = 1, ![c].pgid = b, ![c].state = @ \ {"NOFDREF"}]
      /\ dTable' = [dTable EXCEPT ![b][fd] = c]
  BY DEF TakeConnection, Dry, SafeUses, SetFd
<1>2. SockInv(so) /\ Recs(so) /\ RecOK(so[s])
  BY InvRecs DEF LifeInv, SockInv
<1>3. c \in Socks /\ c \in Kids(so[s])
  <2>1. so[s].q \in Seq(Socks)
    BY <1>2 DEF RecOK, QueuesOK
  <2>2. 1 \in DOMAIN so[s].q
    BY <2>1
  <2> QED BY <2>1, <2>2 DEF Kids, Elems
<1>4. so[c].head = s /\ so[c].head # NoSock
  BY <1>2, <1>3, NullAssumption DEF SockInv, Linked
<1>5. so[c].ref = 0 /\ ~so[c].acc /\ h \in Socks /\ h # c
  BY <1>2, <1>3, <1>4, QueuedFacts DEF Waiting
<1>6. R = [so EXCEPT ![h].q0 = Without(@, c), ![h].q = Without(@, c), ![c].head = NoSock]
  BY DEF SoQRemque
<1> HIDE DEF R, c, h
<1>7. /\ DOMAIN R = Socks /\ R[c].head = NoSock /\ R[c].acc = so[c].acc
      /\ DOMAIN R[c] = SockFields
      /\ \A x \in Socks : x # c => R[x].pgid = so[x].pgid /\ R[x].head = so[x].head
                                   /\ R[x].acc = so[x].acc
  BY <1>2, <1>3, <1>5, <1>6 DEF Recs, SockFields
<1>8. /\ so'[c].head = NoSock /\ ~so'[c].acc /\ so'[c].pgid = b
      /\ \A x \in Socks : x # c => so'[x] = R[x]
  BY <1>1, <1>3, <1>5, <1>7 DEF SockFields
<1>9. \A x \in Socks : x # c => Loose(so, so', x) /\ so'[x].acc = so[x].acc
  BY <1>7, <1>8 DEF Loose
<1>10. Gained(dTable, dTable', b, fd, c)
  BY <1>1, <1>3, FilledSlots DEF LifeInv
<1> QED BY <1>3, <1>5, <1>8, <1>9, <1>10, GivenOwned

LEMMA AcceptTailOwned ==
  ASSUME LifeInv, TableInv, LifeInv', SafeUses, OwnedOK(so, dTable, released),
         NEW t \in Tasks, NEW s \in Socks, AcceptTail(t, s), released' = released
  PROVE  OwnedOK(so', dTable', released')
<1> DEFINE b == Home[t]
           fd == SdFind(b)
<1>1. b \in Bases /\ SockInv(so') /\ Recs(so)
  BY HomeAssumption, InvRecs DEF LifeInv
<1>2. CASE so' = [so EXCEPT ![s].err = FALSE] /\ UNCHANGED <<dTable, used, panicked>>
  BY <1>1, <1>2, TameField, TameOwned
<1>3. CASE UNCHANGED <<so, dTable, used, panicked>>
  BY <1>3
<1>4. CASE so[s].q # <<>> /\ FreeFds(b) # {} /\ TakeConnection(b, s, fd)
  <2>1. fd \in Fds /\ dTable[b][fd] = NoSock
    BY <1>1, <1>4, SdFindFree, FreeSlot
  <2> HIDE DEF b, fd
  <2> QED BY <1>1, <1>4, <2>1, TakeOwned
<1> QED BY <1>2, <1>3, <1>4 DEF AcceptTail

LEMMA AcceptOwned ==
  ASSUME LifeInv, TableInv, LifeInv', SafeUses, OwnedOK(so, dTable, released),
         NEW t \in Tasks, (\E fd \in Fds : Accept(t, fd)) \/ AcceptResume(t)
  PROVE  OwnedOK(so', dTable', released')
<1>1. PICK s \in Socks :
        /\ released' = released
        /\ \/ so' = [so EXCEPT ![s].slp = @ \cup {t}] /\ UNCHANGED dTable
           \/ AcceptTail(t, s)
  <2>1. CASE AcceptResume(t)
    <3>1. call[t].so \in Socks
      BY <2>1, WaiterFacts DEF AcceptResume, Awake, WaitOps
    <3> QED BY <2>1, <3>1 DEF AcceptResume
  <2>2. ASSUME NEW fd \in Fds, Accept(t, fd)
        PROVE  \E s \in Socks :
                 /\ released' = released
                 /\ \/ so' = [so EXCEPT ![s].slp = @ \cup {t}] /\ UNCHANGED dTable
                    \/ AcceptTail(t, s)
    <3>1. Sock(t, fd) \in Socks
      BY <2>2, HomeAssumption, SlotHeld DEF Accept, Sock
    <3> QED BY <2>2, <3>1 DEF Accept
  <2> QED BY <2>1, <2>2
<1>2. CASE so' = [so EXCEPT ![s].slp = @ \cup {t}] /\ UNCHANGED dTable
  <2>1. Tame(so, so') /\ SockInv(so')
    BY <1>2, InvRecs, TameField DEF LifeInv
  <2> QED BY <1>1, <1>2, <2>1, TameOwned
<1>3. CASE AcceptTail(t, s)
  BY <1>1, <1>3, AcceptTailOwned
<1> QED BY <1>1, <1>2, <1>3

\* sonewconn(): the connection inherits its listener's owner and place in no table.
LEMMA NewConnOwned ==
  ASSUME LifeInv, LifeInv', OwnedOK(so, dTable, released), NEW h \in Socks, NewConn(h)
  PROVE  OwnedOK(so', dTable', released')
<1>1. PICK s \in Socks :
        /\ ~so[s].alive
        /\ so' = [so EXCEPT
             ![s] = [FreeSock EXCEPT
                       !.alive = TRUE, !.tp = "SYN", !.head = h,
                       !.state = so[h].state \cup {"NOFDREF"},
                       !.linger = IF so[h].linger = "off" THEN "off" ELSE "timed",
                       !.pgid = so[h].pgid],
             ![h].q0 = Append(@, s)]
  BY DEF NewConn
<1>2. /\ h # s /\ so[h].acc /\ UNCHANGED <<dTable, released>>
      /\ SockInv(so') /\ Recs(so) /\ OwnerHolds(so, dTable)
  BY <1>1, InvRecs DEF NewConn, tableVars, LifeInv, OwnedOK
<1> DEFINE r1 == [FreeSock EXCEPT
                    !.alive = TRUE, !.tp = "SYN", !.head = h,
                    !.state = so[h].state \cup {"NOFDREF"},
                    !.linger = IF so[h].linger = "off" THEN "off" ELSE "timed",
                    !.pgid = so[h].pgid]
           g1 == [so[h] EXCEPT !.q0 = Append(@, s)]
<1>3. /\ so'[s] = r1 /\ so'[h] = g1
      /\ \A x \in Socks : x # s /\ x # h => so'[x] = so[x]
  BY <1>1, <1>2 DEF Recs
<1>4. r1.head = h /\ r1.pgid = so[h].pgid /\ g1.pgid = so[h].pgid /\ g1.head = so[h].head
  BY <1>2 DEF FreeSock, Recs, SockFields
<1> HIDE DEF r1, g1
<1>5. \A x \in Socks : x # s => Loose(so, so', x)
  BY <1>3, <1>4 DEF Loose
<1>6. so'[s].head = h /\ so'[s].pgid = so'[h].pgid
  BY <1>3, <1>4
<1>7. OwnerHolds(so', dTable)
  BY <1>2, <1>5, <1>6, NewConnOwners
<1>8. "listen" \in Uses /\ OnePlace(dTable, released)
  BY <1>2 DEF OwnedOK, Placed
<1> QED BY <1>2, <1>7, <1>8 DEF OwnedOK, Placed

\* FIOSETOWN names the caller's own base, in whose table the socket stands.
LEMMA SetOwnerOwned ==
  ASSUME LifeInv, LifeInv', OwnersSafe, OwnedOK(so, dTable, released), NEW t \in Tasks,
         NEW fd \in Fds, NEW b \in Bases, SetOwner(t, fd, b)
  PROVE  OwnedOK(so', dTable', released')
<1> DEFINE s == dTable[Home[t]][fd]
<1>1. /\ s # NoSock /\ b = Home[t] /\ so' = [so EXCEPT ![s].pgid = b]
      /\ UNCHANGED <<dTable, released>>
  BY DEF SetOwner, Sock, OwnersSafe, tableVars
<1>2. s \in Socks /\ Held(so[s])
  BY <1>1, SlotHeld
<1>3. SockInv(so') /\ Recs(so) /\ OwnerHolds(so, dTable)
  BY InvRecs DEF LifeInv, OwnedOK
<1>4. Named(dTable, b, s) /\ <<b, fd>> \in SlotsOf(dTable, s)
  BY <1>1 DEF Named, SlotsOf
<1> HIDE DEF s
<1>5. /\ so'[s].pgid = b /\ so'[s].head = so[s].head
      /\ \A x \in Socks : so'[x].acc = so[x].acc
      /\ \A x \in Socks : x # s => so'[x] = so[x]
  BY <1>1, <1>2, <1>3 DEF Recs, SockFields
<1>6. so'[s].head = NoSock /\ so[s].head = NoSock
  BY <1>2, <1>5 DEF Held
<1>7. ASSUME NEW x \in Socks, so'[x].head = s, so'[x].pgid # NoBase PROVE so'[x].pgid = so'[s].pgid
  <2>1. x # s /\ so'[x].head # NoSock
    BY <1>2, <1>6, <1>7, NullAssumption
  <2>2. so'[so'[x].head].acc
    BY <1>3, <2>1, QueuedFacts
  <2>3. so[s].acc /\ so[x].head = s /\ so[x].pgid # NoBase /\ so'[x].pgid = so[x].pgid
    <3>1. so'[x] = so[x]
      BY <1>5, <2>1
    <3>2. so'[s].acc
      BY <1>7, <2>2
    <3>3. so[s].acc
      BY <1>2, <1>5, <3>2
    <3> QED BY <1>7, <3>1, <3>3
  <2>4. so[s].pgid = so[x].pgid
    <3>1. so[x].head # NoSock
      BY <1>2, <2>3, NullAssumption
    <3> QED BY <1>3, <2>3, <3>1 DEF OwnerHolds
  <2>5. Named(dTable, so[s].pgid, s)
    BY <1>2, <1>3, <1>6, <2>3, <2>4 DEF OwnerHolds
  <2>6. PICK g \in Fds : <<so[s].pgid, g>> \in SlotsOf(dTable, s)
    BY <2>5 DEF Named, SlotsOf
  <2>7. OnePlace(dTable, released)
    BY <1>2, <2>3 DEF OwnedOK, Placed
  <2>8. so[s].pgid = b
    <3> DEFINE p == <<so[s].pgid, g>>
               q == <<b, fd>>
    <3>1. p \in SlotsOf(dTable, s) /\ q \in SlotsOf(dTable, s)
      BY <1>4, <2>6
    <3>2. p[1] = so[s].pgid /\ q[1] = b
      OBVIOUS
    <3> HIDE DEF p, q
    <3> QED BY <1>2, <2>7, <3>1, <3>2 DEF OnePlace
  <2> QED BY <1>5, <2>3, <2>4, <2>8
<1>8. \A x \in Socks : x # s => Loose(so, so', x)
  BY <1>5 DEF Loose
<1>9. so'[s].pgid # NoBase => Named(dTable, so'[s].pgid, s)
  BY <1>4, <1>5
<1>10. OwnerHolds(so', dTable)
  BY <1>2, <1>3, <1>6, <1>7, <1>8, <1>9, OwnerChanges
<1>11. Placed(so', dTable, released)
  BY <1>5 DEF OwnedOK, Placed
<1> QED BY <1>1, <1>10, <1>11 DEF OwnedOK

\* listen() makes a listener, of the same owner.
LEMMA ListenOwned ==
  ASSUME LifeInv, LifeInv', OwnedOK(so, dTable, released), NEW t \in Tasks, NEW fd \in Fds,
         Listen(t, fd)
  PROVE  OwnedOK(so', dTable', released')
<1> DEFINE s == Sock(t, fd)
<1>1. /\ so' = [so EXCEPT ![s].tp = "LISTEN", ![s].acc = @ \/ so[s].q = <<>>]
      /\ UNCHANGED <<dTable, released>> /\ "listen" \in Uses
  BY DEF Listen, tableVars
<1> HIDE DEF s
<1>2. SockInv(so') /\ Recs(so) /\ OwnerHolds(so, dTable)
  BY InvRecs DEF LifeInv, OwnedOK
<1>3. \A x \in Socks : so'[x].pgid = so[x].pgid /\ so'[x].head = so[x].head
  BY <1>1, <1>2 DEF Recs, SockFields
<1>4. OwnerHolds(so', dTable)
  BY <1>2, <1>3, LooseOwners DEF Loose
<1> QED BY <1>1, <1>4 DEF OwnedOK, Placed

\* ReleaseSocket(): the only reference of the socket moves to the list; a listener's
\* queued connections lose the owner with it.
LEMMA ReleaseOwned ==
  ASSUME LifeInv, LifeInv', OwnersSafe, OwnedOK(so, dTable, released), NEW t \in Tasks,
         NEW fd \in Fds, NEW id \in Ids, ReleaseSocket(t, fd, id)
  PROVE  OwnedOK(so', dTable', released')
<1> DEFINE b == Home[t]
           s == dTable[b][fd]
           n == [id |-> id, so |-> s]
           mine == so[s].pgid = b /\ CountSockets(b, s) = 1
           kids == IF so[s].acc THEN Elems(so[s].q0) \cup Elems(so[s].q) ELSE {}
<1>1. /\ b \in Bases /\ s # NoSock /\ "release" \in Uses
      /\ dTable' = [dTable EXCEPT ![b][fd] = NoSock] /\ released' = Append(released, n)
      /\ so' = IF mine THEN Orphaned(so, s, b) ELSE so
  BY HomeAssumption DEF ReleaseSocket, Sock, ClearFd
<1>2. s \in Socks /\ Held(so[s]) /\ dTable[b][fd] = s
  BY <1>1, SlotHeld
<1>3. n \in Node /\ n.so = s
  BY <1>2 DEF Node
<1>4. /\ SockInv(so') /\ SockInv(so) /\ Recs(so) /\ OwnerHolds(so, dTable)
      /\ TablesTyped(dTable, released) /\ released \in Seq(Node)
  BY InvRecs DEF LifeInv, OwnedOK, TablesTyped, Node
<1>5. CountSockets(b, s) = 1 <=> \A g \in Fds : dTable[b][g] = s => g = fd
  BY <1>1, OneSocket
<1>6. Orphaned(so, s, b) = [x \in Socks |-> IF x \in kids \cup {s} /\ so[x].pgid = b
                              THEN [so[x] EXCEPT !.pgid = NoBase] ELSE so[x]]
  BY DEF Orphaned
<1> HIDE DEF n, s, b, kids
<1>7. \A x \in Socks :
        /\ so'[x].head = so[x].head /\ so'[x].acc = so[x].acc
        /\ so'[x].pgid = (IF mine /\ x \in kids \cup {s} /\ so[x].pgid = b THEN NoBase
                          ELSE so[x].pgid)
  BY <1>1, <1>4, <1>6 DEF Recs, SockFields
<1>8. Lost(dTable, dTable', b, fd, s)
  BY <1>1, <1>2, <1>4, ClearedSlots
<1>9. OwnerHolds(so', dTable')
  <2> SUFFICES ASSUME NEW x \in Socks, so'[x].pgid # NoBase
               PROVE  IF so'[x].head = NoSock THEN Named(dTable', so'[x].pgid, x)
                      ELSE so'[so'[x].head].pgid = so'[x].pgid
    BY DEF OwnerHolds
  <2>1. so'[x].pgid = so[x].pgid /\ so'[x].head = so[x].head
    BY <1>7
  <2>2. CASE so[x].head = NoSock
    <3>1. Named(dTable, so[x].pgid, x)
      BY <1>4, <2>1, <2>2 DEF OwnerHolds
    <3>2. CASE x # s \/ so[x].pgid # b
      BY <1>8, <2>1, <2>2, <3>1, <3>2 DEF Lost
    <3>3. CASE x = s /\ so[x].pgid = b
      <4>1. ~mine
        BY <1>7, <2>1, <3>3
      <4>2. PICK g \in Fds : dTable[b][g] = s /\ g # fd
        BY <1>5, <3>3, <4>1
      <4>3. dTable'[b][g] = s
        BY <1>8, <4>2 DEF Lost
      <4> QED BY <1>1, <2>1, <2>2, <3>3, <4>3 DEF Named
    <3> QED BY <3>2, <3>3
  <2>3. CASE so[x].head # NoSock
    <3> DEFINE h == so[x].head
    <3>1. so[h].pgid = so[x].pgid
      BY <1>4, <2>1, <2>3 DEF OwnerHolds
    <3>2. h \in Socks /\ so[h].acc /\ x \in Kids(so[h])
      BY <1>4, <2>3, QueuedFacts
    <3>3. so[h].head = NoSock
      BY <1>4, <3>2, LiveFacts DEF Held, Ending
    <3> HIDE DEF h
    <3>4. h = s => x \in kids
      BY <3>2 DEF kids, Kids
    <3>5. h # s => h \notin kids
      BY <1>2, <1>4, <3>3, NullAssumption DEF kids, SockInv, Linked, Kids
    <3>6. so'[h].pgid = so[h].pgid
      BY <1>7, <2>1, <3>1, <3>2, <3>4, <3>5
    <3> QED BY <2>1, <2>3, <3>1, <3>6 DEF h
  <2> QED BY <2>2, <2>3
<1>10. CASE "listen" \notin Uses
  BY <1>7, <1>9, <1>10 DEF OwnedOK, Placed
<1>11. CASE "listen" \in Uses
  <2>1. OnePlace(dTable, released)
    BY <1>11 DEF OwnedOK, Placed
  <2>2. OnePlace(dTable', released)
    BY <1>8, <2>1, PlaceCleared DEF Lost
  <2> DEFINE p == <<b, fd>>
  <2>3. p \in SlotsOf(dTable, s)
    BY <1>1, <1>2 DEF SlotsOf
  <2>4. SlotsOf(dTable', s) = SlotsOf(dTable, s) \ {p}
    BY <1>8 DEF Lost
  <2> HIDE DEF p
  <2>5. NodesOf(released, s) = {} /\ \A q \in SlotsOf(dTable, s) : q = p
    BY <1>1, <1>2, <2>1, <2>3 DEF OnePlace
  <2>6. SlotsOf(dTable', s) = {}
    BY <2>4, <2>5
  <2>7. OnePlace(dTable', Append(released, n))
    BY <1>1, <1>3, <1>4, <2>2, <2>5, <2>6, PlaceNoded
  <2> QED BY <1>1, <1>9, <1>11, <2>7 DEF OwnedOK, Placed
<1> QED BY <1>10, <1>11

\* ReleaseCopyOfSocket(): not of listeners.
LEMMA ReleaseCopyOwned ==
  ASSUME LifeInv, LifeInv', OwnersSafe, OwnedOK(so, dTable, released), NEW t \in Tasks,
         NEW fd \in Fds, NEW id \in Ids, ReleaseCopyOfSocket(t, fd, id)
  PROVE  OwnedOK(so', dTable', released')
<1> DEFINE s == Sock(t, fd)
<1>1. so' = [so EXCEPT ![s].ref = @ + 1] /\ dTable' = dTable /\ "copy" \in Uses
  BY DEF ReleaseCopyOfSocket, CopyReference
<1> HIDE DEF s
<1>2. SockInv(so') /\ Recs(so)
  BY InvRecs DEF LifeInv
<1>3. Tame(so, so')
  BY <1>1, <1>2, TameField
<1>4. OwnedOK(so', dTable, released)
  BY <1>2, <1>3, TameOwned
<1> QED BY <1>1, <1>4 DEF OwnersSafe, OwnedOK, Placed

\* ObtainSocket(): the owner stays as it is.
LEMMA ObtainOwned ==
  ASSUME LifeInv, TableInv, LifeInv', OwnedOK(so, dTable, released), NEW t \in Tasks,
         NEW id \in Ids, ObtainSocket(t, id)
  PROVE  OwnedOK(so', dTable', released')
<1> DEFINE b == Home[t]
           fd == SdFind(b)
<1>1. PICK i \in DOMAIN released : SetFd(b, fd, released[i].so)
                                   /\ released' = RemoveAt(released, i)
  BY DEF ObtainSocket
<1> DEFINE s == released[i].so
<1>2. /\ b \in Bases /\ fd \in Fds /\ dTable[b][fd] = NoSock /\ so' = so
      /\ dTable' = [dTable EXCEPT ![b][fd] = s]
  BY <1>1, HomeAssumption, SdFindFree, FreeSlot DEF ObtainSocket, SetFd
<1>3. s \in Socks /\ released \in Seq(Node)
  BY NodeHeld
<1>4. Cuts(released, released', i)
  BY <1>1, <1>3, RemoveAtProps DEF Cuts
<1>5. TablesTyped(dTable, released) /\ OwnerHolds(so, dTable) /\ SockInv(so)
  BY DEF LifeInv, OwnedOK
<1>6. s = released[i].so
  OBVIOUS
<1> HIDE DEF s, b, fd
<1>7. Gained(dTable, dTable', b, fd, s)
  BY <1>2, <1>3, <1>5, FilledSlots
<1>8. OwnerHolds(so', dTable')
  BY <1>2, <1>5, <1>7, LooseOwners DEF Gained, Loose
<1>9. CASE "listen" \notin Uses
  BY <1>2, <1>8, <1>9 DEF OwnedOK, Placed
<1>10. CASE "listen" \in Uses
  <2>1. OnePlace(dTable, released)
    BY <1>10 DEF OwnedOK, Placed
  <2>2. /\ OnePlace(dTable, released') /\ NodesOf(released', s) = {} /\ SlotsOf(dTable, s) = {}
    BY <1>3, <1>4, <1>6, <2>1, PlaceCut
  <2>3. OnePlace(dTable', released')
    BY <1>3, <1>7, <2>2, PlaceGiven
  <2> QED BY <1>8, <1>10, <2>3 DEF OwnedOK, Placed
<1> QED BY <1>9, <1>10

\* reapReleasedSockets().
LEMMA ReapOwned ==
  ASSUME LifeInv, LifeInv', OwnedOK(so, dTable, released), Reap
  PROVE  OwnedOK(so', dTable', released')
<1> DEFINE s == Head(released).so
           D == [so EXCEPT ![s].ref = @ - 1]
           C == CloseStart(D, s)
           F == CloseFinish(C, s)
<1>1. /\ released # <<>> /\ dTable' = dTable /\ so' \in {F, D} /\ released' = Tail(released)
  BY DEF Reap
<1>2. released \in Seq(Node) /\ SockInv(so') /\ Recs(so)
  BY InvRecs DEF LifeInv, TablesTyped, Node
<1>3. 1 \in DOMAIN released /\ Cuts(released, released', 1) /\ s = released[1].so
  BY <1>1, <1>2, TailCuts DEF Cuts
<1>4. s \in Socks
  BY <1>3, NodeHeld
<1> HIDE DEF s
<1>5. Tame(so, D) /\ Recs(D)
  BY <1>2, TameField DEF Tame
<1> HIDE DEF D
<1>6. Tame(D, C) /\ Recs(C)
  BY <1>4, <1>5, TameStart DEF Tame
<1> HIDE DEF C
<1>7. Tame(C, F)
  BY <1>4, <1>6, TameFinish
<1> HIDE DEF F
<1>8. Tame(so, so')
  BY <1>1, <1>5, <1>6, <1>7, TameTrans
<1>9. OwnedOK(so', dTable, released)
  BY <1>2, <1>8, TameOwned
<1>10. OnePlace(dTable, released) => OnePlace(dTable, released')
  BY <1>2, <1>3, PlaceCut
<1> QED BY <1>1, <1>9, <1>10 DEF OwnedOK, Placed

-----------------------------------------------------------------------------
(* Steps that leave owners and places alone.                               *)

LEMMA SetupTame ==
  ASSUME LifeInv, NEW t \in Tasks, NEW fd \in Fds,
         \/ \E l \in {"off", "zero", "timed"} : SetLinger(t, fd, l)
         \/ ShutdownRcv(t, fd) \/ ShutdownSnd(t, fd) \/ ConnectRefused(t, fd)
  PROVE  Tame(so, so') /\ UNCHANGED <<dTable, released>>
<1> DEFINE s == Sock(t, fd)
<1>1. Recs(so) /\ s \in Socks /\ UNCHANGED <<dTable, released>>
  BY HomeAssumption, SlotHeld, InvRecs
     DEF LifeInv, SetLinger, ShutdownRcv, ShutdownSnd, ConnectRefused, Sock, tableVars
<1>2. \/ \E l \in {"off", "zero", "timed"} : so' = [so EXCEPT ![s].linger = l]
      \/ so' = [SoCantRcvMore(so, s) EXCEPT ![s].cc = FALSE]
      \/ so' = TcpUsrClosed(so, s)
      \/ so' = [so EXCEPT ![s].state = @ \ {"ISCONNECTING"}]
  BY DEF SetLinger, ShutdownRcv, ShutdownSnd, ConnectRefused
<1> HIDE DEF s
<1>3. CASE so' = [SoCantRcvMore(so, s) EXCEPT ![s].cc = FALSE]
  <2> DEFINE V == SoCantRcvMore(so, s)
  <2>1. Tame(so, V) /\ Recs(V) /\ so' = [V EXCEPT ![s].cc = FALSE]
    BY <1>1, <1>3, TameFlags DEF Tame
  <2> HIDE DEF V
  <2>2. Recs(V) => Tame(V, [V EXCEPT ![s].cc = FALSE])
    BY TameField
  <2>3. Tame(V, so')
    BY <2>1, <2>2
  <2> QED BY <1>1, <2>1, <2>3, TameTrans
<1>4. CASE so' = TcpUsrClosed(so, s)
  BY <1>1, <1>4, TameUsrClosed
<1>5. CASE \/ \E l \in {"off", "zero", "timed"} : so' = [so EXCEPT ![s].linger = l]
           \/ so' = [so EXCEPT ![s].state = @ \ {"ISCONNECTING"}]
  <2>1. /\ \A l : Tame(so, [so EXCEPT ![s].linger = l])
        /\ Tame(so, [so EXCEPT ![s].state = @ \ {"ISCONNECTING"}])
    <3>1. ASSUME NEW l PROVE Tame(so, [so EXCEPT ![s].linger = l])
      BY <1>1, TameField
    <3>2. Tame(so, [so EXCEPT ![s].state = @ \ {"ISCONNECTING"}])
      BY <1>1, TameField
    <3> QED BY <3>1, <3>2
  <2> QED BY <1>1, <1>5, <2>1
<1>6. Tame(so, so')
  BY <1>2, <1>3, <1>4, <1>5
<1> QED BY <1>1, <1>6

LEMMA ConnectTame ==
  ASSUME LifeInv, NEW t \in Tasks,
         (\E fd \in Fds, nbio \in BOOLEAN : Connect(t, fd, nbio)) \/ ConnectResume(t)
  PROVE  Tame(so, so') /\ UNCHANGED <<dTable, released>>
<1>1. UNCHANGED <<dTable, released>> /\ Recs(so)
  BY InvRecs DEF Connect, ConnectResume, tableVars, LifeInv
<1>2. ASSUME NEW S, Recs(S), NEW s PROVE Tame(S, ConnectDone(S, s))
  BY <1>2 DEF ConnectDone, Tame, Recs, SameOwner, SockFields
<1>3. ASSUME NEW fd \in Fds, NEW nbio, Connect(t, fd, nbio) PROVE Tame(so, so')
  <2> DEFINE s  == Sock(t, fd)
             V  == SoIsConnecting(so, s)
             S1 == [V EXCEPT ![s].tp = "SYN"]
  <2>1. s \in Socks
    BY <1>3, HomeAssumption, SlotHeld DEF Connect, Sock
  <2>2. so' = S1 \/ so' = ConnectDone(S1, s) \/ so' = [S1 EXCEPT ![s].slp = @ \cup {t}]
    BY <1>3 DEF Connect
  <2> HIDE DEF s
  <2>3. Tame(so, V) /\ Recs(V)
    BY <1>1, <2>1, TameFlags DEF Tame
  <2> HIDE DEF V
  <2>4. Tame(V, S1) /\ Recs(S1)
    BY <2>3, TameField DEF Tame
  <2> HIDE DEF S1
  <2>5. Tame(so, S1)
    BY <2>3, <2>4, TameTrans
  <2>6. Tame(S1, S1) /\ Tame(S1, ConnectDone(S1, s))
        /\ Tame(S1, [S1 EXCEPT ![s].slp = @ \cup {t}])
    BY <1>2, <2>4, TameField, TameRefl
  <2>7. Tame(S1, so')
    BY <2>2, <2>6
  <2> QED BY <2>5, <2>7, TameTrans
<1>4. CASE ConnectResume(t)
  <2> DEFINE s == call[t].so
  <2>1. so' = [so EXCEPT ![s].slp = @ \cup {t}] \/ so' = ConnectDone(so, s)
    BY <1>4 DEF ConnectResume
  <2> HIDE DEF s
  <2>2. Tame(so, [so EXCEPT ![s].slp = @ \cup {t}])
    BY <1>1, TameField
  <2>3. Tame(so, ConnectDone(so, s))
    BY <1>1, <1>2
  <2> QED BY <1>1, <2>1, <2>2, <2>3
<1> QED BY <1>1, <1>3, <1>4

LEMMA RecvTame ==
  ASSUME LifeInv, NEW t \in Tasks,
         (\E fd \in Fds : Recv(t, fd)) \/ RecvResume(t) \/ Interrupted(t)
  PROVE  Tame(so, so') /\ UNCHANGED <<dTable, released>>
<1>1. UNCHANGED <<dTable, released>> /\ Recs(so)
  BY InvRecs DEF Recv, RecvResume, Interrupted, tableVars, LifeInv
<1>2. ASSUME NEW s PROVE Tame(so, RecvTaken(so, s))
  BY <1>1, TameField DEF RecvTaken
<1>3. ASSUME NEW s
      PROVE  /\ Tame(so, Unslept(t, s))
             /\ Tame(so, [Unslept(t, s) EXCEPT ![s].state = @ \ {"ISCONNECTING"}])
  <2> DEFINE V == [so EXCEPT ![s].slp = @ \ {t}]
             U == [V EXCEPT ![s].rslp = @ \ {t}]
             W == [U EXCEPT ![s].state = @ \ {"ISCONNECTING"}]
  <2>1. Unslept(t, s) = U
    BY DEF Unslept
  <2>2. Tame(so, V) /\ Recs(V)
    BY <1>1, TameField DEF Tame
  <2> HIDE DEF V
  <2>3. Tame(V, U) /\ Recs(U)
    BY <2>2, TameField DEF Tame
  <2> HIDE DEF U
  <2>4. Tame(U, W)
    BY <2>3, TameField
  <2> HIDE DEF W
  <2>5. Tame(so, U) /\ Tame(so, W)
    BY <2>2, <2>3, <2>4, TameTrans
  <2> QED BY <2>1, <2>5 DEF W
<1>4. ASSUME NEW fd \in Fds, Recv(t, fd) PROVE Tame(so, so')
  <2> DEFINE s == Sock(t, fd)
  <2>1. so' = [so EXCEPT ![s].rslp = @ \cup {t}] \/ so' = RecvTaken(so, s)
    BY <1>4 DEF Recv
  <2> HIDE DEF s
  <2>2. Tame(so, [so EXCEPT ![s].rslp = @ \cup {t}]) /\ Tame(so, RecvTaken(so, s))
    BY <1>1, <1>2, TameField
  <2> QED BY <2>1, <2>2
<1>5. CASE RecvResume(t) \/ Interrupted(t)
  <2> DEFINE s == call[t].so
  <2>1. \/ so' = [so EXCEPT ![s].rslp = @ \cup {t}] \/ so' = RecvTaken(so, s)
        \/ so' = Unslept(t, s) \/ so' = [Unslept(t, s) EXCEPT ![s].state = @ \ {"ISCONNECTING"}]
    BY <1>5 DEF RecvResume, Interrupted
  <2> HIDE DEF s
  <2>2. Tame(so, [so EXCEPT ![s].rslp = @ \cup {t}])
    BY <1>1, TameField
  <2>3. Tame(so, RecvTaken(so, s))
    BY <1>2
  <2>4. /\ Tame(so, Unslept(t, s))
        /\ Tame(so, [Unslept(t, s) EXCEPT ![s].state = @ \ {"ISCONNECTING"}])
    BY <1>3
  <2> QED BY <1>1, <2>1, <2>2, <2>3, <2>4
<1> QED BY <1>1, <1>4, <1>5

\* What the network does to a connection it has.
LEMMA NetworkTame ==
  ASSUME LifeInv, NEW s \in Socks,
         \/ Established(s) \/ DataArrives(s) \/ PeerFin(s) \/ FinAcked(s)
         \/ \E e \in BOOLEAN : ConnectionGone(s, e)
  PROVE  Tame(so, so') /\ UNCHANGED <<dTable, released>>
<1>1. UNCHANGED <<dTable, released>> /\ Recs(so) /\ SockInv(so)
  BY InvRecs
     DEF Established, DataArrives, PeerFin, FinAcked, ConnectionGone, tableVars, LifeInv
<1>2. CASE Established(s)
  <2> DEFINE V == SoIsConnected(so, s)
  <2>1. Tame(so, V) /\ Recs(V) /\ so' = [V EXCEPT ![s].tp = "EST"]
    BY <1>1, <1>2, TameConnected DEF Tame, Established
  <2> HIDE DEF V
  <2>2. Tame(V, so')
    BY <2>1, TameField
  <2>3. Tame(so, so')
    BY <2>1, <2>2, TameTrans
  <2> QED BY <1>1, <2>3
<1>3. CASE DataArrives(s)
  <2>1. so' = [so EXCEPT ![s].cc = TRUE, ![s].rslp = {}]
    BY <1>3 DEF DataArrives
  <2>2. Tame(so, so')
    BY <1>1, <2>1 DEF Tame, Recs, SameOwner, SockFields
  <2> QED BY <1>1, <2>2
<1>4. CASE PeerFin(s)
  BY <1>1, <1>4, TameFlags DEF PeerFin
<1>5. CASE FinAcked(s)
  <2> DEFINE V == [so EXCEPT ![s].tp = "FIN2"]
  <2>1. Tame(so, V) /\ Recs(V) /\ (so' = V \/ so' = SoIsDisconnected(V, s))
    BY <1>1, <1>5, TameField DEF Tame, FinAcked
  <2> HIDE DEF V
  <2>2. Tame(V, so')
    BY <2>1, TameFlags, TameRefl
  <2>3. Tame(so, so')
    BY <2>1, <2>2, TameTrans
  <2> QED BY <1>1, <2>3
<1>6. ASSUME NEW e \in BOOLEAN, ConnectionGone(s, e) PROVE Tame(so, so')
  BY <1>1, <1>6, TameDrop, TameClose DEF ConnectionGone
<1> QED BY <1>1, <1>2, <1>3, <1>4, <1>5, <1>6

LEMMA TameStep ==
  ASSUME LifeInv', OwnedOK(so, dTable, released), Tame(so, so'),
         UNCHANGED <<dTable, released>>
  PROVE  OwnedOK(so', dTable', released')
<1>1. SockInv(so')
  BY DEF LifeInv
<1>2. OwnedOK(so', dTable, released)
  BY <1>1, TameOwned
<1> QED BY <1>2

-----------------------------------------------------------------------------
(* The inductive invariant, relative to LifeInv and TableInv.              *)

\* Only Dup2Socket sleeps in Dup2Socket.
DupsMeant(cl) == \A t \in Tasks : cl[t].op = "dup" => "dup" \in Uses
OwnInv == /\ OwnedOK(so, dTable, released) /\ BasesOK(bstate, call, dTable)
          /\ DupsMeant(call)

LEMMA OwnedDescriptorStep ==
  ASSUME LifeInv, TableInv, LifeInv', OwnersSafe, OwnedOK(so, dTable, released),
         NEW t \in Tasks, NEW fd \in Fds,
         SetupCall(t, fd) \/ BlockingCall(t, fd) \/ DescriptorCall(t, fd)
  PROVE  OwnedOK(so', dTable', released')
<1>0. SafeUses
  BY DEF OwnersSafe
<1>1. CASE SetupCall(t, fd)
  <2>1. CASE Listen(t, fd)
    BY <2>1, ListenOwned
  <2>2. CASE \E b \in Bases : SetOwner(t, fd, b)
    BY <2>2, SetOwnerOwned
  <2>3. CASE \/ \E l \in {"off", "zero", "timed"} : SetLinger(t, fd, l)
             \/ ShutdownRcv(t, fd) \/ ShutdownSnd(t, fd)
    <3>1. Tame(so, so') /\ UNCHANGED <<dTable, released>>
      BY <2>3, SetupTame
    <3> QED BY <3>1, TameStep
  <2> QED BY <1>1, <2>1, <2>2, <2>3 DEF SetupCall
<1>2. CASE BlockingCall(t, fd)
  <2>1. CASE Accept(t, fd)
    BY <1>0, <2>1, AcceptOwned
  <2>2. CASE Recv(t, fd)
    <3>1. Tame(so, so') /\ UNCHANGED <<dTable, released>>
      BY <2>2, RecvTame
    <3> QED BY <3>1, TameStep
  <2>3. CASE ConnectRefused(t, fd)
    <3>1. Tame(so, so') /\ UNCHANGED <<dTable, released>>
      BY <2>3, SetupTame
    <3> QED BY <3>1, TameStep
  <2>4. CASE \E nbio \in BOOLEAN : Connect(t, fd, nbio)
    <3>1. Tame(so, so') /\ UNCHANGED <<dTable, released>>
      BY <2>4, ConnectTame
    <3> QED BY <3>1, TameStep
  <2> QED BY <1>2, <2>1, <2>2, <2>3, <2>4 DEF BlockingCall
<1>3. CASE DescriptorCall(t, fd)
  <2>1. CASE \E nbio \in BOOLEAN : CloseSocket(t, fd, nbio)
    BY <2>1, CloseOneOwned DEF CloseSocket
  <2>2. CASE CloseReserved(t, fd)
    BY <2>2 DEF CloseReserved
  <2>3. CASE \/ \E fd1 \in Fds \cup {NoFd} : DupIntoFree(t, fd1, fd)
             \/ \E fd1 \in Fds \cup {NoFd}, nbio \in BOOLEAN : DupOver(t, fd1, fd, nbio)
    BY <2>3, DupOwned
  <2>4. CASE \E id \in Ids : ReleaseSocket(t, fd, id) \/ ReleaseCopyOfSocket(t, fd, id)
    BY <2>4, ReleaseOwned, ReleaseCopyOwned
  <2> QED BY <1>3, <2>1, <2>2, <2>3, <2>4 DEF DescriptorCall
<1> QED BY <1>1, <1>2, <1>3

LEMMA OwnedTaskStep ==
  ASSUME LifeInv, TableInv, LifeInv', OwnersSafe, OwnedOK(so, dTable, released),
         DupsMeant(call), NEW t \in Tasks, Socket(t) \/ Resume(t) \/ LibraryCall(t)
  PROVE  OwnedOK(so', dTable', released')
<1>0. SafeUses /\ (call[t].op = "dup" => "dup" \in Uses)
  BY DEF OwnersSafe, DupsMeant
<1>1. CASE Socket(t)
  BY <1>0, <1>1, SocketOwned
<1>2. CASE Resume(t)
  <2>1. CASE AcceptResume(t)
    BY <1>0, <2>1, AcceptOwned
  <2>2. CASE ConnectResume(t)
    <3>1. Tame(so, so') /\ UNCHANGED <<dTable, released>>
      BY <2>2, ConnectTame
    <3> QED BY <3>1, TameStep
  <2>3. CASE RecvResume(t) \/ Interrupted(t)
    <3>1. Tame(so, so') /\ UNCHANGED <<dTable, released>>
      BY <2>3, RecvTame
    <3> QED BY <3>1, TameStep
  <2>4. CASE LingerResume(t) \/ LingerExpires(t)
    BY <1>0, <2>4, LingerOwned
  <2> QED BY <1>2, <2>1, <2>2, <2>3, <2>4 DEF Resume
<1>3. CASE LibraryCall(t)
  <2>1. CASE CloseLibrary(t) \/ CloseLibraryFree(t)
    BY <2>1 DEF CloseLibrary, CloseLibraryFree, tableVars
  <2>2. CASE \E fd \in Fds, nbio \in BOOLEAN : CloseLibrarySweep(t, fd, nbio)
    BY <2>2, CloseOneOwned DEF CloseLibrarySweep
  <2> QED BY <1>3, <2>1, <2>2 DEF LibraryCall
<1> QED BY <1>1, <1>2, <1>3

LEMMA OwnedNetStep ==
  ASSUME LifeInv, LifeInv', OwnedOK(so, dTable, released), Network
  PROVE  OwnedOK(so', dTable', released')
<1>1. ASSUME NEW s \in Socks, NewConn(s) PROVE OwnedOK(so', dTable', released')
  BY <1>1, NewConnOwned
<1>2. ASSUME NEW s \in Socks,
             \/ Established(s) \/ DataArrives(s) \/ PeerFin(s) \/ FinAcked(s)
             \/ \E e \in BOOLEAN : ConnectionGone(s, e)
      PROVE  OwnedOK(so', dTable', released')
  <2>1. Tame(so, so') /\ UNCHANGED <<dTable, released>>
    BY <1>2, NetworkTame
  <2> QED BY <2>1, TameStep
<1>3. CASE NetShutdown
  BY <1>3 DEF NetShutdown, tableVars
<1>4. CASE Reap
  BY <1>4, ReapOwned
<1> QED BY <1>1, <1>2, <1>3, <1>4 DEF Network

LEMMA OwnedStep ==
  ASSUME LifeInv, TableInv, LifeInv', OwnersSafe, OwnedOK(so, dTable, released),
         DupsMeant(call), [Next]_vars
  PROVE  OwnedOK(so', dTable', released')
<1>1. CASE UNCHANGED vars
  BY <1>1 DEF vars
<1>2. CASE Next
  BY <1>2, OwnedDescriptorStep, OwnedTaskStep, ObtainOwned, OwnedNetStep DEF Next
<1> QED BY <1>1, <1>2

-----------------------------------------------------------------------------
(* Bases: a base that closes has one task left, and one that is freed none *)
(* that could still come back from a call.                                 *)

\* A step of task t: only its call and the tables of its base change.
TaskOnly(t) ==
  /\ bstate' = bstate /\ DOMAIN call' = Tasks
  /\ \A u \in Tasks : u # t => call'[u] = call[u]
  /\ \A b \in Bases : b # Home[t] => dTable'[b] = dTable[b]
\* It calls through an open base, comes back from a call, or sweeps in UL_Close.
CallBegins(t) == TaskOnly(t) /\ CanCall(t)
                 /\ (call'[t].op = "dup" => "dup" \in Uses)
CallEnds(t)   == TaskOnly(t) /\ call[t].op # "none" /\ call'[t] \in {call[t], NoCall}
Sweeps(t)     == TaskOnly(t) /\ Closing(t) /\ call'[t].op \in {"none", "exit"}

LEMMA TaskBases ==
  ASSUME NEW t \in Tasks, BasesOK(bstate, call, dTable), DupsMeant(call),
         CallBegins(t) \/ CallEnds(t) \/ Sweeps(t)
  PROVE  BasesOK(bstate', call', dTable') /\ DupsMeant(call')
<1>1. TaskOnly(t)
  BY DEF CallBegins, CallEnds, Sweeps
<1>2. NoCall.op = "none"
  BY DEF NoCall
<1>3. DupsMeant(call')
  <2>1. call'[t].op = "dup" => "dup" \in Uses
    BY <1>2 DEF CallBegins, CallEnds, Sweeps, DupsMeant
  <2> QED BY <1>1, <2>1 DEF TaskOnly, DupsMeant
<1>4. ASSUME NEW b \in Bases PROVE BaseOK(b, bstate', call', dTable')
  <2>0. BaseOK(b, bstate, call, dTable) /\ Opener[b] \in Tasks /\ Home[Opener[b]] = b
    BY OpenerAssumption DEF BasesOK
  <2>1. CASE b # Home[t]
    <3>1. Opener[b] # t
      BY <2>0, <2>1
    <3> QED BY <1>1, <2>0, <2>1, <3>1 DEF TaskOnly, BaseOK
  <2>2. CASE b = Home[t] /\ bstate[b] \in {"closing", "freed"}
    <3>1. t = Opener[b]
      BY <2>0, <2>2 DEF BaseOK, SharedBase
    <3>2. CASE CallBegins(t)
      BY <2>2, <3>2 DEF CallBegins, CanCall
    <3>3. CASE CallEnds(t)
      <4>1. bstate[b] # "freed" /\ call[t].op = "exit"
        BY <2>0, <2>2, <3>1, <3>3 DEF BaseOK, CallEnds
      <4>2. call'[t].op \in {"none", "exit"}
        BY <1>2, <3>3, <4>1 DEF CallEnds
      <4> QED BY <1>1, <2>0, <2>2, <3>1, <4>1, <4>2 DEF BaseOK, TaskOnly
    <3>4. CASE Sweeps(t)
      BY <1>1, <2>0, <2>2, <3>1, <3>4 DEF Sweeps, Closing, BaseOK, TaskOnly
    <3> QED BY <3>2, <3>3, <3>4
  <2>3. CASE b = Home[t] /\ bstate[b] \notin {"closing", "freed"}
    BY <1>1, <2>3 DEF TaskOnly, BaseOK
  <2> QED BY <2>1, <2>2, <2>3
<1> QED BY <1>1, <1>3, <1>4 DEF BasesOK, TaskOnly

\* Nobody calls and no table changes.
LEMMA QuietBases ==
  ASSUME BasesOK(bstate, call, dTable), DupsMeant(call), UNCHANGED <<bstate, call, dTable>>
  PROVE  BasesOK(bstate', call', dTable') /\ DupsMeant(call')
  BY DEF BasesOK, DupsMeant

LEMMA CallTyped == ASSUME LifeInv
  PROVE  DOMAIN call = Tasks /\ DOMAIN dTable = Bases /\ Home \in [Tasks -> Bases]
  BY HomeAssumption DEF LifeInv, CallsOK, TablesTyped

\* What writes a slot of the caller's table, and what begins or ends its call.
OtherTables(t) == \A b \in Bases : b # Home[t] => dTable'[b] = dTable[b]
OtherCalls(t)  == DOMAIN call' = Tasks /\ \A u \in Tasks : u # t => call'[u] = call[u]

LEMMA OnlyHome ==
  ASSUME LifeInv, NEW t \in Tasks, NEW fd, NEW s
  PROVE  /\ SetFd(Home[t], fd, s) => OtherTables(t)
         /\ ClearFd(Home[t], fd) => OtherTables(t)
         /\ dTable' = dTable => OtherTables(t)
  BY CallTyped DEF SetFd, ClearFd, OtherTables

LEMMA OnlyCall ==
  ASSUME LifeInv, NEW t \in Tasks, NEW op, NEW s
  PROVE  /\ call' = call => OtherCalls(t) /\ call'[t] = call[t]
         /\ Return(t) => OtherCalls(t) /\ call'[t] = NoCall
         /\ Sleep(t, op, s) => OtherCalls(t) /\ call'[t].op = op
<1>1. call' = call => OtherCalls(t) /\ call'[t] = call[t]
  BY CallTyped DEF OtherCalls
<1>2. Return(t) => OtherCalls(t) /\ call'[t] = NoCall
  BY CallTyped DEF OtherCalls, Return
<1>3. ASSUME Sleep(t, op, s) PROVE OtherCalls(t) /\ call'[t].op = op
  <2>1. /\ call' = [call EXCEPT ![t] = [NoCall EXCEPT !.op = op, !.so = s]]
        /\ DOMAIN NoCall = {"op", "so", "fd", "fd1", "so1"}
    BY <1>3 DEF Sleep, NoCall
  <2> QED BY <2>1, CallTyped DEF OtherCalls
<1> QED BY <1>1, <1>2, <1>3

LEMMA TaskOnlyParts ==
  ASSUME NEW t, bstate' = bstate, OtherTables(t), OtherCalls(t) PROVE TaskOnly(t)
  BY DEF TaskOnly, OtherTables, OtherCalls

\* Going to sleep in soclose.
LEMMA OnlyLinger ==
  ASSUME LifeInv, NEW t \in Tasks, NEW fd, NEW op, NEW fd1, NEW s1,
         \/ LingerSleep(t, fd, [NoCall EXCEPT !.op = op])
         \/ LingerSleep(t, fd, [NoCall EXCEPT !.op = op, !.fd = fd, !.fd1 = fd1, !.so1 = s1])
  PROVE  OtherCalls(t) /\ call'[t].op = op
<1>1. DOMAIN NoCall = {"op", "so", "fd", "fd1", "so1"}
  BY DEF NoCall
<1>2. ASSUME NEW c, DOMAIN c = {"op", "so", "fd", "fd1", "so1"}, c.op = op,
             LingerSleep(t, fd, c)
      PROVE  OtherCalls(t) /\ call'[t].op = op
  BY <1>2, CallTyped DEF LingerSleep, OtherCalls
<1>3. CASE LingerSleep(t, fd, [NoCall EXCEPT !.op = op])
  BY <1>1, <1>2, <1>3
<1>4. CASE LingerSleep(t, fd, [NoCall EXCEPT !.op = op, !.fd = fd, !.fd1 = fd1, !.so1 = s1])
  BY <1>1, <1>2, <1>4
<1> QED BY <1>3, <1>4

LEMMA CloseOneOnly ==
  ASSUME LifeInv, NEW t \in Tasks, NEW fd, NEW op, NEW nbio, CloseOne(t, fd, op, nbio)
  PROVE  TaskOnly(t) /\ (call'[t].op = op \/ call'[t] = call[t])
<1>1. ClearFd(Home[t], fd) /\ bstate' = bstate
  BY DEF CloseOne, sysVars
<1>2. \/ LingerSleep(t, fd, [NoCall EXCEPT !.op = op])
      \/ call' = call
  BY DEF CloseOne
<1>3. OtherTables(t)
  BY <1>1, OnlyHome
<1>4. OtherCalls(t) /\ (call'[t].op = op \/ call'[t] = call[t])
  BY <1>2, OnlyLinger, OnlyCall
<1> QED BY <1>1, <1>3, <1>4, TaskOnlyParts

LEMMA DupTailOnly ==
  ASSUME LifeInv, NEW t \in Tasks, NEW S, NEW tab, NEW usd, NEW fd1, NEW s1, NEW fd2,
         DOMAIN tab = Bases, \A b \in Bases : b # Home[t] => tab[b] = dTable[b],
         DupTail(Home[t], S, tab, usd, fd1, s1, fd2) \/ DupInstall(Home[t], S, tab, usd, s1, fd2)
  PROVE  OtherTables(t)
<1>1. dTable' = tab \/ dTable' = [tab EXCEPT ![Home[t]][fd2] = s1]
  BY DEF DupTail, DupInstall
<1> QED BY <1>1 DEF OtherTables

LEMMA DupOnly ==
  ASSUME LifeInv, NEW t \in Tasks, NEW fd1, NEW fd2, NEW nbio,
         DupIntoFree(t, fd1, fd2) \/ DupOver(t, fd1, fd2, nbio)
  PROVE  CallBegins(t)
<1>0. bstate' = bstate /\ CanCall(t) /\ "dup" \in Uses
  BY DEF DupIntoFree, DupOver, sysVars
<1>1. CASE DupIntoFree(t, fd1, fd2)
  <2>1. OtherTables(t)
    BY <1>1, DupTailOnly, CallTyped DEF DupIntoFree
  <2>2. OtherCalls(t)
    BY <1>1, OnlyCall DEF DupIntoFree
  <2> QED BY <1>0, <2>1, <2>2, TaskOnlyParts DEF CallBegins
<1>2. CASE DupOver(t, fd1, fd2, nbio)
  <2> DEFINE tab == [dTable EXCEPT ![Home[t]][fd2] = NoSock]
             usd == [used EXCEPT ![Home[t]] = @ \ {fd2}]
             s1 == SockOrNone(t, fd1)
  <2>1. \/ /\ LingerSleep(t, fd2, [NoCall EXCEPT !.op = "dup", !.fd = fd2,
                                                 !.fd1 = fd1, !.so1 = s1])
           /\ dTable' = tab
        \/ /\ DupTail(Home[t], ClosedNow(Home[t], fd2), tab, usd, fd1, s1, fd2)
           /\ call' = call
    BY <1>2 DEF DupOver
  <2>2. DOMAIN tab = Bases /\ \A b \in Bases : b # Home[t] => tab[b] = dTable[b]
    BY CallTyped
  <2> HIDE DEF tab, usd, s1
  <2>3. OtherTables(t)
    <3>1. CASE dTable' = tab
      BY <2>2, <3>1 DEF OtherTables
    <3>2. CASE DupTail(Home[t], ClosedNow(Home[t], fd2), tab, usd, fd1, s1, fd2)
      BY <2>2, <3>2, DupTailOnly
    <3> QED BY <2>1, <3>1, <3>2
  <2>4. OtherCalls(t)
    BY <2>1, OnlyLinger, OnlyCall
  <2> QED BY <1>0, <2>3, <2>4, TaskOnlyParts DEF CallBegins
<1> QED BY <1>1, <1>2

LEMMA AcceptTailOnly ==
  ASSUME LifeInv, NEW t \in Tasks, NEW s, AcceptTail(t, s)
  PROVE  OtherTables(t) /\ OtherCalls(t) /\ call'[t] = NoCall
<1>1. Return(t)
  BY DEF AcceptTail
<1>2. dTable' = dTable \/ \E fd, c : SetFd(Home[t], fd, c)
  BY DEF AcceptTail, TakeConnection
<1> QED BY <1>1, <1>2, OnlyHome, OnlyCall

\* The calls that begin.
LEMMA DescriptorOnly ==
  ASSUME LifeInv, NEW t \in Tasks, NEW fd \in Fds,
         SetupCall(t, fd) \/ BlockingCall(t, fd) \/ DescriptorCall(t, fd)
  PROVE  CallBegins(t)
<1>1. CASE \/ SetupCall(t, fd) \/ ConnectRefused(t, fd) \/ CloseReserved(t, fd)
           \/ \E id \in Ids : ReleaseCopyOfSocket(t, fd, id)
  <2>1. CanCall(t) /\ UNCHANGED <<bstate, dTable, call>>
    BY <1>1 DEF SetupCall, Listen, SetLinger, SetOwner, ShutdownRcv, ShutdownSnd,
         ConnectRefused, CloseReserved, ReleaseCopyOfSocket, tableVars, sysVars
  <2>2. OtherTables(t) /\ OtherCalls(t) /\ call'[t] = call[t]
    BY <2>1, OnlyHome, OnlyCall
  <2> QED BY <2>1, <2>2, TaskOnlyParts DEF CallBegins, CanCall
<1>2. CASE Recv(t, fd) \/ \E nbio \in BOOLEAN : Connect(t, fd, nbio)
  <2>1. /\ CanCall(t) /\ UNCHANGED <<bstate, dTable>>
        /\ call' = call \/ \E op \in {"recv", "connect"} : \E s : Sleep(t, op, s)
    BY <1>2 DEF Recv, Connect, tableVars, sysVars
  <2>2. OtherTables(t) /\ OtherCalls(t) /\ (call'[t] = call[t] \/ call'[t].op # "dup")
    BY <2>1, OnlyHome, OnlyCall
  <2> QED BY <2>1, <2>2, TaskOnlyParts DEF CallBegins, CanCall
<1>3. CASE Accept(t, fd)
  <2>1. /\ CanCall(t) /\ UNCHANGED bstate
        /\ \/ dTable' = dTable /\ \E s : Sleep(t, "accept", s)
           \/ \E s : AcceptTail(t, s)
    BY <1>3 DEF Accept, sysVars
  <2>2. CASE \E s : AcceptTail(t, s)
    BY <2>1, <2>2, AcceptTailOnly, TaskOnlyParts DEF CallBegins, NoCall
  <2>3. CASE dTable' = dTable /\ \E s : Sleep(t, "accept", s)
    <3>1. OtherTables(t) /\ OtherCalls(t) /\ call'[t].op = "accept"
      BY <2>3, OnlyHome, OnlyCall
    <3> QED BY <2>1, <3>1, TaskOnlyParts DEF CallBegins
  <2> QED BY <2>1, <2>2, <2>3
<1>4. CASE \E nbio \in BOOLEAN : CloseSocket(t, fd, nbio)
  BY <1>4, CloseOneOnly DEF CloseSocket, CallBegins, CanCall
<1>5. CASE \/ \E fd1 \in Fds \cup {NoFd} : DupIntoFree(t, fd1, fd)
           \/ \E fd1 \in Fds \cup {NoFd}, nbio \in BOOLEAN : DupOver(t, fd1, fd, nbio)
  BY <1>5, DupOnly
<1>6. CASE \E id \in Ids : ReleaseSocket(t, fd, id)
  <2>1. CanCall(t) /\ UNCHANGED <<bstate, call>> /\ ClearFd(Home[t], fd)
    BY <1>6 DEF ReleaseSocket, sysVars
  <2>2. OtherTables(t) /\ OtherCalls(t) /\ call'[t] = call[t]
    BY <2>1, OnlyHome, OnlyCall
  <2> QED BY <2>1, <2>2, TaskOnlyParts DEF CallBegins, CanCall
<1> QED BY <1>1, <1>2, <1>3, <1>4, <1>5, <1>6 DEF BlockingCall, DescriptorCall

\* socket() and ObtainSocket().
LEMMA FillOnly ==
  ASSUME LifeInv, NEW t \in Tasks, Socket(t) \/ \E id \in Ids : ObtainSocket(t, id)
  PROVE  CallBegins(t)
<1>1. /\ CanCall(t) /\ UNCHANGED <<bstate, call>>
      /\ dTable' = dTable \/ \E fd, s : SetFd(Home[t], fd, s)
  BY DEF Socket, ObtainSocket, sysVars
<1>2. OtherTables(t) /\ OtherCalls(t) /\ call'[t] = call[t]
  BY <1>1, OnlyHome, OnlyCall
<1> QED BY <1>1, <1>2, TaskOnlyParts DEF CallBegins, CanCall

\* The calls that come back.
LEMMA ResumeOnly ==
  ASSUME LifeInv, NEW t \in Tasks, Resume(t)
  PROVE  CallEnds(t)
<1>1. bstate' = bstate /\ call[t].op # "none"
  BY DEF Resume, AcceptResume, ConnectResume, RecvResume, Interrupted, LingerResume,
         LingerExpires, LingerOver, Awake, Asleep, CloseOps, sysVars
<1>2. CASE ConnectResume(t) \/ RecvResume(t) \/ Interrupted(t)
  <2>1. dTable' = dTable /\ (call' = call \/ Return(t))
    BY <1>2 DEF ConnectResume, RecvResume, Interrupted, tableVars
  <2>2. OtherTables(t) /\ OtherCalls(t) /\ call'[t] \in {call[t], NoCall}
    BY <2>1, OnlyHome, OnlyCall
  <2> QED BY <1>1, <2>2, TaskOnlyParts DEF CallEnds
<1>3. CASE AcceptResume(t)
  <2>1. UNCHANGED <<call, dTable>> \/ AcceptTail(t, call[t].so)
    BY <1>3 DEF AcceptResume
  <2>2. OtherTables(t) /\ OtherCalls(t) /\ call'[t] \in {call[t], NoCall}
    BY <2>1, OnlyHome, OnlyCall, AcceptTailOnly
  <2> QED BY <1>1, <2>2, TaskOnlyParts DEF CallEnds
<1>4. CASE LingerOver(t)
  <2>1. /\ Return(t)
        /\ \/ dTable' = dTable
           \/ DupTail(Home[t], CloseFinish(so, call[t].so), dTable, used, call[t].fd1,
                      call[t].so1, call[t].fd)
    BY <1>4 DEF LingerOver
  <2>2. OtherTables(t)
    BY <2>1, OnlyHome, DupTailOnly, CallTyped
  <2>3. OtherCalls(t) /\ call'[t] \in {call[t], NoCall}
    BY <2>1, OnlyCall
  <2> QED BY <1>1, <2>2, <2>3, TaskOnlyParts DEF CallEnds
<1>5. CASE UNCHANGED <<dTable, call>>
  <2>1. OtherTables(t) /\ OtherCalls(t) /\ call'[t] \in {call[t], NoCall}
    BY <1>5, OnlyHome, OnlyCall
  <2> QED BY <1>1, <2>1, TaskOnlyParts DEF CallEnds
<1> QED BY <1>2, <1>3, <1>4, <1>5 DEF Resume, LingerResume, LingerExpires

\* UL_Close() and api_abandon_bases() change the state of a base.
LEMMA BaseStates ==
  ASSUME LifeInv, BasesOK(bstate, call, dTable), DupsMeant(call),
         (\E t \in Tasks : CloseLibrary(t) \/ CloseLibraryFree(t)) \/ NetShutdown
  PROVE  BasesOK(bstate', call', dTable') /\ DupsMeant(call')
<1>1. UNCHANGED <<call, dTable>>
  BY DEF CloseLibrary, CloseLibraryFree, NetShutdown, tableVars
<1>2. DOMAIN bstate = Bases /\ \A b \in Bases : BaseOK(b, bstate, call, dTable)
  BY DEF BasesOK
<1>3. CASE NetShutdown
  <2>1. bstate' = [b \in Bases |-> IF bstate[b] = "open" THEN "dead" ELSE bstate[b]]
    BY <1>3 DEF NetShutdown
  <2> QED BY <1>1, <1>2, <2>1 DEF BasesOK, BaseOK, DupsMeant
<1>4. ASSUME NEW t \in Tasks, CloseLibrary(t)
      PROVE  BasesOK(bstate', call', dTable') /\ DupsMeant(call')
  <2> DEFINE b == Home[t]
  <2>1. /\ bstate' = [bstate EXCEPT ![b] = IF SharedBase(b) THEN "dead" ELSE "closing"]
        /\ t = Opener[b] /\ call[t].op = "none" /\ b \in Bases
    BY <1>4, HomeAssumption DEF CloseLibrary, CanCall
  <2> HIDE DEF b
  <2>2. ASSUME NEW c \in Bases PROVE BaseOK(c, bstate', call, dTable)
    BY <1>2, <2>1 DEF BaseOK
  <2> QED BY <1>1, <1>2, <2>1, <2>2 DEF BasesOK, DupsMeant
<1>5. ASSUME NEW t \in Tasks, CloseLibraryFree(t)
      PROVE  BasesOK(bstate', call', dTable') /\ DupsMeant(call')
  <2> DEFINE b == Home[t]
  <2>1. /\ bstate' = [bstate EXCEPT ![b] = "freed"] /\ bstate[b] = "closing"
        /\ t = Opener[b] /\ call[t].op = "none" /\ b \in Bases
        /\ \A fd \in Fds : dTable[b][fd] = NoSock
    BY <1>5, HomeAssumption DEF CloseLibraryFree, Closing, OpenFds
  <2> HIDE DEF b
  <2>2. ASSUME NEW c \in Bases PROVE BaseOK(c, bstate', call, dTable)
    BY <1>2, <2>1 DEF BaseOK
  <2> QED BY <1>1, <1>2, <2>1, <2>2 DEF BasesOK, DupsMeant
<1> QED BY <1>3, <1>4, <1>5

LEMMA BasesStep ==
  ASSUME LifeInv, BasesOK(bstate, call, dTable), DupsMeant(call), [Next]_vars
  PROVE  BasesOK(bstate', call', dTable') /\ DupsMeant(call')
<1>1. CASE UNCHANGED vars
  BY <1>1, QuietBases DEF vars
<1>2. ASSUME NEW t \in Tasks, NEW fd \in Fds,
             SetupCall(t, fd) \/ BlockingCall(t, fd) \/ DescriptorCall(t, fd)
      PROVE  BasesOK(bstate', call', dTable') /\ DupsMeant(call')
  BY <1>2, DescriptorOnly, TaskBases
<1>3. ASSUME NEW t \in Tasks, Socket(t) \/ Resume(t) \/ \E id \in Ids : ObtainSocket(t, id)
      PROVE  BasesOK(bstate', call', dTable') /\ DupsMeant(call')
  BY <1>3, FillOnly, ResumeOnly, TaskBases
<1>4. ASSUME NEW t \in Tasks, LibraryCall(t)
      PROVE  BasesOK(bstate', call', dTable') /\ DupsMeant(call')
  <2>1. CASE CloseLibrary(t) \/ CloseLibraryFree(t)
    BY <2>1, BaseStates
  <2>2. ASSUME NEW fd \in Fds, NEW nbio \in BOOLEAN, CloseLibrarySweep(t, fd, nbio)
        PROVE  BasesOK(bstate', call', dTable') /\ DupsMeant(call')
    <3>1. CloseOne(t, fd, "exit", nbio) /\ Closing(t)
      BY <2>2 DEF CloseLibrarySweep
    <3>2. Sweeps(t)
      BY <3>1, CloseOneOnly DEF Sweeps, Closing
    <3> QED BY <3>2, TaskBases
  <2> QED BY <1>4, <2>1, <2>2 DEF LibraryCall
<1>5. CASE Network
  <2>1. CASE UNCHANGED <<bstate, call, dTable>>
    BY <2>1, QuietBases
  <2>2. CASE NetShutdown
    BY <2>2, BaseStates
  <2>3. NetShutdown \/ UNCHANGED <<bstate, call, dTable>>
    BY <1>5 DEF Network, NewConn, Established, DataArrives, PeerFin, FinAcked,
         ConnectionGone, Reap, tableVars, sysVars
  <2> QED BY <2>1, <2>2, <2>3
<1> QED BY <1>1, <1>2, <1>3, <1>4, <1>5 DEF Next

LEMMA OwnInit == Init => OwnInv
<1> SUFFICES ASSUME Init PROVE OwnInv
  OBVIOUS
<1>1. /\ so = [s \in Socks |-> FreeSock] /\ released = <<>>
      /\ dTable = [b \in Bases |-> [fd \in Fds |-> NoSock]]
      /\ bstate = [b \in Bases |-> "open"] /\ call = [t \in Tasks |-> NoCall]
  BY DEF Init
<1>2. OwnerHolds(so, dTable)
  BY <1>1 DEF OwnerHolds, FreeSock
<1>3. \A s \in Socks : SlotsOf(dTable, s) = {} /\ NodesOf(released, s) = {} /\ ~so[s].acc
  <2>1. \A p \in Bases \X Fds : dTable[p[1]][p[2]] = NoSock
    BY <1>1
  <2>2. \A s \in Socks : SlotsOf(dTable, s) = {}
    BY <2>1, NullAssumption DEF SlotsOf
  <2>3. DOMAIN released = {}
    BY <1>1
  <2> QED BY <1>1, <2>2, <2>3 DEF NodesOf, FreeSock
<1>4. Placed(so, dTable, released)
  BY <1>1, <1>3 DEF Placed, OnePlace
<1>5. BasesOK(bstate, call, dTable)
  BY <1>1 DEF BasesOK, BaseOK
<1>6. DupsMeant(call)
  BY <1>1 DEF DupsMeant, NoCall
<1> QED BY <1>2, <1>4, <1>5, <1>6 DEF OwnInv, OwnedOK

-----------------------------------------------------------------------------
(* What the invariant implies.                                             *)

LEMMA InvOwners ==
  ASSUME LifeInv, OwnInv PROVE OwnersSound
<1>1. RefCountExact
  BY InvDescriptors DEF DescriptorsSound
<1>2. SockInv(so) /\ OwnerHolds(so, dTable) /\ BasesOK(bstate, call, dTable)
  BY DEF LifeInv, OwnInv, OwnedOK
<1>3. ASSUME NEW s \in Socks, so[s].pgid # NoBase, so[s].head = NoSock
      PROVE  bstate[so[s].pgid] # "freed"
  <2>1. Named(dTable, so[s].pgid, s)
    BY <1>2, <1>3 DEF OwnerHolds
  <2> QED BY <1>2, <2>1, NullAssumption DEF Named, BasesOK, BaseOK
<1>4. ASSUME NEW s \in Socks, so[s].pgid # NoBase, so[s].head # NoSock
      PROVE  bstate[so[s].pgid] # "freed"
  <2> DEFINE h == so[s].head
  <2>1. h \in Socks /\ so[h].acc
    BY <1>2, <1>4, QueuedFacts
  <2>2. so[h].pgid = so[s].pgid
    BY <1>2, <1>4 DEF OwnerHolds
  <2>3. so[h].head = NoSock
    BY <1>2, <2>1, QueuedFacts DEF Waiting
  <2> QED BY <1>3, <1>4, <2>1, <2>2, <2>3
<1> QED BY <1>1, <1>3, <1>4 DEF OwnersSound, OwnerNotFreed

\* The inductive invariant holds in every reachable state.
LEMMA SpecOwnInv ==
  ASSUME OwnersSafe PROVE Spec => []OwnInv
<1>1. LifeInv /\ TableInv /\ OwnInv /\ [Next]_vars => OwnInv'
  <2> SUFFICES ASSUME LifeInv, TableInv, OwnInv, [Next]_vars PROVE OwnInv'
    OBVIOUS
  <2>1. LifeInv'
    BY LifeStep DEF OwnersSafe
  <2>2. OwnedOK(so', dTable', released')
    BY <2>1, OwnedStep DEF OwnInv
  <2>3. BasesOK(bstate', call', dTable') /\ DupsMeant(call')
    BY BasesStep DEF OwnInv
  <2> QED BY <2>2, <2>3 DEF OwnInv
<1>2. SafeUses
  BY DEF OwnersSafe
<1> QED BY <1>1, <1>2, OwnInit, SpecLifeInv, SpecTableInv, PTL DEF Spec

\* Theorem: in every reachable state so_refcnt is exact and so_pgid, through which sowakeup
\* and sohasoutofband signal, names no base that UL_Close has freed, however sockets are
\* accepted, duplicated, closed, released and obtained between any number of tasks and
\* bases and whenever the stack goes down.  It holds for programs that keep to SafeUses,
\* do not give a socket to another base by FIOSETOWN, and never have one listener in the
\* tables of two bases.
THEOREM SpecOwnersSound ==
  ASSUME OwnersSafe PROVE Spec => []OwnersSound
<1>1. LifeInv /\ OwnInv => OwnersSound
  BY InvOwners
<1>2. SafeUses
  BY DEF OwnersSafe
<1> QED BY <1>1, <1>2, SpecLifeInv, SpecOwnInv, PTL
=============================================================================
