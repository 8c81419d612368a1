------------------------------- MODULE Events -------------------------------
(***************************************************************************)
(* Asynchronous socket events: SO_EVENTMASK, soraise_event and the wakeups *)
(* that raise them (kern/uipc_socket.c, kern/uipc_socket2.c), accept() and *)
(* GetSocketEvents() (api/amiga_syscalls.c, api/amiga_roadshow_compat.c).  *)
(*                                                                         *)
(* One program owns the sockets and works the way the API asks: it waits   *)
(* for its signal, collects until -1 and handles what it was given, each   *)
(* handler reading what there is or accepting one connection.              *)
(***************************************************************************)
EXTENDS Naturals, Sequences, FiniteSets, FiniteSetsExt

CONSTANTS
  EvSocks,      \* connected and datagram sockets, in the order of their descriptors
  Listener,     \* a listening socket; its children are members of EvSocks
  EvMasks,      \* the masks a program sets
  Errnos,       \* asynchronous errors
  MaxNet        \* bound: events of the network

ASSUME EventsAssumption == MaxNet \in Nat /\ 0 \notin Errnos /\ Listener \notin EvSocks

VARIABLES
  so,      \* [Sockets -> [open, mask, events, err, rep, rcv, qlen]]
  evsig,   \* the program's event signal is pending
  prog,    \* [pc, s, todo, missed]: "wait", "drain", "handle"; missed: an accept() failed
  nets     \* network events so far

evvars == <<so, evsig, prog, nets>>

Sockets == EvSocks \cup {Listener}
AllEvents == {"ACCEPT", "CONNECT", "OOB", "READ", "WRITE", "ERROR", "CLOSE"}

ASSUME MasksAssumption == EvMasks \subseteq SUBSET AllEvents

EventsInit ==
  /\ \E m \in EvMasks : so = [s \in Sockets |->
       [open |-> s = Listener \/ s = CHOOSE x \in EvSocks : TRUE, mask |-> IF s = Listener THEN {"ACCEPT"} ELSE m,
        events |-> {}, err |-> 0, rep |-> 0, rcv |-> 0, qlen |-> 0]]
  /\ evsig = FALSE /\ prog = [pc |-> "wait", s |-> Listener, todo |-> {}, missed |-> FALSE]
  /\ nets = 0

\* One event.  An error that was not announced yet rides along.
soraise_event(x, ev) ==
  LET tells == x.err # 0 /\ "ERROR" \in x.mask /\ x.err # x.rep
      all == IF tells THEN {ev, "ERROR"} ELSE {ev}
  IN IF x.mask = {} THEN x
     ELSE [x EXCEPT !.events = @ \cup (all \cap x.mask), !.rep = IF tells THEN x.err ELSE @]

\* sorwakeup and sowwakeup.
sorwakeup(s, x) == soraise_event(x, IF s = Listener THEN "ACCEPT" ELSE "READ")
sowwakeup(x) == soraise_event(x, "WRITE")

\* What a step leaves of s; the owner is signalled when a bit is new.
Raised(s, y) ==
  so' = [so EXCEPT ![s] = y] /\ evsig' = (evsig \/ y.events \ so[s].events # {})

-----------------------------------------------------------------------------
(* The network. *)

Net(s) == so[s].open /\ nets < MaxNet /\ nets' = nets + 1 /\ UNCHANGED prog

DataIn(s) == s # Listener /\ Net(s) /\ Raised(s, sorwakeup(s, [so[s] EXCEPT !.rcv = @ + 1]))

soisconnected(s) ==
  /\ Net(s)
  /\ IF s = Listener THEN Raised(s, sorwakeup(s, [so[s] EXCEPT !.qlen = @ + 1]))
     ELSE Raised(s, sowwakeup(sorwakeup(s, soraise_event(so[s], "CONNECT"))))

\* A reset sets so_error before.
soisdisconnected(s) ==
  /\ s # Listener /\ Net(s)
  /\ \E e \in Errnos \cup {0} :
       LET x == IF e = 0 THEN so[s] ELSE [so[s] EXCEPT !.err = e]
       IN Raised(s, sorwakeup(s, sowwakeup(soraise_event(x, "CLOSE"))))

socantrcvmore(s) == s # Listener /\ Net(s) /\ Raised(s, sorwakeup(s, soraise_event(so[s], "CLOSE")))

\* udp_notify: the socket carries on.
udp_notify(s) ==
  /\ s # Listener /\ Net(s)
  /\ \E e \in Errnos : Raised(s, sowwakeup(sorwakeup(s, [so[s] EXCEPT !.err = e])))

sohasoutofband(s) == s # Listener /\ Net(s) /\ Raised(s, soraise_event(so[s], "OOB"))

SpaceFrees(s) == s # Listener /\ Net(s) /\ Raised(s, sowwakeup(so[s]))

-----------------------------------------------------------------------------
(* The program. *)

\* setsockopt(SO_EVENTMASK): what is no longer wanted is forgotten.
sosetopt(s, m) ==
  /\ s # Listener /\ so[s].open /\ prog.pc = "wait" /\ m \subseteq AllEvents
  /\ so' = [so EXCEPT ![s] = [@ EXCEPT !.mask = m, !.events = so[s].events \cap m]]
  /\ UNCHANGED <<evsig, prog, nets>>

AppWaits ==
  /\ prog.pc = "wait" /\ evsig /\ evsig' = FALSE /\ prog' = [prog EXCEPT !.pc = "drain"]
  /\ UNCHANGED <<so, nets>>

\* The first descriptor with events; they are taken off the socket.
GetSocketEvents ==
  LET ready == {s \in Sockets : so[s].open /\ so[s].events # {}}
  IN /\ prog.pc = "drain"
     /\ IF ready = {} THEN prog' = [prog EXCEPT !.pc = "wait"] /\ UNCHANGED so
        ELSE \E s \in ready : /\ so' = [so EXCEPT ![s].events = {}]
                              /\ prog' = [prog EXCEPT !.pc = "handle", !.s = s, !.todo = so[s].events]
     /\ UNCHANGED <<evsig, nets>>

Did(ev) == [prog EXCEPT !.todo = @ \ {ev}]

\* recv() until it would block.  With nothing to read it returns so_error and clears it.
soreceive ==
  /\ prog.pc = "handle" /\ "READ" \in prog.todo /\ prog' = Did("READ")
  /\ so' = [so EXCEPT ![prog.s] = [@ EXCEPT !.rcv = 0, !.err = 0]]
  /\ UNCHANGED <<evsig, nets>>

\* getsockopt(SO_ERROR) clears the error and the latch.
sogetopt ==
  /\ prog.pc = "handle" /\ "ERROR" \in prog.todo /\ prog' = Did("ERROR")
  /\ \/ so' = [so EXCEPT ![prog.s] = [@ EXCEPT !.err = 0, !.rep = 0]]
     \/ UNCHANGED so
  /\ UNCHANGED <<evsig, nets>>

\* Mutant: with more connections queued FD_ACCEPT is not raised again.
accept_NoReraise ==
  LET free == {s \in EvSocks : ~so[s].open}
  IN /\ prog.pc = "handle" /\ "ACCEPT" \in prog.todo /\ prog' = Did("ACCEPT")
     /\ free # {} /\ so[Listener].qlen > 0
     /\ so' = [so EXCEPT ![Listener].qlen = @ - 1]
     /\ UNCHANGED <<nets, evsig>>

\* accept() takes one connection and raises the event again when there are more.  Without a
\* free descriptor it fails and the queue stays as it is.
accept ==
  LET free == {s \in EvSocks : ~so[s].open}
      y == [so[Listener] EXCEPT !.qlen = @ - 1]
      z == IF y.qlen > 0 THEN soraise_event(y, "ACCEPT") ELSE y
  IN /\ prog.pc = "handle" /\ "ACCEPT" \in prog.todo
     /\ IF free = {} \/ so[Listener].qlen = 0
        THEN /\ prog' = [Did("ACCEPT") EXCEPT !.missed = @ \/ so[Listener].qlen > 0]
             /\ UNCHANGED <<so, evsig>>
        ELSE \E c \in free :
               /\ so' = [so EXCEPT ![Listener] = z,
                                   ![c] = [open |-> TRUE, mask |-> {}, events |-> {}, err |-> 0, rep |-> 0, rcv |-> 0, qlen |-> 0]]
               /\ evsig' = (evsig \/ z.events \ so[Listener].events # {}) /\ prog' = Did("ACCEPT")
     /\ UNCHANGED nets

\* The other events need no call, and a socket may be closed at any time.
Handled ==
  /\ prog.pc = "handle" /\ prog.todo \cap {"READ", "ERROR", "ACCEPT"} = {}
  /\ prog' = [prog EXCEPT !.pc = "drain", !.todo = {}] /\ UNCHANGED <<so, evsig, nets>>

soclose(s) ==
  /\ s # Listener /\ prog.pc = "wait" /\ so[s].open
  /\ so' = [so EXCEPT ![s] = [@ EXCEPT !.open = FALSE, !.events = {}, !.mask = {}]]
  /\ UNCHANGED <<evsig, prog, nets>>

EventsNext ==
  \/ \E s \in Sockets :
       \/ DataIn(s) \/ soisconnected(s) \/ soisdisconnected(s) \/ socantrcvmore(s) \/ udp_notify(s)
       \/ sohasoutofband(s) \/ SpaceFrees(s) \/ soclose(s)
       \/ \E m \in EvMasks : sosetopt(s, m)
  \/ AppWaits \/ GetSocketEvents \/ soreceive \/ sogetopt \/ accept \/ Handled

EventsSpec == EventsInit /\ [][EventsNext]_evvars

-----------------------------------------------------------------------------
\* A program that works as documented misses nothing it asked for: when it sleeps, a socket
\* with events has its signal pending (only bits that are new signal); a queued connection has
\* FD_ACCEPT recorded, one event per accept(), unless an accept() failed; and no event is
\* recorded that the mask leaves out.
EventsKept ==
  /\ \A s \in Sockets : so[s].events \subseteq so[s].mask
  /\ prog.pc = "wait" => \A s \in Sockets : so[s].open /\ so[s].events # {} => evsig
  /\ prog.pc # "handle" /\ ~prog.missed /\ so[Listener].qlen > 0 => "ACCEPT" \in so[Listener].events

\* "otherwise the same errno recurring later would be silently swallowed" (sogetopt): an
\* error that is set while none is pending, on a socket that asked for FD_ERROR and whose
\* program has handled what it was given, is announced.
ErrorAnnounced ==
  [][\A s \in EvSocks : prog.pc = "wait" /\ so[s].err = 0 /\ so'[s].err # 0 /\ "ERROR" \in so[s].mask
                          => "ERROR" \in so'[s].events]_evvars
=============================================================================
