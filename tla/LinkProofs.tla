----------------------------- MODULE LinkProofs -----------------------------
(***************************************************************************)
(* What is proved of the link: SANA-II helper processes and the DHCP       *)
(* helpers, each for any number of processes, clients and calls.           *)
(***************************************************************************)
EXTENDS Dhcp, SanaHelper, SequenceTheorems, TLAPS

-----------------------------------------------------------------------------
(***************************************************************************)
(* DHCP: HelpersAccounted, for any number of helper processes, polls,      *)
(* probes, conflicts and calls of the operator.                            *)
(***************************************************************************)

\* A helper that was started by an application has the message at these places ...
HasMessage == {"open", "exchange", "lease", "llarm", "llprobe", "llwait", "llcommit", "reply", "llreply"}
\* ... and has given it back, or never had one, at these.
AfterReply == {"dead", "reconf", "retrywait", "unnumber", "again", "late", "restore", "recommit", "cleanup"}

Helper == [pc : HasMessage \union AfterReply, internal : BOOLEAN, abort : BOOLEAN, i : Nat,
           type : {"discover", "request"}, tries : Nat]

DhcpTypes ==
  /\ job \in [Jobs -> Helper]
  /\ aam \in [owner : {"app", "helper"}, reserved : Jobs \union {NoJob}]
  /\ replies \in Nat

\* The message is with the one helper that aam_Reserved names, and that is the only
\* one that will reply to it.
MessageOwned ==
  /\ \A j \in Jobs : ~job[j].internal /\ job[j].pc \in HasMessage => aam.reserved = j
  /\ \A j \in Jobs : job[j].pc = "reconf" => job[j].internal
  /\ aam.reserved # NoJob => /\ aam.owner = "helper"
                             /\ ~job[aam.reserved].internal /\ job[aam.reserved].pc \in HasMessage
  /\ aam.owner = "helper" => replies = 0 /\ aam.reserved # NoJob
  /\ replies <= 1

InterlockHeld == interlock => \E j \in Jobs : job[j].pc # "dead" /\ job[j].internal
RouteUsed == route => \E j \in Jobs : job[j].pc \in {"exchange", "again"}

DhcpInv == DhcpTypes /\ MessageOwned /\ InterlockHeld /\ RouteUsed
-----------------------------------------------------------------------------
USE JobsAssumption DEF HasMessage, AfterReply

LEMMA DhcpInitInv == ASSUME DhcpInit PROVE DhcpInv
<1> USE DEF DhcpInit, Dead
<1>1. DhcpTypes
  BY DEF DhcpTypes, Helper
<1> QED BY <1>1 DEF DhcpInv, MessageOwned, InterlockHeld, RouteUsed

\* A helper that stays the application's or the driver's and on its side of the reply
\* leaves the message accounted for.
LEMMA SameSide ==
  ASSUME DhcpInv, NEW j \in Jobs, job' \in [Jobs -> Helper],
         \A k \in Jobs : k # j => job'[k] = job[k],
         job'[j].internal = job[j].internal,
         job'[j].pc \in HasMessage <=> job[j].pc \in HasMessage, job'[j].pc # "reconf",
         UNCHANGED <<aam, replies>>
  PROVE  DhcpTypes' /\ MessageOwned'
BY DEF DhcpInv, DhcpTypes, MessageOwned

\* One that was not started by an application may go anywhere.
LEMMA NoApplication ==
  ASSUME DhcpInv, NEW j \in Jobs, job' \in [Jobs -> Helper],
         \A k \in Jobs : k # j => job'[k] = job[k],
         job[j].internal \/ job[j].pc \notin HasMessage,
         job'[j].internal \/ job'[j].pc \notin HasMessage \union {"reconf"},
         UNCHANGED <<aam, replies>>
  PROVE  DhcpTypes' /\ MessageOwned'
BY DEF DhcpInv, DhcpTypes, MessageOwned

\* The interlock and the broadcast route outlast a step of j that keeps j at work.
LEMMA InterlockKept ==
  ASSUME DhcpInv, NEW j \in Jobs, interlock' => interlock,
         \A k \in Jobs : k # j => job'[k] = job[k],
         interlock' => (job[j].pc # "dead" /\ job[j].internal => job'[j].pc # "dead" /\ job'[j].internal)
  PROVE  InterlockHeld'
BY DEF DhcpInv, InterlockHeld

LEMMA RouteKept ==
  ASSUME DhcpInv, NEW j \in Jobs, route' => route,
         \A k \in Jobs : k # j => job'[k] = job[k],
         route' => (job[j].pc \in {"exchange", "again"} => job'[j].pc \in {"exchange", "again"})
  PROVE  RouteUsed'
BY DEF DhcpInv, RouteUsed

\* What a step of helper j does to the helpers: it goes to p and stays whose it was.
Moves(j, p) ==
  /\ job' \in [Jobs -> Helper] /\ \A k \in Jobs : k # j => job'[k] = job[k]
  /\ job'[j].internal = job[j].internal /\ job'[j].pc = p

LEMMA GotoMoves ==
  ASSUME DhcpInv, NEW j \in Jobs, NEW p \in HasMessage \union AfterReply, Goto(j, p)
  PROVE  Moves(j, p)
BY DEF DhcpInv, DhcpTypes, Helper, Goto, Moves

\* The same for a helper that starts or goes on counting.
LEMMA CountingMoves ==
  ASSUME DhcpInv, NEW j \in Jobs, NEW p \in HasMessage \union AfterReply,
         NEW n \in Nat, NEW t \in {"discover", "request"},
         \/ job' = [job EXCEPT ![j] = [@ EXCEPT !.pc = p, !.i = n, !.type = t]]
         \/ job' = [job EXCEPT ![j] = [@ EXCEPT !.pc = p, !.i = n]]
         \/ job' = [job EXCEPT ![j] = [@ EXCEPT !.pc = p, !.tries = n]]
         \/ job' = [job EXCEPT ![j].i = n] /\ job[j].pc = p
         \/ job' = [job EXCEPT ![j] = [@ EXCEPT !.i = n]] /\ job[j].pc = p
         \/ job' = [job EXCEPT ![j] = [@ EXCEPT !.type = t, !.i = n]] /\ job[j].pc = p
  PROVE  Moves(j, p)
<1>1. job \in [Jobs -> Helper] /\ job[j] \in Helper
  BY DEF DhcpInv, DhcpTypes
<1>2. CASE job' = [job EXCEPT ![j] = [@ EXCEPT !.pc = p, !.i = n, !.type = t]]
  <2> DEFINE b == [job[j] EXCEPT !.pc = p, !.i = n, !.type = t]
  <2>1. b \in Helper /\ b.internal = job[j].internal /\ b.pc = p
    BY <1>1, <1>2 DEF Helper
  <2>2. job' = [job EXCEPT ![j] = b]
    BY <1>2
  <2> HIDE DEF b
  <2> QED BY <1>1, <2>1, <2>2 DEF Moves
<1>3. CASE job' = [job EXCEPT ![j] = [@ EXCEPT !.pc = p, !.i = n]]
  <2> DEFINE b == [job[j] EXCEPT !.pc = p, !.i = n]
  <2>1. b \in Helper /\ b.internal = job[j].internal /\ b.pc = p
    BY <1>1, <1>3 DEF Helper
  <2>2. job' = [job EXCEPT ![j] = b]
    BY <1>3
  <2> HIDE DEF b
  <2> QED BY <1>1, <2>1, <2>2 DEF Moves
<1>4. CASE job' = [job EXCEPT ![j] = [@ EXCEPT !.pc = p, !.tries = n]]
  <2> DEFINE b == [job[j] EXCEPT !.pc = p, !.tries = n]
  <2>1. b \in Helper /\ b.internal = job[j].internal /\ b.pc = p
    BY <1>1, <1>4 DEF Helper
  <2>2. job' = [job EXCEPT ![j] = b]
    BY <1>4
  <2> HIDE DEF b
  <2> QED BY <1>1, <2>1, <2>2 DEF Moves
<1>5. CASE job' = [job EXCEPT ![j] = [@ EXCEPT !.i = n]] /\ job[j].pc = p
  <2> DEFINE b == [job[j] EXCEPT !.i = n]
  <2>1. b \in Helper /\ b.internal = job[j].internal /\ b.pc = p
    BY <1>1, <1>5 DEF Helper
  <2>2. job' = [job EXCEPT ![j] = b]
    BY <1>5
  <2> HIDE DEF b
  <2> QED BY <1>1, <2>1, <2>2 DEF Moves
<1>6. CASE job' = [job EXCEPT ![j] = [@ EXCEPT !.type = t, !.i = n]] /\ job[j].pc = p
  <2> DEFINE b == [job[j] EXCEPT !.type = t, !.i = n]
  <2>1. b \in Helper /\ b.internal = job[j].internal /\ b.pc = p
    BY <1>1, <1>6 DEF Helper
  <2>2. job' = [job EXCEPT ![j] = b]
    BY <1>6
  <2> HIDE DEF b
  <2> QED BY <1>1, <2>1, <2>2 DEF Moves
<1> QED BY <1>2, <1>3, <1>4, <1>5, <1>6

\* A step that moves a helper on its side of the reply and leaves the interlock alone.
LEMMA QuietStep ==
  ASSUME DhcpInv, NEW j \in Jobs, NEW p \in (HasMessage \union AfterReply) \ {"dead", "reconf"}, Moves(j, p),
         p \in HasMessage <=> job[j].pc \in HasMessage, UNCHANGED <<aam, replies, interlock>>,
         route' => \/ p \in {"exchange", "again"}
                   \/ route /\ job[j].pc \notin {"exchange", "again"}
  PROVE  DhcpInv'
<1>1. DhcpTypes' /\ MessageOwned'
  BY SameSide DEF Moves
<1>2. InterlockHeld'
  BY InterlockKept DEF Moves
<1>3. RouteUsed'
  BY DEF Moves, DhcpInv, RouteUsed
<1> QED BY <1>1, <1>2, <1>3 DEF DhcpInv

LEMMA BeginStep == ASSUME DhcpInv, NEW j \in Jobs, _BeginInterfaceConfig(j) PROVE DhcpInv'
<1> USE DEF DhcpInv, _BeginInterfaceConfig
<1>1. CASE replies' = 1 /\ UNCHANGED <<job, aam>>
  BY <1>1 DEF DhcpTypes, MessageOwned, InterlockHeld, RouteUsed
<1>2. CASE /\ job' = [job EXCEPT ![j] = Born(FALSE, "open")]
           /\ aam' = [owner |-> "helper", reserved |-> j] /\ replies' = 0
  <2>1. /\ job' \in [Jobs -> Helper] /\ \A k \in Jobs : k # j => job'[k] = job[k]
        /\ ~job'[j].internal /\ job'[j].pc = "open" /\ job[j].pc = "dead"
    BY <1>2 DEF DhcpTypes, Helper, Born, Dead
  <2>2. \A k \in Jobs : k # j => job[k].internal \/ job[k].pc \notin HasMessage
    BY DEF MessageOwned
  <2>a. aam'.owner = "helper" /\ aam'.reserved = j /\ aam' \in [owner : {"app", "helper"}, reserved : Jobs \union {NoJob}]
    BY <1>2
  <2>b. DhcpTypes'
    BY <1>2, <2>1, <2>a DEF DhcpTypes
  <2>c. \A k \in Jobs : job'[k].pc = "reconf" => job'[k].internal
    BY <2>1 DEF MessageOwned
  <2>d. \A k \in Jobs : ~job'[k].internal /\ job'[k].pc \in HasMessage => k = j
    BY <2>1, <2>2
  <2>e. replies' = 0 /\ replies' <= 1 /\ j # NoJob
    BY <1>2
  <2> HIDE DEF _BeginInterfaceConfig, DhcpInv
  <2>3. MessageOwned'
    BY <2>1, <2>a, <2>c, <2>d, <2>e DEF MessageOwned
  <2>4. InterlockHeld' /\ RouteUsed'
    BY <2>1 DEF DhcpInv, _BeginInterfaceConfig, InterlockHeld, RouteUsed
  <2> QED BY <2>b, <2>3, <2>4 DEF DhcpInv
<1> QED BY <1>1, <1>2

LEMMA AbortFlag ==
  ASSUME NEW x \in Helper
  PROVE  LET b == [x EXCEPT !.abort = TRUE] IN b \in Helper /\ b.pc = x.pc /\ b.internal = x.internal
BY DEF Helper

LEMMA AbortStep == ASSUME DhcpInv, _AbortInterfaceConfig PROVE DhcpInv'
<1> USE DEF DhcpInv, _AbortInterfaceConfig
<1>1. aam.reserved \in Jobs
  BY DEF DhcpTypes
<1>2. /\ job' \in [Jobs -> Helper]
      /\ \A k \in Jobs : job'[k].pc = job[k].pc /\ job'[k].internal = job[k].internal
  <2> DEFINE b == [job[aam.reserved] EXCEPT !.abort = TRUE]
  <2>1. job \in [Jobs -> Helper] /\ job' = [job EXCEPT ![aam.reserved] = b]
    BY DEF DhcpTypes
  <2>2. b \in Helper /\ b.pc = job[aam.reserved].pc /\ b.internal = job[aam.reserved].internal
    BY <1>1, <2>1, AbortFlag
  <2> HIDE DEF b
  <2> QED BY <1>1, <2>1, <2>2
<1>3. DhcpTypes' /\ MessageOwned'
  BY <1>1, <1>2 DEF DhcpTypes, MessageOwned
<1> QED BY <1>2, <1>3 DEF InterlockHeld, RouteUsed

LEMMA ReconfigureStep == ASSUME DhcpInv, NEW j \in Jobs, ng_reconfigure_interface(j) PROVE DhcpInv'
<1> USE DEF DhcpInv, ng_reconfigure_interface
<1>1. CASE interlock' = FALSE /\ UNCHANGED job
  BY <1>1 DEF DhcpTypes, MessageOwned, InterlockHeld, RouteUsed
<1>2. CASE job' = [job EXCEPT ![j] = Born(TRUE, "reconf")]
  <2>1. /\ job' \in [Jobs -> Helper] /\ \A k \in Jobs : k # j => job'[k] = job[k]
        /\ job'[j].internal /\ job'[j].pc = "reconf" /\ job[j].pc = "dead"
    BY <1>2 DEF DhcpTypes, Helper, Born, Dead
  <2>2. DhcpTypes' /\ MessageOwned'
    BY <2>1, NoApplication
  <2>3. InterlockHeld' /\ RouteUsed'
    BY <2>1 DEF InterlockHeld, RouteUsed
  <2> QED BY <2>2, <2>3
<1> QED BY <1>1, <1>2

\* A helper that ends had no message, and takes its interlock with it.
LEMMA DeadStep ==
  ASSUME DhcpInv, NEW j \in Jobs, job[j].pc \in {"reconf", "cleanup"}, job' = [job EXCEPT ![j] = Dead],
         ~interlock' \/ (interlock' = interlock /\ ~job[j].internal), UNCHANGED <<aam, replies, route>>
  PROVE  DhcpInv'
<1>1. /\ job' \in [Jobs -> Helper] /\ \A k \in Jobs : k # j => job'[k] = job[k]
      /\ job'[j].pc = "dead"
  BY DEF DhcpInv, DhcpTypes, Helper, Dead
<1>2. DhcpTypes' /\ MessageOwned'
  BY <1>1, NoApplication
<1>3. InterlockHeld'
  BY <1>1 DEF DhcpInv, InterlockHeld
<1>4. RouteUsed'
  BY <1>1, RouteKept
<1> QED BY <1>2, <1>3, <1>4 DEF DhcpInv

LEMMA ReconfigTaskStep == ASSUME DhcpInv, NEW j \in Jobs, ng_reconfig_task(j) PROVE DhcpInv'
<1>1. CASE job' = [job EXCEPT ![j] = Dead] /\ ~interlock'
  BY <1>1, DeadStep DEF ng_reconfig_task
<1>2. CASE Goto(j, "open") /\ UNCHANGED interlock
  <2>1. Moves(j, "open") /\ job[j].pc = "reconf" /\ job[j].internal /\ UNCHANGED <<aam, replies, route>>
    BY <1>2, GotoMoves DEF ng_reconfig_task, DhcpInv, MessageOwned
  <2>2. DhcpTypes' /\ MessageOwned'
    BY <2>1, NoApplication DEF Moves
  <2>3. InterlockHeld' /\ RouteUsed'
    BY <1>2, <2>1, InterlockKept, RouteKept DEF Moves
  <2> QED BY <2>2, <2>3 DEF DhcpInv
<1> QED BY <1>1, <1>2 DEF ng_reconfig_task, ng_iface_reconfig_done

LEMMA SetupStep == ASSUME DhcpInv, NEW j \in Jobs, DhcpSetup(j) PROVE DhcpInv'
<1>1. job[j].pc = "open" /\ UNCHANGED <<aam, replies, interlock>>
  BY DEF DhcpSetup
<1>2. CASE Goto(j, "reply") /\ UNCHANGED route
  BY <1>1, <1>2, GotoMoves, QuietStep
<1>3. CASE job' = [job EXCEPT ![j] = [@ EXCEPT !.pc = "exchange", !.i = 0, !.type = "discover"]]
  <2>1. Moves(j, "exchange")
    BY <1>3, CountingMoves
  <2> QED BY <1>1, <2>1, QuietStep
<1> QED BY <1>2, <1>3 DEF DhcpSetup

LEMMA ExchangeStep ==
  ASSUME DhcpInv, NEW j \in Jobs,
         \/ ng_dhcp_exchange(j, "exchange", "lease", "llarm")
         \/ ng_dhcp_exchange(j, "again", "late", "restore")
  PROVE  DhcpInv'
<1>0. PICK p \in {"exchange", "again"}, got \in {"lease", "late"}, none \in {"llarm", "restore"} :
        /\ ng_dhcp_exchange(j, p, got, none)
        /\ p = "exchange" => got = "lease" /\ none = "llarm"
        /\ p = "again" => got = "late" /\ none = "restore"
  OBVIOUS
<1>1. job[j].pc = p /\ UNCHANGED <<aam, replies, interlock>>
  BY <1>0 DEF ng_dhcp_exchange
<1>2. ASSUME NEW q \in {got, none, "reply"}, Goto(j, q), q = "reply" => p = "exchange", ~route'
      PROVE  DhcpInv'
  BY <1>0, <1>1, <1>2, GotoMoves, QuietStep
<1>3. ASSUME NEW a \in Answer(job[j].type), a # "ack", job' = [job EXCEPT ![j] = Polled(@, a)]
      PROVE  DhcpInv'
  <2>1. job[j].i \in Nat
    BY DEF DhcpInv, DhcpTypes, Helper
  <2>2. CASE a \in {"offer", "nak"}
    <3>1. PICK t \in {"discover", "request"} : Polled(job[j], a) = [job[j] EXCEPT !.type = t, !.i = 0]
      BY <2>2 DEF Polled
    <3> QED BY <1>1, <1>3, <3>1, CountingMoves, QuietStep
  <2>3. CASE a \notin {"offer", "nak"}
    <3>1. Polled(job[j], a) = [job[j] EXCEPT !.i = job[j].i + 1]
      BY <2>3 DEF Polled
    <3>2. job' = [job EXCEPT ![j] = [@ EXCEPT !.i = job[j].i + 1]] /\ job[j].i + 1 \in Nat
      BY <1>3, <2>1, <3>1
    <3> QED BY <1>1, <1>3, <3>2, CountingMoves, QuietStep
  <2> QED BY <2>2, <2>3
<1> QED BY <1>0, <1>1, <1>2, <1>3 DEF ng_dhcp_exchange, ng_del_discover_route

LEMMA LeaseStep ==
  ASSUME DhcpInv, NEW j \in Jobs,
         ng_apply_lease(j, "lease", "reply") \/ ng_apply_lease(j, "late", "cleanup")
  PROVE  DhcpInv'
BY GotoMoves, QuietStep DEF ng_apply_lease

LEMMA LinkLocalStep ==
  ASSUME DhcpInv, NEW j \in Jobs,
         ng_ll_arm(j) \/ ng_ll_send_probe(j) \/ ng_ll_conflicted(j) \/ ng_ll_commit(j)
  PROVE  DhcpInv'
<1>1. UNCHANGED <<aam, replies, interlock, route>> /\ job[j].i \in Nat /\ job[j].tries \in Nat
  BY DEF ng_ll_arm, ng_ll_send_probe, ng_ll_conflicted, ng_ll_commit, DhcpInv, DhcpTypes, Helper
<1>2. ASSUME NEW p \in HasMessage \ {"open", "exchange"}, Moves(j, p), job[j].pc \in {"llarm", "llprobe", "llwait", "llcommit"}
      PROVE  DhcpInv'
  BY <1>1, <1>2, QuietStep
<1>3. CASE ng_ll_commit(j)
  <2>1. CASE job[j].pc = "recommit"
    BY <1>1, <1>3, <2>1, GotoMoves, QuietStep DEF ng_ll_commit
  <2> QED BY <1>2, <1>3, <2>1, GotoMoves DEF ng_ll_commit
<1>5. ASSUME NEW p \in {"reply", "llwait", "llcommit"}, Goto(j, p), job[j].pc \in {"llarm", "llprobe", "llwait"}
      PROVE  DhcpInv'
  BY <1>2, <1>5, GotoMoves
<1>6. ASSUME job' = [job EXCEPT ![j] = [@ EXCEPT !.pc = "llarm", !.tries = job[j].tries + 1]], job[j].pc \in {"llprobe", "llwait"}
      PROVE  DhcpInv'
  <2>1. job[j].tries + 1 \in Nat
    BY <1>1
  <2>2. Moves(j, "llarm")
    BY <1>6, <2>1, CountingMoves
  <2> QED BY <1>2, <1>6, <2>2
<1>7. CASE ng_ll_arm(j)
  <2>1. CASE job' = [job EXCEPT ![j] = [@ EXCEPT !.pc = "llprobe", !.i = 1]]
    BY <1>2, <1>7, <2>1, CountingMoves DEF ng_ll_arm
  <2> QED BY <1>5, <1>7, <2>1 DEF ng_ll_arm
<1>8. CASE ng_ll_send_probe(j)
  <2>1. CASE job' = [job EXCEPT ![j].i = @ + 1]
    <3>1. job' = [job EXCEPT ![j].i = job[j].i + 1] /\ job[j].i + 1 \in Nat /\ job[j].pc = "llprobe"
      BY <1>1, <1>8, <2>1 DEF ng_ll_send_probe
    <3>2. Moves(j, "llprobe")
      BY <3>1, CountingMoves
    <3> QED BY <1>2, <3>1, <3>2
  <2> QED BY <1>5, <1>6, <1>8, <2>1 DEF ng_ll_send_probe
<1>9. CASE ng_ll_conflicted(j)
  BY <1>5, <1>6, <1>9 DEF ng_ll_conflicted
<1> QED BY <1>3, <1>7, <1>8, <1>9

\* The reply: it is the application's helper that gives the message back, once.
LEMMA FinishStep ==
  ASSUME DhcpInv, NEW j \in Jobs,
         ng_dhcp_finish_aam(j, "reply", "cleanup") \/ ng_dhcp_finish_aam(j, "llreply", "retrywait")
  PROVE  DhcpInv'
<1>0. PICK p \in {"cleanup", "retrywait"} : Goto(j, p) /\ job[j].pc \in {"reply", "llreply"}
  BY DEF ng_dhcp_finish_aam
<1>1. Moves(j, p) /\ UNCHANGED <<interlock, route>>
  BY <1>0, GotoMoves DEF ng_dhcp_finish_aam
<1>2. InterlockHeld' /\ RouteUsed'
  BY <1>0, <1>1, InterlockKept, RouteKept DEF Moves
<1>3. CASE job[j].internal
  <2>1. UNCHANGED <<aam, replies>>
    BY <1>3 DEF ng_dhcp_finish_aam
  <2>2. DhcpTypes' /\ MessageOwned'
    BY <1>0, <1>1, <1>3, <2>1, NoApplication DEF Moves
  <2> QED BY <1>2, <2>2 DEF DhcpInv
<1>4. CASE ~job[j].internal
  <2>1. aam' = [owner |-> "app", reserved |-> NoJob] /\ replies' = replies + 1
    BY <1>4 DEF ng_dhcp_finish_aam
  <2>2. aam.reserved = j /\ replies = 0
    BY <1>0, <1>4 DEF DhcpInv, MessageOwned
  <2>3. \A k \in Jobs : k # j => job[k].internal \/ job[k].pc \notin HasMessage
    BY <2>2 DEF DhcpInv, MessageOwned
  <2>4. DhcpTypes'
    BY <1>1, <2>1, <2>2 DEF DhcpTypes, Moves
  <2>5. /\ \A k \in Jobs : job'[k].internal \/ job'[k].pc \notin HasMessage
        /\ \A k \in Jobs : job'[k].pc = "reconf" => job'[k].internal
    BY <1>0, <1>1, <2>3 DEF Moves, DhcpInv, MessageOwned
  <2>6. MessageOwned'
    BY <2>1, <2>2, <2>5 DEF MessageOwned
  <2> QED BY <1>2, <2>4, <2>6 DEF DhcpInv
<1> QED BY <1>3, <1>4

LEMMA RetryStep ==
  ASSUME DhcpInv, NEW j \in Jobs, RetryLooks(j) \/ RetryUnnumbers(j) \/ RetryRestores(j)
  PROVE  DhcpInv'
<1>1. CASE RetryLooks(j)
  <2>1. PICK p \in {"unnumber", "cleanup"} : Goto(j, p)
    BY <1>1 DEF RetryLooks
  <2> QED BY <1>1, <2>1, GotoMoves, QuietStep DEF RetryLooks
<1>2. CASE RetryUnnumbers(j)
  <2>1. Moves(j, "again")
    BY <1>2, CountingMoves DEF RetryUnnumbers
  <2> QED BY <1>2, <2>1, QuietStep DEF RetryUnnumbers
<1>3. CASE RetryRestores(j)
  BY <1>3, GotoMoves, QuietStep DEF RetryRestores
<1> QED BY <1>1, <1>2, <1>3

\* The invariant is inductive.
LEMMA DhcpInductive == ASSUME DhcpInv, [DhcpNext]_dvars PROVE DhcpInv'
<1>1. CASE UNCHANGED dvars \/ in_arpconflict
  BY <1>1 DEF dvars, in_arpconflict, DhcpInv, DhcpTypes, MessageOwned, InterlockHeld, RouteUsed
<1>2. CASE Operator
  <2>1. UNCHANGED <<job, aam, replies, route>> /\ (interlock' = interlock \/ ~interlock')
    BY <1>2 DEF Operator
  <2> QED BY <2>1 DEF DhcpInv, DhcpTypes, MessageOwned, InterlockHeld, RouteUsed
<1>3. ASSUME NEW j \in Jobs, DhcpCleanup(j) PROVE DhcpInv'
  BY <1>3, DeadStep DEF DhcpCleanup, ng_iface_reconfig_done
<1>4. ASSUME NEW j \in Jobs, HelperStep(j) PROVE DhcpInv'
  BY <1>3, <1>4, ReconfigTaskStep, SetupStep, ExchangeStep, LeaseStep, LinkLocalStep, FinishStep, RetryStep
     DEF HelperStep
<1> QED BY <1>1, <1>2, <1>4, AbortStep, BeginStep, ReconfigureStep DEF DhcpNext

\* AbortInterfaceConfig finds a live helper that has the message; the application gets its
\* message back exactly once; ss_reconfiguring is not left behind by helpers that are gone,
\* nor is the broadcast route (ng_dhcp_task, ng_reconfigure_interface, ng_dhcp_background).
THEOREM SpecHelpersAccounted == DhcpSpec => []HelpersAccounted
<1>1. DhcpInv => HelpersAccounted
  BY DEF DhcpInv, MessageOwned, InterlockHeld, RouteUsed, HelpersAccounted
<1> QED BY <1>1, DhcpInitInv, DhcpInductive, PTL DEF DhcpSpec

HIDE JobsAssumption DEF HasMessage, AfterReply

-----------------------------------------------------------------------------
(***************************************************************************)
(* The SANA-II helper: HelperSound, for any number of clients, starts of   *)
(* the stack and commands.                                                 *)
(***************************************************************************)

ClientPCs == {"idle", "begin", "direct", "begun", "abandoned", "done", "gone"}
Tasks == [pc : ClientPCs, hp : 0..MaxStarts]
Requests == {"none", "unsent", "queued", "beginio", "client", "device", "freed"}

HelperTypes ==
  /\ cmds \in Nat
  /\ starts \in 0..MaxStarts /\ hport \in 0..MaxStarts
  /\ helper \in [Helpers -> NotAClient \union Clients]
  /\ queue \in [Helpers -> Seq(Clients \union {Bye})]
  /\ client \in [Clients -> Tasks]
  /\ ioreq \in [Clients -> Requests]
  /\ late \subseteq Helpers

\* The registered port is that of the latest helper, which is alive and has not been
\* told to go; later helpers do not exist yet.
Registered ==
  /\ hport # 0 => /\ sanaUp /\ hport = starts /\ helper[hport] \notin {"none", "exited"}
                  /\ \A i \in 1..Len(queue[hport]) : queue[hport][i] # Bye
  /\ \A h \in Helpers : h > starts => helper[h] = "none" /\ queue[h] = <<>>

\* The token is the last message of a port, since nothing is sent to a port whose
\* stack has been stopped; so a helper that exits leaves nothing behind.
ByeIsLast ==
  \A h \in Helpers :
    /\ \A i \in 1..Len(queue[h]) : queue[h][i] = Bye => i = Len(queue[h])
    /\ helper[h] = "exited" => queue[h] = <<>>

\* Who can still reach the request of c.
Holds(h, c) == helper[h] = c \/ \E i \in 1..Len(queue[h]) : queue[h][i] = c

\* A request is in one place: with one helper, at work or at one place in its port.
HeldOnce ==
  /\ \A c \in Clients, g \in Helpers, h \in Helpers : Holds(g, c) /\ Holds(h, c) => g = h
  /\ \A h \in Helpers :
       /\ \A i, j \in 1..Len(queue[h]) : queue[h][i] = queue[h][j] => i = j
       /\ \A i \in 1..Len(queue[h]) : queue[h][i] # helper[h]

\* A helper has the request of a client only while that waits for BeginIO, or after
\* it gave up; a client that waits knows the port it waits for.
ClientsWait ==
  \A c \in Clients :
    /\ client[c].pc \notin {"begin", "abandoned", "gone"} => \A h \in Helpers : ~Holds(h, c)
    /\ client[c].pc = "begin" => client[c].hp # 0
    /\ ioreq[c] = "freed" => client[c].pc = "idle"

HelperInv ==
  /\ HelperTypes /\ Registered /\ ByeIsLast /\ HeldOnce /\ ClientsWait
  /\ wedged => starts \in late

-----------------------------------------------------------------------------
USE HelperAssumption, ClientsAssumption DEF Helpers, NotAClient, Bye, ClientPCs, Requests

\* What a message at the end of a port, and one taken from its front, change.
LEMMA PortAppend ==
  ASSUME NEW S, NEW s \in Seq(S), NEW x \in S
  PROVE  /\ Append(s, x) \in Seq(S) /\ Len(Append(s, x)) = Len(s) + 1 /\ Len(s) \in Nat
         /\ \A i \in 1..Len(s) : Append(s, x)[i] = s[i]
         /\ Append(s, x)[Len(s) + 1] = x
OBVIOUS

LEMMA PortTail ==
  ASSUME NEW S, NEW s \in Seq(S), s # <<>>
  PROVE  /\ Tail(s) \in Seq(S) /\ Len(s) \in Nat \ {0} /\ Len(Tail(s)) = Len(s) - 1
         /\ Head(s) = s[1] /\ Head(s) \in S
         /\ \A i \in 1..(Len(s) - 1) : Tail(s)[i] = s[i + 1]
         /\ Len(s) = 1 => Tail(s) = <<>>
<1>1. Tail(s) \in Seq(S) /\ Len(s) \in Nat \ {0} /\ Len(Tail(s)) = Len(s) - 1
  OBVIOUS
<1>2. Head(s) = s[1] /\ Head(s) \in S /\ \A i \in 1..(Len(s) - 1) : Tail(s)[i] = s[i + 1]
  OBVIOUS
<1>3. \A t \in Seq(S) : Len(t) = 0 => t = <<>>
  BY EmptySeq
<1> DEFINE t == Tail(s)
<1>4. t \in Seq(S) /\ (Len(s) = 1 => Len(t) = 0)
  BY <1>1
<1> HIDE DEF t
<1>5. Len(s) = 1 => t = <<>>
  BY <1>3, <1>4
<1> QED BY <1>1, <1>2, <1>5 DEF t

LEMMA HelperInitInv == ASSUME HelperInit PROVE HelperInv
<1> USE DEF HelperInit
<1>1. HelperTypes
  BY DEF HelperTypes, Tasks
<1>2. Registered /\ ByeIsLast
  BY DEF Registered, ByeIsLast
<1>3. \A h \in Helpers : queue[h] = <<>> /\ helper[h] = "none"
  OBVIOUS
<1>4. \A c \in Clients, h \in Helpers : ~Holds(h, c)
  BY <1>3 DEF Holds
<1>5. HeldOnce
  BY <1>3, <1>4 DEF HeldOnce
<1>6. ClientsWait
  BY <1>4 DEF ClientsWait
<1> QED BY <1>1, <1>2, <1>5, <1>6 DEF HelperInv

\* Requests that stay where they are stay in one place.
LEMMA HeldUnchanged ==
  ASSUME HeldOnce, UNCHANGED <<helper, queue>>
  PROVE  HeldOnce' /\ \A h \in Helpers, c \in Clients : Holds(h, c)' <=> Holds(h, c)
BY DEF HeldOnce, Holds

LEMMA StartStep == ASSUME HelperInv, sana_helper_start PROVE HelperInv'
<1> USE DEF HelperInv
<1>0. /\ starts + 1 \in Helpers /\ helper[starts + 1] = "none" /\ queue[starts + 1] = <<>>
      /\ starts \in Nat
  BY DEF HelperTypes, Registered, sana_helper_start
<1>2. /\ sanaUp' /\ ~wedged' /\ starts' = starts + 1
      /\ UNCHANGED <<queue, client, ioreq, late, cmds>>
      /\ \/ hport' = 0 /\ helper' = helper
         \/ hport' = starts + 1 /\ helper' = [helper EXCEPT ![starts + 1] = "wait"]
  BY DEF sana_helper_start
<1>1. HelperTypes'
  <2>1. hport' \in 0..MaxStarts /\ starts' \in 0..MaxStarts
    BY <1>0, <1>2
  <2>2. helper' \in [Helpers -> NotAClient \union Clients]
    BY <1>2 DEF HelperTypes
  <2> QED BY <1>2, <2>1, <2>2 DEF HelperTypes
<1>3. \A h \in Helpers : helper'[h] = helper[h] \/ (h = starts + 1 /\ helper'[h] = "wait")
  BY <1>2 DEF HelperTypes
<1>4. Registered'
  <2>1. \A h \in Helpers : h > starts' => helper'[h] = "none" /\ queue'[h] = <<>>
    BY <1>0, <1>2, <1>3 DEF Registered
  <2>2. CASE hport' = 0
    BY <2>1, <2>2 DEF Registered
  <2>3. CASE hport' = starts + 1 /\ helper' = [helper EXCEPT ![starts + 1] = "wait"]
    <3>1. helper'[hport'] = "wait" /\ queue'[hport'] = <<>>
      BY <1>0, <1>2, <2>3 DEF HelperTypes
    <3> QED BY <1>0, <1>2, <2>1, <2>3, <3>1 DEF Registered
  <2> QED BY <1>2, <2>2, <2>3
<1>5. ByeIsLast'
  BY <1>2, <1>3 DEF ByeIsLast
<1>6. \A h \in Helpers, c \in Clients : Holds(h, c)' <=> Holds(h, c)
  BY <1>0, <1>2, <1>3 DEF Holds
<1>7. HeldOnce'
  BY <1>0, <1>2, <1>3, <1>6 DEF HeldOnce
<1>8. ClientsWait'
  BY <1>2, <1>6 DEF ClientsWait
<1> QED BY <1>1, <1>2, <1>4, <1>5, <1>7, <1>8

LEMMA StopStep == ASSUME HelperInv, sana_helper_stop PROVE HelperInv'
<1> USE DEF HelperInv
<1>0. /\ hport' = 0 /\ ~wedged' /\ UNCHANGED <<starts, helper, client, ioreq, late, cmds>>
      /\ \/ queue' = queue
         \/ hport # 0 /\ queue' = [queue EXCEPT ![hport] = Append(@, Bye)]
  BY DEF sana_helper_stop
<1>1. CASE queue' = queue
  <2>1. HelperTypes' /\ Registered' /\ ByeIsLast'
    BY <1>0, <1>1 DEF HelperTypes, Registered, ByeIsLast
  <2>2. HeldOnce' /\ ClientsWait'
    BY <1>0, <1>1, HeldUnchanged DEF ClientsWait
  <2> QED BY <1>0, <2>1, <2>2
<1>2. CASE hport # 0 /\ queue' = [queue EXCEPT ![hport] = Append(@, Bye)]
  <2> DEFINE q == queue[hport]
             r == Append(q, Bye)
  <2>1. hport \in Helpers /\ q \in Seq(Clients \union {Bye})
    BY <1>2 DEF HelperTypes
  <2>2. /\ r \in Seq(Clients \union {Bye}) /\ Len(r) = Len(q) + 1 /\ Len(q) \in Nat
        /\ \A i \in 1..Len(q) : r[i] = q[i]
        /\ r[Len(q) + 1] = Bye
    BY <2>1, PortAppend
  <2>3. queue'[hport] = r /\ \A h \in Helpers : h # hport => queue'[h] = queue[h]
    BY <1>2, <2>1 DEF HelperTypes
  <2>4. HelperTypes'
    BY <1>0, <1>2, <2>2 DEF HelperTypes
  <2>5. hport = starts /\ helper[hport] # "exited" /\ \A i \in 1..Len(q) : q[i] # Bye
    BY <1>2 DEF Registered
  <2> HIDE DEF q, r
  <2>6. Registered'
    BY <1>0, <2>1, <2>3, <2>5 DEF Registered
  <2>7. ByeIsLast'
    BY <1>0, <2>1, <2>2, <2>3, <2>5 DEF ByeIsLast
  <2>8. \A i \in 1..Len(r) : r[i] = Bye \/ (i \in 1..Len(q) /\ r[i] = q[i])
    BY <2>2
  <2>9. \A h \in Helpers, c \in Clients : Holds(h, c)' => Holds(h, c)
    BY <1>0, <2>1, <2>3, <2>8 DEF Holds, q
  <2>10. HeldOnce'
    <3>0. \A i, j \in 1..Len(q) : q[i] = q[j] => i = j
      BY <2>1 DEF HeldOnce, q
    <3>1. \A i, j \in 1..Len(r) : r[i] = r[j] => i = j
      BY <2>2, <2>5, <3>0
    <3>2. helper[hport] # Bye
      BY <2>1 DEF HelperTypes
    <3>3. \A i \in 1..Len(r) : r[i] # helper[hport]
      BY <2>1, <2>8, <3>2 DEF HeldOnce, q
    <3> QED BY <1>0, <2>1, <2>3, <2>9, <3>1, <3>3 DEF HeldOnce
  <2>11. ClientsWait'
    BY <1>0, <2>9 DEF ClientsWait
  <2> QED BY <1>0, <2>4, <2>6, <2>7, <2>10, <2>11
<1> QED BY <1>0, <1>1, <1>2

LEMMA TakesStep == ASSUME HelperInv, NEW h \in Helpers, HelperTakes(h) PROVE HelperInv'
<1> USE DEF HelperInv
<1> DEFINE q == queue[h]
           r == Tail(q)
<1>1. q \in Seq(Clients \union {Bye}) /\ q # <<>>
  BY DEF HelperTypes, HelperTakes
<1>2. /\ r \in Seq(Clients \union {Bye}) /\ Len(q) \in Nat \ {0} /\ Len(r) = Len(q) - 1
      /\ Head(q) = q[1] /\ Head(q) \in Clients \union {Bye}
      /\ \A i \in 1..(Len(q) - 1) : r[i] = q[i + 1]
      /\ Len(q) = 1 => r = <<>>
  BY <1>1, PortTail
<1>3. /\ queue'[h] = r
      /\ \A g \in Helpers : g # h => queue'[g] = queue[g] /\ helper'[g] = helper[g]
      /\ helper[h] = "wait" /\ helper'[h] = IF q[1] = Bye THEN "exited" ELSE q[1]
      /\ UNCHANGED <<sanaUp, starts, hport, wedged, client, late, cmds>>
      /\ \A c \in Clients : ioreq'[c] = ioreq[c] \/ ioreq'[c] = "beginio"
  BY <1>2 DEF HelperTypes, HelperTakes
<1>4. HelperTypes'
  <2>1. queue' \in [Helpers -> Seq(Clients \union {Bye})]
    BY <1>2 DEF HelperTypes, HelperTakes
  <2>2. CASE Head(q) = Bye
    BY <1>3, <2>1, <2>2 DEF HelperTypes, HelperTakes
  <2>3. CASE Head(q) # Bye
    BY <1>2, <1>3, <2>1, <2>3 DEF HelperTypes, HelperTakes
  <2> QED BY <2>2, <2>3
<1>5. q = queue[h] /\ 1 \in 1..Len(q)
  BY <1>2
<1> HIDE DEF q, r
<1>6. \A i \in 1..Len(r) : i + 1 \in 1..Len(q) /\ r[i] = q[i + 1]
  BY <1>2
<1>7. Registered'
  <2>1. \A g \in Helpers : g > starts => g # h
    BY <1>3, <1>5 DEF Registered
  <2>2. hport # 0 => hport \in Helpers
    BY DEF HelperTypes
  <2>3. hport = h => q[1] # Bye /\ q[1] \in Clients
    BY <1>2, <1>5, <2>2 DEF Registered
  <2>4. hport = h => \A i \in 1..Len(r) : r[i] # Bye
    BY <1>5, <1>6, <2>2 DEF Registered
  <2> QED BY <1>3, <2>1, <2>2, <2>3, <2>4 DEF Registered
<1>8. ByeIsLast'
  <2>1. q[1] = Bye => r = <<>>
    BY <1>2, <1>5 DEF ByeIsLast
  <2>2. \A i \in 1..Len(r) : r[i] = Bye => i = Len(r)
    BY <1>2, <1>5, <1>6 DEF ByeIsLast
  <2>3. helper'[h] = "exited" => q[1] = Bye
    BY <1>2, <1>3, <1>5, ClientsAssumption
  <2>4. \A g \in Helpers : g # h => helper'[g] = helper[g] /\ queue'[g] = queue[g]
    BY <1>3
  <2> QED BY <1>3, <2>1, <2>2, <2>3, <2>4 DEF ByeIsLast
<1>9. \A g \in Helpers, c \in Clients : Holds(g, c)' => Holds(g, c)
  <2> TAKE g \in Helpers, c \in Clients
  <2>1. CASE g # h
    BY <1>3, <2>1 DEF Holds
  <2>2. CASE g = h
    <3>1. helper'[h] = c => q[1] = c
      BY <1>3
    <3> QED BY <1>3, <1>5, <1>6, <2>2, <3>1 DEF Holds
  <2> QED BY <2>1, <2>2
<1>10. HeldOnce'
  <2>1. ASSUME NEW i \in 1..Len(r), NEW j \in 1..Len(r), r[i] = r[j] PROVE i = j
    <3>1. i + 1 \in 1..Len(q) /\ j + 1 \in 1..Len(q) /\ q[i + 1] = q[j + 1]
      BY <1>6, <2>1
    <3>2. i + 1 = j + 1
      BY <1>5, <3>1 DEF HeldOnce
    <3> QED BY <1>2, <3>2
  <2>2. \A i \in 1..Len(r) : r[i] # q[1]
    BY <1>2, <1>5, <1>6 DEF HeldOnce
  <2>3. \A i \in 1..Len(r) : r[i] # "exited"
    BY <1>2
  <2> QED BY <1>3, <1>9, <2>1, <2>2, <2>3 DEF HeldOnce
<1>11. ClientsWait'
  BY <1>3, <1>9 DEF ClientsWait
<1> QED BY <1>3, <1>4, <1>7, <1>8, <1>10, <1>11

LEMMA ReturnsStep == ASSUME HelperInv, NEW h \in Helpers, HelperReturns(h) PROVE HelperInv'
<1> USE DEF HelperInv
<1>1. PICK c \in Clients : /\ helper[h] = c /\ helper' = [helper EXCEPT ![h] = "wait"]
        /\ UNCHANGED <<sanaUp, starts, hport, wedged, queue, late, cmds>>
        /\ client' = [client EXCEPT ![c].pc = IF @ = "begin" /\ client[c].hp = h
                                              THEN "begun" ELSE @]
        /\ \E quick \in BOOLEAN : ioreq' = [ioreq EXCEPT ![c] =
             IF @ # "beginio" THEN @ ELSE IF quick THEN "client" ELSE "device"]
  BY DEF HelperReturns
<1>2. /\ helper'[h] = "wait" /\ \A g \in Helpers : g # h => helper'[g] = helper[g]
      /\ \A d \in Clients : ioreq'[d] = ioreq[d] \/ ioreq'[d] \in {"client", "device"}
  BY <1>1 DEF HelperTypes
<1>3. /\ \A d \in Clients : client'[d].hp = client[d].hp
      /\ \A d \in Clients : d # c => client'[d].pc = client[d].pc
      /\ client'[c].pc \in {client[c].pc, "begun"}
  BY <1>1 DEF HelperTypes
<1>4. HelperTypes'
  <2>1. client' \in [Clients -> Tasks]
    BY <1>1 DEF HelperTypes, Tasks
  <2> QED BY <1>1, <2>1 DEF HelperTypes
<1>5. Registered'
  BY <1>1, <1>2 DEF Registered, HelperTypes
<1>6. ByeIsLast'
  BY <1>1, <1>2 DEF ByeIsLast
<1>7. \A g \in Helpers, d \in Clients : Holds(g, d)' => Holds(g, d)
  BY <1>1, <1>2 DEF Holds
<1>8. \A g \in Helpers : ~Holds(g, c)'
  <2>1. Holds(h, c)
    BY <1>1 DEF Holds
  <2>2. \A g \in Helpers : Holds(g, c) => g = h
    BY <2>1 DEF HeldOnce
  <2>3. ~Holds(h, c)'
    BY <1>1, <1>2 DEF Holds, HeldOnce
  <2> QED BY <1>7, <2>2, <2>3
<1>9. HeldOnce'
  <2>0. \A i \in 1..Len(queue[h]) : queue[h][i] \in Clients \union {Bye}
    BY DEF HelperTypes
  <2>1. \A i \in 1..Len(queue[h]) : queue[h][i] # "wait"
    BY <2>0
  <2> QED BY <1>1, <1>2, <1>7, <2>1 DEF HeldOnce
<1>10. ClientsWait'
  <2>1. ioreq[c] # "freed"
    BY <1>1 DEF ClientsWait, Holds
  <2> QED BY <1>2, <1>3, <1>7, <1>8, <2>1 DEF ClientsWait
<1> QED BY <1>1, <1>4, <1>5, <1>6, <1>9, <1>10

LEMMA HandoffStep == ASSUME HelperInv, NEW c \in Clients, Handoff(c) PROVE HelperInv'
<1> USE DEF HelperInv
<1>0. /\ client[c].pc = "idle" /\ sanaUp /\ cmds' = cmds + 1
      /\ UNCHANGED <<sanaUp, starts, hport, wedged, helper, late>>
      /\ \A h \in Helpers : ~Holds(h, c)
  BY DEF Handoff, ClientsWait
<1>1. CASE UNCHANGED queue /\ \E p \in {"direct", "abandoned"}, r \in {"beginio", "unsent"} :
             /\ client' = [client EXCEPT ![c] = [pc |-> p, hp |-> 0]] \/ client' = [client EXCEPT ![c].pc = p]
             /\ ioreq' = [ioreq EXCEPT ![c] = r]
  <2>0. /\ client' \in [Clients -> Tasks]
        /\ ioreq' \in [Clients -> Requests]
    <3>1. PICK p \in {"direct", "abandoned"}, r \in {"beginio", "unsent"} :
            /\ client' = [client EXCEPT ![c] = [pc |-> p, hp |-> 0]] \/ client' = [client EXCEPT ![c].pc = p]
            /\ ioreq' = [ioreq EXCEPT ![c] = r]
      BY <1>1
    <3>2. p \in ClientPCs /\ 0 \in 0..MaxStarts /\ client \in [Clients -> Tasks]
      BY DEF HelperTypes
    <3>3. CASE client' = [client EXCEPT ![c] = [pc |-> p, hp |-> 0]]
      BY <3>1, <3>2, <3>3 DEF HelperTypes, Tasks
    <3>4. CASE client' = [client EXCEPT ![c].pc = p]
      BY <3>1, <3>2, <3>4 DEF HelperTypes, Tasks
    <3> QED BY <3>1, <3>3, <3>4
  <2>1. HelperTypes'
    BY <1>0, <1>1, <2>0 DEF HelperTypes
  <2>2. Registered' /\ ByeIsLast'
    BY <1>0, <1>1 DEF Registered, ByeIsLast
  <2>3. HeldOnce' /\ \A h \in Helpers, d \in Clients : Holds(h, d)' <=> Holds(h, d)
    BY <1>0, <1>1, HeldUnchanged
  <2>4. /\ client'[c].pc \in {"direct", "abandoned"} /\ ioreq'[c] # "freed"
        /\ \A d \in Clients : d # c => client'[d] = client[d] /\ ioreq'[d] = ioreq[d]
    BY <1>1 DEF HelperTypes, Tasks
  <2>5. ClientsWait'
    BY <1>0, <2>3, <2>4 DEF ClientsWait
  <2> QED BY <1>0, <2>1, <2>2, <2>3, <2>5
<1>2. CASE /\ hport # 0 /\ queue' = [queue EXCEPT ![hport] = Append(@, c)]
           /\ client' = [client EXCEPT ![c] = [pc |-> "begin", hp |-> hport]]
           /\ ioreq' = [ioreq EXCEPT ![c] = "queued"]
  <2> DEFINE q == queue[hport]
             r == Append(q, c)
  <2>1. hport \in Helpers /\ q \in Seq(Clients \union {Bye})
    BY <1>2 DEF HelperTypes
  <2>2. /\ r \in Seq(Clients \union {Bye}) /\ Len(r) = Len(q) + 1 /\ Len(q) \in Nat
        /\ \A i \in 1..Len(q) : r[i] = q[i]
        /\ r[Len(q) + 1] = c
    BY <2>1, PortAppend
  <2>3. queue'[hport] = r /\ \A h \in Helpers : h # hport => queue'[h] = queue[h]
    BY <1>2, <2>1 DEF HelperTypes
  <2>4. HelperTypes'
    BY <1>0, <1>2, <2>2 DEF HelperTypes, Tasks
  <2>5. q = queue[hport]
    OBVIOUS
  <2> HIDE DEF q, r
  <2>6. /\ hport = starts /\ helper[hport] \notin {"none", "exited"}
        /\ \A i \in 1..Len(q) : q[i] # Bye
    BY <1>2, <2>5 DEF Registered
  <2>7. c # Bye /\ \A i \in 1..Len(r) : r[i] = c \/ (i \in 1..Len(q) /\ r[i] = q[i])
    BY <2>2
  <2>a. \A i \in 1..Len(r) : r[i] # Bye
    BY <2>6, <2>7
  <2>8. Registered'
    <3>1. \A h \in Helpers : h > starts => h # hport
      BY <2>6
    <3> QED BY <1>0, <2>1, <2>3, <2>6, <2>a, <3>1 DEF Registered
  <2>9. ByeIsLast'
    <3>1. \A h \in Helpers : helper[h] = "exited" => h # hport
      BY <2>6
    <3> QED BY <1>0, <2>1, <2>3, <2>a, <3>1 DEF ByeIsLast
  <2>10. \A h \in Helpers, d \in Clients : Holds(h, d)' => Holds(h, d) \/ (d = c /\ h = hport)
    BY <1>0, <2>1, <2>3, <2>5, <2>7 DEF Holds
  <2>11. HeldOnce'
    <3>0. \A i, j \in 1..Len(q) : q[i] = q[j] => i = j
      BY <2>1, <2>5 DEF HeldOnce
    <3>1. \A i \in 1..Len(q) : q[i] # c
      BY <1>0, <2>1, <2>5 DEF Holds
    <3>2. \A i, j \in 1..Len(r) : r[i] = r[j] => i = j
      BY <2>2, <3>0, <3>1
    <3>3. helper[hport] # c
      BY <1>0, <2>1 DEF Holds
    <3>4. \A i \in 1..Len(r) : r[i] # helper[hport]
      BY <2>1, <2>5, <2>7, <3>3 DEF HeldOnce
    <3>5. \A d \in Clients, g \in Helpers, h \in Helpers : Holds(g, d)' /\ Holds(h, d)' => g = h
      BY <1>0, <2>10 DEF HeldOnce
    <3> QED BY <1>0, <2>1, <2>3, <3>2, <3>4, <3>5 DEF HeldOnce
  <2>12. /\ client'[c].pc = "begin" /\ client'[c].hp = hport /\ ioreq'[c] # "freed"
         /\ \A d \in Clients : d # c => client'[d] = client[d] /\ ioreq'[d] = ioreq[d]
    BY <1>2 DEF HelperTypes
  <2>13. ClientsWait'
    BY <1>2, <2>10, <2>12 DEF ClientsWait
  <2> QED BY <1>0, <2>4, <2>8, <2>9, <2>11, <2>13
<1> QED
  <2>1. PICK memory \in BOOLEAN :
          CASE ~memory \/ (hport = 0 /\ ~wedged) -> SubmitDirectly(c)
            [] memory /\ wedged ->
                 /\ client' = [client EXCEPT ![c].pc = "abandoned"]
                 /\ ioreq' = [ioreq EXCEPT ![c] = "unsent"] /\ UNCHANGED queue
            [] OTHER ->
                 /\ queue' = [queue EXCEPT ![hport] = Append(@, c)]
                 /\ client' = [client EXCEPT ![c] = [pc |-> "begin", hp |-> hport]]
                 /\ ioreq' = [ioreq EXCEPT ![c] = "queued"]
    BY DEF Handoff
  <2>2. CASE ~memory \/ (hport = 0 /\ ~wedged)
    BY <1>1, <2>1, <2>2 DEF SubmitDirectly
  <2>3. CASE memory /\ wedged
    BY <1>1, <2>1, <2>3
  <2>4. CASE memory /\ ~wedged /\ hport # 0
    BY <1>2, <2>1, <2>4
  <2> QED BY <2>2, <2>3, <2>4

\* Steps of a client that move no message: they may leave it waiting no more, and free
\* a request only when its command has been completed.
LEMMA ClientStep ==
  ASSUME HelperInv, NEW c \in Clients,
         BeginTimesOut(c) \/ DirectReturns(c) \/ DeviceAnswers(c) \/ DoioEnds(c) \/ CallerGoesOn(c)
  PROVE  HelperInv'
<1> USE DEF HelperInv, BeginTimesOut, DirectReturns, DeviceAnswers, DoioEnds, CallerGoesOn
<1>1. UNCHANGED <<sanaUp, starts, helper, queue, cmds>>
  OBVIOUS
<1>2. HelperTypes'
  <2>0. HelperTypes /\ ClientsWait
    OBVIOUS
  <2>1. \E p \in ClientPCs : \/ client' = [client EXCEPT ![c].pc = p] \/ client' = client
                            \/ client' = [client EXCEPT ![c] = [pc |-> p, hp |-> 0]]
    OBVIOUS
  <2>a. client' \in [Clients -> Tasks]
    <3>1. PICK p \in ClientPCs : \/ client' = [client EXCEPT ![c].pc = p] \/ client' = client
                               \/ client' = [client EXCEPT ![c] = [pc |-> p, hp |-> 0]]
      BY <2>1
    <3>2. 0 \in 0..MaxStarts /\ client \in [Clients -> Tasks]
      BY DEF HelperTypes
    <3>3. CASE client' = [client EXCEPT ![c] = [pc |-> p, hp |-> 0]]
      BY <3>2, <3>3 DEF Tasks
    <3>4. CASE client' = [client EXCEPT ![c].pc = p]
      BY <3>2, <3>4 DEF Tasks
    <3> QED BY <3>1, <3>2, <3>3, <3>4
  <2>2. ioreq' \in [Clients -> Requests]
    BY DEF HelperTypes
  <2>3. hport' \in 0..MaxStarts /\ late' \subseteq Helpers
    BY DEF HelperTypes, ClientsWait, Tasks
  <2> QED BY <1>1, <2>a, <2>2, <2>3 DEF HelperTypes
<1>3. Registered' /\ ByeIsLast'
  BY DEF Registered, ByeIsLast
<1>4. HeldOnce' /\ \A h \in Helpers, d \in Clients : Holds(h, d)' <=> Holds(h, d)
  BY HeldUnchanged
<1>5. \A d \in Clients : d # c => client'[d] = client[d] /\ ioreq'[d] = ioreq[d]
  BY DEF HelperTypes
<1>6. /\ client'[c].pc \in {"begin", "abandoned", "gone"} \/ client[c].pc \notin {"begin", "abandoned", "gone"}
      /\ client'[c].pc = "begin" => client[c].pc = "begin" /\ client'[c].hp = client[c].hp
      /\ ioreq'[c] = "freed" => client'[c].pc = "idle"
  BY DEF HelperTypes, ClientsWait, Tasks
<1>7. ClientsWait'
  BY <1>4, <1>5, <1>6 DEF ClientsWait
<1>8. wedged' => starts' \in late'
  <2>1. CASE BeginTimesOut(c)
    <3>1. late' = late \union {client[c].hp} /\ client[c].hp # 0
      BY <2>1 DEF ClientsWait
    <3>2. CASE hport = client[c].hp
      BY <1>1, <3>1, <3>2 DEF Registered
    <3>3. CASE hport # client[c].hp
      <4>1. wedged' = wedged
        BY <2>1, <3>3
      <4> QED BY <1>1, <3>1, <4>1
    <3> QED BY <3>2, <3>3
  <2>2. CASE ~BeginTimesOut(c)
    <3>1. UNCHANGED <<wedged, late, starts>>
      BY <2>2
    <3> QED BY <3>1
  <2> QED BY <2>1, <2>2
<1> QED BY <1>2, <1>3, <1>4, <1>7, <1>8

\* The invariant is inductive.
LEMMA HelperInductive == ASSUME HelperInv, [HelperNext]_hvars PROVE HelperInv'
<1>1. CASE UNCHANGED hvars
  <2> USE <1>1 DEF HelperInv, hvars
  <2>1. HelperTypes' /\ Registered' /\ ByeIsLast'
    BY DEF HelperTypes, Registered, ByeIsLast
  <2>2. HeldOnce' /\ ClientsWait'
    BY HeldUnchanged DEF ClientsWait
  <2> QED BY <2>1, <2>2
<1> QED BY <1>1, StartStep, StopStep, TakesStep, ReturnsStep, HandoffStep, ClientStep DEF HelperNext

\* A submission never goes to the port of a helper that has exited, an exited helper
\* leaves nothing in its port, a freed request is with no helper, and a stack takes its
\* helper for wedged only if that helper itself kept a caller waiting (sana_helper_begin,
\* sana_helper_proc, sana_doio_bounded): HelperSound, whatever the number of tasks,
\* restarts and commands.
THEOREM SpecHelperSound == HelperSpec => []HelperSound
<1>1. HelperInv => HelperSound
  <2> SUFFICES ASSUME HelperInv PROVE HelperSound
    OBVIOUS
  <2>1. hport # 0 => helper[hport] # "exited"
    BY DEF HelperInv, Registered
  <2>2. \A h \in Helpers : helper[h] = "exited" => queue[h] = <<>>
    BY DEF HelperInv, ByeIsLast
  <2>3. \A c \in Clients : ioreq[c] = "freed" => \A h \in Helpers : ~Holds(h, c)
    BY DEF HelperInv, ClientsWait
  <2>4. \A h \in Helpers : DOMAIN queue[h] = 1..Len(queue[h])
    BY DEF HelperInv, HelperTypes
  <2> QED BY <2>1, <2>2, <2>3, <2>4 DEF HelperSound, Holds, HelperInv
<1> QED BY <1>1, HelperInitInv, HelperInductive, PTL DEF HelperSpec
=============================================================================
