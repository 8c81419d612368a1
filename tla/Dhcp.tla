-------------------------------- MODULE Dhcp --------------------------------
(***************************************************************************)
(* Address acquisition, src/api/amiga_roadshow_compat.c: the helper        *)
(* processes that run a DHCP exchange for one interface, fall back to an   *)
(* RFC 3927 link-local address and keep retrying DHCP behind it, started   *)
(* by an application (BeginInterfaceConfig) or by the driver when its      *)
(* device is back (ng_reconfigure_interface); and, from src/net/sana2arp.c,*)
(* the link-local state they share with the network task.                  *)
(*                                                                         *)
(* Each helper is a record: pc, what it does next; internal, it was not    *)
(* started by an application; abort, dc_abort; i, the poll of the exchange;*)
(* type, the message it sends; tries, candidates that conflicted.          *)
(***************************************************************************)
EXTENDS Naturals, FiniteSets

CONSTANTS
    Jobs,           \* helper processes that may exist at one time
    Deadline,       \* polls of one exchange
    ProbeNum,       \* LL_PROBE_NUM
    MaxConflicts,   \* LL_MAX_CONFLICTS
    MaxOpCalls      \* bound: calls of the operator

ASSUME DhcpAssumption ==
    /\ {Deadline, ProbeNum} \subseteq Nat \ {0}
    /\ {MaxConflicts, MaxOpCalls} \subseteq Nat

VARIABLES
    job,         \* the helpers
    aam,         \* the application's message: whose it is, and aam_Reserved
    replies,     \* replies to the message since it was sent
    ifc,         \* the interface: known, up, and the address it carries
    interlock,   \* ss_reconfiguring
    ll,          \* ss_ll_probe, ss_ll_addr, ss_ll_conflict
    route,       \* the limited broadcast route an exchange needs is there
    running,     \* ng_stack_running
    fought,      \* history: a retry overrode what the operator had set
    calls

dvars == <<job, aam, replies, ifc, interlock, ll, route, running, fought, calls>>
NoJob == "nojob"
ASSUME JobsAssumption == NoJob \notin Jobs
Dead == [pc |-> "dead", internal |-> FALSE, abort |-> FALSE, i |-> 0,
         type |-> "discover", tries |-> 0]
NoLL == [probe |-> FALSE, addr |-> FALSE, conflict |-> FALSE]

DhcpInit ==
    /\ job = [j \in Jobs |-> Dead]
    /\ aam = [owner |-> "app", reserved |-> NoJob] /\ replies = 0
    /\ ifc = [known |-> TRUE, up |-> FALSE, addr |-> "none"]
    /\ interlock = FALSE /\ ll = NoLL /\ route = FALSE
    /\ running = TRUE /\ fought = FALSE /\ calls = 0

Goto(j, pc) == job' = [job EXCEPT ![j].pc = pc]
\* d_configiface: by name, through a library base that dies with the stack
Configurable == ifc.known /\ running
SetAddr(a) == ifc' = IF Configurable THEN [ifc EXCEPT !.addr = a, !.up = TRUE] ELSE ifc
-----------------------------------------------------------------------------
(* Starting a helper.                                                      *)

Born(internal, pc) == [Dead EXCEPT !.internal = internal, !.pc = pc]

_BeginInterfaceConfig(j) ==
    /\ job[j].pc = "dead" /\ aam.owner = "app" /\ calls < MaxOpCalls
    /\ calls' = calls + 1
    /\ \/ /\ running                                \* no memory or no process
          /\ replies' = 1 /\ UNCHANGED <<job, aam>>
       \/ /\ running
          /\ job' = [job EXCEPT ![j] = Born(FALSE, "open")]
          /\ aam' = [owner |-> "helper", reserved |-> j] /\ replies' = 0
    /\ UNCHANGED <<ifc, interlock, ll, route, running, fought>>

\* aam_Reserved is read and used under Forbid
_AbortInterfaceConfig ==
    /\ aam.reserved # NoJob
    /\ job' = [job EXCEPT ![aam.reserved].abort = TRUE]
    /\ UNCHANGED <<aam, replies, ifc, interlock, ll, route, running, fought, calls>>

\* sana_reconfig_poll, no helper being at work; the process may not start
ng_reconfigure_interface(j) ==
    /\ running /\ ifc.known /\ ~interlock /\ job[j].pc = "dead"
    /\ ifc' = [ifc EXCEPT !.up = TRUE]
    /\ \/ interlock' = TRUE /\ job' = [job EXCEPT ![j] = Born(TRUE, "reconf")]
       \/ interlock' = FALSE /\ UNCHANGED job
    /\ UNCHANGED <<aam, replies, ll, route, running, fought, calls>>

ng_iface_reconfig_done == interlock' = FALSE

\* ng_reconfig_task: no configuration or library, a static address, or DHCP,
\* whose helper takes the interlock over if it can be started.
ng_reconfig_task(j) ==
    /\ job[j].pc = "reconf"
    /\ \/ /\ job' = [job EXCEPT ![j] = Dead] /\ ng_iface_reconfig_done /\ UNCHANGED ifc
       \/ /\ SetAddr("static") /\ job' = [job EXCEPT ![j] = Dead] /\ ng_iface_reconfig_done
       \/ Goto(j, "open") /\ UNCHANGED <<ifc, interlock>>
    /\ UNCHANGED <<aam, replies, ll, route, running, fought, calls>>
-----------------------------------------------------------------------------
(* ng_dhcp_task up to the exchange, and the exchange.                      *)

\* Library, buffers, query, address 0.0.0.0, socket, bind, broadcast route
DhcpSetup(j) ==
    /\ job[j].pc = "open"
    /\ \/ Goto(j, "reply") /\ UNCHANGED <<ifc, route>>
       \/ SetAddr("zero") /\ Goto(j, "reply") /\ UNCHANGED route
       \/ /\ Configurable /\ SetAddr("zero") /\ route' = TRUE
          /\ job' = [job EXCEPT ![j] = [@ EXCEPT !.pc = "exchange", !.i = 0, !.type = "discover"]]
    /\ UNCHANGED <<aam, replies, interlock, ll, running, fought, calls>>

\* One poll: the abort flag, every 20 polls the message, then an answer of the
\* server or none. An offer and a refusal restart the count.
Answer(t) == CASE t = "discover" -> {"none", "offer"}
               [] t = "request" -> {"none", "ack", "nak"}
Polled(b, a) ==
    CASE a = "offer" -> [b EXCEPT !.type = "request", !.i = 0]
      [] a = "nak" -> [b EXCEPT !.type = "discover", !.i = 0]
      [] OTHER -> [b EXCEPT !.i = @ + 1]

\* The end of an exchange removes the broadcast route, whoever added it.
ng_del_discover_route == route' = FALSE

ng_dhcp_exchange(j, pc, got, none) ==
    /\ job[j].pc = pc
    /\ \/ /\ job[j].abort \/ job[j].i >= Deadline
          /\ Goto(j, IF job[j].abort /\ pc = "exchange" THEN "reply" ELSE none)
          /\ ng_del_discover_route
       \/ /\ ~job[j].abort /\ job[j].i < Deadline
          /\ \E a \in Answer(job[j].type) :
               IF a = "ack" THEN Goto(j, got) /\ ng_del_discover_route
               ELSE job' = [job EXCEPT ![j] = Polled(@, a)] /\ UNCHANGED route
    /\ UNCHANGED <<aam, replies, ifc, interlock, ll, running, fought, calls>>

\* Address, route, name servers and host name of a lease
ng_apply_lease(j, pc, next) ==
    /\ job[j].pc = pc /\ SetAddr("lease") /\ Goto(j, next)
    /\ UNCHANGED <<aam, replies, interlock, ll, route, running, fought, calls>>
-----------------------------------------------------------------------------
(* ng_linklocal_acquire over the primitives of sana2arp.c, which find the  *)
(* interface by name each time. i counts the probes sent.                  *)

ng_ll_arm(j) ==
    /\ job[j].pc = "llarm"
    /\ IF job[j].abort \/ job[j].tries > MaxConflicts \/ ~ifc.known
       THEN Goto(j, "reply") /\ UNCHANGED ll
       ELSE /\ ll' = [probe |-> TRUE, addr |-> FALSE, conflict |-> FALSE]
            /\ job' = [job EXCEPT ![j] = [@ EXCEPT !.pc = "llprobe", !.i = 1]]
    /\ UNCHANGED <<aam, replies, ifc, interlock, route, running, fought, calls>>

ng_ll_disarm == ll' = IF ifc.known THEN NoLL ELSE ll

\* After each delay: abort, conflict, the next probe, or the last wait
ng_ll_send_probe(j) ==
    /\ job[j].pc = "llprobe"
    /\ CASE ll.conflict -> /\ ng_ll_disarm
                           /\ job' = [job EXCEPT ![j] = [@ EXCEPT !.pc = "llarm", !.tries = job[j].tries + 1]]
         [] ~ll.conflict /\ job[j].i >= ProbeNum -> Goto(j, "llwait") /\ UNCHANGED ll
         [] ~ll.conflict /\ job[j].i < ProbeNum /\ job[j].abort ->
              ng_ll_disarm /\ Goto(j, "reply")
         [] OTHER -> job' = [job EXCEPT ![j].i = @ + 1] /\ UNCHANGED ll
    /\ UNCHANGED <<aam, replies, ifc, interlock, route, running, fought, calls>>

\* The last look at the flag, then the address is configured
ng_ll_conflicted(j) ==
    /\ job[j].pc = "llwait"
    /\ CASE ll.conflict -> /\ ng_ll_disarm /\ UNCHANGED ifc
                           /\ job' = [job EXCEPT ![j] = [@ EXCEPT !.pc = "llarm", !.tries = job[j].tries + 1]]
         [] ~ll.conflict /\ ~Configurable -> ng_ll_disarm /\ Goto(j, "reply") /\ UNCHANGED ifc
         [] OTHER -> SetAddr("ll") /\ Goto(j, "llcommit") /\ UNCHANGED ll
    /\ UNCHANGED <<aam, replies, interlock, route, running, fought, calls>>

ng_ll_commit(j) ==
    /\ job[j].pc \in {"llcommit", "recommit"}
    /\ ll' = IF ifc.known THEN [NoLL EXCEPT !.addr = TRUE] ELSE ll
    /\ Goto(j, IF job[j].pc = "llcommit" THEN "llreply" ELSE "retrywait")
    /\ UNCHANGED <<aam, replies, ifc, interlock, route, running, fought, calls>>

\* in_arpinput: another station uses or probes the address; a bound one is
\* defended with an announcement, which changes nothing here.
in_arpconflict ==
    /\ (ll.probe \/ ll.addr) /\ ~ll.conflict
    /\ ll' = [ll EXCEPT !.conflict = TRUE]
    /\ UNCHANGED <<job, aam, replies, ifc, interlock, route, running, fought, calls>>
-----------------------------------------------------------------------------
(* The end of a helper, and the retries behind a link-local address.       *)

\* Detaches the message from AbortInterfaceConfig, then replies or frees it.
ng_dhcp_finish_aam(j, pc, next) ==
    /\ job[j].pc = pc /\ Goto(j, next)
    /\ IF job[j].internal THEN UNCHANGED <<aam, replies>>
       ELSE aam' = [owner |-> "app", reserved |-> NoJob] /\ replies' = replies + 1
    /\ UNCHANGED <<ifc, interlock, ll, route, running, fought, calls>>

\* Mutant: the helper's end leaves the interlock set.
DhcpCleanup_KeepInterlock(j) ==
    /\ job[j].pc = "cleanup"
    /\ job' = [job EXCEPT ![j] = Dead]
    /\ UNCHANGED <<aam, replies, ifc, interlock, ll, route, running, fought, calls>>

DhcpCleanup(j) ==
    /\ job[j].pc = "cleanup"
    /\ job' = [job EXCEPT ![j] = Dead]
    /\ IF job[j].internal THEN ng_iface_reconfig_done ELSE UNCHANGED interlock
    /\ UNCHANGED <<aam, replies, ifc, ll, route, running, fought, calls>>

\* ng_dhcp_background: the wait ends, and the address is looked at
RetryLooks(j) ==
    /\ job[j].pc = "retrywait"
    /\ Goto(j, IF running /\ ~job[j].abort /\ ifc.known /\ ifc.up /\ ifc.addr = "ll"
               THEN "unnumber" ELSE "cleanup")
    /\ UNCHANGED <<aam, replies, ifc, interlock, ll, route, running, fought, calls>>

Overrides == Configurable /\ (~ifc.up \/ ifc.addr = "static")
RetryUnnumbers(j) ==
    /\ job[j].pc = "unnumber"
    /\ ng_ll_disarm /\ SetAddr("zero") /\ route' = Configurable
    /\ fought' = (fought \/ Overrides)
    /\ job' = [job EXCEPT ![j] = [@ EXCEPT !.pc = "again", !.i = 0, !.type = "discover"]]
    /\ UNCHANGED <<aam, replies, interlock, running, calls>>

RetryRestores(j) ==
    /\ job[j].pc = "restore"
    /\ SetAddr("ll") /\ Goto(j, "recommit")
    /\ fought' = (fought \/ Overrides)
    /\ UNCHANGED <<aam, replies, interlock, ll, route, running, calls>>

HelperStep(j) ==
    \/ ng_reconfig_task(j) \/ DhcpSetup(j)
    \/ ng_dhcp_exchange(j, "exchange", "lease", "llarm")
    \/ ng_dhcp_exchange(j, "again", "late", "restore")
    \/ ng_apply_lease(j, "lease", "reply") \/ ng_apply_lease(j, "late", "cleanup")
    \/ ng_ll_arm(j) \/ ng_ll_send_probe(j) \/ ng_ll_conflicted(j) \/ ng_ll_commit(j)
    \/ ng_dhcp_finish_aam(j, "reply", "cleanup")
    \/ ng_dhcp_finish_aam(j, "llreply", "retrywait")
    \/ RetryLooks(j) \/ RetryUnnumbers(j) \/ RetryRestores(j) \/ DhcpCleanup(j)
-----------------------------------------------------------------------------
(* The operator, through ConfigureInterfaceTagList, RemoveInterface,       *)
(* AddInterfaceTagList and NetShutdown.                                    *)

Operator ==
    /\ calls < MaxOpCalls /\ calls' = calls + 1 /\ running
    /\ \/ ifc.known /\ ifc' = [ifc EXCEPT !.addr = "static", !.up = TRUE]
          /\ UNCHANGED <<interlock, ll, running>>
       \/ ifc.known /\ ifc' = [ifc EXCEPT !.up = FALSE] /\ UNCHANGED <<interlock, ll, running>>
       \/ /\ ifc' = [known |-> ~ifc.known, up |-> FALSE, addr |-> "none"]
          /\ interlock' = FALSE /\ ll' = NoLL /\ UNCHANGED running
       \/ /\ running' = FALSE /\ ifc' = [known |-> FALSE, up |-> FALSE, addr |-> "none"]
          /\ interlock' = FALSE /\ ll' = NoLL
    /\ UNCHANGED <<job, aam, replies, route, fought>>

DhcpNext ==
    \/ _AbortInterfaceConfig \/ in_arpconflict \/ Operator
    \/ \E j \in Jobs : \/ _BeginInterfaceConfig(j) \/ ng_reconfigure_interface(j)
                       \/ HelperStep(j)

DhcpSpec == DhcpInit /\ [][DhcpNext]_dvars
-----------------------------------------------------------------------------
(* AbortInterfaceConfig finds the context of a helper that is alive and    *)
(* still has the message, and the application gets its message back once.  *)
(* ss_reconfiguring is never left set by helpers that are all gone, which  *)
(* would keep the interface from ever being configured again. The route    *)
(* that pins every limited broadcast is gone when no exchange is running.  *)
HelpersAccounted ==
    /\ aam.reserved # NoJob =>
         /\ aam.owner = "helper"
         /\ job[aam.reserved].pc \notin {"dead", "cleanup", "retrywait", "unnumber", "again"}
    /\ aam.owner = "helper" => replies = 0
    /\ replies <= 1
    /\ interlock => \E j \in Jobs : job[j].pc # "dead" /\ job[j].internal
    /\ route => \E j \in Jobs : job[j].pc \in {"exchange", "again"}

(* "so the loop bows out instead of fighting them": the retry loop does    *)
(* not override an address the operator set, nor bring an interface up     *)
(* that the operator took down.                                            *)
BowsOut == ~fought
=============================================================================
