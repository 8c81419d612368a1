----------------------------- MODULE SanaHelper -----------------------------
(***************************************************************************)
(* Device commands of src/net/if_sana.c: sana_doio_bounded, and the        *)
(* process that issues BeginIO on behalf of the stack because a driver may *)
(* never return from it. Clients are tasks that issue one command at a     *)
(* time (interface bring-up, the DHCP helper); the stack may be stopped    *)
(* and started again while a client still waits.                           *)
(***************************************************************************)
EXTENDS Naturals, Sequences

CONSTANTS
    Clients,     \* tasks that call sana_doio_bounded
    MaxStarts,   \* bound: starts of the stack; helper n belongs to start n
    MaxCmds      \* bound: commands issued

ASSUME HelperAssumption == MaxStarts \in Nat /\ MaxCmds \in Nat

VARIABLES
    sanaUp,     \* between sana_init and the end of sana_deinit
    starts,      \* number of starts so far
    hport,       \* SanaHelperPort: the registered helper, 0 for none
    wedged,      \* SanaHelperWedged
    helper,      \* per helper: none, wait, busy with a client's request, exited
    queue,       \* per helper: its port, clients or the token that says exit
    client,      \* per client: where it is, the port hp it captured
    ioreq,       \* per client: who has its request
    late,        \* helpers on which a submission timed out
    cmds

hvars == <<sanaUp, starts, hport, wedged, helper, queue, client, ioreq, late, cmds>>
Helpers == 1..MaxStarts
Bye == "bye"
NotAClient == {"none", "wait", "exited"}      \* what helper[h] is but a client

\* A message of a client is none of the tokens.
ASSUME ClientsAssumption == Clients \cap (NotAClient \union {Bye}) = {}

HelperInit ==
    /\ sanaUp = FALSE /\ starts = 0 /\ hport = 0 /\ wedged = FALSE
    /\ helper = [h \in Helpers |-> "none"]
    /\ queue = [h \in Helpers |-> <<>>]
    /\ client = [c \in Clients |-> [pc |-> "idle", hp |-> 0]]
    /\ ioreq = [c \in Clients |-> "none"]
    /\ late = {} /\ cmds = 0
-----------------------------------------------------------------------------
\* sana_init; the process may not start, or may have no signal for its port
sana_helper_start ==
    /\ ~sanaUp /\ starts < MaxStarts
    /\ sanaUp' = TRUE /\ starts' = starts + 1 /\ wedged' = FALSE
    /\ \E ok \in BOOLEAN :
         /\ hport' = IF ok THEN starts + 1 ELSE 0
         /\ helper' = IF ok THEN [helper EXCEPT ![starts + 1] = "wait"] ELSE helper
    /\ UNCHANGED <<queue, client, ioreq, late, cmds>>

\* The last act of sana_deinit: a helper that is not wedged gets the token,
\* if there is memory for one; nobody waits for it.
sana_helper_stop ==
    /\ sanaUp
    /\ \E memory \in BOOLEAN :
         queue' = IF hport # 0 /\ ~wedged /\ memory
                  THEN [queue EXCEPT ![hport] = Append(@, Bye)] ELSE queue
    /\ sanaUp' = FALSE /\ hport' = 0 /\ wedged' = FALSE
    /\ UNCHANGED <<starts, helper, client, ioreq, late, cmds>>

\* sana_helper_proc: takes the next message; the token ends it
HelperTakes(h) ==
    /\ helper[h] = "wait" /\ queue[h] # <<>>
    /\ queue' = [queue EXCEPT ![h] = Tail(@)]
    /\ IF Head(queue[h]) = Bye
       THEN helper' = [helper EXCEPT ![h] = "exited"] /\ UNCHANGED ioreq
       ELSE /\ helper' = [helper EXCEPT ![h] = Head(queue[h])]
            /\ ioreq' = [ioreq EXCEPT ![Head(queue[h])] = "beginio"]
    /\ UNCHANGED <<sanaUp, starts, hport, wedged, client, late, cmds>>

\* The driver returns from BeginIO, done or with the request kept; the
\* acknowledgement goes to the client, or to a port nobody reads any more.
HelperReturns(h) ==
    \E c \in Clients, quick \in BOOLEAN :
        /\ helper[h] = c /\ helper' = [helper EXCEPT ![h] = "wait"]
        /\ ioreq' = [ioreq EXCEPT ![c] =
               IF @ # "beginio" THEN @ ELSE IF quick THEN "client" ELSE "device"]
        /\ client' = [client EXCEPT ![c].pc = IF @ = "begin" /\ client[c].hp = h
                                               THEN "begun" ELSE @]
        /\ UNCHANGED <<sanaUp, starts, hport, wedged, queue, late, cmds>>
-----------------------------------------------------------------------------
\* sana_helper_begin up to the handoff. Without a timer, a port or memory, or
\* without a helper, the client calls BeginIO itself; with a wedged one it
\* gives the request up.
SubmitDirectly(c) ==
    /\ client' = [client EXCEPT ![c] = [pc |-> "direct", hp |-> 0]]
    /\ ioreq' = [ioreq EXCEPT ![c] = "beginio"]
    /\ UNCHANGED queue

Handoff(c) ==
    /\ sanaUp /\ client[c].pc = "idle" /\ cmds < MaxCmds
    /\ cmds' = cmds + 1
    /\ \E memory \in BOOLEAN :
         CASE ~memory \/ (hport = 0 /\ ~wedged) -> SubmitDirectly(c)
           [] memory /\ wedged ->
                /\ client' = [client EXCEPT ![c].pc = "abandoned"]
                /\ ioreq' = [ioreq EXCEPT ![c] = "unsent"] /\ UNCHANGED queue
           [] OTHER ->
                /\ queue' = [queue EXCEPT ![hport] = Append(@, c)]
                /\ client' = [client EXCEPT ![c] = [pc |-> "begin", hp |-> hport]]
                /\ ioreq' = [ioreq EXCEPT ![c] = "queued"]
    /\ UNCHANGED <<sanaUp, starts, hport, wedged, helper, late>>

\* Mutant: a helper of the stack before this one is charged to this one.
BeginTimesOut_AnyStack(c) ==
    /\ client[c].pc = "begin"
    /\ client' = [client EXCEPT ![c].pc = "abandoned"]
    /\ late' = late \union {client[c].hp}
    /\ wedged' = TRUE /\ hport' = 0
    /\ UNCHANGED <<sanaUp, starts, helper, queue, ioreq, cmds>>

\* The time is up before the acknowledgement: the request is abandoned, and
\* the helper declared wedged if it is still the registered one.
BeginTimesOut(c) ==
    /\ client[c].pc = "begin"
    /\ client' = [client EXCEPT ![c].pc = "abandoned"]
    /\ late' = late \union {client[c].hp}
    /\ IF hport = client[c].hp THEN wedged' = TRUE /\ hport' = 0
                               ELSE UNCHANGED <<wedged, hport>>
    /\ UNCHANGED <<sanaUp, starts, helper, queue, ioreq, cmds>>

DirectReturns(c) ==
    /\ client[c].pc = "direct" /\ ioreq[c] = "beginio"
    /\ \E r \in {"client", "device"} : ioreq' = [ioreq EXCEPT ![c] = r]
    /\ client' = [client EXCEPT ![c].pc = "begun"]
    /\ UNCHANGED <<sanaUp, starts, hport, wedged, helper, queue, late, cmds>>

DeviceAnswers(c) ==
    /\ ioreq[c] = "device" /\ ioreq' = [ioreq EXCEPT ![c] = "client"]
    /\ UNCHANGED <<sanaUp, starts, hport, wedged, helper, queue, client, late, cmds>>

\* The rest of sana_doio_bounded: quick or answered is reaped; otherwise the
\* wait, the abort and the grace run out and the request is abandoned.
DoioEnds(c) ==
    /\ client[c].pc = "begun"
    /\ client' = [client EXCEPT ![c].pc = IF ioreq[c] = "client" THEN "done" ELSE "abandoned"]
    /\ UNCHANGED <<sanaUp, starts, hport, wedged, helper, queue, ioreq, late, cmds>>

\* The caller frees its request unless it was abandoned, and goes on with a
\* new one: what becomes of an abandoned request is followed no further.
CallerGoesOn(c) ==
    /\ \/ client[c].pc = "done" /\ ioreq' = [ioreq EXCEPT ![c] = "freed"]
       \/ client[c].pc = "abandoned" /\ UNCHANGED ioreq
    /\ client' = [client EXCEPT ![c] = [pc |-> IF @.pc = "done" THEN "idle" ELSE "gone",
                                         hp |-> 0]]
    /\ UNCHANGED <<sanaUp, starts, hport, wedged, helper, queue, late, cmds>>

HelperNext ==
    \/ sana_helper_start \/ sana_helper_stop
    \/ \E h \in Helpers : HelperTakes(h) \/ HelperReturns(h)
    \/ \E c \in Clients : \/ Handoff(c) \/ BeginTimesOut(c) \/ DirectReturns(c)
                          \/ DeviceAnswers(c) \/ DoioEnds(c) \/ CallerGoesOn(c)

HelperSpec == HelperInit /\ [][HelperNext]_hvars
-----------------------------------------------------------------------------
(* A submission never goes to the port of a helper that has exited, whose  *)
(* stack held the port; a freed request is with nobody; and a stack calls  *)
(* a helper wedged only if its own helper kept a caller waiting, never     *)
(* because of one from before a restart (sana_helper_begin).               *)
HelperSound ==
    /\ hport # 0 => helper[hport] # "exited"
    /\ \A h \in Helpers : helper[h] = "exited" => queue[h] = <<>>
    /\ \A c \in Clients : ioreq[c] = "freed" =>
         \A h \in Helpers : helper[h] # c /\ \A i \in DOMAIN queue[h] : queue[h][i] # c
    /\ wedged => starts \in late
=============================================================================
