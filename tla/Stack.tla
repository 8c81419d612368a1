-------------------------------- MODULE Stack --------------------------------
(***************************************************************************)
(* Starting, serving and stopping the network stack (kern/amiga_main.c,    *)
(* kern/amiga_time.c, kern/amiga_netctl.c and the open and close vectors   *)
(* of api/amiga_api.c).                                                    *)
(*                                                                         *)
(* In the library build the first call that needs the stack spawns its     *)
(* process and waits for it; in the program build main() is the process.   *)
(* A break or a request to the network controller's port stops it, when    *)
(* the programs have closed their bases or have been given their time.     *)
(* Subsystems are one step each way; sana, mbufs, sockets and the log have *)
(* modules of their own.  A second process over the same globals is the    *)
(* state `clash`, which is not explored further.                           *)
(***************************************************************************)
EXTENDS Naturals, Sequences, FiniteSets, SequencesExt, FiniteSetsExt

CONSTANTS
  Builds,      \* of "library" and "program"
  Apps,        \* programs that open the library
  Requesters,  \* programs that ask the controller for a shutdown
  Timers,      \* the stack's periodic requests
  Grace,       \* ctl_grace_secs()
  MaxSpawns,   \* bound: processes started
  MaxSignals   \* bound: CTRL-C to the stack and CTRL-F to a program

ASSUME StackAssumption ==
  /\ Builds \subseteq {"library", "program"} /\ Builds # {}
  /\ Grace \in Nat \ {0} /\ {MaxSpawns, MaxSignals} \subseteq Nat

VARIABLES
  build,    \* which build this is
  api,      \* [state, listed]: api_state; whether the base is in exec's list
  opens,    \* lib_OpenCnt of the master base
  app,      \* [Apps -> [base, pc, ctrlF]]
  sema,     \* holder of ng_spawn_semaphore
  stackUp,  \* ng_stack_running
  proc,     \* the stack's process [pc, opener, tries]
  tracer,   \* NETTRACE: "none", "up" or "open" once it has its base
  ctl,      \* [port, pending, left, forced]
  ctlq,     \* messages at the controller's port
  asked,    \* [Requesters -> what became of its shutdown message]
  busy,      \* signals the service loop is working on
  sigs,     \* signals pending for the task
  tmr,      \* [Timers -> "none", "sent" or "back"]
  clash,    \* two processes
  spawned,
  signals

stkvars == <<build, api, opens, app, sema, stackUp, proc, tracer, ctl, ctlq, asked, busy, sigs,
             tmr, clash, spawned, signals>>

NoStarter == "nobody"

StackInit ==
  /\ build \in Builds
  /\ api = [state |-> "initialized", listed |-> build = "library"]
  /\ opens = 0 /\ sema = NoStarter /\ stackUp = (build = "program")
  /\ app = [a \in Apps |-> [base |-> "none", pc |-> "idle", ctrlF |-> FALSE]]
  /\ proc = [pc |-> IF build = "program" THEN "init" ELSE "none", opener |-> NoStarter, tries |-> 0]
  /\ tracer = "none" /\ ctlq = <<>> /\ asked = [r \in Requesters |-> "idle"]
  /\ ctl = [port |-> FALSE, pending |-> NoStarter, left |-> 0, forced |-> FALSE]
  /\ busy = {} /\ sigs = {} /\ tmr = [t \in Timers |-> "none"] /\ clash = FALSE
  /\ spawned = 0 /\ signals = 0

api_hide(x) == IF x.state = "shown" THEN [state |-> "hidden", listed |-> FALSE] ELSE x
api_show(x) == IF x.state = "shown" \/ x.listed THEN x ELSE [state |-> "shown", listed |-> TRUE]

\* All timers are sent when the stack is up and aborted when it goes.
timer_send == [t \in Timers |-> "sent"]
timer_deinit == [t \in Timers |-> "none"]

-----------------------------------------------------------------------------
ELL_Open(a) ==
  /\ api.listed /\ app[a].base # "open" /\ app[a].pc = "idle"
  /\ app' = [app EXCEPT ![a].base = "open"] /\ opens' = opens + 1
  /\ UNCHANGED <<build, api, sema, stackUp, proc, tracer, ctl, ctlq, asked, busy, sigs, tmr, clash, spawned, signals>>

\* Mutant: an abandoned base is counted down again when it is closed.
UL_Close_CountDead(a) ==
  /\ app[a].base # "none" /\ app[a].pc = "idle"
  /\ app' = [app EXCEPT ![a].base = "none"]
  /\ opens' = IF opens > 0 THEN opens - 1 ELSE 0
  /\ UNCHANGED <<build, api, sema, stackUp, proc, tracer, ctl, ctlq, asked, busy, sigs, tmr, clash, spawned, signals>>

\* A dead base was taken off the count when it was abandoned.
UL_Close(a) ==
  /\ app[a].base # "none" /\ app[a].pc = "idle"
  /\ app' = [app EXCEPT ![a].base = "none"]
  /\ opens' = IF app[a].base = "open" THEN opens - 1 ELSE opens
  /\ UNCHANGED <<build, api, sema, stackUp, proc, tracer, ctl, ctlq, asked, busy, sigs, tmr, clash, spawned, signals>>

\* NG_ENSURE_STACK at the entry of a vector.
NG_ENSURE_STACK(a) ==
  /\ app[a].base = "open" /\ app[a].pc = "idle" /\ ~stackUp
  /\ app' = [app EXCEPT ![a].pc = "sem"]
  /\ UNCHANGED <<build, api, opens, sema, stackUp, proc, tracer, ctl, ctlq, asked, busy, sigs, tmr, clash, spawned, signals>>

\* ng_stack_ensure_running with the semaphore: somebody was faster, the process
\* cannot be made, or it is made and the caller waits for CTRL-F.
ng_stack_ensure_running(a) ==
  /\ app[a].pc = "sem" /\ sema = NoStarter
  /\ \/ /\ app' = [app EXCEPT ![a].pc = "idle"]
        /\ UNCHANGED <<sema, proc, clash, spawned>>
     \/ /\ ~stackUp /\ spawned < MaxSpawns /\ spawned' = spawned + 1
        /\ sema' = a /\ app' = [app EXCEPT ![a] = [@ EXCEPT !.pc = "wait", !.ctrlF = FALSE]]
        /\ proc' = [pc |-> "init", opener |-> a, tries |-> 0]
        /\ clash' = (proc.pc # "none")
  /\ UNCHANGED <<build, api, opens, stackUp, tracer, ctl, ctlq, asked, busy, sigs, tmr, signals>>

StackAnswers(a) ==
  /\ app[a].pc = "wait" /\ app[a].ctrlF
  /\ app' = [app EXCEPT ![a] = [@ EXCEPT !.pc = "idle", !.ctrlF = FALSE]] /\ sema' = NoStarter
  /\ UNCHANGED <<build, api, opens, stackUp, proc, tracer, ctl, ctlq, asked, busy, sigs, tmr, clash, spawned, signals>>

\* The user presses CTRL-F in the program's shell, or breaks the stack (CTRL-C, ARexx KILL).
UserSignals ==
  /\ signals < MaxSignals /\ signals' = signals + 1
  /\ \/ \E a \in Apps : app' = [app EXCEPT ![a].ctrlF = TRUE] /\ UNCHANGED sigs
     \/ proc.pc \in {"serve", "quiesce"} /\ sigs' = sigs \cup {"break"} /\ UNCHANGED app
  /\ UNCHANGED <<build, api, opens, sema, stackUp, proc, tracer, ctl, ctlq, asked, busy, tmr, clash, spawned>>

-----------------------------------------------------------------------------
Tell(o) == IF o = NoStarter THEN app ELSE [app EXCEPT ![o].ctrlF = TRUE]

\* init_all and the first half of ng_stack_process.  The controller's port is
\* optional.  A failure leaves NETTRACE behind when the log was up already.
InitFails ==
  /\ proc.pc = "init" /\ app' = Tell(proc.opener) /\ stackUp' = FALSE
  /\ proc' = [proc EXCEPT !.pc = IF build = "program" THEN "expunge" ELSE "none"]
  /\ tracer' = IF build = "program" THEN "none" ELSE tracer
  /\ UNCHANGED <<build, api, opens, sema, ctl, ctlq, asked, busy, sigs, tmr, clash, spawned, signals>>

InitAll ==
  /\ proc.pc = "init" /\ app' = Tell(proc.opener) /\ stackUp' = TRUE
  /\ proc' = [proc EXCEPT !.pc = "serve"]
  /\ api' = IF build = "program" THEN api_show(api) ELSE api
  /\ tracer' = IF tracer = "none" THEN "up" ELSE tracer
  /\ \E p \in BOOLEAN : ctl' = [ctl EXCEPT !.port = p]
  /\ tmr' = timer_send /\ busy' = {} /\ sigs' = {}
  /\ UNCHANGED <<build, opens, sema, ctlq, asked, clash, spawned, signals>>

\* NETTRACE opens the library when it is told that the stack is there.
TracerOpens ==
  /\ tracer = "up" /\ api.listed /\ stackUp
  /\ tracer' = "open" /\ opens' = opens + 1
  /\ UNCHANGED <<build, api, app, sema, stackUp, proc, ctl, ctlq, asked, busy, sigs, tmr, clash, spawned, signals>>

TimerBack(t) ==
  /\ tmr[t] = "sent" /\ tmr' = [tmr EXCEPT ![t] = "back"] /\ sigs' = sigs \cup {"timer"}
  /\ UNCHANGED <<build, api, opens, app, sema, stackUp, proc, tracer, ctl, ctlq, asked, busy, clash, spawned, signals>>

-----------------------------------------------------------------------------
(* The controller.  s is [ctl, asked, api, hit]: hit when the stack is to stop. *)

ctl_clients == IF opens > 1 THEN opens - 1 ELSE 0

ctl_reply(s, e) == [s EXCEPT !.asked[s.ctl.pending] = e, !.ctl.pending = NoStarter]

\* The grace is over: the stack goes down over the bases that are left.
ctl_proceed_anyway(s) == [ctl_reply(s, "success") EXCEPT !.hit = TRUE, !.ctl.forced = TRUE]

\* Mutant: the grace period has no end.
ctl_progress_NoGrace(s) ==
  IF s.ctl.pending = NoStarter THEN s
  ELSE IF ctl_clients = 0 THEN [ctl_reply(s, "success") EXCEPT !.hit = TRUE]
  ELSE s

ctl_progress(s) ==
  IF s.ctl.pending = NoStarter THEN s
  ELSE IF ctl_clients = 0 THEN [ctl_reply(s, "success") EXCEPT !.hit = TRUE]
  ELSE IF s.ctl.left = 0 THEN ctl_proceed_anyway(s)
  ELSE s

ctl_begin(s, r) ==
  ctl_progress([s EXCEPT !.api = api_hide(@), !.ctl.pending = r, !.ctl.left = Grace, !.asked[r] = "pending"])

ctl_dispatch(s, m) ==
  LET r == m[2]
  IN IF m[1] = "shutdown"
     THEN IF s.ctl.pending # NoStarter THEN [s EXCEPT !.asked[r] = "ignored"]
          ELSE ctl_begin(s, r)
     ELSE IF s.ctl.pending = r
          THEN [ctl_reply(s, "aborted") EXCEPT !.ctl.forced = FALSE, !.api = api_show(@)]
          ELSE s

ng_netctl_poll ==
  LET s == [ctl |-> ctl, asked |-> asked, api |-> api, hit |-> FALSE]
  IN IF ~ctl.port THEN s ELSE ctl_progress(FoldLeft(ctl_dispatch, s, ctlq))

\* A requester posts its message, or recalls it; the port is looked up first.
ControlAsks(r) ==
  /\ ctl.port
  /\ \/ asked[r] = "idle" /\ asked' = [asked EXCEPT ![r] = "queued"] /\ ctlq' = Append(ctlq, <<"shutdown", r>>)
     \/ /\ asked[r] = "pending" /\ <<"cancel", r>> \notin ToSet(ctlq)
        /\ ctlq' = Append(ctlq, <<"cancel", r>>) /\ UNCHANGED asked
  /\ sigs' = sigs \cup {"netctl"}
  /\ UNCHANGED <<build, api, opens, app, sema, stackUp, proc, tracer, ctl, busy, tmr, clash, spawned, signals>>

SecondPasses ==
  /\ ctl.pending # NoStarter /\ ctl.left > 0 /\ ctl' = [ctl EXCEPT !.left = @ - 1]
  /\ UNCHANGED <<build, api, opens, app, sema, stackUp, proc, tracer, ctlq, asked, busy, sigs, tmr, clash, spawned, signals>>

-----------------------------------------------------------------------------
(* The service loop, and the break that ends it. *)

LoopWait ==
  /\ proc.pc = "serve" /\ busy = {} /\ sigs # {}
  /\ busy' = sigs /\ sigs' = {}
  /\ UNCHANGED <<build, api, opens, app, sema, stackUp, proc, tracer, ctl, ctlq, asked, tmr, clash, spawned, signals>>

\* One timer's handler runs and the request goes out again.
timer_poll(back) ==
  IF "timer" \in busy /\ back # {} THEN \E t \in back : tmr' = [tmr EXCEPT ![t] = "sent"]
  ELSE UNCHANGED tmr

\* One pass of the inner loop: one timer, all of the controller's messages.
LoopPass ==
  LET back == {t \in Timers : tmr[t] = "back"}
      n == ng_netctl_poll
      kept == (IF "timer" \in busy /\ back = {} THEN busy \ {"timer"} ELSE busy) \ {"netctl"}
      now == kept \cup sigs \cup (IF n.hit THEN {"break"} ELSE {})
  IN /\ proc.pc = "serve" /\ busy # {}
     /\ timer_poll(back)
     /\ ctl' = n.ctl /\ asked' = n.asked /\ ctlq' = <<>> /\ sigs' = {}
     /\ IF now = {"break"}
        THEN busy' = {} /\ proc' = [proc EXCEPT !.pc = "quiesce", !.tries = 3] /\ api' = api_hide(n.api)
        ELSE busy' = now /\ UNCHANGED proc /\ api' = n.api
     /\ UNCHANGED <<build, opens, app, sema, stackUp, tracer, clash, spawned>>
     /\ UNCHANGED signals

\* ng_stack_quiesce: break the clients and wait, at most three times ...
QuiesceWaits ==
  /\ proc.pc = "quiesce" /\ opens > 1 /\ proc.tries > 0
  /\ proc' = [proc EXCEPT !.tries = @ - 1]
  /\ UNCHANGED <<build, api, opens, app, sema, stackUp, tracer, ctl, ctlq, asked, busy, sigs, tmr, clash, spawned, signals>>

\* ... then go down, past the bases that are left when the grace is over, or refuse.
QuiesceEnds ==
  LET open == {a \in Apps : app[a].base = "open"}
      refused == opens > 1 /\ ~ctl.forced
  IN /\ proc.pc = "quiesce" /\ (opens <= 1 \/ proc.tries = 0)
     /\ IF opens > 1 /\ ctl.forced
        THEN /\ app' = [a \in Apps |-> IF a \in open THEN [app[a] EXCEPT !.base = "dead"] ELSE app[a]]
             /\ opens' = opens - Cardinality(open)
        ELSE UNCHANGED <<app, opens>>
     /\ proc' = [proc EXCEPT !.pc = IF refused THEN "serve" ELSE "down"]
     /\ stackUp' = IF refused \/ build = "program" THEN stackUp ELSE FALSE
     /\ api' = IF refused /\ ctl.pending = NoStarter THEN api_show(api) ELSE api
     /\ UNCHANGED <<build, sema, tracer, ctl, ctlq, asked, busy, sigs, tmr, clash, spawned, signals>>

\* ng_netctl_deinit: the port goes and every message is answered.
NetctlDeinit ==
  /\ proc.pc = "down" /\ proc' = [proc EXCEPT !.pc = "teardown"]
  /\ asked' = [r \in Requesters |-> IF ~ctl.port THEN asked[r]
                                    ELSE IF r = ctl.pending THEN "success"
                                    ELSE IF asked[r] = "queued" THEN "aborted" ELSE asked[r]]
  /\ ctl' = IF ctl.port THEN [ctl EXCEPT !.port = FALSE, !.pending = NoStarter] ELSE ctl
  /\ ctlq' = <<>>
  /\ UNCHANGED <<build, api, opens, app, sema, stackUp, tracer, busy, sigs, tmr, clash, spawned, signals>>

\* The other subsystems: timers are aborted, NETTRACE closes its base and ends.
Teardown ==
  /\ proc.pc = "teardown"
  /\ tmr' = timer_deinit /\ busy' = {} /\ sigs' = {}
  /\ tracer' = "none" /\ opens' = IF tracer = "open" THEN opens - 1 ELSE opens
  /\ IF build = "library"
     THEN api' = api_show(api) /\ proc' = [proc EXCEPT !.pc = "none", !.opener = NoStarter]
     ELSE api' = api_hide(api) /\ proc' = [proc EXCEPT !.pc = "expunge"]
  /\ UNCHANGED <<build, app, sema, stackUp, ctl, ctlq, asked, clash, spawned, signals>>

\* api_deinit waits until the last base is closed.
api_deinit ==
  /\ proc.pc = "expunge" /\ opens = 0 /\ proc' = [proc EXCEPT !.pc = "gone"]
  /\ UNCHANGED <<build, api, opens, app, sema, stackUp, tracer, ctl, ctlq, asked, busy, sigs, tmr, clash, spawned, signals>>

Serving == LoopWait \/ LoopPass \/ QuiesceWaits \/ QuiesceEnds \/ NetctlDeinit \/ Teardown

StackNext ==
  /\ ~clash
  /\ \/ UserSignals \/ InitFails \/ InitAll \/ TracerOpens \/ SecondPasses \/ Serving \/ api_deinit
     \/ \E a \in Apps : \/ ELL_Open(a) \/ UL_Close(a) \/ NG_ENSURE_STACK(a)
                        \/ ng_stack_ensure_running(a) \/ StackAnswers(a)
     \/ \E t \in Timers : TimerBack(t)
     \/ \E r \in Requesters : ControlAsks(r)

\* The stack's task runs, time passes and timer.device answers.
StackFair ==
  /\ WF_stkvars(~clash /\ Serving) /\ WF_stkvars(~clash /\ SecondPasses)
  /\ \A t \in Timers : WF_stkvars(~clash /\ TimerBack(t))

-----------------------------------------------------------------------------
\* Everyone who asked the controller is answered exactly once, none is left when its
\* port goes, and only one request is in progress.
RequestsKept ==
  /\ \A r \in Requesters :
       /\ asked[r] = "queued" <=> <<"shutdown", r>> \in ToSet(ctlq)
       /\ asked[r] = "pending" <=> ctl.pending = r
  /\ ~ctl.port => ctlq = <<>> /\ ctl.pending = NoStarter
  /\ ctlq # <<>> /\ proc.pc = "serve" => "netctl" \in busy \cup sigs

\* The count of the master base is that of the bases that are alive, so that the last
\* close is seen; and no timer is lost: each is with the device or its signal is pending.
CountsKept ==
  /\ opens = Cardinality({a \in Apps : app[a].base = "open"}) + (IF tracer = "open" THEN 1 ELSE 0)
  /\ proc.pc \in {"serve", "quiesce"} =>
       /\ \A t \in Timers : tmr[t] # "none"
       /\ (\E t \in Timers : tmr[t] = "back") => "timer" \in busy \cup sigs

\* In the program build the door is shut once the stack goes down, and stays shut for
\* as long as a shutdown request is in its grace period, whatever else breaks the stack.
DoorKept ==
  build = "program" /\ (proc.pc \in {"down", "teardown", "expunge", "gone"} \/ ctl.pending # NoStarter)
     => ~api.listed

\* Starting, using and stopping the stack at once: everyone is answered, everyone is
\* counted, and the door is shut while it goes down (ng_stack_quiesce, netctl_poll).
StackSound == RequestsKept /\ CountsKept /\ DoorKept

\* A shutdown request is answered: its sender does not wait for ever.
RequestAnswered ==
  \A r \in Requesters : asked[r] \in {"queued", "pending"} ~> asked[r] \notin {"queued", "pending"} \/ clash

\* "api_hide(); no NEW openers from here on" (ng_stack_quiesce): nobody can open the
\* library while the stack is going down.
NoNewOpeners == proc.pc \in {"quiesce", "down", "teardown"} => ~api.listed
=============================================================================
