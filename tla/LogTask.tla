------------------------------- MODULE LogTask -------------------------------
(***************************************************************************)
(* Logging and the ARexx port: the NETTRACE process (kern/amiga_log.c,     *)
(* kern/amiga_rexx.c) and vlog() of kern/subr_prf.c.                       *)
(*                                                                         *)
(* A fixed pool of messages travels from logReplyPort, where the free ones *)
(* wait, through the task that logs to logPort and, once NETTRACE has      *)
(* written it, back.  The text of a message is left out; what is written   *)
(* to which file is not.  The tasks that log are stopped before log_deinit *)
(* (the order of ng_teardown_subsystems).                                  *)
(***************************************************************************)
EXTENDS Naturals, Sequences, FiniteSets, SequencesExt, FiniteSetsExt

CONSTANTS
  Msgs,        \* the pool, log_cnf.log_bufs messages
  Writers,     \* tasks that call log()
  Levels,      \* levels they use; 0 is LOG_EMERG
  LogLevel,    \* log_level
  Scripts,     \* ARexx messages
  MaxLogs,     \* bound: calls of log()
  MaxLives     \* bound: times the stack is started

\* Every tier of ng_ram_tier makes the pool at least 8 messages large.
ASSUME LogAssumption ==
  /\ IsFiniteSet(Msgs) /\ (\E m, n \in Msgs : m # n) /\ Msgs \cap {"none", "init", "close"} = {}
  /\ Levels \subseteq Nat /\ {LogLevel, MaxLogs, MaxLives} \subseteq Nat

VARIABLES
  lphase,   \* the stack: "down", "started", "answered", "up", "closing"
  replyq,   \* logReplyPort: a sequence of Msgs, or "init"
  logq,     \* logPort: a sequence of Msgs, "init" or "close"
  closer,   \* the message that carries LOG_CLOSE
  writer,   \* [Writers -> the message being filled in, or "none"]
  nt,       \* NETTRACE [pc, sig, t]: "none", "start", "sync", "wait", "loop", "report", "told", "failed"
  ntsigs,   \* its pending signals, of "log", "rexx" and "F"
  base,     \* its SocketBase is open
  dest,     \* [file, fileFail, con, conName]
  rexx,     \* the ARexx port: "none", "made" or "shown"
  rexxq,    \* messages there
  script,   \* [Scripts -> "idle", "sent" or what it was answered with]
  fail,     \* GetLogMsgFail
  total,    \* TotalFail, static in log_poll
  logs, lives

lvars == <<lphase, replyq, logq, closer, writer, nt, ntsigs, base, dest, rexx, rexxq, script, fail,
           total, logs, lives>>

None == "none"

LogInit ==
  /\ lphase = "down" /\ replyq = <<>> /\ logq = <<>> /\ closer = None
  /\ writer = [w \in Writers |-> None] /\ nt = [pc |-> "none", sig |-> {}, t |-> 0] /\ ntsigs = {}
  /\ base = FALSE /\ dest = [file |-> FALSE, fileFail |-> FALSE, con |-> FALSE, conName |-> None]
  /\ rexx = "none" /\ rexxq = <<>> /\ script = [s \in Scripts |-> "idle"]
  /\ fail = 0 /\ total = 0 /\ logs = 0 /\ lives = 0

-----------------------------------------------------------------------------
(* Start. *)

log_init ==
  /\ lphase = "down" /\ lives < MaxLives /\ lives' = lives + 1
  /\ fail' = 0 /\ lphase' = "started" /\ nt' = [pc |-> "start", sig |-> {}, t |-> 0] /\ ntsigs' = {}
  /\ UNCHANGED <<replyq, logq, closer, writer, base, dest, rexx, rexxq, script, total, logs>>

\* The log file, or the first fallback that opens; none is tried again until its name changes.
log_validate_dest(d) == {[d EXCEPT !.file = TRUE], [d EXCEPT !.fileFail = TRUE]}

rexx_init == {"none", "made"}

\* log_close(): the ARexx port, the files and the base go, what is queued is answered.
rexx_deinit == [s \in Scripts |-> IF s \in ToSet(rexxq) THEN "closed" ELSE script[s]]

log_close(answers) ==
  /\ script' = rexx_deinit /\ rexx' = "none" /\ rexxq' = <<>> /\ base' = FALSE
  /\ dest' = [dest EXCEPT !.file = FALSE, !.con = FALSE]
  /\ replyq' = replyq \o answers /\ logq' = <<>>

\* log_task up to the handshake.  Failing, it says so with logPort = -1 and a signal.
log_task_starts ==
  /\ nt.pc = "start"
  /\ \E d \in log_validate_dest(dest), r \in rexx_init, ok \in BOOLEAN :
       IF ok /\ r = "made"
       THEN /\ dest' = d /\ rexx' = r /\ replyq' = Append(replyq, "init") /\ nt' = [nt EXCEPT !.pc = "sync"]
            /\ UNCHANGED <<script, rexxq, base, logq>>
       ELSE log_close(<<>>) /\ nt' = [nt EXCEPT !.pc = "failed"]
  /\ UNCHANGED <<lphase, closer, writer, ntsigs, fail, total, logs, lives>>

\* log_init goes on: the handshake message is answered first, then the pool is filled.
log_init_answers ==
  /\ lphase = "started"
  /\ \/ /\ nt.pc = "failed" /\ lphase' = "down" /\ nt' = [nt EXCEPT !.pc = "none"]
        /\ UNCHANGED <<replyq, logq, ntsigs>>
     \/ /\ replyq # <<>> /\ replyq' = <<>> /\ logq' = Append(logq, Head(replyq))
        /\ ntsigs' = ntsigs \cup {"log"} /\ lphase' = "answered" /\ UNCHANGED nt
  /\ UNCHANGED <<closer, writer, base, dest, rexx, rexxq, script, fail, total, logs, lives>>

log_init_fills ==
  /\ lphase = "answered" /\ lphase' = "up" /\ replyq' = replyq \o SetToSeq(Msgs)
  /\ UNCHANGED <<logq, closer, writer, nt, ntsigs, base, dest, rexx, rexxq, script, fail, total, logs, lives>>

\* Mutant: the signal taken while waiting for the log task to start is not set again.
log_task_synced_NoSignal ==
  /\ nt.pc = "sync" /\ "log" \in ntsigs
  /\ logq' = Tail(logq) /\ nt' = [nt EXCEPT !.pc = IF Head(logq) = "init" THEN "wait" ELSE "sync"]
  /\ ntsigs' = ntsigs \ {"log"}
  /\ UNCHANGED <<lphase, replyq, closer, writer, base, dest, rexx, rexxq, script, fail, total, logs, lives>>

\* The rendezvous: whatever else came to logPort has had its signal taken, so it is set again.
log_task_synced ==
  /\ nt.pc = "sync" /\ "log" \in ntsigs
  /\ logq' = Tail(logq) /\ nt' = [nt EXCEPT !.pc = IF Head(logq) = "init" THEN "wait" ELSE "sync"]
  /\ ntsigs' = IF Head(logq) = "init" THEN ntsigs \cup {"log"} ELSE ntsigs \ {"log"}
  /\ UNCHANGED <<lphase, replyq, closer, writer, base, dest, rexx, rexxq, script, fail, total, logs, lives>>

\* ng_stack_process tells NETTRACE that the library can be opened.
StackReady ==
  /\ lphase = "up" /\ ~base /\ ntsigs' = ntsigs \cup {"F"}
  /\ UNCHANGED <<lphase, replyq, logq, closer, writer, nt, base, dest, rexx, rexxq, script, fail, total, logs, lives>>

-----------------------------------------------------------------------------
(* Writers. *)

\* vlog up to the message, and GetLogMsg that counts what it could not get.
vlog(w) ==
  /\ lphase = "up" /\ writer[w] = None /\ logs < MaxLogs /\ logs' = logs + 1
  /\ \E l \in Levels :
       /\ l <= LogLevel
       /\ IF replyq = <<>> THEN fail' = fail + 1 /\ UNCHANGED <<writer, replyq>>
          ELSE /\ writer' = [writer EXCEPT ![w] = Head(replyq)] /\ replyq' = Tail(replyq)
               /\ UNCHANGED fail
  /\ UNCHANGED <<lphase, logq, closer, nt, ntsigs, base, dest, rexx, rexxq, script, total, lives>>

vlog_sends(w) ==
  /\ writer[w] # None /\ writer' = [writer EXCEPT ![w] = None]
  /\ logq' = Append(logq, writer[w]) /\ ntsigs' = ntsigs \cup {"log"}
  /\ UNCHANGED <<lphase, replyq, closer, nt, base, dest, rexx, rexxq, script, fail, total, logs, lives>>

\* An ARexx program finds the port and sends a command.
Script(s) ==
  /\ rexx = "shown" /\ script[s] = "idle"
  /\ script' = [script EXCEPT ![s] = "sent"] /\ rexxq' = Append(rexxq, s) /\ ntsigs' = ntsigs \cup {"rexx"}
  /\ UNCHANGED <<lphase, replyq, logq, closer, writer, nt, base, dest, rexx, fail, total, logs, lives>>

-----------------------------------------------------------------------------
(* NETTRACE's loop.  The pieces of a pass are steps: others run between them. *)

TraceWaits ==
  /\ nt.pc = "wait" /\ ntsigs \cap (IF base THEN {"log", "rexx"} ELSE {"log", "rexx", "F"}) # {}
  /\ nt' = [nt EXCEPT !.pc = "loop", !.sig = ntsigs] /\ ntsigs' = {}
  /\ UNCHANGED <<lphase, replyq, logq, closer, writer, base, dest, rexx, rexxq, script, fail, total, logs, lives>>

\* rexx_show makes the port public once the library is open.
TraceOpens ==
  /\ nt.pc = "loop" /\ "F" \in nt.sig /\ ~base
  /\ nt' = [nt EXCEPT !.sig = @ \ {"F"}]
  /\ \E ok \in BOOLEAN : base' = ok /\ rexx' = IF ok THEN "shown" ELSE rexx
  /\ UNCHANGED <<lphase, replyq, logq, closer, writer, ntsigs, dest, rexxq, script, fail, total, logs, lives>>

\* A console that does not open falls back to the default one, which is tried once.
ConsoleOpen(d) ==
  LET name == IF d.conName = None THEN "configured" ELSE d.conName
  IN IF d.con THEN {d}
     ELSE {[d EXCEPT !.con = TRUE, !.conName = name], [d EXCEPT !.con = TRUE, !.conName = "default"],
           [d EXCEPT !.conName = "default"]}

\* The destinations of one message.  A hook takes it instead of both.
LogWrites(d) ==
  {d} \cup UNION {ConsoleOpen(f) : f \in IF d.file \/ d.fileFail THEN {d} ELSE log_validate_dest(d)}

\* One message of log_poll: write it and give it back.  Losses are reported next ...
log_poll ==
  /\ nt.pc = "loop" /\ "log" \in nt.sig /\ logq # <<>> /\ Head(logq) \in Msgs
  /\ \E d \in LogWrites(dest) : dest' = d
  /\ replyq' = Append(replyq, Head(logq)) /\ logq' = Tail(logq)
  /\ nt' = IF fail # total THEN [nt EXCEPT !.pc = "report", !.t = fail] ELSE nt
  /\ UNCHANGED <<lphase, closer, writer, ntsigs, base, rexx, rexxq, script, fail, total, logs, lives>>

\* ... in a message of their own, which somebody may have taken meanwhile.
log_poll_reports ==
  /\ nt.pc = "report" /\ total' = nt.t /\ nt' = [nt EXCEPT !.pc = "loop", !.t = 0]
  /\ IF replyq = <<>> THEN fail' = fail + 1 /\ UNCHANGED <<replyq, logq, ntsigs>>
     ELSE /\ replyq' = Tail(replyq) /\ logq' = Append(logq, Head(replyq)) /\ ntsigs' = ntsigs \cup {"log"}
          /\ UNCHANGED fail
  /\ UNCHANGED <<lphase, closer, writer, base, dest, rexx, rexxq, script, logs, lives>>

log_poll_ends ==
  /\ nt.pc = "loop" /\ "log" \in nt.sig /\ logq = <<>> /\ nt' = [nt EXCEPT !.sig = @ \ {"log"}]
  /\ UNCHANGED <<lphase, replyq, logq, closer, writer, ntsigs, base, dest, rexx, rexxq, script, fail, total, logs, lives>>

\* One ARexx command, or none left.  A SET of a log name closes that file and lets it be tried again.
logname_changed(d) ==
  {d, [d EXCEPT !.file = FALSE, !.fileFail = FALSE], [d EXCEPT !.con = FALSE, !.conName = None]}

rexx_poll ==
  /\ nt.pc = "loop" /\ "log" \notin nt.sig /\ "rexx" \in nt.sig
  /\ IF base /\ rexxq # <<>>
     THEN /\ \E d \in logname_changed(dest) : dest' = d
          /\ script' = [script EXCEPT ![Head(rexxq)] = "done"] /\ rexxq' = Tail(rexxq) /\ UNCHANGED nt
     ELSE nt' = [nt EXCEPT !.sig = @ \ {"rexx"}] /\ UNCHANGED <<dest, script, rexxq>>
  /\ UNCHANGED <<lphase, replyq, logq, closer, writer, ntsigs, base, rexx, fail, total, logs, lives>>

TraceRereads ==
  /\ nt.pc = "loop" /\ (nt.sig \ {"F"}) = {} /\ ("F" \in nt.sig => base)
  /\ nt' = IF ntsigs = {} THEN [nt EXCEPT !.pc = "wait", !.sig = {}] ELSE [nt EXCEPT !.sig = ntsigs]
  /\ ntsigs' = {}
  /\ UNCHANGED <<lphase, replyq, logq, closer, writer, base, dest, rexx, rexxq, script, fail, total, logs, lives>>

-----------------------------------------------------------------------------
(* Stop. *)

\* log_deinit takes a free message, waiting for one if it must, and sends it as LOG_CLOSE.
log_deinit ==
  /\ lphase = "up" /\ \A w \in Writers : writer[w] = None
  /\ replyq # <<>> /\ lphase' = "closing" /\ closer' = Head(replyq) /\ replyq' = Tail(replyq)
  /\ logq' = Append(logq, "close") /\ ntsigs' = ntsigs \cup {"log"}
  /\ UNCHANGED <<writer, nt, base, dest, rexx, rexxq, script, fail, total, logs, lives>>

log_poll_closes ==
  /\ nt.pc = "loop" /\ "log" \in nt.sig /\ logq # <<>> /\ Head(logq) = "close"
  /\ log_close(Append(Tail(logq), closer)) /\ nt' = [nt EXCEPT !.pc = "told", !.sig = {}]
  /\ UNCHANGED <<lphase, closer, writer, ntsigs, fail, total, logs, lives>>

\* Its answer is the last word; what is left at the reply port is thrown away with the pool.
log_deinit_ends ==
  /\ lphase = "closing" /\ closer \in ToSet(replyq)
  /\ lphase' = "down" /\ replyq' = <<>> /\ closer' = None /\ nt' = [nt EXCEPT !.pc = "none"]
  /\ UNCHANGED <<logq, writer, ntsigs, base, dest, rexx, rexxq, script, fail, total, logs, lives>>

LogNext ==
  \/ log_init \/ log_task_starts \/ log_init_answers \/ log_init_fills \/ log_task_synced \/ StackReady
  \/ \E w \in Writers : vlog(w) \/ vlog_sends(w)
  \/ \E s \in Scripts : Script(s)
  \/ TraceWaits \/ TraceOpens \/ log_poll \/ log_poll_reports \/ log_poll_ends \/ rexx_poll \/ TraceRereads
  \/ log_deinit \/ log_poll_closes \/ log_deinit_ends

LogSpec == LogInit /\ [][LogNext]_lvars

-----------------------------------------------------------------------------
\* No message of the pool is lost, used twice or left behind: while the stack is up each is
\* free, with one writer, at logPort or the one that carries LOG_CLOSE; and when the pool is
\* freed (log_deinit) all of them are home.
MessagesKept ==
  LET places(m) == <<Cardinality({i \in DOMAIN replyq : replyq[i] = m}),
                     Cardinality({i \in DOMAIN logq : logq[i] = m}),
                     Cardinality({w \in Writers : writer[w] = m}),
                     IF closer = m /\ m \notin ToSet(replyq) THEN 1 ELSE 0>>
      n(m) == LET p == places(m) IN p[1] + p[2] + p[3] + p[4]
  IN \A m \in Msgs : n(m) = IF lphase \in {"up", "closing"} THEN 1 ELSE 0

\* NETTRACE does not sleep over work: what is queued at a port it serves has its signal
\* pending (the rendezvous takes the signal of a message that came with it).
TraceAwake ==
  nt.pc = "wait" => /\ logq # <<>> => "log" \in ntsigs
                    /\ rexxq # <<>> => "rexx" \in ntsigs

\* An ARexx program that sent a command is answered: its message is queued at a port that
\* exists, or the port was closed over it with an answer (rexx_deinit).
ScriptsKept ==
  /\ \A s \in Scripts : script[s] = "sent" <=> s \in ToSet(rexxq)
  /\ rexx = "none" => rexxq = <<>>

\* A loss is reported as soon as there is room: while some are unreported, a message is on
\* its way to log_poll, which reports them (TotalFail survives a restart: the first life).
LossesReported ==
  lives = 1 /\ fail # total /\ lphase = "up" => \E m \in Msgs : m \notin ToSet(replyq)

\* Logging from any task while the log task starts, stops and starts again: messages come
\* back, its files and its scripts are seen to the end and losses are reported.
LogSound == MessagesKept /\ TraceAwake /\ ScriptsKept /\ LossesReported

\* "it self-limits, since it only fires when the count moves" (log_poll): no more losses have
\* been reported than there were.
ReportsOnlyLosses == total <= fail
=============================================================================
