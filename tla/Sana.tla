-------------------------------- MODULE Sana --------------------------------
(***************************************************************************)
(* The SANA-II interface driver, src/net/if_sana.c: one interface (a       *)
(* struct sana_softc), its pool of I/O requests, the shared reply port,    *)
(* the network task that drains it, one library client at a time, the      *)
(* process that configures the interface again, and a device that answers, *)
(* goes out of service, comes back, and may ignore an abort.               *)
(*                                                                         *)
(* Packets are counted, not distinguished; buffers are a budget w.mb of    *)
(* allocations that succeed in the step, chosen anew for every step.       *)
(***************************************************************************)
EXTENDS Naturals, FiniteSets, Bags

CONSTANTS
    Reqno,         \* ss_reqno: requests made for the interface
    IpReqno,       \* ss_ip.reqno: reads for IP kept at the device
    ArpReqno,      \* ss_arp.reqno
    QMaxlen,       \* if_snd.ifq_maxlen
    ProbeSecs,     \* NG_PROBE_SECS
    AbortSecs,     \* NG_PROBE_ABORT_SECS
    EventMaxFail,  \* NG_S2_EVENT_MAXFAIL
    Drivers,       \* the drivers met: sets of "deaf" (may ignore AbortIO) and
                   \* "mute" (may keep S2_ONEVENT for ever)
    MaxFlaps, MaxOps, MaxOut   \* bounds: losses of the device, calls, packets

ASSUME SanaAssumption ==
    /\ {Reqno, IpReqno, ArpReqno, QMaxlen, ProbeSecs, AbortSecs, EventMaxFail} \subseteq Nat
    /\ {MaxFlaps, MaxOps, MaxOut} \subseteq Nat
    /\ Drivers \subseteq SUBSET {"deaf", "mute"}

VARIABLES
    ssc,      \* the softc; in: it is allocated and on ssq
    req,      \* the requests, a bag: requests in one state are interchangeable
    snd,      \* packets on if_snd
    sig,      \* the signal bit of SanaPort
    sem,      \* the holder of SanaPortSem
    net, caller, \* where the network task and the library client are
    recon,    \* reconfigure helper processes at work
    drv, dev, \* the driver; the device is online
    wish,     \* what the operator last asked for, and whether it was undone
    flaps, ops, outs

sanaVars == <<ssc, req, snd, sig, sem, net, caller, recon, drv, dev, wish, flaps, ops, outs>>
devVars == <<drv, dev, flaps>>
-----------------------------------------------------------------------------
\* st: on the free list, at the device, or in the port; own: ioip_if is set;
\* mb: holds a buffer; asked: AbortIO was called; cur: is ss_probe_req; gone: freed
IdleReq == [st |-> "idle", kind |-> "none", own |-> TRUE, mb |-> FALSE,
            asked |-> FALSE, cur |-> FALSE, gone |-> FALSE, err |-> "ok"]

NoSoftc ==
    [in |-> FALSE, up |-> FALSE, running |-> FALSE, removing |-> FALSE, timer |-> FALSE,
     ip |-> 0, arp |-> 0, event |-> 0, noevents |-> FALSE, fails |-> 0,
     offcleanup |-> FALSE, wantback |-> FALSE, probing |-> FALSE, pabort |-> FALSE,
     pwait |-> 0, reconfig |-> FALSE, reconfiguring |-> FALSE]

SanaInit ==
    /\ ssc = NoSoftc /\ req = EmptyBag /\ snd = 0
    /\ sig = FALSE /\ sem = "free" /\ net = "idle" /\ caller = "idle"
    /\ recon = 0 /\ drv \in Drivers /\ dev = TRUE /\ wish = "down"
    /\ flaps = 0 /\ ops = 0 /\ outs = 0

\* A step's view of the interface: the state its handlers transform.
World(b) == [s |-> ssc, r |-> req, q |-> snd, sig |-> sig, mb |-> b]
Commit(w) == /\ ssc' = w.s /\ req' = w.r /\ snd' = w.q /\ sig' = w.sig
Budget == 0..Reqno
Least(a, b) == IF a < b THEN a ELSE b

Times(n, e) == IF n = 0 THEN EmptyBag ELSE [x \in {e} |-> n]
Swap(w, n, e, f) == [w EXCEPT !.r = (@ (-) Times(n, e)) (+) Times(n, f)]
Number(r, P(_)) == BagCardinality([e \in {x \in BagToSet(r) : P(x)} |-> r[e]])
Posted(r, kind) == Number(r, LAMBDA e : e.kind = kind /\ e.own)
Port == {e \in BagToSet(req) : e.st = "done"}

\* RemHead of ss_freereq: the requests that may be taken, all alike
Free(w) == {e \in BagToSet(w.r) : e.st = "idle"}
FreeHead(w) == CHOOSE e \in Free(w) : TRUE
FreeNo(w) == IF Free(w) = {} THEN 0 ELSE w.r[FreeHead(w)]

\* sana_submit: BeginIO of a request prepared for one purpose
AtDevice(e, kind, mb) ==
    [e EXCEPT !.st = "dev", !.kind = kind, !.mb = mb, !.asked = FALSE,
              !.cur = (kind = "probe"), !.err = "ok"]
sana_submit(w, n, kind) ==
    IF n = 0 THEN w ELSE Swap(w, n, FreeHead(w), AtDevice(FreeHead(w), kind, TRUE))
Resubmit(w, e, kind, mb) == Swap(w, 1, e, AtDevice(e, kind, mb))
Retire(w, e) == Swap(w, 1, e, [IdleReq EXCEPT !.gone = e.gone])

\* Asks the device for the requests that have the mark: "own", of the interface; "cur", its probe.
AbortSanaIO(w, mark) ==
    [w EXCEPT !.r = BagOfAll(LAMBDA e : [e EXCEPT !.asked = @ \/ (e.st = "dev" /\ e[mark])], @)]
ForgetProbe(w) == [w EXCEPT !.r = BagOfAll(LAMBDA e : [e EXCEPT !.cur = FALSE], @)]

\* Takes what the free list, the buffers and the shortfall allow.
sana_send_read(w, kind, count) ==
    LET n == Least(count, Least(FreeNo(w), w.mb))
    IN [sana_submit(w, n, kind) EXCEPT !.mb = @ - n]

Refill(w) ==
    LET w1 == sana_send_read(w, "ip", IpReqno - w.s.ip)
        n1 == w.mb - w1.mb
        w2 == sana_send_read(w1, "arp", ArpReqno - w.s.arp)
        n2 == w1.mb - w2.mb
    IN [w2 EXCEPT !.s.ip = @ + n1, !.s.arp = @ + n2]

sana_up(w) ==
    IF w.s.removing THEN w
    ELSE Refill([w EXCEPT !.s.up = TRUE, !.s.timer = TRUE])

sana_rearm_reads(w) == IF w.s.up /\ ~w.s.removing THEN Refill(w) ELSE w

\* Binds free requests to queued packets; wakes the network task when short.
sana_start(w) ==
    LET n == Least(w.q, FreeNo(w))
    IN [sana_submit(w, n, "write") EXCEPT !.q = @ - n, !.sig = @ \/ w.q > n]

\* Mutant: the wish to bring the interface back survives its going down.
sana_down_KeepWantback(w) ==
    AbortSanaIO([ForgetProbe(w) EXCEPT
                    !.q = 0, !.s.probing = FALSE, !.s.pabort = FALSE, !.s.pwait = 0],
                "own")

sana_down(w) ==
    AbortSanaIO([ForgetProbe(w) EXCEPT
                    !.q = 0, !.s.wantback = FALSE, !.s.probing = FALSE,
                    !.s.pabort = FALSE, !.s.pwait = 0],
                "own")

if_down(w) == [w EXCEPT !.s.up = FALSE, !.q = 0]

sana_back_online(w) ==
    IF ~w.s.wantback \/ w.s.removing THEN w
    ELSE LET a == IF w.s.probing THEN AbortSanaIO(w, "cur") ELSE w
             c == [a EXCEPT !.s.wantback = FALSE, !.s.probing = FALSE, !.s.pabort = FALSE,
                            !.s.pwait = 0, !.s.fails = 0]
         IN [sana_up(c) EXCEPT !.s.reconfig = TRUE]
-----------------------------------------------------------------------------
(* The handlers sana_poll dispatches to.                                   *)

\* The request is sent back if the interface is up and a buffer is there.
Repost(w, e, kind) ==
    IF w.s.up /\ w.mb > 0
    THEN [Resubmit(w, e, kind, TRUE) EXCEPT !.mb = @ - 1]
    ELSE LET d == Retire(w, e)
         IN IF kind = "ip" THEN [d EXCEPT !.s.ip = @ - 1] ELSE [d EXCEPT !.s.arp = @ - 1]

\* Out of service while up: down, cleaned up later, and the return watched for.
OutOfService(w, e, kind) ==
    LET d == [if_down(w) EXCEPT !.s.offcleanup = TRUE, !.s.wantback = TRUE,
                                !.s.pwait = ProbeSecs, !.s.timer = TRUE]
        v == IF w.s.noevents THEN Retire(d, e)
             ELSE [Resubmit(d, e, "event", FALSE) EXCEPT !.s.event = @ + 1]
    IN IF kind = "ip" THEN [v EXCEPT !.s.ip = @ - 1] ELSE [v EXCEPT !.s.arp = @ - 1]

sana_read(w, e) ==
    IF e.err = "oos" /\ w.s.up THEN OutOfService(w, e, e.kind) ELSE Repost(w, e, e.kind)

sana_probe_read(w, e) ==
    LET weaborted == w.s.pabort
        d == Retire(w, e)
        c == IF ~e.cur THEN d
             ELSE [d EXCEPT !.s.probing = FALSE, !.s.pabort = FALSE,
                            !.s.pwait = ProbeSecs]
    IN IF e.err = "ok" \/ (e.err = "abort" /\ weaborted) THEN sana_back_online(c) ELSE c

sana_online(w, e) ==
    LET give == [Retire(w, e) EXCEPT !.s.event = @ - 1]
        again == Resubmit(w, e, "event", FALSE)
    IN CASE e.err = "ok" -> sana_back_online(give)
         [] e.err = "abort" -> give
         [] e.err = "nosup" -> IF w.s.noevents THEN give
                               ELSE [again EXCEPT !.s.noevents = TRUE]
         [] OTHER -> IF w.s.fails + 1 > EventMaxFail
                     THEN [give EXCEPT !.s.noevents = TRUE, !.s.fails = @ + 1]
                     ELSE [again EXCEPT !.s.fails = @ + 1]

free_written_packet(w, e) == sana_start(Retire(w, e))

Dispatch(w, e) ==
    CASE e.kind \in {"ip", "arp"} -> sana_read(w, e)
      [] e.kind = "probe" -> sana_probe_read(w, e)
      [] e.kind = "event" -> sana_online(w, e)
      [] OTHER -> free_written_packet(w, e)
-----------------------------------------------------------------------------
(* The network task.                                                       *)

sana_poll ==
    /\ net = "idle" /\ sig /\ sem = "free"
    /\ net' = "drain" /\ sem' = "net" /\ sig' = FALSE
    /\ UNCHANGED <<ssc, req, snd, caller, recon, wish, ops, outs, devVars>>

\* A request cut loose by a teardown is dropped; others are dispatched.
PollMsg ==
    /\ net = "drain"
    /\ \E e \in Port :
         IF ~e.own
         THEN req' = req (-) Times(1, e) /\ UNCHANGED <<ssc, snd, sig>>
         ELSE \E b \in Budget : Commit(Dispatch(World(b), e))
    /\ UNCHANGED <<sem, net, caller, recon, wish, ops, outs, devVars>>

PollRearm ==
    /\ net = "drain" /\ Port = {}
    /\ IF ssc.in THEN \E b \in Budget : Commit(sana_rearm_reads(World(b)))
                 ELSE UNCHANGED <<ssc, req, snd, sig>>
    /\ net' = "off" /\ sem' = "free"
    /\ UNCHANGED <<caller, recon, wish, ops, outs, devVars>>

\* sana_offline_cleanup of a flagged interface, then sana_reconfig_poll: the
\* helper is started unless one is at work; it may not be possible to start it.
PollDeferred ==
    /\ net = "off"
    /\ \E started \in BOOLEAN :
         LET due == ssc.in /\ ssc.reconfig /\ ~ssc.reconfiguring
         IN /\ ssc' = IF due THEN [ssc EXCEPT !.offcleanup = FALSE, !.reconfig = FALSE,
                                              !.reconfiguring = started]
                      ELSE [ssc EXCEPT !.offcleanup = FALSE]
            /\ recon' = IF due /\ started THEN recon + 1 ELSE recon
    /\ net' = "idle"
    /\ UNCHANGED <<req, snd, sig, sem, caller, wish, ops, outs, devVars>>

sana_post_probe(w) ==
    IF Free(w) = {} \/ w.mb = 0 THEN w
    ELSE [sana_submit(ForgetProbe(w), 1, "probe") EXCEPT
            !.s.probing = TRUE, !.s.pabort = FALSE, !.s.pwait = ProbeSecs]

sana_probe_step(w) ==
    CASE ~w.s.wantback \/ w.s.removing \/ w.s.up -> w
      [] w.s.pwait > 0 -> [w EXCEPT !.s.pwait = @ - 1]
      [] ~w.s.probing -> sana_post_probe(w)
      [] ~w.s.pabort -> AbortSanaIO([w EXCEPT !.s.pabort = TRUE, !.s.pwait = AbortSecs],
                                    "cur")
      [] OTHER -> AbortSanaIO([w EXCEPT !.s.pwait = ProbeSecs],
                              "cur")

\* if_slowtimo's tick, in the network task
sana_watchdog ==
    /\ net = "idle" /\ ssc.in /\ ssc.timer
    /\ \E b \in Budget : Commit(sana_probe_step([sana_rearm_reads(World(b)) EXCEPT !.sig = TRUE]))
    /\ UNCHANGED <<sem, net, caller, recon, wish, ops, outs, devVars>>
-----------------------------------------------------------------------------
(* Library clients; syscall_semaphore lets one in at a time.               *)

Call(from, to, op) == caller = from /\ caller' = to /\ ops + op <= MaxOps /\ ops' = ops + op

sana_add_interface ==
    /\ Call("idle", "idle", 1) /\ ~ssc.in /\ ops = 0
    /\ ssc' = [NoSoftc EXCEPT !.in = TRUE]
    /\ UNCHANGED <<req, snd, sig, sem, net, recon, wish, outs, devVars>>

\* Makes the request pool; S2_CONFIGINTERFACE may fail.
sana_run(w) ==
    [w EXCEPT !.s.running = TRUE, !.r = @ (+) Times(Reqno, IdleReq)]

\* in_ifinit's SIOCSIFADDR: run and up as needed, then the address
SetAddress(w) ==
    LET r == IF w.s.running THEN w ELSE sana_run(w)
    IN IF r.s.running /\ ~r.s.up THEN sana_up(r) ELSE r

SiocSifaddr ==
    /\ Call("idle", "idle", 1) /\ ssc.in /\ ~ssc.removing
    /\ \E b \in Budget : Commit(SetAddress(World(b)))
    /\ wish' = "up"
    /\ UNCHANGED <<sem, net, recon, outs, devVars>>

\* SIOCSIFFLAGS: ifioctl's if_down and flags, then sana_ioctl
SetFlags(w, up) ==
    LET d == IF w.s.up /\ ~up THEN if_down(w) ELSE w
        f == [d EXCEPT !.s.up = up]
    IN IF up THEN IF w.s.running THEN sana_up(f) ELSE f ELSE sana_down(f)

SiocSifflags ==
    /\ Call("idle", "idle", 1) /\ ssc.in
    /\ \E up \in BOOLEAN, b \in Budget : Commit(SetFlags(World(b), up)) /\ wish' = IF up THEN "up" ELSE "down"
    /\ UNCHANGED <<sem, net, recon, outs, devVars>>

\* SM_Offline: down first, then S2_OFFLINE, then the cleanup is asked for
ConfigOffline ==
    \/ /\ Call("idle", "offline", 1) /\ ssc.in
       /\ Commit(SetFlags(World(0), FALSE)) /\ wish' = "down"
       /\ UNCHANGED <<sem, net, recon, outs, devVars>>
    \/ /\ Call("offline", "idle", 0)
       /\ dev' = FALSE /\ ssc' = [ssc EXCEPT !.offcleanup = TRUE]
       /\ UNCHANGED <<req, snd, sig, sem, net, recon, wish, outs, drv, flaps>>

\* SM_Online: S2_ONLINE first, then up, then configured from the file
ConfigOnline ==
    \/ /\ Call("idle", "online", 1) /\ ssc.in
       /\ dev' = TRUE
       /\ UNCHANGED <<ssc, req, snd, sig, sem, net, recon, wish, outs, drv, flaps>>
    \/ /\ Call("online", "idle", 0)
       /\ \E b \in Budget :
            LET w == SetFlags(World(b), TRUE) IN Commit([w EXCEPT !.s.reconfig = TRUE])
       /\ wish' = "up"
       /\ UNCHANGED <<sem, net, recon, outs, devVars>>

\* The helper process configures the interface by name; the call may fail.
HelperConfigures ==
    /\ recon > 0 /\ caller = "idle"
    /\ \E ok \in BOOLEAN, b \in Budget :
         LET w == IF ok /\ ssc.in THEN SetFlags(SetAddress(World(b)), TRUE) ELSE World(b)
         IN /\ Commit([w EXCEPT !.s.reconfiguring = FALSE])
            /\ wish' = IF w.s.up /\ ~ssc.up /\ wish = "down" THEN "undone" ELSE wish
    /\ recon' = recon - 1
    /\ UNCHANGED <<sem, net, caller, ops, outs, devVars>>

\* sana_output from any task; nothing is sent while the interface is down
sana_output ==
    /\ outs < MaxOut /\ ssc.in /\ ssc.up /\ ssc.running
    /\ \E b \in 0..1 :
         IF snd >= QMaxlen \/ b = 0 THEN UNCHANGED <<ssc, req, snd, sig>>
         ELSE Commit(sana_start([World(b) EXCEPT !.q = @ + 1]))
    /\ outs' = outs + 1
    /\ UNCHANGED <<sem, net, caller, recon, wish, ops, devVars>>
-----------------------------------------------------------------------------
(* sana_remove_interface, step by step.                                    *)

RemoveMark ==
    /\ Call("idle", "rdown", 1) /\ ssc.in
    /\ ssc' = [ssc EXCEPT !.removing = TRUE, !.up = FALSE, !.timer = FALSE]
    /\ wish' = "down"
    /\ UNCHANGED <<req, snd, sig, sem, net, recon, outs, devVars>>

RemoveDown ==
    /\ Call("rdown", IF ssc.running THEN "rwant" ELSE "rfree", 0)
    /\ Commit(sana_down(World(0)))
    /\ UNCHANGED <<sem, net, recon, wish, outs, devVars>>

UnrunObtain ==
    /\ Call("rwant", "runrun", 0) /\ sem = "free"
    /\ sem' = "app"
    /\ UNCHANGED <<ssc, req, snd, sig, net, recon, wish, outs, devVars>>

\* One turn of sana_unrun's loop: waits for a while, then frees the request
\* or cuts it loose. The wait takes the signal of the shared port with it.
UnrunReq ==
    /\ caller = "runrun"
    /\ \E e \in BagToSet(req) :
         /\ e.own /\ ~e.gone
         /\ IF e.st = "dev"
            THEN /\ "deaf" \in drv /\ e.asked
                 /\ req' = Swap(World(0), 1, e, [e EXCEPT !.own = FALSE]).r
                 /\ UNCHANGED sig
            ELSE /\ req' = IF e.st = "done" THEN req (-) Times(1, e)
                           ELSE Swap(World(0), 1, e, [e EXCEPT !.gone = TRUE]).r
                 /\ \E took \in BOOLEAN : sig' = (sig /\ ~took)
    /\ UNCHANGED <<ssc, snd, sem, net, caller, recon, wish, ops, outs, devVars>>

UnrunDone ==
    /\ Call("runrun", "rfree", 0)
    /\ \A e \in BagToSet(req) : e.own => e.gone
    /\ ssc' = [ssc EXCEPT !.running = FALSE]
    /\ sig' = TRUE /\ sem' = "free"
    /\ UNCHANGED <<req, snd, net, recon, wish, outs, devVars>>

\* Routes, addresses, lists, captures, the device and the softc itself
RemoveFree ==
    /\ Call("rfree", "idle", 0)
    /\ ssc' = NoSoftc
    /\ req' = [e \in {x \in BagToSet(req) : ~x.gone} |-> req[e]]
    /\ UNCHANGED <<snd, sig, sem, net, recon, wish, outs, devVars>>
-----------------------------------------------------------------------------
(* The device. It answers a request, now or never.                         *)

Answers(e) ==
    CASE e.asked -> {"abort"} \union (IF ~dev THEN {"oos"} ELSE {})
      [] e.kind = "event" -> (IF dev THEN {"ok"} ELSE {}) \union {"nosup", "other"}
      [] ~dev -> {"oos"}
      [] OTHER -> {"ok"}

DeviceReplies ==
    /\ \E e \in BagToSet(req) :
         /\ e.st = "dev"
         /\ \E err \in Answers(e) :
              req' = Swap(World(0), 1, e, [e EXCEPT !.st = "done", !.asked = FALSE, !.err = err]).r
    /\ sig' = TRUE
    /\ UNCHANGED <<ssc, snd, sem, net, caller, recon, wish, ops, outs, devVars>>

DeviceGoes ==
    /\ dev /\ ssc.running /\ flaps < MaxFlaps
    /\ dev' = FALSE /\ flaps' = flaps + 1
    /\ UNCHANGED <<ssc, req, snd, sig, sem, net, caller, recon, wish, ops, outs, drv>>

DeviceReturns ==
    /\ ~dev /\ dev' = TRUE
    /\ UNCHANGED <<ssc, req, snd, sig, sem, net, caller, recon, wish, ops, outs, drv, flaps>>
-----------------------------------------------------------------------------
NetStep == sana_poll \/ PollMsg \/ PollRearm \/ PollDeferred
RemoveStep == RemoveDown \/ UnrunObtain \/ UnrunReq \/ UnrunDone \/ RemoveFree

SanaNext ==
    \/ NetStep \/ sana_watchdog \/ RemoveStep \/ RemoveMark
    \/ sana_add_interface \/ SiocSifaddr \/ SiocSifflags \/ ConfigOffline \/ ConfigOnline
    \/ HelperConfigures \/ sana_output
    \/ DeviceReplies \/ DeviceGoes \/ DeviceReturns

SanaSpec == SanaInit /\ [][SanaNext]_sanaVars
-----------------------------------------------------------------------------
(* The counters the read ring is refilled from (ss_ip.sent, ss_arp.sent,   *)
(* ss_eventsent) are the requests the driver or the port really holds, and *)
(* a request on the free list holds no buffer.                             *)
SanaAccounts ==
    /\ ssc.in /\ ~ssc.removing =>
         /\ ssc.ip = Posted(req, "ip") /\ ssc.ip <= IpReqno
         /\ ssc.arp = Posted(req, "arp") /\ ssc.arp <= ArpReqno
         /\ ssc.event = Posted(req, "event")
         /\ ssc.running => Number(req, LAMBDA e : e.own) = Reqno
    /\ \A e \in BagToSet(req) : e.st = "idle" => ~e.mb /\ e.kind = "none"

(* No request that was freed is with the driver or in the port, and none   *)
(* that is there names a softc that was freed (sana_unrun, sana_poll).     *)
NoStaleRequest ==
    \A e \in BagToSet(req) : e.st \in {"dev", "done"} => ~e.gone /\ (e.own => ssc.in)

(* An interface the operator took down is not brought up by anything the   *)
(* driver reports (sana_down clears ss_wantback before it aborts): only a  *)
(* configuration process that was asked for earlier still does it.         *)
DriverObeysOperator == ssc.up => wish # "down"

(* What the comment in sana_down claims of every way back up.              *)
OperatorObeyed == wish # "undone"

(* A reply in the shared port never waits without a signal: the network    *)
(* task is draining it, or will, or the teardown that took the signal      *)
(* still holds the port and gives the signal back (sana_unrun).            *)
NoLostReply == Port # {} => sig \/ net = "drain" \/ sem = "app"

(* While the return of a lost device is wanted somebody looks for it: the  *)
(* watchdog ticks, and its probe is out, or a request for the next probe   *)
(* is there or will come back from the driver (sana_probe_step); requests  *)
(* a mute driver keeps as S2_ONEVENT do not come back.                     *)
ReturnWatched ==
    ssc.in /\ ssc.wantback /\ ~ssc.up /\ ~ssc.removing =>
        /\ ssc.timer
        /\ IF ssc.probing THEN \E e \in BagToSet(req) : e.cur /\ e.st # "idle"
                          ELSE Posted(req, "event") < Reqno \/ "mute" \notin drv

(* The driver's requests are accounted for, none outlives its interface    *)
(* and no reply is left lying; what the driver reports takes an interface  *)
(* down and brings back only one that the operator left up.                *)
DriverSound ==
    /\ SanaAccounts /\ NoStaleRequest /\ NoLostReply
    /\ DriverObeysOperator /\ ReturnWatched
=============================================================================
