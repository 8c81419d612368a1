-------------------------------- MODULE Arp ---------------------------------
(***************************************************************************)
(* Address resolution on one interface, src/net/sana2arp.c: the table with *)
(* its free list and chains, the one packet held per unresolved entry, the *)
(* pacing of requests, and confirmation by inbound traffic. The table lock *)
(* makes every call one step.                                              *)
(*                                                                         *)
(* Times are ages in seconds, each capped where the code's tests stop      *)
(* telling it apart: req since at_lastreq, conf since at_confirmed, hs     *)
(* since at_holdstart. A field the code zeroes is at its cap.              *)
(***************************************************************************)
EXTENDS Naturals, Sequences, FiniteSets, SequencesExt

CONSTANTS
    Addrs, Hash,    \* other hosts, and the chain each address hashes to
    HwAddrs,        \* hardware addresses of other stations
    Packets,        \* packets in circulation
    Sizes,          \* values of arpentries tried
    Watched,        \* stations whose traffic the history follows
    MaxTries, Holddown, Revalidate, ProbeLimit, Slowprobe,
    KillC, KillI    \* the NG_ARP_ and ARPT_ constants

ASSUME ArpAssumption ==
    /\ Hash \in [Addrs -> Nat]
    /\ {MaxTries, Holddown, Revalidate, ProbeLimit, Slowprobe,
        KillC, KillI} \subseteq Nat \ {0}
    /\ Sizes \subseteq Nat \ {0} /\ Watched \subseteq HwAddrs

VARIABLES
    noarp,   \* IFF_NOARP
    arpentries, \* entries a table is made with
    made,    \* the table exists
    table,   \* its entries, the most recently entered first
    nfree,   \* length of atb_free
    walked,  \* atb_lastconfirm is the current second
    pkt,     \* where each packet is
    heard    \* history: whether IP packets of a station came this second,
             \* and for how many seconds on end

avars == <<noarp, arpentries, made, table, nfree, walked, pkt, heard>>
NoOne == "none"
Off == Holddown + 1

ArpInit ==
    /\ noarp \in BOOLEAN /\ arpentries \in Sizes
    /\ made = FALSE /\ table = <<>> /\ nfree = 0 /\ walked = FALSE
    /\ pkt = [p \in Packets |-> "out"]
    /\ heard = [h \in Watched |-> [now |-> FALSE, run |-> 0]]

\* A new occupant starts with clean pacing. unans, persec and needless are
\* history: requests unanswered, requests this second, and whether one was
\* sent to a station heard from in every second of Revalidate.
NewEntry(a, perm) ==
    [ia |-> a, hw |-> NoOne, perm |-> perm, publ |-> FALSE, com |-> FALSE,
     hold |-> NoOne, timer |-> 0, req |-> Slowprobe, conf |-> Revalidate, hs |-> Off,
     asked |-> 0, unans |-> 0, persec |-> 0, needless |-> FALSE]

Look(t, a) == SelectInSeq(t, LAMBDA e : e.ia = a)
Put(t, e) == [t EXCEPT ![Look(t, e.ia)] = e]
Drop(t, i) == SubSeq(t, 1, i - 1) \o SubSeq(t, i + 1, Len(t))

\* m_freem of a packet that must still be ours
m_freem(pk, p) == IF p = NoOne THEN pk
                  ELSE [pk EXCEPT ![p] = IF @ \in {"held", "given"} THEN "out" ELSE "twice"]

\* A step transforms the table, the free count and the packets together.
ArpNow == [t |-> table, f |-> nfree, k |-> pkt]
ArpCommit(w) == table' = w.t /\ nfree' = w.f /\ pkt' = w.k
-----------------------------------------------------------------------------
arptfree(w, i) ==
    [t |-> Drop(w.t, i), k |-> m_freem(w.k, w.t[i].hold),
     f |-> IF w.t[i].perm THEN w.f ELSE w.f + 1]

\* The non-permanent entry unreferenced longest, the first met in chain order.
Victims(t) == {i \in DOMAIN t : ~t[i].perm}
Oldest(t) ==
    CHOOSE i \in Victims(t) : \A j \in Victims(t) :
        \/ t[i].timer > t[j].timer
        \/ /\ t[i].timer = t[j].timer
           /\ \/ Hash[t[i].ia] < Hash[t[j].ia]
              \/ Hash[t[i].ia] = Hash[t[j].ia] /\ i <= j

CanEnter(w, perm) == perm \/ w.f > 0 \/ Victims(w.t) # {}
arptnew(w, a, perm) ==
    CASE perm    -> [w EXCEPT !.t = <<NewEntry(a, TRUE)>> \o @]
      [] w.f > 0 -> [w EXCEPT !.t = <<NewEntry(a, FALSE)>> \o @, !.f = @ - 1]
      [] OTHER   -> LET i == Oldest(w.t)
                    IN [w EXCEPT !.t = <<NewEntry(a, FALSE)>> \o Drop(@, i),
                                 !.k = m_freem(@, w.t[i].hold)]

\* arp_request_out for an entry; a request ages from now
arpwhohas(e) ==
    [e EXCEPT !.req = 0, !.unans = IF @ < MaxTries THEN @ + 1 ELSE @,
              !.persec = @ + 1,
              !.needless = @ \/ (e.com /\ e.hw \in Watched /\ heard[e.hw].run >= Revalidate)]

alloc_arptable(w) == [w EXCEPT !.t = <<>>, !.f = arpentries]

\* An interface is configured: the table is made if there is memory.
ConfigureArp ==
    /\ ~made /\ made' = TRUE /\ ArpCommit(alloc_arptable(ArpNow))
    /\ UNCHANGED <<noarp, arpentries, walked, heard>>

\* What the entries hold, and the permanent ones, do not come back.
free_arptable ==
    /\ made
    /\ made' = FALSE /\ table' = <<>> /\ nfree' = 0 /\ walked' = FALSE
    /\ pkt' = [p \in Packets |-> IF pkt[p] = "held" THEN "leaked" ELSE pkt[p]]
    /\ UNCHANGED <<noarp, arpentries, heard>>
-----------------------------------------------------------------------------
(* arpresolve, by the state of the destination's entry.                    *)

Probing(e) == e.com /\ ~e.perm /\ e.conf >= Revalidate
Revalidated(e) ==
    IF Probing(e) /\ e.req >= (IF e.asked < MaxTries THEN 1 ELSE Slowprobe)
    THEN [arpwhohas(e) EXCEPT !.asked = @ + 1] ELSE e
Demoted(e) == [e EXCEPT !.com = FALSE, !.asked = 0, !.hs = Off, !.req = 0]

\* Hold-down: the packet is refused with EHOSTDOWN, the slow probe goes on.
Refused(w, e, p) ==
    [w EXCEPT !.t = Put(@, IF e.req >= Slowprobe THEN arpwhohas(e) ELSE e),
              !.k = m_freem(@, p)]

\* Mutant: the packet that was held is forgotten, not freed.
Held_NoFree(w, e, p) ==
    LET f == [e EXCEPT !.hold = p, !.asked = IF e.hs # Off THEN 0 ELSE @, !.hs = Off]
        g == IF f.asked >= MaxTries THEN [f EXCEPT !.hs = 0, !.asked = 0]
             ELSE IF f.req # 0 THEN [arpwhohas(f) EXCEPT !.asked = @ + 1] ELSE f
    IN [w EXCEPT !.t = Put(@, g), !.k[p] = "held"]

\* The packet replaces the one held; the burst goes on, or hold-down begins.
Held(w, e, p) ==
    LET f == [e EXCEPT !.hold = p, !.asked = IF e.hs # Off THEN 0 ELSE @, !.hs = Off]
        g == IF f.asked >= MaxTries THEN [f EXCEPT !.hs = 0, !.asked = 0]
             ELSE IF f.req # 0 THEN [arpwhohas(f) EXCEPT !.asked = @ + 1] ELSE f
    IN [w EXCEPT !.t = Put(@, g), !.k = [m_freem(@, e.hold) EXCEPT ![p] = "held"]]

Unresolved(w, e, p) == IF e.hs < Holddown THEN Refused(w, e, p) ELSE Held(w, e, p)

\* Called by sana_output; a packet that is answered for goes to the driver.
Resolve(w, d, p) ==
    LET i == Look(w.t, d)
        n == arptnew(w, d, FALSE)
        e == Revalidated([w.t[i] EXCEPT !.timer = 0])
    IN CASE i = 0 /\ CanEnter(w, FALSE) ->
              [n EXCEPT !.t[1] = [arpwhohas(@) EXCEPT !.hold = p, !.asked = 1],
                        !.k[p] = "held"]
         [] i = 0 /\ ~CanEnter(w, FALSE) -> [w EXCEPT !.k = m_freem(@, p)]
         [] i # 0 /\ ~e.com -> Unresolved(w, e, p)
         [] i # 0 /\ Probing(e) /\ e.asked >= ProbeLimit -> Unresolved(w, Demoted(e), p)
         [] OTHER -> [w EXCEPT !.t = Put(@, e), !.k[p] = "out"]

\* No table and no memory for one: ENOBUFS
ResolveFails(w, p) == [w EXCEPT !.k = m_freem(@, p)]

arpresolve ==
    \E d \in Addrs, p \in Packets, memory \in BOOLEAN :
        LET w == [ArpNow EXCEPT !.k[p] = "given"]
        IN /\ pkt[p] = "out"
           /\ CASE ~noarp /\ made -> ArpCommit(Resolve(w, d, p))
                [] ~noarp /\ ~made /\ memory -> ArpCommit(Resolve(alloc_arptable(w), d, p))
                [] OTHER -> ArpCommit(ResolveFails(w, p))
           /\ made' = (made \/ (~noarp /\ memory))
           /\ UNCHANGED <<noarp, arpentries, walked, heard>>
-----------------------------------------------------------------------------
Confirmed(e) ==
    [e EXCEPT !.conf = 0, !.asked = 0, !.req = Slowprobe, !.hs = Off, !.unans = 0]

\* The first inbound packet of a second confirms its sender's entries.
ng_arp_confirm_inbound ==
    \E h \in HwAddrs :
        /\ heard' = [w \in Watched |-> [heard[w] EXCEPT !.now = @ \/ w = h]]
        /\ IF walked \/ ~made THEN UNCHANGED <<table, walked>>
           ELSE /\ walked' = TRUE
                /\ table' = [i \in DOMAIN table |->
                     LET e == table[i]
                     IN IF e.com /\ ~e.perm /\ e.hw = h THEN Confirmed(e) ELSE e]
        /\ UNCHANGED <<noarp, arpentries, made, nfree, pkt>>

\* The answer to an entry: its address is taken, what it holds is sent on.
Answered(w, e, h) ==
    [w EXCEPT !.t = Put(@, [Confirmed(e) EXCEPT !.hw = h, !.com = TRUE, !.hold = NoOne]),
              !.k = m_freem(@, e.hold)]
Learnt(w, a, h) ==
    LET n == arptnew(w, a, FALSE)
    IN [n EXCEPT !.t[1] = [@ EXCEPT !.hw = h, !.com = TRUE, !.conf = 0]]

\* A packet of another station about itself, to us or to someone else; one
\* claiming our own address changes nothing here.
in_arpinput ==
    \E a \in Addrs, h \in HwAddrs, target \in {"me", NoOne} :
        /\ ~noarp /\ made
        /\ LET i == Look(table, a)
           IN CASE i # 0 -> ArpCommit(Answered(ArpNow, table[i], h))
                [] i = 0 /\ target = "me" /\ CanEnter(ArpNow, FALSE) -> ArpCommit(Learnt(ArpNow, a, h))
                [] OTHER -> UNCHANGED <<table, nfree, pkt>>
        /\ UNCHANGED <<noarp, arpentries, made, walked, heard>>

\* SIOCSARP and SIOCDARP; an entry of the other kind is freed first.
SIOCSARP(a, h, perm, publ) ==
    LET i == Look(table, a)
        w == IF i # 0 /\ table[i].perm # perm THEN arptfree(ArpNow, i) ELSE ArpNow
        j == Look(w.t, a)
        n == IF j = 0 THEN arptnew(w, a, perm) ELSE w
        e == n.t[Look(n.t, a)]
    IN IF j = 0 /\ ~CanEnter(w, perm) THEN ArpCommit(w)
       ELSE ArpCommit([n EXCEPT !.t = Put(@, [Confirmed(e) EXCEPT
                      !.hw = h, !.com = TRUE, !.perm = perm, !.publ = publ, !.timer = 0])])

SIOCDARP(a) == Look(table, a) # 0 /\ ArpCommit(arptfree(ArpNow, Look(table, a)))

arpioctl ==
    /\ made
    /\ \E a \in Addrs : \/ \E h \in HwAddrs, perm, publ \in BOOLEAN : SIOCSARP(a, h, perm, publ)
                        \/ SIOCDARP(a)
    /\ UNCHANGED <<noarp, arpentries, made, walked, heard>>
-----------------------------------------------------------------------------
\* Once a minute. arptfree links the expired entry to the free list and the
\* walk follows that link, so what stood behind it in its chain is not aged.
Aged(e) == IF e.perm THEN e ELSE [e EXCEPT !.timer = @ + 1]
Expired(e) == ~e.perm /\ Aged(e).timer >= (IF e.com THEN KillC ELSE KillI)
Passed(i) == \E j \in 1..(i - 1) : Expired(table[j]) /\ Hash[table[j].ia] = Hash[table[i].ia]

arptimer ==
    /\ made
    /\ LET dies == {i \in DOMAIN table : Expired(table[i]) /\ ~Passed(i)}
           now == [i \in DOMAIN table |-> IF Passed(i) THEN table[i] ELSE Aged(table[i])]
           holds == {table[i].hold : i \in dies} \ {NoOne}
       IN /\ dies # {} \/ now # table
          /\ table' = SelectSeq(now, LAMBDA e : \A i \in dies : table[i].ia # e.ia)
          /\ nfree' = nfree + Cardinality(dies)
          /\ pkt' = [p \in Packets |-> IF p \in holds THEN m_freem(pkt, p)[p] ELSE pkt[p]]
    /\ UNCHANGED <<noarp, arpentries, made, walked, heard>>

\* if_slowtimo moves the clock the pacing reads on by a second
Older(n, cap) == IF n < cap THEN n + 1 ELSE n
Tick ==
    /\ walked' = FALSE
    /\ heard' = [h \in Watched |-> [now |-> FALSE, run |->
                   IF heard[h].now THEN Older(heard[h].run, Revalidate) ELSE 0]]
    /\ table' = [i \in DOMAIN table |->
                    [table[i] EXCEPT !.req = Older(@, Slowprobe), !.persec = 0,
                       !.conf = Older(@, Revalidate),
                       !.hs = IF @ = Off THEN @ ELSE Older(@, Holddown)]]
    /\ UNCHANGED <<noarp, arpentries, made, nfree, pkt>>

ArpNext ==
    \/ ConfigureArp \/ free_arptable \/ arpresolve \/ ng_arp_confirm_inbound
    \/ in_arpinput \/ arpioctl \/ arptimer \/ Tick
-----------------------------------------------------------------------------
Occupied == {table[i] : i \in DOMAIN table}

(* A packet given to ARP has one owner: it is held by exactly one entry,   *)
(* or it was sent or freed once. Replacement, eviction, ageing, SIOCDARP   *)
(* and the answer each end the holding (arptnew, arptfree, arpresolve).    *)
(* No slot of the table is lost either.                                    *)
PacketsOwned ==
    /\ \A p \in Packets :
         /\ pkt[p] \in {"out", "held", "leaked"}
         /\ Cardinality({e \in Occupied : e.hold = p}) = IF pkt[p] = "held" THEN 1 ELSE 0
    /\ made => nfree + Cardinality({e \in Occupied : ~e.perm}) = arpentries
    /\ \A e, f \in Occupied : e.ia = f.ia => e = f

(* Senders are refused only after MaxTries requests to this very address   *)
(* went unanswered, whoever had the slot before; and an address is asked   *)
(* for at most once a second (arptnew, arpresolve).                        *)
RefusedForCause ==
    \A e \in Occupied : /\ e.hs # Off => e.unans >= MaxTries /\ ~e.com
                        /\ e.persec <= 1

(* An entry whose station sends in every second is not probed:             *)
(* "confirmed continuously and does not reach the probe escalation".       *)
TrafficConfirms == \A e \in Occupied : ~e.needless

(* The ARP table neither loses nor duplicates what it is given, and        *)
(* refuses a sender only for silence of the very station asked for.        *)
ArpSound == PacketsOwned /\ RefusedForCause
=============================================================================
