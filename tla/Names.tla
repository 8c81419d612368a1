------------------------------- MODULE Names -------------------------------
(***************************************************************************)
(* Host names: the resolver (api/res_send.c, api/res_query.c,              *)
(* api/gethostnamadr.c), its answer cache (api/dns_cache.c), and the       *)
(* network database they read (kern/amiga_netdb.c, api/getxbyy.c and the   *)
(* name-server calls of api/amiga_roadshow_compat.c).                      *)
(*                                                                         *)
(* The database is read and written under its own lock and the cache under *)
(* another, so one locked section is one step and every change of the      *)
(* server list is two: the list, then the flush of the cache.  Datagrams   *)
(* and what a server says are chosen freely.                               *)
(***************************************************************************)
EXTENDS Naturals, Sequences, FiniteSets, SequencesExt

CONSTANTS
  Clients,      \* tasks that look names up
  Servers,      \* addresses of name servers
  Links,        \* interfaces that supply name servers
  Searches,     \* search domains
  Hosts,        \* the names looked up
  Dots,         \* [Hosts -> {"none", "inner", "last"}]: the dots of a name
  HostFile,     \* the names the hosts file knows
  HostDomain,   \* the domain of the machine's own name, or "none"
  Usens,        \* 0 hosts file only, 1 resolver first, 2 hosts file first
  FileServers, FileDomains, FileNets,  \* what a reload of the database reads
  Slots,        \* ng_dns_cache_max
  Retry,        \* _res.retry
  MaxSearch,    \* MAXDNSRCH
  MaxRejects,   \* MAXREJECTS
  Ttl, NegTtl,  \* how long answers and refusals are kept
  MaxNow, MaxEdits

ASSUME NamesAssumption ==
  /\ Slots \in Nat \ {0} /\ Retry \in Nat \ {0} /\ MaxRejects \in Nat \ {0}
  /\ MaxSearch \in Nat /\ Usens \in 0..2
  /\ Ttl \in Nat \ {0} /\ NegTtl \in Nat \ {0} /\ MaxNow \in Nat /\ MaxEdits \in Nat

VARIABLES
  ndb,     \* [ns, doms, nets, gen]: NDB
  cache,   \* [1..Slots -> entries]: dns_tab
  owed,    \* flushes of the cache still to be done after a change of ndb
  clock,   \* seconds
  look,    \* [Clients -> the call in progress]
  walk,  \* [Clients -> the position of getnetent]
  edits    \* changes made so far

nvars == <<ndb, cache, owed, clock, look, walk, edits>>

NoEntry == [q |-> "none", val |-> {}, neg |-> FALSE, exp |-> 0]
Idle == [pc |-> "idle", q |-> "none", stage |-> "none", i |-> 0, try |-> 0,
         k |-> 0, vc |-> FALSE, got |-> FALSE, rej |-> 0, host |-> "none",
         herr |-> "none", nodata |-> FALSE, seen |-> {}, ans |-> {}]
NoCursor == [at |-> 0, mem |-> 0, stamp |-> 0]

\* The configured database file, then the files of networks and the like.
read_netdb(g) == [ns |-> FileServers, doms |-> FileDomains, nets |-> 0, gen |-> g]
read_roadshow_dbs(db) == [db EXCEPT !.nets = @ + FileNets]

\* init_netdb and ng_dnscache_init
NamesInit ==
  /\ ndb = read_roadshow_dbs(read_netdb(0))
  /\ cache = [n \in 1..Slots |-> NoEntry]
  /\ owed = 0 /\ clock = 0 /\ edits = 0
  /\ look = [c \in Clients |-> Idle]
  /\ walk = [c \in Clients |-> NoCursor]

-----------------------------------------------------------------------------
(* The database.                                                           *)

\* A change of the database; the cache is flushed after the lock is gone.
Edit(db, flush) ==
  /\ edits < MaxEdits /\ edits' = edits + 1
  /\ ndb' = db /\ owed' = owed + flush
  /\ UNCHANGED <<cache, clock, look, walk>>

ServerNode(a, dynamic, owner) == [addr |-> a, dynamic |-> dynamic, owner |-> owner]

AddDomainNameServer(a) ==
  Edit([ndb EXCEPT !.ns = Append(@, ServerNode(a, TRUE, "none"))], 1)

ng_add_owned_nameserver(a, link) ==
  Edit([ndb EXCEPT !.ns = Append(@, ServerNode(a, TRUE, link))], 1)

\* The first entry with that address, whoever put it there.
RemoveDomainNameServer(a) ==
  /\ \E n \in DOMAIN ndb.ns :
       /\ ndb.ns[n].addr = a /\ \A m \in 1..(n - 1) : ndb.ns[m].addr # a
       /\ Edit([ndb EXCEPT !.ns = RemoveAt(@, n)], 1)

\* An interface went down, or (link = "none") the last one did.
ng_flush_dynamic_nameservers_for(link) ==
  LET goes(s) == s.dynamic /\ (link = "none" \/ s.owner = link)
  IN /\ \E n \in DOMAIN ndb.ns : goes(ndb.ns[n])
     /\ Edit([ndb EXCEPT !.ns = SelectSeq(@, LAMBDA s : ~goes(s))], 1)

\* SetDefaultDomainName and the domain of a lease; nothing is flushed.
ng_set_default_domain(d) == Edit([ndb EXCEPT !.doms = <<d>>], 0)

\* ARexx ADD: one entry of the database, by its keyword.
addnameservent(db, a) == [db EXCEPT !.ns = Append(@, ServerNode(a, FALSE, "none"))]
adddomainent(db, d) == [db EXCEPT !.doms = Append(@, d)]
addnetent(db) == [db EXCEPT !.nets = @ + 1]
addndbent(db) == {addnameservent(db, a) : a \in Servers}
                 \cup {adddomainent(db, d) : d \in Searches} \cup {addnetent(db)}
do_netdb == \E db \in addndbent(ndb) : Edit(db, 1)

\* ARexx RESET: everything is freed and read again, what interfaces supplied
\* included; the generation tells the iterators.
reset_netdb == Edit(read_roadshow_dbs(read_netdb(ndb.gen + 1)), 1)

ng_dnscache_flush ==
  /\ owed > 0 /\ owed' = owed - 1
  /\ cache' = [n \in 1..Slots |-> NoEntry]
  /\ UNCHANGED <<ndb, clock, look, walk, edits>>

-----------------------------------------------------------------------------
(* setnetent, getnetent, endnetent; the protocol and service iterators are *)
(* the same.  A walk points at node `at` of the list of generation `mem`.*)

ListEnd == FileNets + MaxEdits + 1
AtNode(n) == [at |-> IF n > ndb.nets THEN ListEnd ELSE n, mem |-> ndb.gen, stamp |-> ndb.gen]

setent(c) ==
  /\ walk' = [walk EXCEPT ![c] = AtNode(1)]
  /\ UNCHANGED <<ndb, cache, owed, clock, look, edits>>

endent(c) ==
  /\ walk[c].at # 0 /\ walk' = [walk EXCEPT ![c].at = 0]
  /\ UNCHANGED <<ndb, cache, owed, clock, look, edits>>

getent(c) ==
  LET from == IF walk[c].at = 0 \/ walk[c].stamp # ndb.gen THEN AtNode(1) ELSE walk[c]
  IN /\ from.at # ListEnd
     /\ walk' = [walk EXCEPT ![c] = [AtNode(from.at + 1) EXCEPT !.mem = from.mem]]
     /\ UNCHANGED <<ndb, cache, owed, clock, look, edits>>

-----------------------------------------------------------------------------
(* The cache.                                                              *)

Expired(e) == clock >= e.exp
Clear(t, q) == [n \in DOMAIN t |-> IF t[n].q = q /\ Expired(t[n]) THEN NoEntry ELSE t[n]]
ent_find(t, q) == {n \in DOMAIN t : t[n].q = q /\ ~Expired(t[n])}

\* The first empty or expired slot, else the one that expires first.
pick_slot(t) ==
  LET spare == {n \in DOMAIN t : t[n] = NoEntry \/ Expired(t[n])}
      first(S) == CHOOSE n \in S : \A m \in S : n <= m
  IN IF spare # {} THEN first(spare)
     ELSE first({n \in DOMAIN t : \A m \in DOMAIN t : t[n].exp <= t[m].exp})

\* ng_dnscache_put and ng_dnscache_put_negative
PutEntry(e) ==
  LET t == Clear(cache, e.q)
      hit == ent_find(t, e.q)
      n == IF hit # {} THEN CHOOSE h \in hit : TRUE ELSE pick_slot(t)
  IN [t EXCEPT ![n] = e]

-----------------------------------------------------------------------------
(* A lookup.                                                               *)

Step(c, l) ==
  /\ look' = [look EXCEPT ![c] = l]
  /\ UNCHANGED <<ndb, owed, clock, walk, edits>>

\* ng_gethostbyname_impl: hosts file first when so configured, then the cache.
gethostbyname(c, q) ==
  /\ look[c].pc = "idle"
  /\ Step(c, IF Usens # 1 /\ (q \in HostFile \/ Usens = 0) THEN Idle
             ELSE [Idle EXCEPT !.pc = "cache", !.q = q])
  /\ UNCHANGED cache

ng_dnscache_get(c) ==
  LET l == look[c]
      hit == ent_find(cache, l.q)
  IN /\ l.pc = "cache"
     /\ cache' = Clear(cache, l.q)
     /\ Step(c, IF hit # {} THEN Idle
                ELSE [l EXCEPT !.pc = "search", !.herr = "HOST_NOT_FOUND",
                        !.stage = CASE Dots[l.q] = "last" -> "plain"
                                    [] Dots[l.q] = "none" -> "own"
                                    [] OTHER -> "domains"])

\* res_search: the queries it makes, one after the other.
Query(l, stage) == [l EXCEPT !.pc = "send", !.stage = stage, !.try = 0, !.k = 0,
                             !.vc = FALSE, !.got = FALSE]
Searched(l) == [l EXCEPT !.pc = "fail", !.herr = IF l.nodata THEN "NO_DATA" ELSE @]

res_search(c) ==
  LET l == look[c]
  IN /\ l.pc = "search"
     /\ UNCHANGED cache
     /\ Step(c,
          CASE l.stage = "own" ->
                 IF ndb.doms = <<>> /\ HostDomain # "none" THEN Query(l, "own")
                 ELSE [l EXCEPT !.stage = "domains"]
            [] l.stage = "domains" ->
                 IF l.i < MaxSearch /\ l.i < Len(ndb.doms)
                 THEN [Query(l, "domains") EXCEPT !.i = l.i + 1]
                 ELSE [l EXCEPT !.stage = "plain"]
            [] l.stage = "plain" ->
                 IF Dots[l.q] = "none" THEN Searched(l) ELSE Query(l, "plain"))

\* res_query: what an answer, or none ("TIMEDOUT", "REFUSED"), means.
HErrno(rc) == CASE rc = "nx" -> "HOST_NOT_FOUND"
                [] rc = "nodata" -> "NO_DATA"
                [] rc \in {"servfail", "TIMEDOUT", "REFUSED"} -> "TRY_AGAIN"
                [] OTHER -> "NO_RECOVERY"

\* What res_search does with a query that found nothing.
Failed(l, rc) ==
  LET m == [l EXCEPT !.herr = HErrno(rc), !.seen = @ \cup {rc}, !.pc = "search",
                     !.try = 0, !.k = 0, !.vc = FALSE, !.got = FALSE, !.rej = 0,
                     !.host = "none"]
  IN CASE l.stage = "own" -> [m EXCEPT !.stage = "domains"]
       [] l.stage = "domains" /\ rc = "REFUSED" -> [m EXCEPT !.pc = "fail"]
       [] l.stage = "domains" /\ rc # "REFUSED" ->
            [m EXCEPT !.nodata = @ \/ rc = "nodata",
                      !.stage = IF rc \in {"nx", "nodata"} THEN @ ELSE "plain"]
       [] l.stage = "plain" -> Searched(m)

-----------------------------------------------------------------------------
(* res_send.                                                               *)

\* The question is sent, in a datagram or over a stream.
Ask(l, a) == [l EXCEPT !.host = a, !.rej = MaxRejects,
                       !.pc = IF l.vc THEN "circuit" ELSE "wait"]

\* The next server: the list is walked again by index under the lock, since
\* it may have changed during the wait.
NextServer(c) ==
  LET l == look[c]
  IN /\ l.pc = "send"
     /\ UNCHANGED cache
     /\ \/ /\ l.k < Len(ndb.ns)
           /\ \/ Step(c, Ask([l EXCEPT !.k = @ + 1], ndb.ns[l.k + 1].addr))
              \/ Step(c, [l EXCEPT !.k = @ + 1])   \* nothing could be sent
        \/ /\ l.k >= Len(ndb.ns)
           /\ IF ~l.vc /\ l.try + 1 < Retry
              THEN Step(c, [l EXCEPT !.try = @ + 1, !.k = 0])
              ELSE \E rc \in {"TIMEDOUT", "REFUSED"} :
                     /\ ~l.vc => (rc = "TIMEDOUT") = l.got
                     /\ Step(c, Failed(l, rc))

\* A datagram, the end of the wait, or an error of the socket.
Replies == [src : Servers, mine : BOOLEAN, rc : {"ok", "nx", "nodata", "servfail", "tc", "bad"}]

\* Mutant: the identifier of a reply is not looked at.
Accept_AnyQuery(l, r) == r.src = l.host

\* The reply is for this query when it comes from the server that was asked
\* and carries its identifier.
Accept(l, r) == r.src = l.host /\ r.mine

Answered(l, r) ==
  CASE r.rc = "tc" -> [l EXCEPT !.pc = "circuit", !.vc = TRUE]
    [] r.rc = "ok" -> [l EXCEPT !.pc = "found", !.ans = {[src |-> r.src, mine |-> r.mine]}]
    [] OTHER -> Failed(l, r.rc)

GetReply(c) ==
  LET l == look[c]
  IN /\ l.pc = "wait" /\ UNCHANGED cache
     /\ \E r \in Replies :
          Step(c, IF Accept(l, r) THEN Answered([l EXCEPT !.got = TRUE], r)
                  ELSE IF l.rej > 1 THEN [l EXCEPT !.rej = @ - 1, !.got = @ \/ r.src = l.host]
                  ELSE [l EXCEPT !.pc = "send", !.got = TRUE])

WaitOver(c) ==
  LET l == look[c]
  IN /\ l.pc = "wait" /\ UNCHANGED cache
     /\ \/ Step(c, [l EXCEPT !.pc = "send", !.got = TRUE])  \* timed out
        \/ Step(c, [l EXCEPT !.pc = "send"])                \* recvfrom failed

\* Mutant: after a failed connection the servers are asked again from the first.
Circuit_FirstServer(c) ==
  /\ look[c].pc = "circuit" /\ UNCHANGED cache
  /\ Step(c, [look[c] EXCEPT !.pc = "send", !.k = 0])

\* The same question over a stream: an answer or a failed connection.
Circuit(c) ==
  LET l == look[c]
  IN /\ l.pc = "circuit" /\ UNCHANGED cache
     /\ \/ Step(c, [l EXCEPT !.pc = "send"])
        \/ \E rc \in {"ok", "nx", "nodata", "servfail", "bad"} :
             Step(c, Answered(l, [src |-> l.host, mine |-> TRUE, rc |-> rc]))

-----------------------------------------------------------------------------
(* The end of a lookup.                                                    *)

\* getanswer finds an address (the answer is kept) or nothing it can use.
LookupFound(c) ==
  LET l == look[c]
  IN /\ l.pc = "found"
     /\ \/ \E ttl \in 1..Ttl :
             cache' = PutEntry([q |-> l.q, val |-> l.ans, neg |-> FALSE, exp |-> clock + ttl])
        \/ UNCHANGED cache
     /\ Step(c, Idle)

LookupFailed(c) ==
  LET l == look[c]
  IN /\ l.pc = "fail"
     /\ cache' = IF l.herr = "HOST_NOT_FOUND" /\ ~(Usens # 2 /\ l.q \in HostFile)
                 THEN PutEntry([q |-> l.q, val |-> l.seen, neg |-> TRUE,
                                exp |-> clock + NegTtl])
                 ELSE cache
     /\ Step(c, Idle)

Second ==
  /\ clock < MaxNow /\ clock' = clock + 1
  /\ UNCHANGED <<ndb, cache, owed, look, walk, edits>>

Lookup(c) == \/ ng_dnscache_get(c) \/ res_search(c) \/ NextServer(c) \/ GetReply(c)
             \/ WaitOver(c) \/ Circuit(c) \/ LookupFound(c) \/ LookupFailed(c)

Edits ==
  \/ \E a \in Servers : \/ AddDomainNameServer(a) \/ RemoveDomainNameServer(a)
                        \/ \E o \in Links : ng_add_owned_nameserver(a, o)
  \/ \E o \in Links \cup {"none"} : ng_flush_dynamic_nameservers_for(o)
  \/ \E d \in Searches : ng_set_default_domain(d)
  \/ do_netdb \/ reset_netdb \/ ng_dnscache_flush

Lookups == Second \/ \E c \in Clients : Lookup(c) \/ \E q \in Hosts : gethostbyname(c, q)
Iterators == \E c \in Clients : setent(c) \/ endent(c) \/ getent(c)

NamesNext == Edits \/ Lookups \/ Iterators

NamesSpec == NamesInit /\ [][NamesNext]_nvars

\* A task runs on until its call returns.
NamesFair == \A c \in Clients : WF_nvars(Lookup(c))

-----------------------------------------------------------------------------
(* Invariant: a question is in the cache at most once, and what is kept    *)
(* for it answers it: it came from the server that was asked and was not a *)
(* reply to another query, whatever stray or late datagrams arrived.  An   *)
(* iterator never reads a node that a RESET has freed.                     *)
NamesSound ==
  /\ \A m, n \in DOMAIN cache :
       m # n /\ cache[m].q # "none" => cache[m].q # cache[n].q
  /\ \A n \in DOMAIN cache : \A a \in cache[n].val : ~cache[n].neg => a.mine
  /\ \A c \in Clients :
       walk[c].at # 0 /\ walk[c].stamp = ndb.gen => walk[c].mem = ndb.gen

(* Liveness: a lookup returns, however many stray datagrams arrive, whoever *)
(* is silent and however the server list is edited meanwhile.              *)
LookupEnds == \A c \in Clients : look[c].pc # "idle" ~> look[c].pc = "idle"

(* Invariant: only a definitive "no such name" is remembered; "a transient *)
(* failure (TRY_AGAIN / timeout) must be retried, not remembered"          *)
(* (ng_gethostbyname_impl), also if it was not the last of the answers.    *)
NegativeIsDefinite ==
  \A n \in DOMAIN cache : cache[n].neg => {"servfail", "TIMEDOUT"} \cap cache[n].val = {}

(* Invariant: "answers obtained through servers that have just been        *)
(* withdrawn must not survive them" (ng_flush_dynamic_nameservers_for).    *)
AnswersFollowServers ==
  owed = 0 => \A n \in DOMAIN cache : ~cache[n].neg =>
                \A a \in cache[n].val : \E k \in DOMAIN ndb.ns : ndb.ns[k].addr = a.src
=============================================================================
