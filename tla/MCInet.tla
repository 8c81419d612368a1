------------------------------- MODULE MCInet -------------------------------
(* Protocols and messages: IP input, output, options and ICMP, control     *)
(* blocks of UDP and raw sockets, selective acknowledgement, socket        *)
(* events, what travels encoded, the log task and host names.  The         *)
(* components share no variable, so every behaviour runs one of them,      *)
(* chosen at the start, and leaves the others in their initial state.  UDP *)
(* and raw sockets take turns too (raw_input reads none of UDP's blocks),  *)
(* and so do lookups and the iterators of the network database.  Two UDP   *)
(* sockets see datagrams come; three compete for the ephemeral ports, of   *)
(* which there are two, and one of them connects.                          *)
EXTENDS Ip, Pcb, Sack, Events, Codec, LogTask, Names

VARIABLE focus

\* Ip: what arrives, what the host's own sockets send, and their options
Rr(len) == <<Opt("rr", len, 4, "any"), Opt("eol", 8 - len, 0, "any")>>
OptLists ==
  {<<>>, Rr(7), <<Opt("lsrr", 7, 4, "far"), Opt("eol", 1, 0, "any")>>,
   <<Opt("ssrr", 7, 8, "far"), Opt("nop", 1, 0, "any")>>,
   <<Opt("ts", 8, 5, "tsonly")>>, <<Opt("ts", 8, 5, "tsandaddr")>>, <<Opt("ts", 8, 2, "tsonly")>>,
   <<Opt("rr", 6, 4, "any"), Opt("eol", 2, 0, "any")>>}
IpIn ==
  {Packet(s, d, "udp", t, 0, 120, <<>>, ttl) : s \in {"near", "far"},
       d \in {"me", "far", "subnet", "nowhere"}, t \in {"open", "closed"}, ttl \in {1, 3}}
  \cup {Packet("near", d, "icmp", t, 0, 60, o, 3) :
       d \in {"me", "far"}, t \in {"echo", "unreach"}, o \in OptLists}
  \cup {[Packet("near", "far", "icmp", t, 0, n, <<>>, 3) EXCEPT !.df = TRUE] :
       t \in {"echo", "unreach"}, n \in {60, 120}}
  \cup {[Packet("near", "far", "udp", "closed", 8, 120, <<>>, 3) EXCEPT !.first = FALSE, !.mf = TRUE],
        [Packet("near", "subnet", "icmp", "echo", 0, 16, <<>>, 3) EXCEPT !.bcast = TRUE]}
LocalOut == {Packet(s, d, "udp", "open", 0, n, <<>>, 255) :
       s \in {"any", "me"}, d \in {"me", "near", "limited", "nowhere"}, n \in {16, 200}}
SockOptLists == {<<>>, Rr(7), <<Opt("lsrr", 11, 4, "near"), Opt("nop", 1, 0, "any")>>,
                 <<Opt("rr", 6, 4, "any")>>}

\* Pcb
ReuseDef == [s \in Socks |-> {}]
Competing == \A s \in Socks : /\ upcb'[s].lport \notin Ports
                               /\ s # "c" => upcb'[s].faddr = 0

\* Events
EvMaskSet == {{}, {"READ", "ERROR"}, {"WRITE", "CLOSE", "OOB", "CONNECT"}}

\* Codec: labels of a name, records of an answer, entries of the netdb
LabelList == {<<97>>, <<97, 46>>, <<98, 99>>}
Rec(nm, type, class, size, ttl, ptr, cut) ==
  [nm |-> nm, type |-> type, class |-> class, size |-> size, ttl |-> ttl, ptr |-> ptr, cut |-> cut]
AnswerSet ==
  {Rec(2, "CNAME", "in", 2, 5, 0, "no"), Rec(2, "A", "in", 2, 3, 0, "no"), Rec(3, "A", "ch", 2, 3, 0, "no"),
   Rec(2, "A", "in", 1, 1, 0, "data"), Rec(0, "A", "in", 2, 1, 0, "head"), Rec(1, "PTR", "in", 2, 4, 3, "no")}
Ent(n, as, k, p) == [name |-> n, aliases |-> as, num |-> k, proto |-> p]
EntryDefs ==
  [hosts |-> <<Ent(<<"h", 0>>, {<<"g", 0>>}, 1, ""), Ent(<<"g", 1>>, {}, 2, ""), Ent(<<"k", 1>>, {}, 2, "")>>,
   nets |-> <<Ent(<<"n", 0>>, {}, 1, ""), Ent(<<"m", 1>>, {<<"n", 1>>}, 1, "")>>,
   protos |-> <<Ent(<<"tcp", 0>>, {<<"TCP", 0>>}, 6, "")>>,
   servs |-> <<Ent(<<"echo", 0>>, {}, 7, "udp"), Ent(<<"echo", 0>>, {}, 7, "tcp"),
               Ent(<<"disc", 0>>, {}, 9, "tcp"), Ent(<<"sink", 0>>, {}, 9, "tcp")>>]

\* Names: a name without a dot and one with, and a database file with one server
DotsDef == [q \in Hosts |-> IF q = "www" THEN "none" ELSE "inner"]
FileNs == <<[addr |-> "s1", dynamic |-> FALSE, owner |-> "none"]>>
FileSearch == <<"d1">>

InetInit ==
  /\ focus \in {"ip", "udp", "ports", "raw", "sack", "events", "codec", "log", "names", "netdb"}
  /\ IpInit /\ PcbInit /\ SackInit /\ LogInit /\ NamesInit
  /\ EventsInit /\ (focus # "events" => so["c1"].mask = {})
  /\ IF focus = "codec" THEN CodecInit
     ELSE ran = FALSE /\ out = <<>> /\ job = [kind |-> "hostname", len |-> 0, room |-> 0]

InetNext ==
  /\ UNCHANGED focus
  /\ \/ focus = "ip" /\ IpNext /\ UNCHANGED <<pvars, kvars, evvars, cvars, lvars, nvars>>
     \/ focus = "ports" /\ Requests /\ Competing /\ UNCHANGED <<ipvars, kvars, evvars, cvars, lvars, nvars>>
     \/ focus = "udp" /\ PcbNext /\ "c" \notin Range(udb') /\ UNCHANGED <<rawvars, ipvars, kvars, evvars, cvars, lvars, nvars>>
     \/ focus = "raw" /\ PcbNext /\ UNCHANGED <<udb, ipvars, kvars, evvars, cvars, lvars, nvars>>
     \/ focus = "sack" /\ SackNext /\ UNCHANGED <<ipvars, pvars, evvars, cvars, lvars, nvars>>
     \/ focus = "events" /\ EventsNext /\ UNCHANGED <<ipvars, pvars, kvars, cvars, lvars, nvars>>
     \/ focus = "codec" /\ CodecNext /\ UNCHANGED <<ipvars, pvars, kvars, evvars, lvars, nvars>>
     \/ focus = "log" /\ LogNext /\ UNCHANGED <<ipvars, pvars, kvars, evvars, cvars, nvars>>
     \/ focus = "names" /\ NamesNext /\ UNCHANGED <<walk, ipvars, pvars, kvars, evvars, cvars, lvars>>
     \/ focus = "netdb" /\ NamesNext /\ UNCHANGED <<look, ipvars, pvars, kvars, evvars, cvars, lvars>>
=============================================================================
