-------------------------------- MODULE Codec --------------------------------
(***************************************************************************)
(* The pure algorithms of the stack: domain names in DNS messages          *)
(* (api/res_comp.c, api/res_mkquery.c), the parse of an answer into a      *)
(* hostent and its copies (api/gethostnamadr.c, the _r calls), the         *)
(* Internet checksum over an mbuf chain (netinet/in_cksum.c), access       *)
(* rules (kern/accesscontrol.c, kern/amiga_netdb.c), Internet addresses in *)
(* text (api/amiga_libcalls.c), services (api/getxbyy.c, getaddrinfo,      *)
(* getnameinfo) and socket options (kern/uipc_socket.c).                   *)
(*                                                                         *)
(* A behaviour takes one job and runs it; `out' is what the code returned. *)
(* Offsets count from 0.  An address is four octets below Oct.             *)
(***************************************************************************)
EXTENDS Integers, Sequences, FiniteSets, SequencesExt, FiniteSetsExt

CONSTANTS
  WireBytes, MaxWire,      \* bytes of a received message, and its length at most
  Room,                    \* size of dn_expand's output
  LabelSets, MaxLabels,    \* labels of a name to send, and their number at most
  Answers, MaxAnswers,     \* records of a reply, and their number at most
  MaxAliases, MaxAddrs, HostBuf, AddrLen, NoTtl,
  ReplyRooms,              \* caller's buffers of gethostbyname_r
  SumBytes, SumLens,       \* bytes and lengths of an mbuf under a checksum
  MaxRules,                \* length of the access table
  Oct,                     \* the octets are 0..Oct-1 (256 in the code)
  Entries                  \* the network database: sequences of [name, aliases, num, proto]

ASSUME CodecAssumption ==
  /\ Oct \in Nat /\ Oct >= 4 /\ Oct % 4 = 0 /\ AddrLen \in Nat /\ HostBuf \in Nat
  /\ 0 \notin ReplyRooms /\ MaxWire < 192

VARIABLES job, out, ran

cvars == <<job, out, ran>>

Dot == 46
Esc == 92
Junk == 1     \* what lies behind a message

-----------------------------------------------------------------------------
(* dn_expand: the name at offset start of msg into room bytes. *)

Byte(msg, i) == IF i < Len(msg) THEN msg[i + 1] ELSE Junk

\* The n bytes of a label behind what is in dn; a dot inside a label is escaped.
Label(msg, cp, n, dn, room) ==
  LET Put[k \in 0..n] ==
        IF k = 0 THEN [ok |-> Len(dn) + n < room, dn |-> dn]
        ELSE LET p == Put[k - 1]
                 c == Byte(msg, cp + k - 1)
             IN IF ~p.ok \/ cp + k - 1 >= Len(msg) \/ (c = Dot /\ Len(p.dn) + (n - k) + 2 >= room)
                THEN [p EXCEPT !.ok = FALSE]
                ELSE [p EXCEPT !.dn = IF c = Dot THEN @ \o <<Esc, Dot>> ELSE Append(@, c)]
  IN Put[n]

\* len is -1 for a name that does not fit or is malformed; over: a byte behind the message was used.
dn_expand(msg, start, room) ==
  LET eom == Len(msg)
      Fail(s) == [len |-> -1, name |-> s.dn, over |-> s.over]
      Walk[s \in [cp : Nat, dn : Seq(Nat), checked : Nat, len : Int, over : BOOLEAN]] ==
        LET n == Byte(msg, s.cp)
            o == s.over \/ s.cp >= eom
            sep == IF s.dn = <<>> THEN s.dn ELSE Append(s.dn, Dot)
            lab == Label(msg, s.cp + 1, n, sep, room)
            to == (n - 192) * 256 + Byte(msg, s.cp + 1)
        IN IF s.cp >= eom THEN Fail(s)
           ELSE IF n = 0 THEN
             IF Len(s.dn) >= room THEN Fail(s)
             ELSE [len |-> IF s.len < 0 THEN s.cp + 1 - start ELSE s.len, name |-> s.dn, over |-> o]
           ELSE IF n < 64 THEN
             IF (s.dn # <<>> /\ Len(s.dn) >= room) \/ ~lab.ok THEN Fail([s EXCEPT !.dn = lab.dn, !.over = o])
             ELSE Walk[[s EXCEPT !.cp = @ + 1 + n, !.dn = lab.dn, !.checked = @ + n + 1, !.over = o]]
           ELSE IF n >= 192 THEN
             IF s.cp + 1 >= eom \/ to >= eom \/ s.checked + 2 >= eom THEN Fail(s)
             ELSE Walk[[s EXCEPT !.cp = to, !.checked = @ + 2, !.over = o,
                                 !.len = IF @ < 0 THEN s.cp + 2 - start ELSE @]]
           ELSE Fail(s)
  IN Walk[[cp |-> start, dn |-> <<>>, checked |-> 0, len |-> -1, over |-> FALSE]]

\* The length of the name at start; labels are skipped without a look at the end.
dn_skipname(msg, start) ==
  LET Skip[cp \in Nat] ==
        IF cp >= Len(msg) THEN cp - start
        ELSE LET n == msg[cp + 1]
             IN IF n = 0 THEN cp + 1 - start
                ELSE IF n < 64 THEN Skip[cp + 1 + n]
                ELSE IF n >= 192 THEN cp + 2 - start ELSE -1
  IN Skip[start]

\* dn_comp and res_mkquery: the name as labels, in at most room bytes.  No earlier name is
\* recorded when a query is made, so nothing is compressed.
dn_comp(name, room) ==
  LET Step(s, c) ==   \* s: the bytes so far, the label under way, an escape or an empty label seen
        IF s.bad \/ s.empty THEN [s EXCEPT !.bad = TRUE]
        ELSE IF c = Dot /\ ~s.esc
          THEN IF s.lab = <<>> THEN [s EXCEPT !.empty = TRUE]
               ELSE [s EXCEPT !.done = @ \o <<Len(s.lab)>> \o s.lab, !.lab = <<>>]
        ELSE IF c = Esc /\ ~s.esc THEN [s EXCEPT !.esc = TRUE]
        ELSE [s EXCEPT !.lab = Append(@, c), !.esc = FALSE, !.bad = Len(s.done) + 1 + Len(s.lab) >= room]
      e == FoldLeft(Step, [done |-> <<>>, lab |-> <<>>, esc |-> FALSE, empty |-> FALSE, bad |-> FALSE], name)
      all == IF e.lab = <<>> THEN e.done ELSE e.done \o <<Len(e.lab)>> \o e.lab
  IN IF e.bad \/ Len(all) >= room THEN [len |-> -1, bytes |-> <<>>]
     ELSE [len |-> Len(all) + 1, bytes |-> Append(all, 0)]

HeaderLen == 2
QFixed == 2

\* The question section behind the header (data below 0 is the header itself).
res_mkquery(name, buflen) ==
  LET room == buflen - HeaderLen - QFixed
      q == dn_comp(name, room)
  IN IF buflen < HeaderLen \/ room < 0 \/ q.len < 0 THEN [len |-> -1, msg |-> <<>>]
     ELSE [len |-> HeaderLen + q.len + QFixed, msg |-> <<0, 0>> \o q.bytes \o <<1, 1>>]

-----------------------------------------------------------------------------
(* getanswer: the records of a reply into a hostent whose strings and addresses lie in
   hostbuf.  A record is [nm, type, class, size, ttl, ptr, cut]: the length of its name with
   the end mark (0: it does not parse), the length of the data, for a PTR the length of the
   name it gives, and what of it lies past the end of the message. *)

NoHost == [bp |-> 0, buflen |-> HostBuf, aliases |-> <<>>, addrs |-> <<>>, name |-> <<>>,
           have |-> FALSE, class |-> "any", ttl |-> NoTtl, stop |-> FALSE, hi |-> 0]

\* n bytes at bp that stay: <<offset, length>>.
Kept(a, n) == [a EXCEPT !.bp = @ + n, !.buflen = @ - n]

Record(iquery, a0, r) ==
  LET a == [a0 EXCEPT !.hi = Max({@, a0.bp + r.nm}), !.ttl = Min({@, r.ttl})]
      stop == [a EXCEPT !.stop = TRUE]
      here(n) == <<a.bp, n>>
      \* the first address also keeps the name of its record
      named == IF a.have \/ iquery THEN a ELSE [Kept(a, r.nm) EXCEPT !.name = here(r.nm), !.class = r.class]
  IN IF a0.stop THEN a0
     ELSE IF a0.buflen <= 0 \/ r.nm = 0 \/ r.nm > a0.buflen THEN [a0 EXCEPT !.stop = TRUE]
     ELSE IF r.cut = "head" THEN [a0 EXCEPT !.stop = TRUE, !.hi = a.hi]
     ELSE IF r.cut = "data" THEN stop
     ELSE IF r.type = "CNAME"
       THEN IF Len(a.aliases) + 1 >= MaxAliases THEN a
            ELSE [Kept(a, r.nm) EXCEPT !.aliases = Append(@, here(r.nm))]
     ELSE IF iquery /\ r.type = "PTR"
       THEN IF r.ptr = 0 \/ r.ptr > a.buflen THEN stop
            ELSE [stop EXCEPT !.name = here(r.ptr), !.have = TRUE, !.bp = @ + r.ptr, !.hi = Max({@, a.bp + r.ptr})]
     ELSE IF iquery \/ r.type # "A" \/ r.size # AddrLen \/ (a.have /\ r.class # a.class) THEN a
     ELSE IF AddrLen >= named.buflen THEN [named EXCEPT !.stop = TRUE]
     ELSE IF Len(named.addrs) + 1 >= MaxAddrs THEN named
     ELSE [Kept(named, AddrLen) EXCEPT !.addrs = Append(@, <<named.bp, AddrLen>>), !.have = TRUE,
                                       !.hi = Max({@, named.bp + AddrLen})]

\* A reply to an address query has to repeat the question.
getanswer(records, iquery, qdcount) ==
  IF iquery /\ qdcount = 0 THEN NoHost
  ELSE FoldLeft(LAMBDA a, r : Record(iquery, a, r), NoHost, records)

\* gethostbyaddr adds the address that was asked for behind the name.
ng_gethostbyaddr_impl(records, qdcount) ==
  LET a == getanswer(records, TRUE, qdcount)
  IN IF ~a.have THEN a
     ELSE [Kept(a, AddrLen) EXCEPT !.addrs = <<<<a.bp, AddrLen>>>>, !.hi = Max({@, a.bp + AddrLen})]

ng_hostent_from_response(records, qdcount) == getanswer(records, FALSE, qdcount)

Align(n) == ((n + 3) \div 4) * 4
Pointer == 4

\* The hostent in the caller's buffer: hostbuf, then the two lists, each with its end mark.
makehostent(a) ==
  [size |-> Align(a.bp) + (Len(a.aliases) + 1) * Pointer + (Len(a.addrs) + 1) * Pointer,
   aliases |-> Align(a.bp), addrs |-> Align(a.bp) + (Len(a.aliases) + 1) * Pointer]

\* gethostbyname_r and gethostbyaddr_r: lists first, then the strings, then the addresses.
\* at is the place of the buffer modulo 4; <<>> when it does not all fit.
ng_serialize_hostent(a, at, room) ==
  LET l1 == Align(at)
      l2 == l1 + (Len(a.aliases) + 1) * Pointer
      s0 == l2 + (Len(a.addrs) + 1) * Pointer
      texts == <<a.name>> \o a.aliases
      TextAt[i \in 1..Len(texts) + 1] == IF i = 1 THEN s0 ELSE TextAt[i - 1] + texts[i - 1][2]
      AddrAt(i) == Align(TextAt[Len(texts) + 1]) + (i - 1) * AddrLen
      end == IF a.addrs = <<>> THEN TextAt[Len(texts) + 1] ELSE AddrAt(Len(a.addrs)) + AddrLen
  IN IF end > at + room THEN <<>>
     ELSE <<<<l1, l2 - l1>>, <<l2, s0 - l2>>>> \o [i \in DOMAIN texts |-> <<TextAt[i], texts[i][2]>>]
            \o [i \in DOMAIN a.addrs |-> <<AddrAt(i), AddrLen>>]

-----------------------------------------------------------------------------
(* in_cksum: 16-bit words over a chain of mbufs [odd, data], data starting at an odd address
   or not.  Words that straddle two mbufs are kept in parts; a buffer at an odd address is
   summed one byte off and the sum turned round. *)

Reduce(sum) == LET s == (sum \div 65536) + (sum % 65536) IN IF s > 65535 THEN s - 65535 ELSE s

\* Mutant: an odd byte left by one mbuf is not paired with the next mbuf's first.
SumMbuf_NoPairing(c, m) ==
  LET d == SubSeq(m.data, 1, Min({c.len, Len(m.data)}))
  IN IF m.data = <<>> \/ c.len = 0 THEN c
     ELSE [sum |-> c.sum + MapThenSumSet(LAMBDA i : d[i] * (IF i % 2 = 1 THEN 256 ELSE 1), 1..Len(d)),
           len |-> c.len - Len(d), half |-> FALSE, first |-> 0]

\* c: [sum, len, half, first]: half = TRUE when the first byte of a word is waiting.
SumMbuf(c, m) ==
  LET d0 == SubSeq(m.data, 1, Min({c.len, Len(m.data)}))
      joined == c.half /\ d0 # <<>>
      sum1 == IF joined THEN c.sum + c.first * 256 + Head(d0) ELSE c.sum
      d1 == IF joined THEN Tail(d0) ELSE d0
      swapped == (m.odd # joined) /\ d1 # <<>>
      sum2 == IF swapped THEN Reduce(sum1) * 256 ELSE sum1
      d2 == IF swapped THEN Tail(d1) ELSE d1
      sum3 == sum2 + MapThenSumSet(LAMBDA i : d2[2 * i - 1] * 256 + d2[2 * i], 1..(Len(d2) \div 2))
      tail == Len(d2) % 2 = 1
      left == c.len - Len(d0)
  IN IF m.data = <<>> \/ c.len = 0 THEN c
     ELSE IF swapped
       THEN IF tail THEN [sum |-> Reduce(sum3) * 256 + Head(d1) * 256 + Last(d2), len |-> left, half |-> FALSE, first |-> 0]
            ELSE [sum |-> Reduce(sum3) * 256, len |-> left, half |-> TRUE, first |-> Head(d1)]
       ELSE [sum |-> sum3, len |-> left, half |-> tail, first |-> IF tail THEN Last(d2) ELSE 0]

in_cksum(chain, len) ==
  LET c == FoldLeft(SumMbuf, [sum |-> 0, len |-> len, half |-> FALSE, first |-> 0], chain)
  IN 65535 - Reduce(c.sum + (IF c.half THEN c.first * 256 ELSE 0))

-----------------------------------------------------------------------------
(* Internet addresses in text.  A text is the sequence of its numbers; they are read modulo
   2^32, which is Oct^4 here. *)

inet_aton(parts) ==
  LET n == Len(parts)
      v(i) == parts[i] % (Oct^4)
      fits == n \in 1..4 /\ (\A i \in 1..(n - 1) : v(i) < Oct) /\ v(n) < Oct^(5 - n)
  IN IF fits THEN [ok |-> TRUE, addr |-> v(n) + MapThenSumSet(LAMBDA i : v(i) * Oct^(4 - i), 1..(n - 1))]
     ELSE [ok |-> FALSE, addr |-> 0]

Octet(a, i) == (a \div Oct^(3 - i)) % Oct

ntop4(a) == [i \in 1..4 |-> Octet(a, i - 1)]

inet_network(parts) ==
  FoldLeft(LAMBDA val, p : (val * Oct + (p % Oct)) % (Oct^4), 0, parts)

\* Class A, B or C by the first bits; everything above B is taken as C.
NetBits(a) == IF a < Oct^4 \div 2 THEN 1 ELSE IF a < 3 * (Oct^4 \div 4) THEN 2 ELSE 3

Inet_LnaOf(a) == a % (Oct^(4 - NetBits(a)))
Inet_NetOf(a) == a \div (Oct^(4 - NetBits(a)))
Inet_MakeAddr(net, host) ==
  LET bits == IF net < Oct \div 2 THEN 1 ELSE IF net < Oct^2 THEN 2 ELSE 3
  IN net * Oct^(4 - bits) + (host % (Oct^(4 - bits)))

-----------------------------------------------------------------------------
(* Access rules: a pattern is a sequence of numbers and stars (-1).  A star clears its octet of
   the mask, a last one also the octets behind it. *)

addaccessent(r) ==
  LET n == Len(r.pat)
      stars == {i \in 1..n : r.pat[i] = -1}
      clear == stars \cup (IF n \in stars THEN n..4 ELSE {})
      host == inet_aton([i \in 1..n |-> IF i \in stars THEN 0 ELSE r.pat[i]])
  IN [ok |-> host.ok, host |-> host.addr, mask |-> (1..4) \ clear, port |-> r.port, priv |-> r.priv, allow |-> r.allow]

\* What is refused or finds the table full is left out.
AccessTable(rules) ==
  LET ok == SelectSeq([i \in DOMAIN rules |-> addaccessent(rules[i])], LAMBDA e : e.ok)
  IN SubSeq(ok, 1, Min({MaxRules, Len(ok)}))

Privileged(port) == port < 1024

controlaccess(table, host, port) ==
  LET Matches(e) == /\ \/ e.port = 0 /\ (e.priv => Privileged(port))
                       \/ e.port = port
                    /\ \A i \in e.mask : Octet(host, i - 1) = Octet(e.host, i - 1)
      hits == {i \in DOMAIN table : Matches(table[i])}
  IN hits = {} \/ table[Min(hits)].allow

-----------------------------------------------------------------------------
(* The network database: hosts, networks, services and protocols.  A name is <<word, case>>. *)

First(db, P(_)) == LET hits == {i \in DOMAIN db : P(db[i])} IN IF hits = {} THEN 0 ELSE Min(hits)
matchAlias(e, nm) == nm \in e.aliases
Named(e, nm) == e.name = nm \/ matchAlias(e, nm)

gethtbyname(nm) == First(Entries.hosts, LAMBDA e : e.name[1] = nm[1] \/ matchAlias(e, nm))
gethtbyaddr(a) == First(Entries.hosts, LAMBDA e : e.num = a)
getnetbyname(nm) == First(Entries.nets, LAMBDA e : Named(e, nm))
getnetbyaddr(a) == First(Entries.nets, LAMBDA e : e.num = a)
getprotobyname(nm) == First(Entries.protos, LAMBDA e : Named(e, nm))
getprotobynumber(k) == First(Entries.protos, LAMBDA e : e.num = k)
findServentNode(nm, proto) == First(Entries.servs, LAMBDA e : Named(e, nm) /\ proto \in {"any", e.proto})
getservbyport(port, proto) == First(Entries.servs, LAMBDA e : e.num = port /\ proto \in {"any", e.proto})

\* getaddrinfo: a port for a socket type, -1 when there is none.
Proto(st) == IF st = "dgram" THEN "udp" ELSE "tcp"
ng_resolve_serv(serv, st, flags) ==
  CASE serv.is = "none" -> 0
    [] serv.is = "digits" -> IF serv.port > 65535 THEN -1 ELSE serv.port
    [] OTHER -> LET i == findServentNode(serv.name, Proto(st))
                IN IF "NUMERICSERV" \in flags \/ i = 0 THEN -1 ELSE Entries.servs[i].num

ng_make_ai(st, addr, port, canon) == [st |-> st, addr |-> addr, port |-> port, canon |-> canon]

\* q: [host, serv, flags, family, st, addrs, mem]; the mem-th allocation fails (0: none does).
\* live counts the nodes that are allocated when the call returns.
getaddrinfo(q) ==
  LET Err(rc) == [rc |-> rc, list |-> <<>>, live |-> 0]
      types == CASE q.st = "any" -> <<"stream", "dgram">> [] q.st \in {"stream", "dgram"} -> <<q.st>> [] OTHER -> <<>>
      addrs == CASE q.host = "none" -> <<IF "PASSIVE" \in q.flags THEN "any" ELSE "loopback">>
                 [] q.host = "numeric" -> <<"given">>
                 [] OTHER -> q.addrs
      canon == "CANONNAME" \in q.flags /\ q.host # "none"
      OfType(st) == LET port == ng_resolve_serv(q.serv, st, q.flags)
                    IN IF port = -1 THEN <<>> ELSE [i \in DOMAIN addrs |-> ng_make_ai(st, addrs[i], port, FALSE)]
      all == FlattenSeq([i \in DOMAIN types |-> OfType(types[i])])
  IN CASE q.host = "none" /\ q.serv.is = "none" -> Err("NONAME")
       [] q.family \notin {"unspec", "inet"} -> Err("FAMILY")
       [] types = <<>> -> Err("SOCKTYPE")
       [] q.host \in {"name", "unknown"} /\ "NUMERICHOST" \in q.flags -> Err("NONAME")
       [] q.host = "unknown" -> Err("NONAME")
       [] q.mem \in 1..Len(all) -> Err("MEMORY")
       [] all = <<>> -> Err("SERVICE")
       [] OTHER -> [rc |-> "ok", list |-> [i \in DOMAIN all |-> [all[i] EXCEPT !.canon = canon /\ i = 1]], live |-> Len(all)]

ng_freeaddrinfo(r) == [r EXCEPT !.list = <<>>, !.live = @ - Len(r.list)]

\* getnameinfo: the host in a buffer of `room' characters, and the service by name or number.
ng_strlcpy(n, room) == IF room = 0 THEN -1 ELSE Min({n, room - 1})
ng_servname(port, proto) == getservbyport(port, proto)
getnameinfo(q) ==
  LET proto == IF "DGRAM" \in q.flags THEN "udp" ELSE "tcp"
      i == ng_servname(q.port, proto)
      numeric == "NUMERICHOST" \in q.flags \/ ~q.known
  IN IF ~q.inet THEN [rc |-> "FAMILY", host |-> "none", put |-> -1, serv |-> 0]
     ELSE IF q.room > 0 /\ numeric /\ "NUMERICHOST" \notin q.flags /\ "NAMEREQD" \in q.flags
       THEN [rc |-> "NONAME", host |-> "none", put |-> -1, serv |-> 0]
     ELSE [rc |-> "ok", host |-> IF q.room = 0 THEN "none" ELSE IF numeric THEN "numeric" ELSE "name",
           put |-> ng_strlcpy(q.len, q.room), serv |-> IF "NUMERICSERV" \in q.flags THEN 0 ELSE i]

\* sethostname and gethostname: how much of the name lands in the caller's buffer.
MaxHostName == 3
sethostname(n) == Min({n, MaxHostName})
gethostname(have, room) == IF room <= 0 THEN -1 ELSE IF room > have THEN have ELSE room - 1

-----------------------------------------------------------------------------
(* The jobs. *)

Upto(S, n) == UNION {[1..k -> S] : k \in 0..n}
Text(labels) ==   \* dots inside a label are escaped
  LET Esc1(l) == FoldLeft(LAMBDA s, c : IF c = Dot THEN s \o <<Esc, Dot>> ELSE Append(s, c), <<>>, l)
  IN FoldLeft(LAMBDA s, l : IF s = <<>> THEN Esc1(l) ELSE s \o <<Dot>> \o Esc1(l), <<>>, labels)
Mbufs == [odd : BOOLEAN, data : UNION {[1..k -> SumBytes] : k \in SumLens}]
Numbers == {0, 1, Oct - 1, Oct, Oct^2, Oct^4 + 1}
Patterns == UNION {[1..k -> {-1, 1, Oct}] : k \in 1..4}
Rules == [pat : Patterns, port : {0, 7}, priv : {FALSE}, allow : BOOLEAN] \cup [pat : {<<-1>>}, port : {0}, priv : {TRUE}, allow : {FALSE}]
Servs == {[is |-> "none", port |-> 0, name |-> <<"x", 0>>], [is |-> "digits", port |-> 7, name |-> <<"x", 0>>],
          [is |-> "digits", port |-> 65536, name |-> <<"x", 0>>]}
         \cup {[is |-> "name", port |-> 0, name |-> n] : n \in {Entries.servs[i].name : i \in DOMAIN Entries.servs} \cup {<<"x", 0>>}}

CodecInit ==
  /\ ran = FALSE /\ out = <<>>
  /\ \/ \E m \in Upto(WireBytes, MaxWire), s \in 0..1 : job = [kind |-> "expand", msg |-> m, start |-> s]
     \/ \E ls \in Upto(LabelSets, MaxLabels), r \in 2..12 : job = [kind |-> "query", labels |-> ls, room |-> r]
     \/ \E rs \in Upto(Answers, MaxAnswers), q \in 0..1, i \in BOOLEAN, at \in {0, 1}, r \in ReplyRooms :
          job = [kind |-> "answer", recs |-> rs, qdcount |-> q, iquery |-> i, at |-> at, room |-> r]
     \/ \E ch \in Upto(Mbufs, 3), cut \in 0..1 : job = [kind |-> "cksum", chain |-> ch, cut |-> cut]
     \/ \E a \in 0..(Oct^4 - 1) : job = [kind |-> "addr", addr |-> a]
     \/ \E ps \in Upto(Numbers, 4) \ {<<>>} : job = [kind |-> "text", parts |-> ps]
     \/ \E r \in Rules, r2 \in [pat : {<<-1>>, <<1, -1>>}, port : {0}, priv : {FALSE}, allow : {FALSE}],
           a \in {Oct^3, Oct^3 + 1, Oct^3 + Oct^2, 1, 0}, p \in {7, 2000} :
          job = [kind |-> "access", rules |-> <<r, r2>>, host |-> a, port |-> p]
     \/ \E h \in {"none", "numeric", "name", "unknown"}, s \in Servs,
           f \in SUBSET {"PASSIVE", "NUMERICHOST", "NUMERICSERV", "CANONNAME"}, fam \in {"unspec", "inet", "inet6"},
           st \in {"any", "stream", "dgram", "raw"}, n \in 1..2, mem \in 0..2 :
          job = [kind |-> "gai", host |-> h, serv |-> s, flags |-> f, family |-> fam, st |-> st,
                 addrs |-> [i \in 1..n |-> "given"], mem |-> mem]
     \/ \E n \in 0..5, r \in 0..5 : job = [kind |-> "hostname", len |-> n, room |-> r]
     \/ \E k \in {"hosts", "nets", "protos"}, c \in 0..1 : \E i \in DOMAIN Entries[k] :
          job = [kind |-> "db", of |-> k, name |-> <<Entries[k][i].name[1], c>>]

Runs(kind, result) == ~ran /\ job.kind = kind /\ out' = result /\ ran' = TRUE /\ UNCHANGED job

Expand == Runs("expand", dn_expand(job.msg, job.start, Room))

AskQuery ==
  Runs("query", LET q == res_mkquery(Text(job.labels), job.room)
                IN [q |-> q, back |-> dn_expand(q.msg, HeaderLen, 12), skip |-> dn_skipname(q.msg, HeaderLen)])

Answer ==
  Runs("answer", LET a == IF job.iquery THEN ng_gethostbyaddr_impl(job.recs, job.qdcount)
                          ELSE ng_hostent_from_response(job.recs, job.qdcount)
                 IN [host |-> a, made |-> makehostent(a),
                     copy |-> IF a.have THEN ng_serialize_hostent(a, job.at, job.room) ELSE <<>>])

Total(chain) == Len(FlattenSeq([i \in DOMAIN chain |-> chain[i].data]))
Checksum == Runs("cksum", in_cksum(job.chain, Max({0, Total(job.chain) - job.cut})))

Address ==
  Runs("addr", [aton |-> inet_aton(ntop4(job.addr)), network |-> inet_network(ntop4(job.addr)),
                made |-> Inet_MakeAddr(Inet_NetOf(job.addr), Inet_LnaOf(job.addr))])

TextAddr == Runs("text", [aton |-> inet_aton(job.parts), network |-> inet_network(job.parts)])

Access == Runs("access", controlaccess(AccessTable(job.rules), job.host, job.port))

\* Each node is handed to getnameinfo and the list is freed.
AddrInfo ==
  Runs("gai", LET r == getaddrinfo(job)
              IN [r |-> r, freed |-> ng_freeaddrinfo(r),
                  back |-> [i \in DOMAIN r.list |->
                     getnameinfo([inet |-> TRUE, room |-> i, known |-> job.host = "name", len |-> 3, port |-> r.list[i].port,
                                  flags |-> IF r.list[i].st = "dgram" THEN {"DGRAM"} ELSE {}])]])

HostName == Runs("hostname", gethostname(sethostname(job.len), job.room))

Database ==
  LET db == Entries[job.of]
      i == CASE job.of = "hosts" -> gethtbyname(job.name) [] job.of = "nets" -> getnetbyname(job.name)
             [] OTHER -> getprotobyname(job.name)
      num == IF i = 0 THEN 0 ELSE db[i].num
  IN Runs("db", [i |-> i, j |-> CASE job.of = "hosts" -> gethtbyaddr(num) [] job.of = "nets" -> getnetbyaddr(num)
                                  [] OTHER -> getprotobynumber(num)])

CodecNext ==
  Expand \/ AskQuery \/ Answer \/ Checksum \/ Address \/ TextAddr \/ Access \/ AddrInfo \/ HostName \/ Database

-----------------------------------------------------------------------------
\* dn_expand never reads behind the message nor writes behind its buffer, and what it says a
\* name takes is what dn_skipname says, inside the message.
WireSafe ==
  ran /\ job.kind = "expand" =>
    /\ ~out.over /\ Len(out.name) <= Room
    /\ out.len >= 0 => /\ Len(out.name) < Room /\ job.start + out.len <= Len(job.msg)
                       /\ out.len = dn_skipname(job.msg, job.start)

\* A query carries the name that was asked for, and is made whenever it fits.
QueryFaithful ==
  ran /\ job.kind = "query" =>
    LET need == HeaderLen + MapThenSumSet(LAMBDA i : Len(job.labels[i]) + 1, DOMAIN job.labels) + 1 + QFixed
    IN IF need > job.room THEN out.q.len = -1
       ELSE /\ out.q.len = need
            /\ Len(Text(job.labels)) < 12 => /\ out.back.name = Text(job.labels)
                                             /\ out.back.len = need - HeaderLen - QFixed /\ out.skip = out.back.len

Disjoint(S) == \A x, y \in S : x = y \/ x[1] + x[2] <= y[1] \/ y[1] + y[2] <= x[1]

\* The strings and addresses of a hostent lie apart from each other inside hostbuf (the address
\* of gethostbyaddr may lie behind it, in the reply), the lists have room for their end marks,
\* its time to live is that of a record, and the copy of the _r calls lies
\* inside the caller's buffer.
AnswerSound ==
  ran /\ job.kind = "answer" /\ out.host.have =>
    LET a == out.host
        used == ToSet(a.aliases) \cup ToSet(a.addrs) \cup {a.name}
    IN /\ Disjoint(used) /\ Cardinality(used) = Len(a.aliases) + Len(a.addrs) + 1
       /\ a.hi <= HostBuf + (IF job.iquery THEN AddrLen ELSE 0) /\ a.name # <<>> /\ a.addrs # <<>>
       /\ Len(a.aliases) < MaxAliases /\ Len(a.addrs) < MaxAddrs
       /\ \E i \in DOMAIN job.recs : job.recs[i].ttl = a.ttl
       /\ out.made.addrs + (Len(a.addrs) + 1) * Pointer = out.made.size
       /\ Disjoint(ToSet(out.copy)) /\ \A x \in ToSet(out.copy) : x[1] >= job.at /\ x[1] + x[2] <= job.at + job.room

\* The checksum is that of the bytes, however they are cut into mbufs and wherever those lie.
CksumRight ==
  ran /\ job.kind = "cksum" =>
    LET all == FlattenSeq([i \in DOMAIN job.chain |-> job.chain[i].data])
        n == Max({0, Len(all) - job.cut})
        sum == MapThenSumSet(LAMBDA i : all[i] * (IF i % 2 = 1 THEN 256 ELSE 1), 1..n)
    IN out = 65535 - (IF sum = 0 THEN 0 ELSE ((sum - 1) % 65535) + 1)

\* An address survives its text and its split into network and host; the two parsers agree on
\* four numbers.
AddressesKept ==
  /\ ran /\ job.kind = "addr" => out.aton = [ok |-> TRUE, addr |-> job.addr] /\ out.network = job.addr /\ out.made = job.addr
  /\ ran /\ job.kind = "text" /\ out.aton.ok /\ Len(job.parts) = 4 => out.network = out.aton.addr

\* The first rule that covers a host and a port decides: a star stands for any octet, a last
\* star for all the octets from there on.
AccessRight ==
  ran /\ job.kind = "access" =>
    LET Good(p) == (Len(p) = 4 \/ Last(p) = -1) /\ \A i \in DOMAIN p : p[i] < Oct
        Covers(r) == /\ Good(r.pat) /\ (r.port = 0 \/ r.port = job.port) /\ (r.priv => Privileged(job.port))
                     /\ \A i \in DOMAIN r.pat : r.pat[i] = -1 \/ Octet(job.host, i - 1) = r.pat[i]
        hits == {i \in DOMAIN job.rules : Covers(job.rules[i])}
    IN (\A i \in DOMAIN job.rules : Good(job.rules[i].pat)) => out = (hits = {} \/ job.rules[Min(hits)].allow)

\* getaddrinfo gives all its nodes to the caller or none, one list per socket type in order, the
\* canonical name on the first; getnameinfo finds a service of the same port for the same protocol.
AddrInfoSound ==
  ran /\ job.kind = "gai" =>
    /\ out.r.live = Len(out.r.list) /\ out.freed.live = 0 /\ (out.r.rc = "ok" <=> out.r.list # <<>>)
    /\ \A i \in DOMAIN out.r.list :
         LET serv == out.back[i].serv
         IN /\ out.r.list[i].canon => i = 1
            /\ job.serv.is = "name" => serv # 0 /\ Entries.servs[serv].num = out.r.list[i].port
                                       /\ Entries.servs[serv].proto = Proto(out.r.list[i].st)
            /\ out.back[i].put < i

\* A host name always fits with its end mark; a name that is found is found again by its number.
DatabaseSound ==
  /\ ran /\ job.kind = "hostname" => out < job.room /\ (job.room > job.len => out = Min({job.len, MaxHostName}))
  /\ ran /\ job.kind = "db" /\ out.i # 0 => out.j # 0 /\ Entries[job.of][out.j].num = Entries[job.of][out.i].num

\* What the stack reads from others and what it makes of it: no reader of a name, an answer or
\* an address passes the end of what it was given, what is written is read back the same, the
\* checksum is that of the bytes however the mbufs are split (in_cksum), and the access rules,
\* getaddrinfo and the databases answer what their tables say.
CodecRight ==
  /\ WireSafe /\ QueryFaithful /\ AnswerSound /\ CksumRight /\ AddressesKept /\ AccessRight /\ AddrInfoSound
  /\ DatabaseSound
=============================================================================
