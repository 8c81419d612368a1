------------------------------- MODULE Routes -------------------------------
(***************************************************************************)
(* Interfaces, Internet addresses and the routing table (net/if.c,         *)
(* netinet/in.c, net/route.c, net/radix.c and the interface teardown of    *)
(* net/if_sana.c).  Three kinds of node point at each other: an address    *)
(* (in_ifaddr) at its interface and at its connected route, a route at an  *)
(* address and an interface, a protocol control block at a route.  Only    *)
(* routes are counted, so what may be freed when depends on the order of   *)
(* the calls.                                                              *)
(*                                                                         *)
(* An address is a number of W bits, a mask its length, and a route with   *)
(* no mask (RTF_HOST) has length W + 1.  The radix tree is kept as what it *)
(* means: for each key the chain of the routes with that key, oldest       *)
(* first, which is the order rn_addroute leaves them in; the mask          *)
(* annotations of the inner nodes are taken to be complete.                *)
(***************************************************************************)
EXTENDS Naturals, Sequences, FiniteSets, SequencesExt, FiniteSetsExt

CONSTANTS
  Ifs,        \* the interfaces that may be added
  Kind,       \* [Ifs -> {"ether", "ptp", "loop"}]: if_flags
  W,          \* bits of an address
  ClassLen,   \* length of the classful mask
  MaxIa,      \* the addresses there is memory for
  MaxRt,      \* the routes there is memory for
  Pcbs,       \* sockets that cache a route
  MaxCalls,   \* bound on configuration calls
  Masks,      \* the mask lengths callers give
  HostAddrs,  \* the addresses callers give interfaces
  Dests       \* the destinations callers and packets name

ASSUME RoutesAssumption ==
  /\ W \in Nat \ {0} /\ ClassLen \in 1..W
  /\ MaxIa \in Nat \ {0} /\ MaxRt \in Nat \ {0}
  /\ HostAddrs \subseteq 0..(2 ^ W - 1) /\ Dests \subseteq 0..(2 ^ W - 1)

VARIABLES
  rs,   \* ifnet, in_ifaddr, the addresses, the routes and the tree
  inp,    \* inp_route of each socket: the destination and the route held
  rcalls  \* configuration calls so far

rvars == <<rs, inp, rcalls>>

Addr == 0..(2 ^ W - 1)
Unset == 2 ^ W                 \* a sockaddr_in whose family is still 0
NoMask == W + 1                \* a null netmask: a host route
Prefix(a, l) == a - (a % (2 ^ (W - l)))
Bit(a, b) == IF b > W THEN IF a = Unset THEN 1 ELSE 0
             ELSE IF a = Unset THEN 1 ELSE (a \div (2 ^ (W - b))) % 2

\* What a route names when its address was freed, by a caller or by the driver.
Deleted == MaxIa + 1
Scrubbed == MaxIa + 2

FreeIa == [ifp |-> "none", addr |-> Unset, len |-> 0, dst |-> Unset,
           route |-> FALSE, rt |-> 0]
FreeRt == [key |-> 0, mask |-> 0, gw |-> 0, viagw |-> FALSE, up |-> FALSE,
           ifa |-> 0, ifp |-> "none", refs |-> 0]

RoutesInit ==
  /\ rs = [ifnet |-> <<>>, list |-> <<>>, ia |-> [x \in 1..MaxIa |-> FreeIa],
           rt |-> [r \in 1..MaxRt |-> FreeRt], tree |-> [k \in Addr |-> <<>>]]
  /\ inp = [p \in Pcbs |-> [dst |-> 0, rt |-> 0]]
  /\ rcalls = 0

-----------------------------------------------------------------------------
(* The tree.  The leaf a search ends in is the key that agrees with the    *)
(* address at every bit where the keys still in play differ; 0 and the     *)
(* all-ones sentinel are always keys.                                      *)

Leaf(s, v) ==
  LET keys == {k \in Addr : s.tree[k] # <<>>} \cup {0, Unset}
      Narrow(S, b) == LET T == {k \in S : Bit(k, b) = Bit(v, b)}
                      IN IF T = {} THEN S ELSE T
  IN CHOOSE k \in FoldLeft(Narrow, keys, [b \in 1..(W + 1) |-> b]) : TRUE

HeadOr0(q) == IF q = <<>> THEN 0 ELSE Head(q)

Covers(r, v) == IF r.mask = NoMask THEN r.key = v
                ELSE Prefix(v, r.mask) = r.key

InTree(s) == UNION {Range(s.tree[k]) : k \in Addr}

\* rn_match: an exact key gives the head of its chain whatever the masks;
\* then the leaf's chain in order; then the longest mask of the ancestors.
Longest(s, R) ==
  IF R = {} THEN 0 ELSE CHOOSE r \in R : \A q \in R : s.rt[q].mask <= s.rt[r].mask

MatchAt(s, v, leaf) ==
  LET Fits(r) == s.rt[r].mask # NoMask /\ Covers(s.rt[r], v)
  IN IF leaf = v THEN HeadOr0(s.tree[v])
     ELSE IF leaf # Unset /\ \E r \in Range(s.tree[leaf]) : Fits(r)
          THEN Head(SelectSeq(s.tree[leaf], Fits))
     ELSE Longest(s, {r \in InTree(s) : Fits(r)})

rn_match(s, v) == MatchAt(s, v, Leaf(s, v))

\* rn_insert and rn_addroute: a key's chain, and the chain with one more
\* route at its end; the root's own leaf is a route with no mask for key 0.
rn_insert(s, key) == s.tree[key]
Duplicate(s, key, mask) ==
  \/ key = 0 /\ mask = NoMask
  \/ \E q \in Range(rn_insert(s, key)) : s.rt[q].mask = mask
rn_addroute(s, key, r) == [s EXCEPT !.tree[key] = Append(rn_insert(s, key), r)]

\* rn_delete: the mask is compared only when the key has a chain.
rn_delete(s, v, mask) ==
  IF Len(s.tree[v]) = 1 /\ v # 0 THEN Head(s.tree[v])
  ELSE HeadOr0(SelectSeq(s.tree[v], LAMBDA r : s.rt[r].mask = mask))

rtfree(s, r) ==
  IF r = 0 THEN s
  ELSE IF s.rt[r].refs <= 1 /\ ~s.rt[r].up THEN [s EXCEPT !.rt[r] = FreeRt]
  ELSE [s EXCEPT !.rt[r].refs = @ - 1]

-----------------------------------------------------------------------------
(* Which address a destination belongs to.                                 *)

AddrsOf(s, i) == SelectSeq(s.list, LAMBDA x : s.ia[x].ifp = i)
AllAddrs(s) == FlattenSeq([n \in DOMAIN s.ifnet |-> AddrsOf(s, s.ifnet[n])])
FirstOf(s, Test(_)) == HeadOr0(SelectSeq(AllAddrs(s), Test))

ifa_ifwithaddr(s, a) == FirstOf(s, LAMBDA x : s.ia[x].addr = a)
ifa_ifwithdstaddr(s, a) ==
  FirstOf(s, LAMBDA x : /\ Kind[s.ia[x].ifp] = "ptp" /\ s.ia[x].addr # Unset
                        /\ s.ia[x].dst = a)
ifa_ifwithnet(s, a) ==
  FirstOf(s, LAMBDA x : /\ s.ia[x].addr # Unset
                        /\ Prefix(a, s.ia[x].len) = Prefix(s.ia[x].addr, s.ia[x].len))

\* The first answer of several that is not 0.
FirstFound(answers) == HeadOr0(SelectSeq(answers, LAMBDA x : x # 0))
RouteIfa(s, r) == IF r = 0 THEN 0 ELSE s.rt[r].ifa

\* The answer is an address, 0, or more than MaxIa for one that was freed and is
\* still named by a route.
ifa_ifwithroute(s, viagw, host, dst, gw) ==
  FirstFound((IF viagw THEN <<ifa_ifwithdstaddr(s, gw)>>
              ELSE (IF host THEN <<ifa_ifwithdstaddr(s, dst)>> ELSE <<>>)
                     \o <<ifa_ifwithaddr(s, gw)>>)
             \o <<ifa_ifwithnet(s, gw), RouteIfa(s, rn_match(s, dst))>>)

\* in_sockmaskof: the classful mask, or the mask of the last address that is
\* configured on that classful network.
in_sockmaskof(s, a) ==
  LET onnet == SelectSeq(s.list, LAMBDA x : s.ia[x].addr # Unset
                 /\ Prefix(s.ia[x].addr, ClassLen) = Prefix(a, ClassLen))
  IN IF onnet # <<>> THEN s.ia[Last(onnet)].len
     ELSE IF a = 0 THEN 0 ELSE ClassLen

-----------------------------------------------------------------------------
(* rtrequest.  An addition answers [s, r]: the state, and the route or 0.  *)

Unhook(s, dst, r) ==
  LET t == [s EXCEPT !.tree[dst] = SelectSeq(@, LAMBDA q : q # r), !.rt[r].up = FALSE]
  IN IF r = 0 THEN s
     ELSE IF s.rt[r].refs = 0 THEN [t EXCEPT !.rt[r] = FreeRt] ELSE t

RtDelete(s, dst, mask) == Unhook(s, dst, rn_delete(s, dst, mask))

FreeRts(s) == {r \in DOMAIN s.rt : ~s.rt[r].up /\ s.rt[r].refs = 0}

Enter(s, x, key, gw, mask, viagw) ==
  LET r == Min(FreeRts(s))
      new == [key |-> key, mask |-> mask, gw |-> gw, viagw |-> viagw,
              up |-> TRUE, ifa |-> x, refs |-> 0,
              ifp |-> IF x > MaxIa THEN "freed" ELSE s.ia[x].ifp]
  IN IF x = 0 \/ FreeRts(s) = {} \/ Duplicate(s, key, mask)
       THEN [s |-> s, r |-> 0]
     ELSE [s |-> rn_addroute([s EXCEPT !.rt[r] = new], key, r), r |-> r]

RtAdd(s, dst, gw, mask, viagw) ==
  Enter(s, ifa_ifwithroute(s, viagw, mask = NoMask, dst, gw),
        IF mask = NoMask THEN dst ELSE Prefix(dst, mask), gw, mask, viagw)

\* rtinit for an address; a is the address its ifa_addr points at.
IsHost(s, x) == Kind[s.ia[x].ifp] # "ether"
RouteDst(s, x, a) == CASE Kind[s.ia[x].ifp] = "ether" -> a
                       [] Kind[s.ia[x].ifp] = "ptp" -> s.ia[x].dst
                       [] OTHER -> s.ia[x].addr

DropStale(s, x) ==
  IF s.ia[x].route /\ s.ia[x].rt # 0 /\ ~s.rt[s.ia[x].rt].up
    THEN [rtfree(s, s.ia[x].rt) EXCEPT !.ia[x].rt = 0] ELSE s

\* The route is deleted unless the table's answer for it is another address's.
DeleteOwn(s, x, dst, hit) ==
  IF dst = Unset \/ (hit # 0 /\ s.rt[hit].ifa # x) THEN s
  ELSE RtDelete([rtfree(s, s.ia[x].rt) EXCEPT !.ia[x].rt = 0], dst,
                IF IsHost(s, x) THEN NoMask ELSE s.ia[x].len)

Answer(s, dst) == IF dst = Unset THEN 0 ELSE rn_match(s, dst)

DeleteFor(s, x, a) ==
  LET dst == IF IsHost(s, x) THEN RouteDst(s, x, a)
             ELSE Prefix(RouteDst(s, x, a), s.ia[x].len)
  IN DeleteOwn(s, x, dst, Answer(s, dst))

RtinitDelete(s, x, a) == DeleteFor(DropStale(s, x), x, a)

HoldRoute(s, x, add) ==
  IF add.r = 0 THEN s
  ELSE [add.s EXCEPT !.ia[x].rt = add.r, !.ia[x].route = TRUE,
                     !.rt[add.r].refs = 1, !.rt[add.r].ifa = x,
                     !.rt[add.r].ifp = s.ia[x].ifp]

AddFor(s, x) ==
  HoldRoute(s, x, RtAdd(s, RouteDst(s, x, s.ia[x].addr), s.ia[x].addr,
                        IF IsHost(s, x) THEN NoMask ELSE s.ia[x].len, FALSE))

RtinitAdd(s, x) == AddFor(DropStale(s, x), x)

in_ifscrub(s, x, a) ==
  IF ~s.ia[x].route THEN s
  ELSE [RtinitDelete(s, x, a) EXCEPT !.ia[x].route = FALSE]

\* in_ifinit once the driver has accepted the address: scrub the old route
\* when asked to, take the classful mask if there is none, add the new one.
in_ifinit(s, x, a, scrub) ==
  LET named == [s EXCEPT !.ia[x].addr = a]
      clean == IF scrub THEN in_ifscrub(named, x, s.ia[x].addr) ELSE named
      Masked(t) == [t EXCEPT !.ia[x].len = IF @ = 0 THEN ClassLen ELSE @]
  IN IF a = 0 \/ (Kind[s.ia[x].ifp] = "ptp" /\ s.ia[x].dst = Unset) THEN Masked(clean)
     ELSE RtinitAdd(Masked(clean), x)

-----------------------------------------------------------------------------
(* in_control.  Every call runs under the system call semaphore and        *)
(* changes the lists under splnet, so each is one step.                    *)

FreeIas(s) == {x \in DOMAIN s.ia : s.ia[x].ifp = "none"}
FirstIa(s, i) == HeadOr0(AddrsOf(s, i))
NewIa(s, i) == LET x == Min(FreeIas(s))
               IN [s EXCEPT !.ia[x].ifp = i, !.list = Append(@, x)]

\* The address a request is about, made if the interface has none.
WithIa(s, i, x, Then(_, _)) ==
  IF x # 0 THEN Then(s, x)
  ELSE IF FreeIas(s) = {} THEN s ELSE Then(NewIa(s, i), Min(FreeIas(s)))

Attached(i) == i \in Range(rs.ifnet)

\* SIOCSIFADDR; the driver may refuse the address, which is then unset again.
SiocSifAddr(s0, i, a, ok) ==
  WithIa(s0, i, FirstIa(s0, i),
    LAMBDA s, x : IF ok THEN in_ifinit(s, x, a, TRUE) ELSE s)

\* SIOCSIFNETMASK: scrub under the old mask, then start again under the new.
Restart(s, x) ==
  IF s.ia[x].addr = Unset THEN s ELSE in_ifinit(s, x, s.ia[x].addr, FALSE)

SiocSifNetmask(s0, i, l) ==
  WithIa(s0, i, FirstIa(s0, i),
    LAMBDA s, x : Restart([in_ifscrub(s, x, s.ia[x].addr) EXCEPT !.ia[x].len = l], x))

\* SIOCSIFDSTADDR, on a point-to-point interface only.
SiocSifDstaddr(s0, i, d) ==
  LET Peer(s, x) ==
        IF s.ia[x].route
        THEN RtinitAdd([RtinitDelete(s, x, s.ia[x].addr) EXCEPT !.ia[x].dst = d], x)
        ELSE [s EXCEPT !.ia[x].dst = d]
  IN IF Kind[i] # "ptp" THEN s0 ELSE WithIa(s0, i, FirstIa(s0, i), Peer)

\* ConfigureInterfaceTagList (and, with one tag, the ioctl itself): the mask
\* first, then the peer, then the address, whichever of them are given; an
\* error in one does not stop the next.
ApplyConfig(i, l, d, a) ==
  /\ Attached(i)
  /\ <<l, d, a>> # <<0, Unset, Unset>>
  /\ LET m == IF l = 0 THEN rs ELSE SiocSifNetmask(rs, i, l)
         p == IF d = Unset THEN m ELSE SiocSifDstaddr(m, i, d)
     IN \E ok \in BOOLEAN :
          rs' = IF a = Unset THEN p ELSE SiocSifAddr(p, i, a, ok)
  /\ UNCHANGED inp

WithAddr(s, i, a) ==
  HeadOr0(SelectSeq(AddrsOf(s, i), LAMBDA x : s.ia[x].addr = a))

\* SIOCAIFADDR: add an alias, or change its mask.
SiocAifAddr(i, a, l) ==
  LET Alias(s, x) ==
        in_ifinit([in_ifscrub(s, x, s.ia[x].addr) EXCEPT !.ia[x].len = l], x, a, FALSE)
  IN /\ Attached(i)
     /\ rs' = WithIa(rs, i, WithAddr(rs, i, a), Alias)
     /\ UNCHANGED inp

\* An address goes back to the pool; what still names it names freed memory.
ReleaseIa(s, x, how) ==
  [s EXCEPT !.list = SelectSeq(@, LAMBDA y : y # x), !.ia[x] = FreeIa,
            !.rt = [r \in DOMAIN @ |->
                      IF @[r].ifa = x THEN [@[r] EXCEPT !.ifa = how]
                      ELSE @[r]]]

SiocDifAddr(i, a) ==
  LET x == WithAddr(rs, i, a)
  IN /\ Attached(i) /\ x # 0
     /\ rs' = ReleaseIa(in_ifscrub(rs, x, rs.ia[x].addr), x, Deleted)
     /\ UNCHANGED inp

-----------------------------------------------------------------------------
(* Routes given by callers, by ICMP and used by sockets.                   *)

\* AddRouteTagList, SIOCADDRT: the mask is the one in_sockmaskof finds now.
AddRoute(dst, gw, host) ==
  /\ rs' = RtAdd(rs, dst, gw, IF host THEN NoMask ELSE in_sockmaskof(rs, dst),
                 gw # 0).s
  /\ UNCHANGED inp

DeleteRoute(dst, host) ==
  /\ rs' = RtDelete(rs, dst, IF host THEN NoMask ELSE in_sockmaskof(rs, dst))
  /\ UNCHANGED inp

\* rtredirect for a host: a new host route beside a network route, or a new
\* gateway in a host route.
Redirect(dst, gw, src) ==
  LET r == rn_match(rs, dst)
      ok == /\ ifa_ifwithnet(rs, gw) # 0 /\ ifa_ifwithaddr(rs, gw) = 0
            /\ r # 0 => rs.rt[r].gw = src
  IN /\ ok
     /\ rs' = IF r = 0 \/ rs.rt[r].mask = 0
                \/ (rs.rt[r].viagw /\ rs.rt[r].mask # NoMask)
                THEN RtAdd(rs, dst, gw, NoMask, TRUE).s
              ELSE IF rs.rt[r].viagw THEN [rs EXCEPT !.rt[r].gw = gw]
              ELSE rs
     /\ UNCHANGED inp

\* ip_output: a cached route that is down or for another destination is
\* dropped, and a new one looked up.
UseRoute(p, dst) ==
  LET held == inp[p].rt
      keep == held # 0 /\ rs.rt[held].up /\ inp[p].dst = dst
      s == rtfree(rs, held)
      r == rn_match(s, dst)
  IN /\ ~keep
     /\ inp' = [inp EXCEPT ![p] = [dst |-> IF r = 0 THEN 0 ELSE dst, rt |-> r]]
     /\ rs' = IF r = 0 THEN s ELSE [s EXCEPT !.rt[r].refs = @ + 1]

\* in_pcbdetach and in_rtchange let go of the route.
DropRoute(p) ==
  /\ inp[p].rt # 0
  /\ rs' = rtfree(rs, inp[p].rt)
  /\ inp' = [inp EXCEPT ![p] = [dst |-> 0, rt |-> 0]]

-----------------------------------------------------------------------------
(* Interfaces come and go.                                                 *)

AddInterface(i) ==
  /\ ~Attached(i)
  /\ \A x \in Range(rs.list) : rs.ia[x].ifp # i   \* a new softc is new memory
  /\ rs' = [rs EXCEPT !.ifnet = Append(@, i)]
  /\ UNCHANGED inp

\* sana_flush_iface_routes: every route out of the interface, by its own key.
ExitsBy(s, i) == {r \in InTree(s) : s.rt[r].ifp = i}
\* Mutant: the host routes that leave by the interface are not flushed.
FlushRoutes_NetsOnly(s, i) ==
  LET Drop(t, r) == RtDelete(t, t.rt[r].key, t.rt[r].mask)
  IN FoldLeft(Drop, s, SetToSeq({r \in ExitsBy(s, i) : s.rt[r].mask # NoMask}))

FlushRoutes(s, i) ==
  LET Drop(t, r) == RtDelete(t, t.rt[r].key, t.rt[r].mask)
  IN FoldLeft(Drop, s, SetToSeq(ExitsBy(s, i)))

\* sana_scrub_inet: an address whose family is not set is taken off the
\* interface and left on in_ifaddr.
ScrubInet(s, i) ==
  LET Scrub(t, x) == IF t.ia[x].addr = Unset THEN [t EXCEPT !.ia[x].ifp = "gone"]
                     ELSE ReleaseIa(in_ifscrub(t, x, t.ia[x].addr), x, Scrubbed)
  IN FoldLeft(Scrub, s, AddrsOf(s, i))

\* sana_offline_cleanup: the interface stays.
OfflineCleanup(i) ==
  /\ Attached(i) /\ Kind[i] # "loop"
  /\ rs' = ScrubInet(FlushRoutes(rs, i), i)
  /\ UNCHANGED inp

\* sana_remove_interface: the routes, the addresses, then the interface.
RemoveRoutes(i) ==
  /\ Attached(i) /\ Kind[i] # "loop"
  /\ rs' = [ScrubInet(FlushRoutes(rs, i), i)
              EXCEPT !.ifnet = SelectSeq(@, LAMBDA j : j # i)]
  /\ UNCHANGED inp

Configure ==
  \/ \E i \in Ifs : AddInterface(i) \/ OfflineCleanup(i) \/ RemoveRoutes(i)
  \/ \E i \in Ifs, a \in HostAddrs :
       SiocDifAddr(i, a) \/ \E l \in Masks : SiocAifAddr(i, a, l)
  \/ \E i \in Ifs, l \in Masks \cup {0}, d \in Dests \cup {Unset},
        a \in HostAddrs \cup {Unset} : ApplyConfig(i, l, d, a)
  \/ \E d \in Dests, g \in Dests \cup {0}, h \in BOOLEAN : AddRoute(d, g, h)
  \/ \E d \in Dests, h \in BOOLEAN : DeleteRoute(d, h)
  \/ \E d \in Dests, g \in Dests, o \in Dests : Redirect(d, g, o)

RoutesNext ==
  \/ Configure /\ rcalls < MaxCalls /\ rcalls' = rcalls + 1
  \/ /\ \E p \in Pcbs : DropRoute(p) \/ \E d \in Dests : UseRoute(p, d)
     /\ UNCHANGED rcalls

-----------------------------------------------------------------------------
(* Invariant: every route that a packet can be sent by exits through an    *)
(* interface that is attached, and names an address of that interface that *)
(* has not been freed, unless that address was deleted by SIOCDIFADDR; and *)
(* a route that an address or a socket still holds has not been freed.     *)
RoutesAnchored ==
  /\ \A r \in InTree(rs) :
       /\ rs.rt[r].up /\ rs.rt[r].ifa \in 1..Deleted
       /\ rs.rt[r].ifa \in 1..MaxIa =>
            /\ rs.rt[r].ifp \in Range(rs.ifnet)
            /\ rs.ia[rs.rt[r].ifa].ifp = rs.rt[r].ifp
  /\ \A r \in DOMAIN rs.rt :
       rs.rt[r].refs >= Cardinality({x \in DOMAIN rs.ia : rs.ia[x].rt = r})
                        + Cardinality({p \in Pcbs : inp[p].rt = r})

(* Invariant: every address on in_ifaddr belongs to an attached interface. *)
(* ip_output and in_broadcast follow ia_ifp of each of them for every      *)
(* packet; sana_scrub_inet's comment says the addresses it skips "should   *)
(* not occur".                                                             *)
AddressesAttached ==
  \A x \in Range(rs.list) : rs.ia[x].ifp \in Range(rs.ifnet)

(* Invariant: "rtalloc1() does a longest-prefix rn_match()" (the comment   *)
(* of ng_route_op): no route of the table covers a destination with a      *)
(* longer mask than the one found for it.                                  *)
LongestPrefix ==
  \A v \in Dests : LET r == rn_match(rs, v) IN
    \A q \in InTree(rs) : Covers(rs.rt[q], v) =>
      r # 0 /\ rs.rt[q].mask <= rs.rt[r].mask
=============================================================================
