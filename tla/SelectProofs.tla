---------------------------- MODULE SelectProofs ----------------------------
(***************************************************************************)
(* SelectSound of Select, proved for any number of tasks, buffers and      *)
(* calls (each watches at most MaxItems conditions, as in the model), and  *)
(* for every interleaving of the tasks that contend for select_semaphore   *)
(* with the network task.                                                  *)
(*                                                                         *)
(* What the code lacks, and the theorem has to assume, is that a buffer is *)
(* selected on by one task only and drained by nobody else while it is     *)
(* (OneSelector).                                                          *)
(*                                                                         *)
(* The argument: a buffer that was scanned has SB_SEL set or is ready      *)
(* (Asked).  A buffer that was found not ready by the linking scan has its *)
(* task's item at the head of the chain, unless the task was marked        *)
(* SB_CLEAR since (Linked); so a delivery finds the item.  A task that     *)
(* waits in selenter, between its test and its link, is ahead of the       *)
(* network task in the queue of select_semaphore (Ahead), because the      *)
(* delivery came after the test.                                           *)
(***************************************************************************)
EXTENDS Select, FiniteSetTheorems, SequenceTheorems, WellFoundedInduction, TLAPS

OneSelector ==
  /\ Stealers = {}
  /\ \A t, u \in Tasks : t # u =>
       \A v \in Watch[t], w \in Watch[u] : Range(v) \cap Range(w) = {}

InCall(t) == pc[t] # "user"
Watches(t, b) == \E n \in DOMAIN watch[t] : watch[t][n] = b
Places == {"user", "scan", "selenter", "check", "sleep", "unselect"}

SelectTypes ==
  /\ DOMAIN mem = Addrs /\ DOMAIN prev = Items
  /\ DOMAIN ready = Bufs /\ DOMAIN sbsel = Bufs
  /\ netbuf \in Bufs \cup {Nil}
  /\ pc \in [Tasks -> Places] /\ idx \in [Tasks -> Nat] /\ s_count \in [Tasks -> Nat]
  /\ found \in [Tasks -> BOOLEAN] /\ p_sb \in [Tasks -> BOOLEAN]
  /\ wchan \in [Tasks -> BOOLEAN] /\ sc_ready \in [Tasks -> BOOLEAN]
  /\ DOMAIN watch = Tasks /\ DOMAIN s_state = Tasks
  /\ DOMAIN timeout = Tasks /\ DOMAIN timer = Tasks /\ DOMAIN sig = Tasks
  /\ DOMAIN error = Tasks

\* Where a task is, and what its locals are there.
CallOK(t) ==
  /\ InCall(t) => watch[t] \in Watch[t]
  /\ pc[t] \in {"selenter", "check", "sleep", "unselect"} => p_sb[t]
  /\ p_sb[t] => InCall(t) /\ sc_ready[t] /\ s_count[t] < idx[t]
  /\ pc[t] \in {"check", "sleep"} => ~found[t] /\ idx[t] > Len(watch[t])
  /\ pc[t] = "selenter" => idx[t] <= Len(watch[t])
  /\ InCall(t) => idx[t] \in 1 .. Len(watch[t]) + 1
  /\ error[t] # "ok" => pc[t] \in {"unselect", "user"}
  /\ ~InCall(t) \/ ~sc_ready[t] => timer[t] = "idle"

\* The semaphore: nobody waits for it while it is free, nobody holds or awaits it twice.
Contends(x) == x = sem.owner \/ \E i \in DOMAIN sem.q : sem.q[i] = x
SemWF ==
  /\ sem \in [owner : Agents \cup {Nobody}, q : Seq(Agents)]
  /\ Free => sem.q = <<>>
  /\ \A i \in DOMAIN sem.q : sem.q[i] # sem.owner
  /\ \A i, j \in DOMAIN sem.q : sem.q[i] = sem.q[j] => i = j
\* Who contends for it: the network task while it has a buffer, the others where they ask.
SemOK ==
  /\ SemWF
  /\ \A t \in Tasks : Contends(t) <=> pc[t] \in {"selenter", "check", "unselect"}
  /\ Contends(Net) <=> netbuf # Nil

\* x comes before y in the queue of the semaphore.
Ahead(x, y) ==
  /\ sem.owner # y
  /\ sem.owner = x \/ \E i \in DOMAIN sem.q : sem.q[i] = x /\ \A j \in 1 .. i : sem.q[j] # y

\* Chains: a header is empty or points at an item that its task has linked for it, ...
HdrOK(b) ==
  mem[Hdr(b)] # Nil => \E t \in Tasks, n \in {1, 2} :
    /\ mem[Hdr(b)] = <<t, n>> /\ prev[<<t, n>>] = Hdr(b)
    /\ p_sb[t] /\ n <= s_count[t] /\ Watches(t, b)
\* ... and an item points at itself (selwakeup was there), stands alone, or stands in front
\* of the other item of its task.
Self(i)  == prev[i] = NextOf(i)
AtHead(i) == \E b \in Bufs : prev[i] = Hdr(b) /\ mem[Hdr(b)] = i
Behind(j, i) == AtHead(i) /\ prev[j] = NextOf(i) /\ mem[NextOf(i)] = j /\ mem[NextOf(j)] = Nil
ItemsOK(t) ==
  /\ s_count[t] \in 0 .. 2
  /\ s_count[t] >= 1 => Self(<<t, 1>>) \/ (AtHead(<<t, 1>>) /\ mem[NextOf(<<t, 1>>)] = Nil)
                        \/ (s_count[t] = 2 /\ Behind(<<t, 1>>, <<t, 2>>))
  /\ s_count[t] = 2 => Self(<<t, 2>>) \/ (AtHead(<<t, 2>>) /\ mem[NextOf(<<t, 2>>)] = Nil)
                       \/ Behind(<<t, 1>>, <<t, 2>>)
ChainsOK == (\A b \in Bufs : HdrOK(b)) /\ (\A t \in Tasks : p_sb[t] => ItemsOK(t))

\* SB_SEL has been set on what was scanned.
Asked(t) == InCall(t) => \A n \in DOMAIN watch[t] : n < idx[t] \/ sc_ready[t] =>
                           sbsel[watch[t][n]] \/ ready[watch[t][n]]
\* What the linking scan found not ready has an item, which a delivery will find.
Linked(t) ==
  p_sb[t] => \/ found[t] \/ s_state[t] = "CLEAR"
             \/ \A n \in DOMAIN watch[t] : n < idx[t] =>
                  mem[Hdr(watch[t][n])] # Nil /\ (ready[watch[t][n]] => netbuf = watch[t][n])
\* Between the test and the link.
Tested(t) == pc[t] = "selenter" =>
  /\ ready[Current(t)] => netbuf = Current(t) /\ Ahead(t, Net)
  /\ netbuf = Current(t) /\ ~ready[netbuf] => Ahead(Net, t)
\* What was drained before it was selected on wakes nobody.
Stale == netbuf # Nil /\ ~ready[netbuf] => mem[Hdr(netbuf)] = Nil

\* A task that was woken has reason to look again, and then it does not sleep again.
SomeReady(t, k) == \E n \in DOMAIN watch[t] : n >= k /\ ready[watch[t][n]]
Woken(t) ==
  /\ Asleep(t) => s_state[t] = "WAITING"
  /\ pc[t] = "sleep" /\ ~wchan[t] => SomeReady(t, 1)
  /\ InCall(t) /\ timer[t] = "port" =>
       \/ "sleep" \in sig[t] \/ error[t] # "ok"
       \/ pc[t] = "unselect" /\ SomeReady(t, 1)
       \/ pc[t] = "scan" /\ ~p_sb[t] /\ (found[t] \/ SomeReady(t, idx[t]))

TaskOK(t) == CallOK(t) /\ Asked(t) /\ Linked(t) /\ Tested(t) /\ Woken(t)
SelectInv ==
  /\ SelectTypes /\ SemOK /\ ChainsOK /\ Stale
  /\ \A t \in Tasks : TaskOK(t)

-----------------------------------------------------------------------------
(* Addresses, and the sequences of a call.                                 *)

LEMMA AddrFacts ==
  /\ \A b \in Bufs : Hdr(b) \in Addrs
  /\ \A i \in Items : NextOf(i) \in Addrs
  /\ \A b, c : Hdr(b) = Hdr(c) => b = c
  /\ \A i, j : NextOf(i) = NextOf(j) => i = j
  /\ \A b, i : Hdr(b) # NextOf(i)
BY DEF Addrs, Hdr, NextOf

LEMMA ItemFacts ==
  /\ \A t \in Tasks : <<t, 1>> \in Items /\ <<t, 2>> \in Items
  /\ \A t, u, n, m : <<t, n>> = <<u, m>> => t = u /\ n = m
  /\ \A i \in Items : \E t \in Tasks : i = <<t, 1>> \/ i = <<t, 2>>
BY DEF Items, MaxItems

LEMMA WatchFacts ==
  ASSUME NEW t \in Tasks, watch[t] \in Watch[t]
  PROVE  /\ DOMAIN watch[t] = 1 .. Len(watch[t]) /\ Len(watch[t]) \in {1, 2}
         /\ \A n \in DOMAIN watch[t] : watch[t][n] \in Bufs
BY WatchAssumption DEF MaxItems

-----------------------------------------------------------------------------
(* The semaphore.                                                          *)

LEMMA ObtainStep ==
  ASSUME SemWF, NEW x \in Agents, ~Contends(x), Obtain(x)
  PROVE  /\ SemWF'
         /\ \A y \in Agents : Contends(y)' <=> Contends(y) \/ y = x
         /\ \A y, z \in Agents : Ahead(y, z) => Ahead(y, z)'
         /\ \A y \in Agents : Contends(y) => Ahead(y, x)'
<1>1. CASE Free
  <2>1. sem.q = <<>> /\ sem'.owner = x /\ sem'.q = <<>> /\ sem' \in [owner : Agents \cup {Nobody}, q : Seq(Agents)]
    BY <1>1 DEF Obtain, SemWF
  <2>2. x # Nobody /\ sem.owner = Nobody /\ \A y \in Agents : y # Nobody
    BY <1>1, TaskAssumption DEF Agents, Free
  <2> QED BY <2>1, <2>2 DEF SemWF, Contends, Ahead, Free
<1>2. CASE ~Free
  <2> DEFINE q == sem.q
             r == sem'.q
             L == Len(q)
  <2>a. q \in Seq(Agents) /\ Append(q, x) \in Seq(Agents)
    BY DEF SemWF
  <2>1. sem'.owner = sem.owner /\ r = Append(q, x)
    BY <1>2 DEF Obtain, SemWF
  <2>b. sem' = [owner |-> sem.owner, q |-> Append(q, x)]
    BY <1>2 DEF Obtain, SemWF
  <2>c. sem' \in [owner : Agents \cup {Nobody}, q : Seq(Agents)]
    BY <2>a, <2>b DEF SemWF
  <2>2. /\ L \in Nat /\ DOMAIN q = 1 .. L /\ DOMAIN r = 1 .. L + 1
        /\ \A i \in 1 .. L : r[i] = q[i]
        /\ r[L + 1] = x
    BY <2>a, <2>1
  <2>3. sem.owner # x /\ \A i \in DOMAIN q : q[i] # x
    BY DEF Contends
  <2>d. sem.owner # Nobody
    BY <1>2 DEF Free
  <2>e. /\ \A i \in DOMAIN q : q[i] # sem.owner
        /\ \A i, j \in DOMAIN q : q[i] = q[j] => i = j
    BY DEF SemWF
  <2>f. SemWF' <=> /\ sem'.owner = Nobody => r = <<>>
                   /\ \A i \in DOMAIN r : r[i] # sem'.owner
                   /\ \A i, j \in DOMAIN r : r[i] = r[j] => i = j
    BY <2>c DEF SemWF, Free
  <2>g. \A y : Contends(y)' <=> y = sem'.owner \/ \E i \in DOMAIN r : r[i] = y
    BY DEF Contends
  <2>h. \A y : Contends(y) <=> y = sem.owner \/ \E i \in DOMAIN q : q[i] = y
    BY DEF Contends
  <2>i. \A y, z : Ahead(y, z)' <=>
          /\ sem'.owner # z
          /\ sem'.owner = y \/ \E i \in DOMAIN r : r[i] = y /\ \A j \in 1 .. i : r[j] # z
    BY DEF Ahead
  <2>j. \A y, z : Ahead(y, z) <=>
          /\ sem.owner # z
          /\ sem.owner = y \/ \E i \in DOMAIN q : q[i] = y /\ \A j \in 1 .. i : q[j] # z
    BY DEF Ahead
  <2> HIDE DEF q, r, L
  <2>5. SemWF'
    BY <2>1, <2>2, <2>3, <2>d, <2>e, <2>f
  <2>6. \A y : Contends(y)' <=> Contends(y) \/ y = x
    BY <2>1, <2>2, <2>g, <2>h
  <2>7. \A y, z : Ahead(y, z) => Ahead(y, z)'
    <3> SUFFICES ASSUME NEW y, NEW z, Ahead(y, z) PROVE Ahead(y, z)'
      OBVIOUS
    <3>1. CASE sem.owner = y
      BY <2>1, <2>i, <2>j, <3>1
    <3>2. CASE sem.owner # y
      <4>1. PICK i \in DOMAIN q : q[i] = y /\ \A j \in 1 .. i : q[j] # z
        BY <2>j, <3>2
      <4>2. i \in DOMAIN r /\ r[i] = y /\ \A j \in 1 .. i : r[j] # z
        BY <2>2, <4>1
      <4> QED BY <2>1, <2>i, <2>j, <4>2
    <3> QED BY <3>1, <3>2
  <2>8. \A y : Contends(y) => Ahead(y, x)'
    <3> SUFFICES ASSUME NEW y, Contends(y) PROVE Ahead(y, x)'
      OBVIOUS
    <3>1. CASE y = sem.owner
      BY <2>1, <2>3, <2>i, <3>1
    <3>2. CASE \E i \in DOMAIN q : q[i] = y
      <4>1. PICK i \in DOMAIN q : q[i] = y
        BY <3>2
      <4>2. i \in DOMAIN r /\ r[i] = y /\ \A j \in 1 .. i : r[j] # x
        BY <2>2, <2>3, <4>1
      <4> QED BY <2>1, <2>3, <2>i, <4>2
    <3> QED BY <2>h, <3>1, <3>2
  <2> QED BY <2>5, <2>6, <2>7, <2>8
<1> QED BY <1>1, <1>2

LEMMA ReleaseStep ==
  ASSUME SemWF, sem.owner \in Agents, Release
  PROVE  /\ SemWF'
         /\ \A y \in Agents : Contends(y)' <=> Contends(y) /\ y # sem.owner
         /\ \A y, z \in Agents : y # sem.owner /\ Ahead(y, z) => Ahead(y, z)'
<1>a. \A y \in Agents : y # Nobody
  BY TaskAssumption DEF Agents
<1>1. CASE sem.q = <<>>
  <2>1. sem'.owner = Nobody /\ sem'.q = <<>> /\ sem' \in [owner : Agents \cup {Nobody}, q : Seq(Agents)]
    BY <1>1 DEF Release, SemWF
  <2> QED BY <1>1, <1>a, <2>1 DEF SemWF, Contends, Ahead, Free
<1>2. CASE sem.q # <<>>
  <2> DEFINE q == sem.q
             r == sem'.q
             L == Len(q)
  <2>1. q \in Seq(Agents) /\ L \in Nat \ {0} /\ DOMAIN q = 1 .. L /\ Tail(q) \in Seq(Agents)
    BY <1>2 DEF SemWF
  <2>2. sem' = [owner |-> Head(q), q |-> Tail(q)] /\ Head(q) = q[1] /\ q[1] \in Agents
    BY <1>2, <2>1 DEF Release
  <2>3. sem' \in [owner : Agents \cup {Nobody}, q : Seq(Agents)]
    BY <2>1, <2>2
  <2>4. sem'.owner = q[1] /\ r = Tail(q)
    BY <2>2
  <2>5. DOMAIN r = 1 .. L - 1 /\ \A i \in 1 .. L - 1 : r[i] = q[i + 1]
    BY <1>2, <2>1, <2>4
  <2>6. \A i \in 2 .. L : i - 1 \in DOMAIN r /\ r[i - 1] = q[i]
    BY <2>1, <2>5
  <2>e. /\ \A i \in DOMAIN q : q[i] # sem.owner
        /\ \A i, j \in DOMAIN q : q[i] = q[j] => i = j
    BY DEF SemWF
  <2>f. SemWF' <=> /\ sem'.owner = Nobody => r = <<>>
                   /\ \A i \in DOMAIN r : r[i] # sem'.owner
                   /\ \A i, j \in DOMAIN r : r[i] = r[j] => i = j
    BY <2>3 DEF SemWF, Free
  <2>g. \A y : Contends(y)' <=> y = sem'.owner \/ \E i \in DOMAIN r : r[i] = y
    BY DEF Contends
  <2>h. \A y : Contends(y) <=> y = sem.owner \/ \E i \in DOMAIN q : q[i] = y
    BY DEF Contends
  <2>i. \A y, z : Ahead(y, z)' <=>
          /\ sem'.owner # z
          /\ sem'.owner = y \/ \E i \in DOMAIN r : r[i] = y /\ \A j \in 1 .. i : r[j] # z
    BY DEF Ahead
  <2>j. \A y, z : Ahead(y, z) <=>
          /\ sem.owner # z
          /\ sem.owner = y \/ \E i \in DOMAIN q : q[i] = y /\ \A j \in 1 .. i : q[j] # z
    BY DEF Ahead
  <2> HIDE DEF q, r, L
  <2>7. SemWF'
    BY <1>a, <2>1, <2>2, <2>4, <2>5, <2>e, <2>f
  <2>8. ASSUME NEW y \in Agents PROVE Contends(y)' <=> Contends(y) /\ y # sem.owner
    <3>1. ASSUME Contends(y), y # sem.owner PROVE Contends(y)'
      <4>1. PICK i \in DOMAIN q : q[i] = y
        BY <2>h, <3>1
      <4>2. i = 1 \/ i \in 2 .. L
        BY <2>1
      <4> QED BY <2>4, <2>6, <2>g, <4>1, <4>2
    <3>2. ASSUME Contends(y)' PROVE Contends(y) /\ y # sem.owner
      BY <2>1, <2>4, <2>5, <2>e, <2>g, <2>h, <3>2
    <3> QED BY <3>1, <3>2
  <2>9. ASSUME NEW y \in Agents, NEW z \in Agents, y # sem.owner, Ahead(y, z)
        PROVE  Ahead(y, z)'
    <3>1. PICK i \in DOMAIN q : q[i] = y /\ \A j \in 1 .. i : q[j] # z
      BY <2>9, <2>j
    <3>2. sem'.owner # z
      BY <2>1, <2>4, <3>1
    <3>3. CASE i = 1
      BY <2>4, <2>i, <3>1, <3>2, <3>3
    <3>4. CASE i # 1
      <4>1. i - 1 \in DOMAIN r /\ r[i - 1] = y
        BY <2>1, <2>6, <3>1, <3>4
      <4>2. \A j \in 1 .. i - 1 : r[j] # z
        BY <2>1, <2>5, <3>1
      <4> QED BY <2>i, <3>2, <4>1, <4>2
    <3> QED BY <3>3, <3>4
  <2> QED BY <2>7, <2>8, <2>9
<1> QED BY <1>1, <1>2

-----------------------------------------------------------------------------
(* The chains: what Walk meets.                                            *)

\* What holds of 0 and of the successors up to N holds up to N.
LEMMA UpTo ==
  ASSUME NEW N \in Nat, NEW T, 0 \in T, \A n \in 1 .. N : n - 1 \in T => n \in T
  PROVE  \A n \in 0 .. N : n \in T
<1> DEFINE Bad == {n \in 0 .. N : n \notin T}
<1> SUFFICES Bad = {}
  OBVIOUS
<1>1. SUFFICES ASSUME Bad # {} PROVE FALSE
  OBVIOUS
<1>2. Bad \subseteq Nat
  OBVIOUS
<1>3. PICK x \in Bad : \A y \in Bad : <<y, x>> \notin OpToRel(<, Nat)
  <2> HIDE DEF Bad
  <2> QED BY <1>1, <1>2, NatLessThanWellFounded, WFMin, Zenon
<1>4. \A y \in Bad : ~(y < x)
  BY <1>2, <1>3, Zenon DEF OpToRel
<1>5. x \in 1 .. N /\ x - 1 \in 0 .. N /\ x - 1 < x
  OBVIOUS
<1> QED BY <1>4, <1>5

\* The function that Walk defines.
WalkStep(a, w, n) ==
  IF n = 0 \/ mem[a] = Nil THEN (IF mem[a] = Nil THEN <<>> ELSE <<mem[a]>>)
  ELSE LET p == w[n - 1]
           nx == mem[NextOf(Last(p))]
       IN  IF nx = Nil \/ Len(p) # n THEN p ELSE Append(p, nx)

LEMMA WalkIs ==
  ASSUME NEW a, NEW g, g = [n \in 0 .. Cardinality(Items) |-> WalkStep(a, g, n)]
  PROVE  \E w : /\ w = [n \in 0 .. Cardinality(Items) |-> WalkStep(a, w, n)]
                /\ Walk(a) = w[Cardinality(Items)]
BY Zenon DEF Walk, WalkStep

LEMMA ItemsFinite == IsFiniteSet(Items) /\ Cardinality(Items) \in Nat
<1>1. IsFiniteSet(1 .. 2)
  <2>1. 1 \in Int /\ 2 \in Int
    OBVIOUS
  <2> QED BY <2>1, FS_Interval, Zenon
<1>2. IsFiniteSet(Items)
  BY <1>1, TasksAssumption, FS_Product DEF Items, MaxItems
<1> QED BY <1>2, FS_CardinalityType

LEMMA ItemsMany ==
  ASSUME NEW t \in Tasks
  PROVE  Cardinality(Items) \in Nat /\ Cardinality(Items) >= 2
<1>1. IsFiniteSet(Items) /\ Cardinality(Items) \in Nat
  BY ItemsFinite
<1>2. Cardinality({<<t, 1>>, <<t, 2>>}) = 2
  <2>1. IsFiniteSet({<<t, 1>>}) /\ Cardinality({<<t, 1>>}) = 1
    BY FS_Singleton
  <2>2. <<t, 2>> \notin {<<t, 1>>} /\ {<<t, 1>>, <<t, 2>>} = {<<t, 1>>} \cup {<<t, 2>>}
    OBVIOUS
  <2>3. Cardinality({<<t, 1>>} \cup {<<t, 2>>}) = Cardinality({<<t, 1>>}) + 1
    BY <2>1, <2>2, FS_AddElement
  <2> QED BY <2>1, <2>2, <2>3
<1>3. {<<t, 1>>, <<t, 2>>} \subseteq Items
  BY ItemFacts
<1>4. Cardinality({<<t, 1>>, <<t, 2>>}) <= Cardinality(Items)
  BY <1>1, <1>3, FS_Subset
<1> QED BY <1>1, <1>2, <1>4

LEMMA WalkNone ==
  ASSUME NEW a, mem[a] = Nil
  PROVE  Walk(a) = <<>>
<1> DEFINE N == Cardinality(Items)
           g == [n \in 0 .. N |-> <<>>]
<1>1. N \in Nat
  BY ItemsFinite
<1>2. g = [n \in 0 .. N |-> WalkStep(a, g, n)]
  BY DEF WalkStep
<1>3. PICK w : w = [n \in 0 .. N |-> WalkStep(a, w, n)] /\ Walk(a) = w[N]
  BY <1>2, WalkIs
<1>4. w[N] = WalkStep(a, w, N)
  BY <1>1, <1>3
<1> QED BY <1>3, <1>4 DEF WalkStep

LEMMA WalkOne ==
  ASSUME NEW t \in Tasks, NEW a, NEW i \in Items, mem[a] = i, mem[NextOf(i)] = Nil
  PROVE  Walk(a) = <<i>>
<1> DEFINE N == Cardinality(Items)
           g == [n \in 0 .. N |-> <<i>>]
<1>a. i # Nil
  BY NilAssumption
<1>b. Last(<<i>>) = i /\ Len(<<i>>) = 1
  BY DEF Last
<1>1. N \in Nat /\ N >= 2
  BY ItemsMany
<1>2. ASSUME NEW w, NEW n \in 0 .. N, n # 0 => w[n - 1] = <<i>>
      PROVE  WalkStep(a, w, n) = <<i>>
  BY <1>a, <1>b, <1>2 DEF WalkStep
<1>3. g = [n \in 0 .. N |-> WalkStep(a, g, n)]
  <2>1. \A n \in 0 .. N : n # 0 => g[n - 1] = <<i>>
    BY <1>1
  <2>2. \A n \in 0 .. N : WalkStep(a, g, n) = <<i>>
    BY <1>2, <2>1
  <2> QED BY <2>2
<1>4. PICK w : w = [n \in 0 .. N |-> WalkStep(a, w, n)] /\ Walk(a) = w[N]
  BY <1>3, WalkIs
<1>5. \A n \in 0 .. N : w[n] = WalkStep(a, w, n)
  BY <1>4
<1> DEFINE T == {n \in 0 .. N : w[n] = <<i>>}
<1>6. 0 \in T
  BY <1>1, <1>2, <1>5
<1>7. \A n \in 1 .. N : n - 1 \in T => n \in T
  BY <1>1, <1>2, <1>5
<1>8. \A n \in 0 .. N : n \in T
  <2> HIDE DEF T, N
  <2> QED BY <1>1, <1>6, <1>7, UpTo
<1> QED BY <1>1, <1>4, <1>8

LEMMA WalkTwo ==
  ASSUME NEW t \in Tasks, NEW a, NEW i \in Items, NEW j \in Items,
         mem[a] = i, mem[NextOf(i)] = j, mem[NextOf(j)] = Nil
  PROVE  Walk(a) = <<i, j>>
<1> DEFINE N == Cardinality(Items)
           At(n) == IF n = 0 THEN <<i>> ELSE <<i, j>>
           g == [n \in 0 .. N |-> At(n)]
<1>a. i # Nil /\ j # Nil
  BY NilAssumption
<1>b. /\ Last(<<i>>) = i /\ Len(<<i>>) = 1 /\ Append(<<i>>, j) = <<i, j>>
      /\ Last(<<i, j>>) = j /\ Len(<<i, j>>) = 2
  <2>1. Len(<<i>>) = 1 /\ Len(<<i, j>>) = 2 /\ <<i>> \in Seq(Items) /\ <<i, j>> \in Seq(Items)
    OBVIOUS
  <2>2. Append(<<i>>, j) = <<i, j>>
    <3>1. Append(<<i>>, j) \in Seq(Items) /\ Len(Append(<<i>>, j)) = 2
          /\ Append(<<i>>, j)[1] = i /\ Append(<<i>>, j)[2] = j
      BY <2>1
    <3>2. \A k \in 1 .. 2 : Append(<<i>>, j)[k] = <<i, j>>[k]
      BY <3>1
    <3> QED BY <2>1, <3>1, <3>2, SeqEqual, ZenonT(60)
  <2> QED BY <2>1, <2>2 DEF Last
<1>1. N \in Nat /\ N >= 2
  BY ItemsMany
<1>2. ASSUME NEW w, NEW n \in 0 .. N, n # 0 => w[n - 1] = At(n - 1)
      PROVE  WalkStep(a, w, n) = At(n)
  <2>1. CASE n = 0
    BY <1>a, <2>1 DEF WalkStep
  <2>2. CASE n = 1
    BY <1>a, <1>b, <1>2, <2>2 DEF WalkStep
  <2>3. CASE n # 0 /\ n # 1
    <3>1. w[n - 1] = <<i, j>>
      BY <1>2, <2>3
    <3> QED BY <1>a, <1>b, <2>3, <3>1 DEF WalkStep
  <2> QED BY <2>1, <2>2, <2>3
<1>3. g = [n \in 0 .. N |-> WalkStep(a, g, n)]
  <2>1. \A n \in 0 .. N : n # 0 => g[n - 1] = At(n - 1)
    BY <1>1
  <2>2. \A n \in 0 .. N : WalkStep(a, g, n) = At(n)
    BY <1>2, <2>1
  <2> QED BY <2>2
<1>4. PICK w : w = [n \in 0 .. N |-> WalkStep(a, w, n)] /\ Walk(a) = w[N]
  BY <1>3, WalkIs
<1>5. \A n \in 0 .. N : w[n] = WalkStep(a, w, n)
  BY <1>4
<1> DEFINE T == {n \in 0 .. N : w[n] = At(n)}
<1>6. 0 \in T
  BY <1>1, <1>2, <1>5
<1>7. \A n \in 1 .. N : n - 1 \in T => n \in T
  <2> HIDE DEF At
  <2> QED BY <1>1, <1>2, <1>5
<1>8. \A n \in 0 .. N : n \in T
  <2> HIDE DEF T, N
  <2> QED BY <1>1, <1>6, <1>7, UpTo
<1>9. w[N] = At(N)
  BY <1>1, <1>8
<1> QED BY <1>1, <1>4, <1>9

\* The shapes of a chain: empty, one item, or the two items of a task that scanned the
\* buffer twice.
OnChain(b, t, n) ==
  /\ mem[Hdr(b)] = <<t, n>> /\ prev[<<t, n>>] = Hdr(b)
  /\ p_sb[t] /\ n <= s_count[t] /\ Watches(t, b)
Alone(b, t, n) ==
  OnChain(b, t, n) /\ mem[NextOf(<<t, n>>)] = Nil
Both(b, t) ==
  OnChain(b, t, 2) /\ s_count[t] = 2 /\ Behind(<<t, 1>>, <<t, 2>>)

LEMMA ChainShape ==
  ASSUME ChainsOK, NEW b \in Bufs
  PROVE  \/ mem[Hdr(b)] = Nil
         \/ \E t \in Tasks : Alone(b, t, 1) \/ Alone(b, t, 2) \/ Both(b, t)
<1> SUFFICES ASSUME mem[Hdr(b)] # Nil
             PROVE  \E t \in Tasks : Alone(b, t, 1) \/ Alone(b, t, 2) \/ Both(b, t)
  OBVIOUS
<1>1. PICK t \in Tasks, n \in {1, 2} : OnChain(b, t, n)
  BY DEF ChainsOK, HdrOK, OnChain
<1>2. ItemsOK(t)
  BY <1>1 DEF ChainsOK, OnChain
<1>3. ~Self(<<t, n>>)
  BY <1>1, AddrFacts DEF OnChain, Self
<1>4. n = 1 => prev[<<t, 1>>] # NextOf(<<t, 2>>)
  BY <1>1, AddrFacts DEF OnChain
<1>5. CASE n = 1
  BY <1>1, <1>2, <1>3, <1>4, <1>5 DEF ItemsOK, OnChain, Alone, Behind
<1>6. CASE n = 2
  BY <1>1, <1>2, <1>3, <1>6 DEF ItemsOK, OnChain, Alone, Both
<1> QED BY <1>5, <1>6

LEMMA ChainNone ==
  ASSUME NEW b \in Bufs, mem[Hdr(b)] = Nil
  PROVE  Chain(b) = {} /\ ~Cyclic(b)
<1>1. Walk(Hdr(b)) = <<>>
  BY WalkNone
<1> QED BY <1>1, ItemsFinite DEF Chain, Cyclic, Range

LEMMA ChainAlone ==
  ASSUME NEW b \in Bufs, NEW t \in Tasks, NEW n \in {1, 2}, Alone(b, t, n)
  PROVE  Chain(b) = {<<t, n>>} /\ ~Cyclic(b)
<1> DEFINE i == <<t, n>>
<1>1. i \in Items /\ mem[Hdr(b)] = i /\ mem[NextOf(i)] = Nil
  BY ItemFacts DEF Alone, OnChain
<1> HIDE DEF i
<1>2. Walk(Hdr(b)) = <<i>>
  BY <1>1, WalkOne
<1>3. Chain(b) = {i} /\ ~Cyclic(b)
  BY <1>2, ItemsMany DEF Chain, Cyclic, Range
<1> QED BY <1>3 DEF i

LEMMA ChainBoth ==
  ASSUME NEW b \in Bufs, NEW t \in Tasks, Both(b, t)
  PROVE  Chain(b) = {<<t, 1>>, <<t, 2>>} /\ ~Cyclic(b)
<1> DEFINE i == <<t, 2>>
           j == <<t, 1>>
<1>1. /\ i \in Items /\ j \in Items
      /\ mem[Hdr(b)] = i /\ mem[NextOf(i)] = j /\ mem[NextOf(j)] = Nil
  BY ItemFacts DEF Both, OnChain, Behind
<1> HIDE DEF i, j
<1>2. Walk(Hdr(b)) = <<i, j>>
  BY <1>1, WalkTwo
<1>3. Len(<<i, j>>) = 2 /\ DOMAIN <<i, j>> = 1 .. 2
  OBVIOUS
<1>4. Chain(b) = {j, i} /\ ~Cyclic(b)
  BY <1>2, <1>3, ItemsMany DEF Chain, Cyclic, Range
<1> QED BY <1>4 DEF i, j

\* Every item on a chain was linked there by a call in progress.
LEMMA ChainItems ==
  ASSUME ChainsOK, NEW b \in Bufs
  PROVE  /\ ~Cyclic(b)
         /\ \A i \in Chain(b) : \E t \in Tasks, n \in {1, 2} :
              i = <<t, n>> /\ p_sb[t] /\ n <= s_count[t] /\ Watches(t, b)
<1>1. CASE mem[Hdr(b)] = Nil
  BY <1>1, ChainNone
<1>2. ASSUME NEW t \in Tasks, NEW n \in {1, 2}, Alone(b, t, n)
      PROVE  /\ ~Cyclic(b)
             /\ \A i \in Chain(b) : \E u \in Tasks, m \in {1, 2} :
                  i = <<u, m>> /\ p_sb[u] /\ m <= s_count[u] /\ Watches(u, b)
  BY <1>2, ChainAlone DEF Alone, OnChain
<1>3. ASSUME NEW t \in Tasks, Both(b, t)
      PROVE  /\ ~Cyclic(b)
             /\ \A i \in Chain(b) : \E u \in Tasks, m \in {1, 2} :
                  i = <<u, m>> /\ p_sb[u] /\ m <= s_count[u] /\ Watches(u, b)
  BY <1>3, ChainBoth DEF Both, OnChain
<1> QED BY <1>1, <1>2, <1>3, ChainShape

-----------------------------------------------------------------------------
(* unselect.                                                               *)

\* One item unlinked from the pointers m, and the function that Unselected defines.
Unlinked(m, i) == [m EXCEPT ![prev[i]] = m[NextOf(i)]]
UnselStep(t, u, n) == IF n = 0 THEN mem ELSE Unlinked(u[n - 1], <<t, n>>)

LEMMA UnselIs ==
  ASSUME NEW t, NEW g, g = [n \in 0 .. s_count[t] |-> UnselStep(t, g, n)]
  PROVE  \E u : /\ u = [n \in 0 .. s_count[t] |-> UnselStep(t, u, n)]
                /\ Unselected(t) = u[s_count[t]]
BY Zenon DEF Unselected, UnselStep, Unlinked

LEMMA UnselCount ==
  ASSUME NEW t \in Tasks, s_count[t] \in 0 .. 2
  PROVE  /\ s_count[t] = 0 => Unselected(t) = mem
         /\ s_count[t] = 1 => Unselected(t) = Unlinked(mem, <<t, 1>>)
         /\ s_count[t] = 2 => Unselected(t) = Unlinked(Unlinked(mem, <<t, 1>>), <<t, 2>>)
<1> DEFINE k == s_count[t]
           At(n) == IF n = 0 THEN mem
                    ELSE IF n = 1 THEN Unlinked(mem, <<t, 1>>)
                    ELSE Unlinked(Unlinked(mem, <<t, 1>>), <<t, 2>>)
           g == [n \in 0 .. k |-> At(n)]
<1>1. ASSUME NEW w, NEW n \in 0 .. k, n # 0 => w[n - 1] = At(n - 1)
      PROVE  UnselStep(t, w, n) = At(n)
  <2>1. n = 0 \/ n = 1 \/ n = 2
    OBVIOUS
  <2> QED BY <1>1, <2>1 DEF UnselStep
<1>2. g = [n \in 0 .. k |-> UnselStep(t, g, n)]
  <2>1. \A n \in 0 .. k : n # 0 => g[n - 1] = At(n - 1)
    OBVIOUS
  <2>2. \A n \in 0 .. k : UnselStep(t, g, n) = At(n)
    BY <1>1, <2>1
  <2> QED BY <2>2
<1>3. PICK u : u = [n \in 0 .. k |-> UnselStep(t, u, n)] /\ Unselected(t) = u[k]
  BY <1>2, UnselIs
<1>4. \A n \in 0 .. k : u[n] = UnselStep(t, u, n)
  BY <1>3
<1>5. u[0] = At(0)
  BY <1>1, <1>4
<1>6. k >= 1 => u[1] = At(1)
  BY <1>1, <1>4, <1>5
<1>7. k = 2 => u[2] = At(2)
  BY <1>1, <1>4, <1>6
<1> QED BY <1>3, <1>5, <1>6, <1>7

\* It empties the chains its items are on, and leaves the others alone.
OwnItem(t, x) == x = <<t, 1>> \/ x = <<t, 2>>
UnselEffect(t, m) ==
  /\ DOMAIN m = Addrs
  /\ \A b \in Bufs : m[Hdr(b)] = IF OwnItem(t, mem[Hdr(b)]) THEN Nil ELSE mem[Hdr(b)]
  /\ \A u \in Tasks : u # t => /\ m[NextOf(<<u, 1>>)] = mem[NextOf(<<u, 1>>)]
                               /\ m[NextOf(<<u, 2>>)] = mem[NextOf(<<u, 2>>)]

LEMMA UnselectEffect ==
  ASSUME ChainsOK, DOMAIN mem = Addrs, NEW t \in Tasks, p_sb[t]
  PROVE  UnselEffect(t, Unselected(t))
<1> DEFINE i == <<t, 1>>
           j == <<t, 2>>
           a == NextOf(i)
           c == NextOf(j)
<1>1. ItemsOK(t) /\ i \in Items /\ j \in Items /\ i # j
  BY ItemFacts DEF ChainsOK
<1>2. a \in Addrs /\ c \in Addrs /\ a # c
  BY <1>1, AddrFacts
<1>3. \A u \in Tasks : u # t => /\ NextOf(<<u, 1>>) \notin {a, c}
                                /\ NextOf(<<u, 2>>) \notin {a, c}
  BY AddrFacts, ItemFacts
<1>a. s_count[t] \in 0 .. 2
  BY <1>1 DEF ItemsOK
<1>b. i # Nil /\ j # Nil
  BY <1>1, NilAssumption
<1>c. \A b \in Bufs : mem[Hdr(b)] # Nil =>
        \E u \in Tasks, n \in {1, 2} :
          mem[Hdr(b)] = <<u, n>> /\ prev[<<u, n>>] = Hdr(b) /\ n <= s_count[u]
  BY DEF ChainsOK, HdrOK
<1>4. \A b \in Bufs : mem[Hdr(b)] = i => prev[i] = Hdr(b) /\ s_count[t] >= 1
  <2> SUFFICES ASSUME NEW b \in Bufs, mem[Hdr(b)] = i PROVE prev[i] = Hdr(b) /\ s_count[t] >= 1
    OBVIOUS
  <2>1. PICK u \in Tasks, n \in {1, 2} :
          mem[Hdr(b)] = <<u, n>> /\ prev[<<u, n>>] = Hdr(b) /\ n <= s_count[u]
    BY <1>b, <1>c
  <2>2. u = t /\ n = 1
    BY <2>1
  <2> QED BY <2>1, <2>2
<1>5. \A b \in Bufs : mem[Hdr(b)] = j => prev[j] = Hdr(b) /\ s_count[t] = 2
  <2> SUFFICES ASSUME NEW b \in Bufs, mem[Hdr(b)] = j PROVE prev[j] = Hdr(b) /\ s_count[t] = 2
    OBVIOUS
  <2>1. PICK u \in Tasks, n \in {1, 2} :
          mem[Hdr(b)] = <<u, n>> /\ prev[<<u, n>>] = Hdr(b) /\ n <= s_count[u]
    BY <1>b, <1>c
  <2>2. u = t /\ n = 2
    BY <2>1
  <2> QED BY <1>a, <2>1, <2>2
<1>6. \A b \in Bufs : \A x : Hdr(b) \in Addrs /\ Hdr(b) # NextOf(x)
  BY AddrFacts
<1>7. \A b, d \in Bufs : Hdr(b) = Hdr(d) => b = d
  BY AddrFacts
<1>8. CASE s_count[t] = 0
  <2>1. Unselected(t) = mem
    BY <1>a, <1>8, UnselCount
  <2>2. \A b \in Bufs : ~OwnItem(t, mem[Hdr(b)])
    BY <1>4, <1>5, <1>8 DEF OwnItem
  <2> QED BY <2>1, <2>2 DEF UnselEffect
<1>9. CASE s_count[t] = 1
  <2> DEFINE m == [mem EXCEPT ![prev[i]] = mem[a]]
  <2>1. Unselected(t) = m
    <3>1. Unselected(t) = Unlinked(mem, i)
      BY <1>a, <1>9, UnselCount
    <3> QED BY <3>1 DEF Unlinked
  <2>a. \A u \in Tasks : NextOf(<<u, 1>>) \in Addrs /\ NextOf(<<u, 2>>) \in Addrs
    BY AddrFacts, ItemFacts
  <2>2. CASE prev[i] = a
    <3>1. DOMAIN m = Addrs /\ \A x \in Addrs : m[x] = mem[x]
      BY <2>2
    <3>2. \A b \in Bufs : ~OwnItem(t, mem[Hdr(b)])
      BY <1>4, <1>5, <1>6, <1>9, <2>2 DEF OwnItem
    <3> QED BY <1>6, <2>1, <2>a, <3>1, <3>2 DEF UnselEffect
  <2>3. ASSUME NEW d \in Bufs, prev[i] = Hdr(d), mem[Hdr(d)] = i, mem[a] = Nil
        PROVE  UnselEffect(t, Unselected(t))
    <3>1. \A b \in Bufs : OwnItem(t, mem[Hdr(b)]) <=> b = d
      BY <1>4, <1>5, <1>6, <1>7, <1>9, <2>3 DEF OwnItem
    <3>2. \A x \in Addrs : m[x] = IF x = Hdr(d) THEN Nil ELSE mem[x]
      BY <2>3
    <3> QED BY <1>6, <1>7, <2>1, <2>a, <3>1, <3>2 DEF UnselEffect
  <2> QED BY <1>1, <1>9, <2>2, <2>3 DEF ItemsOK, Self, AtHead
<1>10. CASE s_count[t] = 2
  <2> DEFINE m == [mem EXCEPT ![prev[i]] = mem[a]]
             n == [m EXCEPT ![prev[j]] = m[c]]
  <2>1. Unselected(t) = n
    BY <1>a, <1>10, UnselCount DEF Unlinked
  <2>a. \A u \in Tasks : NextOf(<<u, 1>>) \in Addrs /\ NextOf(<<u, 2>>) \in Addrs
    BY AddrFacts, ItemFacts
  <2>2. ASSUME NEW d \in Bufs, prev[j] = Hdr(d), mem[Hdr(d)] = j,
               prev[i] = c, mem[c] = i, mem[a] = Nil
        PROVE  UnselEffect(t, Unselected(t))
    <3>1. \A b \in Bufs : OwnItem(t, mem[Hdr(b)]) <=> b = d
      BY <1>4, <1>5, <1>6, <1>7, <2>2 DEF OwnItem
    <3>2. \A x \in Addrs : m[x] = IF x = c THEN Nil ELSE mem[x]
      BY <2>2
    <3>3. \A x \in Addrs : n[x] = IF x \in {Hdr(d), c} THEN Nil ELSE mem[x]
      BY <1>2, <2>2, <3>2
    <3> QED BY <1>3, <1>6, <1>7, <2>1, <2>a, <3>1, <3>3 DEF UnselEffect
  <2>3. CASE prev[i] = a /\ prev[j] = c
    <3>1. DOMAIN m = Addrs /\ \A x \in Addrs : m[x] = mem[x]
      BY <2>3
    <3>3. DOMAIN n = Addrs /\ \A x \in Addrs : n[x] = mem[x]
      BY <1>2, <2>3, <3>1
    <3>2. \A b \in Bufs : ~OwnItem(t, mem[Hdr(b)])
      BY <1>4, <1>5, <1>6, <2>3 DEF OwnItem
    <3> QED BY <1>6, <2>1, <2>a, <3>2, <3>3 DEF UnselEffect
  <2>4. ASSUME NEW d \in Bufs, prev[i] = Hdr(d), mem[Hdr(d)] = i, mem[a] = Nil, prev[j] = c
        PROVE  UnselEffect(t, Unselected(t))
    <3>1. \A b \in Bufs : OwnItem(t, mem[Hdr(b)]) <=> b = d
      BY <1>4, <1>5, <1>6, <1>7, <2>4 DEF OwnItem
    <3>2. \A x \in Addrs : m[x] = IF x = Hdr(d) THEN Nil ELSE mem[x]
      BY <2>4
    <3>3. DOMAIN n = Addrs /\ \A x \in Addrs : n[x] = m[x]
      BY <1>2, <1>6, <2>4
    <3> QED BY <1>6, <1>7, <2>1, <2>a, <3>1, <3>2, <3>3 DEF UnselEffect
  <2>5. ASSUME NEW d \in Bufs, prev[j] = Hdr(d), mem[Hdr(d)] = j, mem[c] = Nil, prev[i] = a
        PROVE  UnselEffect(t, Unselected(t))
    <3>1. \A b \in Bufs : OwnItem(t, mem[Hdr(b)]) <=> b = d
      BY <1>4, <1>5, <1>6, <1>7, <2>5 DEF OwnItem
    <3>2. DOMAIN m = Addrs /\ \A x \in Addrs : m[x] = mem[x]
      BY <2>5
    <3>3. \A x \in Addrs : n[x] = IF x = Hdr(d) THEN Nil ELSE mem[x]
      BY <1>2, <2>5, <3>2
    <3> QED BY <1>6, <1>7, <2>1, <2>a, <3>1, <3>3 DEF UnselEffect
  <2>6. ASSUME NEW d \in Bufs, prev[i] = Hdr(d), mem[Hdr(d)] = i, mem[a] = Nil,
               NEW e \in Bufs, prev[j] = Hdr(e), mem[Hdr(e)] = j, mem[c] = Nil
        PROVE  UnselEffect(t, Unselected(t))
    <3>1. \A b \in Bufs : OwnItem(t, mem[Hdr(b)]) <=> b = d \/ b = e
      BY <1>4, <1>5, <1>6, <1>7, <2>6 DEF OwnItem
    <3>2. \A x \in Addrs : m[x] = IF x = Hdr(d) THEN Nil ELSE mem[x]
      BY <2>6
    <3>3. m[c] = Nil
      BY <1>2, <2>6, <3>2
    <3>4. \A x \in Addrs : n[x] = IF x \in {Hdr(d), Hdr(e)} THEN Nil ELSE mem[x]
      BY <2>6, <3>2, <3>3
    <3> QED BY <1>6, <1>7, <2>1, <2>a, <3>1, <3>4 DEF UnselEffect
  <2>7. prev[i] = a \/ (AtHead(i) /\ mem[a] = Nil) \/ Behind(i, j)
    BY <1>1, <1>10 DEF ItemsOK, Self
  <2>8. prev[j] = c \/ (AtHead(j) /\ mem[c] = Nil) \/ Behind(i, j)
    BY <1>1, <1>10 DEF ItemsOK, Self
  <2>9. Behind(i, j) => UnselEffect(t, Unselected(t))
    BY <2>2 DEF Behind, AtHead
  <2> QED BY <2>3, <2>4, <2>5, <2>6, <2>7, <2>8, <2>9 DEF AtHead
<1> QED BY <1>a, <1>8, <1>9, <1>10

-----------------------------------------------------------------------------
(* What keeps the chains.                                                  *)

\* A task whose items and whose heads are left alone.
LEMMA ItemsSame ==
  ASSUME NEW u \in Tasks, ItemsOK(u), s_count'[u] = s_count[u],
         prev'[<<u, 1>>] = prev[<<u, 1>>], prev'[<<u, 2>>] = prev[<<u, 2>>],
         mem'[NextOf(<<u, 1>>)] = mem[NextOf(<<u, 1>>)],
         mem'[NextOf(<<u, 2>>)] = mem[NextOf(<<u, 2>>)],
         \A b \in Bufs : OwnItem(u, mem[Hdr(b)]) => mem'[Hdr(b)] = mem[Hdr(b)]
  PROVE  ItemsOK(u)'
<1>1. \A n \in {1, 2} : AtHead(<<u, n>>) => AtHead(<<u, n>>)'
  BY DEF AtHead, OwnItem
<1>2. Behind(<<u, 1>>, <<u, 2>>) => Behind(<<u, 1>>, <<u, 2>>)'
  BY <1>1 DEF Behind
<1>3. \A n \in {1, 2} : Self(<<u, n>>) => Self(<<u, n>>)'
  BY DEF Self
<1> QED BY <1>1, <1>2, <1>3 DEF ItemsOK

\* A header that is left alone.
LEMMA HdrSame ==
  ASSUME NEW b \in Bufs, HdrOK(b), mem'[Hdr(b)] = mem[Hdr(b)],
         \A t \in Tasks, n \in {1, 2} : OnChain(b, t, n) =>
           /\ prev'[<<t, n>>] = prev[<<t, n>>]
           /\ p_sb'[t] /\ n <= s_count'[t] /\ watch'[t] = watch[t]
  PROVE  HdrOK(b)'
<1> SUFFICES ASSUME mem'[Hdr(b)] # Nil PROVE HdrOK(b)'
  BY DEF HdrOK
<1>1. PICK t \in Tasks, n \in {1, 2} : OnChain(b, t, n)
  BY DEF HdrOK, OnChain
<1> QED BY <1>1 DEF HdrOK, OnChain, Watches

\* The calls in progress watch buffers of their own.
LEMMA SoleSelector ==
  ASSUME OneSelector, NEW t \in Tasks, NEW u \in Tasks, watch[t] \in Watch[t],
         watch[u] \in Watch[u], NEW b, Watches(t, b), Watches(u, b)
  PROVE  t = u
BY DEF OneSelector, Watches, Range

LEMMA EnterStep ==
  ASSUME OneSelector, ChainsOK, DOMAIN mem = Addrs, DOMAIN prev = Items,
         s_count \in [Tasks -> Nat], \A u \in Tasks : p_sb[u] => watch[u] \in Watch[u],
         NEW t \in Tasks, p_sb[t], s_count[t] \in {0, 1}, NEW b \in Bufs, Watches(t, b),
         Enter(t, b), p_sb' = p_sb, watch' = watch
  PROVE  /\ ChainsOK' /\ DOMAIN mem' = Addrs /\ DOMAIN prev' = Items
         /\ s_count' = [s_count EXCEPT ![t] = @ + 1]
         /\ mem'[Hdr(b)] # Nil
         /\ \A c \in Bufs : c # b => mem'[Hdr(c)] = mem[Hdr(c)]
<1> DEFINE i == <<t, s_count[t] + 1>>
           n == mem[Hdr(b)]
<1>1. i \in Items /\ i # Nil
  <2>1. i = <<t, 1>> \/ i = <<t, 2>>
    OBVIOUS
  <2>2. i \in Items
    BY <2>1, ItemFacts
  <2> QED BY <2>2, NilAssumption
<1>2. Hdr(b) \in Addrs /\ NextOf(i) \in Addrs /\ Hdr(b) # NextOf(i)
  BY <1>1, AddrFacts
<1>3. n # Nil => n = <<t, 1>> /\ s_count[t] = 1 /\ prev[<<t, 1>>] = Hdr(b)
  <2> SUFFICES ASSUME n # Nil PROVE n = <<t, 1>> /\ s_count[t] = 1 /\ prev[<<t, 1>>] = Hdr(b)
    OBVIOUS
  <2>1. PICK u \in Tasks, k \in {1, 2} : OnChain(b, u, k)
    BY DEF ChainsOK, HdrOK, OnChain
  <2>2. u = t
    BY <2>1, SoleSelector DEF OnChain
  <2> QED BY <2>1, <2>2 DEF OnChain
<1>4. n # i /\ (n # Nil => n \in Items)
  BY <1>1, <1>3, ItemFacts
<1>5. /\ DOMAIN mem' = Addrs
      /\ \A x \in Addrs : mem'[x] = IF x = Hdr(b) THEN i ELSE IF x = NextOf(i) THEN n ELSE mem[x]
  BY <1>2 DEF Enter
<1>6. /\ DOMAIN prev' = Items
      /\ \A x \in Items : prev'[x] = IF x = i THEN Hdr(b)
                                     ELSE IF x = n THEN NextOf(i) ELSE prev[x]
  <2>1. CASE n = Nil
    BY <1>1, <2>1, NilAssumption DEF Enter
  <2>2. CASE n # Nil
    BY <1>1, <1>4, <2>2 DEF Enter
  <2> QED BY <2>1, <2>2
<1>7. s_count' = [s_count EXCEPT ![t] = @ + 1]
  BY DEF Enter
<1> HIDE DEF i, n
<1>8. \A c \in Bufs : /\ Hdr(c) \in Addrs /\ (Hdr(c) = Hdr(b) => c = b)
                      /\ Hdr(c) # NextOf(i)
  BY AddrFacts
<1>9. mem'[Hdr(b)] = i /\ \A c \in Bufs : c # b => mem'[Hdr(c)] = mem[Hdr(c)]
  BY <1>2, <1>5, <1>8
<1>10. ASSUME NEW c \in Bufs PROVE HdrOK(c)'
  <2>1. CASE c = b
    <3>1. t \in Tasks /\ s_count[t] + 1 \in {1, 2} /\ s_count[t] + 1 <= s_count'[t]
      BY <1>7
    <3>2. mem'[Hdr(b)] = <<t, s_count[t] + 1>> /\ prev'[<<t, s_count[t] + 1>>] = Hdr(b)
      BY <1>1, <1>6, <1>9 DEF i
    <3> QED BY <2>1, <3>1, <3>2 DEF HdrOK, Watches
  <2>2. CASE c # b
    <3>1. ASSUME NEW u \in Tasks, NEW k \in {1, 2}, OnChain(c, u, k)
          PROVE  /\ prev'[<<u, k>>] = prev[<<u, k>>]
                 /\ p_sb'[u] /\ k <= s_count'[u] /\ watch'[u] = watch[u]
      <4>1. <<u, k>> # i
        BY <3>1, ItemFacts DEF i, OnChain
      <4>2. <<u, k>> # n
        <5>1. <<u, k>> # Nil
          <6>1. <<u, k>> \in Items
            BY ItemFacts
          <6> QED BY <6>1, NilAssumption
        <5>2. <<u, k>> = <<t, 1>> => u = t /\ k = 1
          BY ItemFacts
        <5> QED BY <1>3, <1>8, <2>2, <3>1, <5>1, <5>2 DEF OnChain
      <4>3. <<u, k>> \in Items
        BY ItemFacts
      <4>4. k <= s_count[u] /\ s_count[u] \in Nat /\ s_count'[u] \in {s_count[u], s_count[u] + 1}
        BY <1>7, <3>1 DEF OnChain
      <4>5. k <= s_count'[u]
        BY <4>4
      <4> QED BY <1>6, <3>1, <4>1, <4>2, <4>3, <4>5 DEF OnChain
    <3> QED BY <1>9, <2>2, <3>1, HdrSame DEF ChainsOK
  <2> QED BY <2>1, <2>2
<1>11. ASSUME NEW u \in Tasks, u # t, p_sb[u] PROVE ItemsOK(u)'
  <2>1. <<u, 1>> \notin {i, n} /\ <<u, 2>> \notin {i, n} /\ n \notin {<<u, 1>>, <<u, 2>>}
    <3>1. <<u, 1>> # Nil /\ <<u, 2>> # Nil
      BY ItemFacts, NilAssumption, ZenonT(60)
    <3>2. <<u, 1>> # <<t, 1>> /\ <<u, 2>> # <<t, 1>> /\ <<u, 1>> # i /\ <<u, 2>> # i
      BY <1>11, ItemFacts DEF i
    <3> QED BY <1>3, <3>1, <3>2
  <2>2. /\ NextOf(<<u, 1>>) \in Addrs /\ NextOf(<<u, 2>>) \in Addrs
        /\ NextOf(<<u, 1>>) \notin {Hdr(b), NextOf(i)}
        /\ NextOf(<<u, 2>>) \notin {Hdr(b), NextOf(i)}
    BY <2>1, AddrFacts, ItemFacts
  <2>3. \A c \in Bufs : OwnItem(u, mem[Hdr(c)]) => mem'[Hdr(c)] = mem[Hdr(c)]
    BY <1>9, <2>1 DEF OwnItem, n
  <2>4. s_count'[u] = s_count[u] /\ ItemsOK(u)
    BY <1>7, <1>11 DEF ChainsOK
  <2>5. prev'[<<u, 1>>] = prev[<<u, 1>>] /\ prev'[<<u, 2>>] = prev[<<u, 2>>]
    BY <1>6, <2>1, ItemFacts
  <2>6. /\ mem'[NextOf(<<u, 1>>)] = mem[NextOf(<<u, 1>>)]
        /\ mem'[NextOf(<<u, 2>>)] = mem[NextOf(<<u, 2>>)]
    BY <1>5, <2>2
  <2> QED BY <2>3, <2>4, <2>5, <2>6, ItemsSame
<1>12. ItemsOK(t)'
  <2>a. /\ <<t, 1>> \in Items /\ <<t, 2>> \in Items /\ <<t, 1>> # <<t, 2>>
        /\ NextOf(<<t, 1>>) \in Addrs /\ NextOf(<<t, 2>>) \in Addrs
        /\ NextOf(<<t, 1>>) # NextOf(<<t, 2>>)
        /\ NextOf(<<t, 1>>) # Hdr(b) /\ NextOf(<<t, 2>>) # Hdr(b)
    BY AddrFacts, ItemFacts
  <2>b. ItemsOK(t)
    BY DEF ChainsOK
  <2>1. CASE s_count[t] = 0
    <3>1. i = <<t, 1>> /\ n = Nil /\ s_count'[t] = 1
      BY <1>3, <1>7, <2>1 DEF i
    <3>2. prev'[<<t, 1>>] = Hdr(b) /\ mem'[Hdr(b)] = <<t, 1>> /\ mem'[NextOf(<<t, 1>>)] = Nil
      BY <1>5, <1>6, <1>9, <2>a, <3>1
    <3> QED BY <3>1, <3>2 DEF ItemsOK, AtHead
  <2>2. CASE s_count[t] = 1 /\ n = Nil
    <3>1. i = <<t, 2>> /\ s_count'[t] = 2
      BY <1>7, <2>2 DEF i
    <3>2. /\ prev'[<<t, 2>>] = Hdr(b) /\ mem'[Hdr(b)] = <<t, 2>> /\ mem'[NextOf(<<t, 2>>)] = Nil
          /\ prev'[<<t, 1>>] = prev[<<t, 1>>] /\ mem'[NextOf(<<t, 1>>)] = mem[NextOf(<<t, 1>>)]
      BY <1>1, <1>5, <1>6, <1>9, <2>a, <2>2, <3>1, NilAssumption
    <3>3. Self(<<t, 1>>) => Self(<<t, 1>>)'
      BY <3>2 DEF Self
    <3>4. AtHead(<<t, 1>>) => AtHead(<<t, 1>>)'
      <4>1. <<t, 1>> # Nil
        BY <2>a, NilAssumption
      <4> QED BY <1>9, <2>2, <3>2, <4>1 DEF AtHead, n
    <3> QED BY <2>b, <2>2, <3>1, <3>2, <3>3, <3>4 DEF ItemsOK, AtHead
  <2>3. CASE n # Nil
    <3>1. i = <<t, 2>> /\ s_count'[t] = 2 /\ n = <<t, 1>> /\ s_count[t] = 1
      BY <1>3, <1>7, <2>3 DEF i
    <3>2. mem[NextOf(<<t, 1>>)] = Nil
      BY <1>3, <2>3, <2>b, <2>a, <3>1 DEF ItemsOK, Self
    <3>3. /\ prev'[<<t, 2>>] = Hdr(b) /\ mem'[Hdr(b)] = <<t, 2>>
          /\ mem'[NextOf(<<t, 2>>)] = <<t, 1>> /\ prev'[<<t, 1>>] = NextOf(<<t, 2>>)
          /\ mem'[NextOf(<<t, 1>>)] = Nil
      BY <1>1, <1>5, <1>6, <1>9, <2>a, <3>1, <3>2
    <3> QED BY <3>1, <3>3 DEF ItemsOK, AtHead, Behind
  <2> QED BY <2>1, <2>2, <2>3
<1> QED BY <1>1, <1>5, <1>6, <1>7, <1>9, <1>10, <1>11, <1>12 DEF ChainsOK

\* What selwakeup does to a task that has an item on the chain, and to the chains.
Woke(t, b) == OwnItem(t, mem[Hdr(b)])
WakeEffect(b) ==
  /\ s_state' = [t \in Tasks |-> IF Woke(t, b) THEN "CLEAR" ELSE s_state[t]]
  /\ wchan' = [t \in Tasks |-> wchan[t] /\ ~(Woke(t, b) /\ s_state[t] = "WAITING")]
  /\ sig' = [t \in Tasks |-> IF Woke(t, b) /\ s_state[t] = "WAITING" /\ wchan[t]
                             THEN sig[t] \cup {"sleep"} ELSE sig[t]]

LEMMA WokenTasks ==
  ASSUME ChainsOK, NEW b \in Bufs
  PROVE  \A t \in Tasks : t \in {i[1] : i \in Chain(b)} <=> Woke(t, b)
<1>1. CASE mem[Hdr(b)] = Nil
  <2>1. \A t \in Tasks : ~Woke(t, b)
    <3>1. \A t \in Tasks : <<t, 1>> # Nil /\ <<t, 2>> # Nil
      <4>1. \A i \in Items : i # Nil
        BY NilAssumption
      <4> QED BY <4>1, ItemFacts
    <3> QED BY <1>1, <3>1 DEF Woke, OwnItem
  <2> QED BY <1>1, <2>1, ChainNone
<1>2. ASSUME NEW u \in Tasks, NEW n \in {1, 2}, Alone(b, u, n)
      PROVE  \A t \in Tasks : t \in {i[1] : i \in Chain(b)} <=> Woke(t, b)
  <2>1. Chain(b) = {<<u, n>>} /\ mem[Hdr(b)] = <<u, n>>
    BY <1>2, ChainAlone DEF Alone, OnChain
  <2>2. {i[1] : i \in Chain(b)} = {u}
    BY <2>1
  <2>3. \A t \in Tasks : Woke(t, b) <=> t = u
    BY <2>1 DEF Woke, OwnItem
  <2> QED BY <2>2, <2>3
<1>3. ASSUME NEW u \in Tasks, Both(b, u)
      PROVE  \A t \in Tasks : t \in {i[1] : i \in Chain(b)} <=> Woke(t, b)
  <2>1. Chain(b) = {<<u, 1>>, <<u, 2>>} /\ mem[Hdr(b)] = <<u, 2>>
    BY <1>3, ChainBoth DEF Both, OnChain
  <2>2. {i[1] : i \in Chain(b)} = {u}
    BY <2>1
  <2>3. \A t \in Tasks : Woke(t, b) <=> t = u
    BY <2>1 DEF Woke, OwnItem
  <2> QED BY <2>2, <2>3
<1> QED BY <1>1, <1>2, <1>3, ChainShape

LEMMA WakeTasks ==
  ASSUME ChainsOK, NEW b \in Bufs, SelWakeup(b)
  PROVE  WakeEffect(b)
<1> DEFINE woken == {i[1] : i \in Chain(b)}
           asleep == {t \in woken : s_state[t] = "WAITING" /\ wchan[t]}
<1>1. \A t \in Tasks : t \in woken <=> Woke(t, b)
  BY WokenTasks
<1>2. /\ s_state' = [t \in Tasks |-> IF t \in woken THEN "CLEAR" ELSE s_state[t]]
      /\ wchan' = [t \in Tasks |-> wchan[t] /\ t \notin asleep]
      /\ sig' = [t \in Tasks |-> IF t \in asleep THEN sig[t] \cup {"sleep"} ELSE sig[t]]
  BY DEF SelWakeup
<1>3. \A t \in Tasks : t \in asleep <=> Woke(t, b) /\ s_state[t] = "WAITING" /\ wchan[t]
  BY <1>1
<1> HIDE DEF woken, asleep
<1> QED BY <1>1, <1>2, <1>3 DEF WakeEffect

LEMMA WakeChains ==
  ASSUME ChainsOK, DOMAIN mem = Addrs, DOMAIN prev = Items, NEW b \in Bufs, SelWakeup(b),
         p_sb' = p_sb, s_count' = s_count, watch' = watch
  PROVE  /\ ChainsOK' /\ DOMAIN mem' = Addrs /\ DOMAIN prev' = Items
         /\ mem'[Hdr(b)] = Nil
         /\ \A c \in Bufs : c # b => mem'[Hdr(c)] = mem[Hdr(c)]
<1>1. /\ \A c \in Bufs : Hdr(c) \in Addrs /\ (Hdr(c) = Hdr(b) => c = b)
      /\ \A x : NextOf(x) # Hdr(b)
      /\ \A i \in Items : NextOf(i) \in Addrs
  BY AddrFacts
<1>2. mem' = [mem EXCEPT ![Hdr(b)] = Nil]
  BY DEF SelWakeup
<1>3. /\ DOMAIN mem' = Addrs /\ mem'[Hdr(b)] = Nil
      /\ \A c \in Bufs : c # b => mem'[Hdr(c)] = mem[Hdr(c)]
      /\ \A i \in Items : mem'[NextOf(i)] = mem[NextOf(i)]
  BY <1>1, <1>2
<1>4. /\ DOMAIN prev' = Items
      /\ \A i \in Items : prev'[i] = IF i \in Chain(b) THEN NextOf(i) ELSE prev[i]
  BY DEF SelWakeup
<1>5. \A i \in Chain(b) : prev[i] # Hdr(b) => \E x : prev[i] = NextOf(x)
  <2>1. ASSUME NEW t \in Tasks, NEW n \in {1, 2}, Alone(b, t, n) PROVE <1>5
    <3>1. Chain(b) = {<<t, n>>}
      BY <2>1, ChainAlone
    <3>2. prev[<<t, n>>] = Hdr(b)
      BY <2>1 DEF Alone, OnChain
    <3> QED BY <3>1, <3>2
  <2>2. ASSUME NEW t \in Tasks, Both(b, t) PROVE <1>5
    BY <2>2, ChainBoth DEF Both, OnChain, Behind
  <2> QED BY <2>1, <2>2, ChainNone, ChainShape
<1>6. ASSUME NEW c \in Bufs PROVE HdrOK(c)'
  <2>1. CASE c = b
    BY <1>3, <2>1 DEF HdrOK
  <2>2. CASE c # b
    <3>1. ASSUME NEW t \in Tasks, NEW n \in {1, 2}, OnChain(c, t, n)
          PROVE  /\ prev'[<<t, n>>] = prev[<<t, n>>]
                 /\ p_sb'[t] /\ n <= s_count'[t] /\ watch'[t] = watch[t]
      <4>1. <<t, n>> \in Items /\ prev[<<t, n>>] = Hdr(c)
        BY <3>1, ItemFacts DEF OnChain
      <4>2. Hdr(c) # Hdr(b) /\ \A x : Hdr(c) # NextOf(x)
        BY <2>2, AddrFacts
      <4>3. <<t, n>> \notin Chain(b)
        BY <1>5, <4>1, <4>2
      <4> QED BY <1>4, <3>1, <4>1, <4>3 DEF OnChain
    <3> QED BY <1>3, <2>2, <3>1, HdrSame DEF ChainsOK
  <2> QED BY <2>1, <2>2
<1>7. ASSUME NEW t \in Tasks, p_sb[t] PROVE ItemsOK(t)'
  <2>a. /\ <<t, 1>> \in Items /\ <<t, 2>> \in Items /\ <<t, 1>> # <<t, 2>>
        /\ \A u \in Tasks : u # t => \A n, m : <<u, n>> # <<t, m>>
    BY ItemFacts
  <2>b. ItemsOK(t)
    BY <1>7 DEF ChainsOK
  <2>1. CASE <<t, 1>> \notin Chain(b) /\ <<t, 2>> \notin Chain(b)
    <3>1. ~OwnItem(t, mem[Hdr(b)])
      <4>1. t \notin {i[1] : i \in Chain(b)}
        <5>1. \A i \in Chain(b) : \E u \in Tasks, n \in {1, 2} : i = <<u, n>>
          BY ChainItems
        <5> QED BY <2>1, <5>1
      <4> QED BY <4>1, WokenTasks DEF Woke
    <3>2. \A c \in Bufs : OwnItem(t, mem[Hdr(c)]) => mem'[Hdr(c)] = mem[Hdr(c)]
      BY <1>3, <3>1
    <3>3. prev'[<<t, 1>>] = prev[<<t, 1>>] /\ prev'[<<t, 2>>] = prev[<<t, 2>>]
      BY <1>4, <2>1, <2>a
    <3>4. /\ mem'[NextOf(<<t, 1>>)] = mem[NextOf(<<t, 1>>)]
          /\ mem'[NextOf(<<t, 2>>)] = mem[NextOf(<<t, 2>>)]
      BY <1>3, <2>a
    <3> QED BY <2>b, <3>2, <3>3, <3>4, ItemsSame
  <2>2. CASE <<t, 1>> \in Chain(b) \/ <<t, 2>> \in Chain(b)
    <3>1. CASE Both(b, t)
      <4>1. Self(<<t, 1>>)' /\ Self(<<t, 2>>)'
        BY <1>4, <2>a, <3>1, ChainBoth DEF Self
      <4> QED BY <2>b, <4>1 DEF ItemsOK
    <3>2. CASE Alone(b, t, 1)
      <4>1. Self(<<t, 1>>)' /\ prev'[<<t, 2>>] = prev[<<t, 2>>]
        BY <1>4, <2>a, <3>2, ChainAlone DEF Self
      <4>2. ~Behind(<<t, 1>>, <<t, 2>>)
        BY <1>1, <3>2 DEF Alone, OnChain, Behind
      <4>3. Self(<<t, 2>>) => Self(<<t, 2>>)'
        BY <4>1 DEF Self
      <4>4. AtHead(<<t, 2>>) /\ mem[NextOf(<<t, 2>>)] = Nil =>
              AtHead(<<t, 2>>)' /\ mem'[NextOf(<<t, 2>>)] = Nil
        BY <1>3, <2>a, <3>2, <4>1 DEF AtHead, Alone, OnChain
      <4> QED BY <2>b, <4>1, <4>2, <4>3, <4>4 DEF ItemsOK
    <3>3. CASE Alone(b, t, 2)
      <4>1. Self(<<t, 2>>)' /\ prev'[<<t, 1>>] = prev[<<t, 1>>]
        BY <1>4, <2>a, <3>3, ChainAlone DEF Self
      <4>2. ~Behind(<<t, 1>>, <<t, 2>>)
        BY <2>a, <3>3, NilAssumption DEF Alone, OnChain, Behind
      <4>3. Self(<<t, 1>>) => Self(<<t, 1>>)'
        BY <4>1 DEF Self
      <4>4. AtHead(<<t, 1>>) /\ mem[NextOf(<<t, 1>>)] = Nil =>
              AtHead(<<t, 1>>)' /\ mem'[NextOf(<<t, 1>>)] = Nil
        BY <1>3, <2>a, <3>3, <4>1 DEF AtHead, Alone, OnChain
      <4> QED BY <2>b, <4>1, <4>2, <4>3, <4>4 DEF ItemsOK
    <3>4. \A u \in Tasks, n \in {1, 2} : Alone(b, u, n) => u = t
      BY <2>2, ChainAlone
    <3>5. \A u \in Tasks : Both(b, u) => u = t
      BY <2>2, ChainBoth
    <3>6. mem[Hdr(b)] # Nil
      BY <2>2, ChainNone
    <3> QED BY <3>1, <3>2, <3>3, <3>4, <3>5, <3>6, ChainShape
  <2> QED BY <2>1, <2>2
<1> QED BY <1>3, <1>4, <1>6, <1>7 DEF ChainsOK

LEMMA UnselectStep ==
  ASSUME ChainsOK, DOMAIN mem = Addrs, p_sb \in [Tasks -> BOOLEAN],
         NEW t \in Tasks, p_sb[t], mem' = Unselected(t), prev' = prev,
         s_count' = s_count, watch' = watch, p_sb' = [p_sb EXCEPT ![t] = FALSE]
  PROVE  /\ ChainsOK' /\ DOMAIN mem' = Addrs
         /\ \A b \in Bufs : mem'[Hdr(b)] = IF OwnItem(t, mem[Hdr(b)]) THEN Nil ELSE mem[Hdr(b)]
<1>1. UnselEffect(t, mem')
  BY UnselectEffect
<1>2. ASSUME NEW b \in Bufs PROVE HdrOK(b)'
  <2>1. CASE OwnItem(t, mem[Hdr(b)])
    BY <1>1, <2>1 DEF UnselEffect, HdrOK
  <2>2. CASE ~OwnItem(t, mem[Hdr(b)])
    <3>1. mem'[Hdr(b)] = mem[Hdr(b)]
      BY <1>1, <2>2 DEF UnselEffect
    <3>2. ASSUME NEW u \in Tasks, NEW n \in {1, 2}, OnChain(b, u, n)
          PROVE  /\ prev'[<<u, n>>] = prev[<<u, n>>]
                 /\ p_sb'[u] /\ n <= s_count'[u] /\ watch'[u] = watch[u]
      BY <2>2, <3>2 DEF OnChain, OwnItem
    <3> QED BY <3>1, <3>2, HdrSame DEF ChainsOK
  <2> QED BY <2>1, <2>2
<1>3. ASSUME NEW u \in Tasks, p_sb'[u] PROVE ItemsOK(u)'
  <2>1. u # t /\ p_sb[u]
    BY <1>3
  <2>2. \A n, m : <<u, n>> # <<t, m>>
    BY <2>1, ItemFacts
  <2>3. \A b \in Bufs : OwnItem(u, mem[Hdr(b)]) => mem'[Hdr(b)] = mem[Hdr(b)]
    BY <1>1, <2>2 DEF UnselEffect, OwnItem
  <2> QED BY <1>1, <2>1, <2>3, ItemsSame DEF UnselEffect, ChainsOK
<1> QED BY <1>1, <1>2, <1>3 DEF ChainsOK, UnselEffect

LEMMA ChainsSame ==
  ASSUME ChainsOK, mem' = mem, prev' = prev,
         \A u \in Tasks : p_sb[u] => /\ p_sb'[u] /\ s_count'[u] = s_count[u]
                                     /\ watch'[u] = watch[u],
         \A u \in Tasks : p_sb'[u] => p_sb[u] \/ s_count'[u] = 0
  PROVE  ChainsOK'
<1>1. ASSUME NEW b \in Bufs PROVE HdrOK(b)'
  <2>1. \A u \in Tasks, n \in {1, 2} : OnChain(b, u, n) =>
           /\ prev'[<<u, n>>] = prev[<<u, n>>]
           /\ p_sb'[u] /\ n <= s_count'[u] /\ watch'[u] = watch[u]
    BY DEF OnChain
  <2> QED BY <2>1, HdrSame DEF ChainsOK
<1>2. ASSUME NEW u \in Tasks, p_sb'[u] PROVE ItemsOK(u)'
  <2>1. CASE p_sb[u]
    BY <2>1, ItemsSame DEF ChainsOK
  <2>2. CASE s_count'[u] = 0
    BY <2>2 DEF ItemsOK
  <2> QED BY <1>2, <2>1, <2>2
<1> QED BY <1>1, <1>2 DEF ChainsOK

-----------------------------------------------------------------------------
(* A step of one task, as the others see it.                               *)

LocalSame(u) ==
  /\ pc'[u] = pc[u] /\ watch'[u] = watch[u] /\ idx'[u] = idx[u] /\ found'[u] = found[u]
  /\ p_sb'[u] = p_sb[u] /\ s_state'[u] = s_state[u] /\ s_count'[u] = s_count[u]
  /\ sc_ready'[u] = sc_ready[u] /\ timer'[u] = timer[u] /\ wchan'[u] = wchan[u]
  /\ sig'[u] = sig[u] /\ error'[u] = error[u]

Contending == {"selenter", "check", "unselect"}
QueueKept(t) == \A u \in Tasks : u # t =>
  (Ahead(u, Net) => Ahead(u, Net)') /\ (Ahead(Net, u) => Ahead(Net, u)')
HeadsKept(t) == \A u \in Tasks, b \in Bufs : u # t /\ p_sb[u] /\ Watches(u, b) =>
  (mem[Hdr(b)] # Nil => mem'[Hdr(b)] # Nil)
BufsKept == ready' = ready /\ netbuf' = netbuf /\ \A b \in Bufs : sbsel[b] => sbsel'[b]

LEMMA SemSame ==
  ASSUME SemOK, NEW t \in Tasks, sem' = sem, netbuf' = netbuf,
         \A u \in Tasks : pc'[u] \in Contending <=> pc[u] \in Contending
  PROVE  SemOK' /\ QueueKept(t)
<1>1. SemWF' /\ \A x : Contends(x)' <=> Contends(x)
  BY DEF SemOK, SemWF, Contends, Free
<1>2. QueueKept(t)
  BY DEF QueueKept, Ahead
<1> QED BY <1>1, <1>2 DEF SemOK, Contending

LEMMA SemObtain ==
  ASSUME SemOK, NEW t \in Tasks, Obtain(t), netbuf' = netbuf,
         pc[t] \notin Contending, pc'[t] \in Contending,
         \A u \in Tasks : u # t => pc'[u] = pc[u]
  PROVE  SemOK' /\ QueueKept(t) /\ (netbuf # Nil => Ahead(Net, t)')
<1>1. t \in Agents /\ Net \in Agents /\ Tasks \subseteq Agents /\ t # Net
  BY TaskAssumption DEF Agents
<1>2. ~Contends(t)
  BY DEF SemOK, Contending
<1>3. /\ SemWF'
      /\ \A y \in Agents : Contends(y)' <=> Contends(y) \/ y = t
      /\ \A y, z \in Agents : Ahead(y, z) => Ahead(y, z)'
      /\ \A y \in Agents : Contends(y) => Ahead(y, t)'
  BY <1>1, <1>2, ObtainStep DEF SemOK
<1> QED BY <1>1, <1>3 DEF SemOK, Contending, QueueKept

LEMMA SemRelease ==
  ASSUME SemOK, NEW t \in Tasks, Release, sem.owner = t, netbuf' = netbuf,
         pc'[t] \notin Contending, \A u \in Tasks : u # t => pc'[u] = pc[u]
  PROVE  SemOK' /\ QueueKept(t)
<1>1. t \in Agents /\ Net \in Agents /\ Tasks \subseteq Agents /\ t # Net
  BY TaskAssumption DEF Agents
<1>2. /\ SemWF'
      /\ \A y \in Agents : Contends(y)' <=> Contends(y) /\ y # t
      /\ \A y, z \in Agents : y # t /\ Ahead(y, z) => Ahead(y, z)'
  BY <1>1, ReleaseStep DEF SemOK
<1> QED BY <1>1, <1>2 DEF SemOK, Contending, QueueKept

LEMMA OtherTask ==
  ASSUME SelectInv, NEW t \in Tasks, NEW u \in Tasks, u # t,
         LocalSame(u), QueueKept(t), HeadsKept(t), BufsKept
  PROVE  TaskOK(u)'
<1>1. TaskOK(u)
  BY DEF SelectInv
<1>a. InCall(u) => watch[u] \in Watch[u]
  BY <1>1 DEF TaskOK, CallOK
<1>b. InCall(u) => \A n \in DOMAIN watch[u] : watch[u][n] \in Bufs
  BY <1>a, WatchFacts
<1>2. CallOK(u)'
  BY <1>1 DEF TaskOK, CallOK, LocalSame, InCall
<1>3. Asked(u)'
  BY <1>1, <1>b DEF TaskOK, Asked, LocalSame, BufsKept, InCall
<1>4. Linked(u)'
  <2>1. p_sb[u] => InCall(u)
    BY <1>1 DEF TaskOK, CallOK
  <2> QED BY <1>1, <1>b, <2>1 DEF TaskOK, Linked, LocalSame, BufsKept, HeadsKept, Watches
<1>5. Tested(u)'
  BY <1>1 DEF TaskOK, Tested, LocalSame, BufsKept, QueueKept, Current
<1>6. Woken(u)'
  BY <1>1 DEF TaskOK, Woken, LocalSame, BufsKept, Asleep, SomeReady, InCall
<1> QED BY <1>2, <1>3, <1>4, <1>5, <1>6 DEF TaskOK

\* What a step of task t has to show.
LEMMA OneTask ==
  ASSUME SelectInv, NEW t \in Tasks, SelectTypes', SemOK', ChainsOK',
         \A u \in Tasks : u # t => LocalSame(u), QueueKept(t), HeadsKept(t), BufsKept,
         netbuf # Nil /\ ~ready[netbuf] => mem'[Hdr(netbuf)] = Nil,
         CallOK(t)', Asked(t)', Linked(t)', Tested(t)', Woken(t)'
  PROVE  SelectInv'
<1>1. Stale'
  BY DEF Stale, BufsKept
<1>2. \A u \in Tasks : TaskOK(u)'
  BY OtherTask DEF TaskOK
<1> QED BY <1>1, <1>2 DEF SelectInv

-----------------------------------------------------------------------------
(* The steps of a task.                                                    *)

LEMMA Own ==
  ASSUME SelectInv, NEW t \in Tasks
  PROVE  /\ SelectTypes /\ SemOK /\ ChainsOK /\ Stale
         /\ CallOK(t) /\ Asked(t) /\ Linked(t) /\ Tested(t) /\ Woken(t)
         /\ InCall(t) => /\ watch[t] \in Watch[t] /\ Len(watch[t]) \in {1, 2}
                         /\ DOMAIN watch[t] = 1 .. Len(watch[t])
                         /\ \A n \in DOMAIN watch[t] : watch[t][n] \in Bufs
         /\ idx[t] \in Nat /\ s_count[t] \in Nat
BY WatchFacts DEF SelectInv, TaskOK, CallOK, SelectTypes

\* Where the chains, the semaphore and the buffers are left alone.
LEMMA QuietStep ==
  ASSUME SelectInv, NEW t \in Tasks, UNCHANGED <<mem, prev, sem, netbuf, ready>>,
         \A b \in Bufs : sbsel[b] => sbsel'[b], SelectTypes',
         pc[t] \notin Contending /\ pc'[t] \notin Contending,
         \A u \in Tasks : u # t => LocalSame(u),
         p_sb[t] => p_sb'[t] /\ s_count'[t] = s_count[t] /\ watch'[t] = watch[t],
         p_sb'[t] => p_sb[t] \/ s_count'[t] = 0,
         CallOK(t)', Asked(t)', Linked(t)', Woken(t)'
  PROVE  SelectInv'
<1>1. SelectTypes /\ SemOK /\ ChainsOK /\ Stale
  BY DEF SelectInv
<1>2. \A u \in Tasks : u # t => /\ p_sb'[u] = p_sb[u] /\ s_count'[u] = s_count[u]
                                /\ watch'[u] = watch[u] /\ pc'[u] = pc[u]
  BY DEF LocalSame
<1>3. SemOK' /\ QueueKept(t)
  BY <1>1, <1>2, SemSame
<1>4. ChainsOK'
  BY <1>1, <1>2, ChainsSame
<1>5. HeadsKept(t) /\ BufsKept
  BY DEF HeadsKept, BufsKept
<1>6. netbuf # Nil /\ ~ready[netbuf] => mem'[Hdr(netbuf)] = Nil
  BY <1>1 DEF Stale
<1>7. Tested(t)'
  BY DEF Tested, Contending
<1> QED BY <1>3, <1>4, <1>5, <1>6, <1>7, OneTask

LEMMA SelectCallKeeps ==
  ASSUME SelectInv, NEW t \in Tasks, SelectCall(t)
  PROVE  SelectInv'
<1> USE DEF SelectCall, StartScan, Goto, chainVars, bufVars
<1>1. SelectTypes /\ CallOK(t)
  BY Own
<1>2. PICK w \in Watch[t] : watch' = [watch EXCEPT ![t] = w]
  OBVIOUS
<1>3. w \in Seq(Bufs) /\ Len(w) \in 1 .. 2 /\ DOMAIN w = 1 .. Len(w)
  BY WatchAssumption DEF MaxItems
<1>4. SelectTypes'
  BY <1>1 DEF SelectTypes, Places
<1>5. /\ pc[t] = "user" /\ pc'[t] = "scan" /\ ~p_sb[t] /\ ~p_sb'[t] /\ idx'[t] = 1
      /\ watch'[t] = w /\ error'[t] = "ok" /\ ~sc_ready'[t] /\ timer[t] = "idle"
      /\ timer' = timer
  BY <1>1, <1>2 DEF SelectTypes, CallOK, InCall
<1>6. \A u \in Tasks : u # t => LocalSame(u)
  BY <1>1, <1>2 DEF SelectTypes, LocalSame
<1>7. CallOK(t)'
  BY <1>3, <1>5 DEF CallOK, InCall
<1>8. Asked(t)' /\ Linked(t)'
  BY <1>3, <1>5 DEF Asked, Linked
<1>9. Woken(t)'
  BY <1>5 DEF Woken, Asleep
<1> QED BY <1>4, <1>5, <1>6, <1>7, <1>8, <1>9, QuietStep DEF Contending

LEMMA ScanReadyKeeps ==
  ASSUME SelectInv, NEW t \in Tasks, ScanReady(t)
  PROVE  SelectInv'
<1> USE DEF ScanReady, Scanning, Advance, chainVars, bufVars, sleepVars
<1>1. /\ SelectTypes /\ CallOK(t) /\ Asked(t) /\ Linked(t) /\ Woken(t)
      /\ Len(watch[t]) \in {1, 2} /\ DOMAIN watch[t] = 1 .. Len(watch[t])
      /\ idx[t] \in Nat /\ s_count[t] \in Nat
  BY Own DEF InCall
<1>2. SelectTypes'
  BY <1>1 DEF SelectTypes
<1>3. /\ pc[t] = "scan" /\ idx[t] <= Len(watch[t]) /\ ready[Current(t)]
      /\ idx'[t] = idx[t] + 1 /\ found'[t]
      /\ UNCHANGED <<mem, prev, ready, sbsel, sem, netbuf, pc, watch, p_sb, s_state, s_count,
                     timeout, sc_ready, timer, wchan, sig, error>>
  BY <1>1 DEF SelectTypes
<1>4. \A u \in Tasks : u # t => LocalSame(u)
  BY <1>1 DEF SelectTypes, LocalSame
<1>5. CallOK(t)'
  BY <1>1, <1>3 DEF CallOK, InCall
<1>6. Asked(t)'
  BY <1>1, <1>3 DEF Asked, InCall, Current
<1>7. Linked(t)'
  BY <1>3 DEF Linked
<1>8. Woken(t)'
  BY <1>1, <1>3 DEF Woken, Asleep, InCall
<1> QED BY <1>1, <1>2, <1>3, <1>4, <1>5, <1>6, <1>7, <1>8, QuietStep DEF Contending

\* selenter links an item for the buffer of the scan.
LEMMA LinkStep ==
  ASSUME OneSelector, SelectInv, NEW t \in Tasks, InCall(t), p_sb[t], idx[t] <= Len(watch[t]),
         Enter(t, Current(t)), p_sb' = p_sb, watch' = watch
  PROVE  /\ ChainsOK' /\ DOMAIN mem' = Addrs /\ DOMAIN prev' = Items
         /\ s_count' = [s_count EXCEPT ![t] = @ + 1] /\ Current(t) \in Bufs
         /\ mem'[Hdr(Current(t))] # Nil
         /\ \A c \in Bufs : c # Current(t) => mem'[Hdr(c)] = mem[Hdr(c)]
         /\ HeadsKept(t)
<1>1. /\ SelectTypes /\ ChainsOK /\ CallOK(t)
      /\ Len(watch[t]) \in {1, 2} /\ DOMAIN watch[t] = 1 .. Len(watch[t])
      /\ \A n \in DOMAIN watch[t] : watch[t][n] \in Bufs
      /\ idx[t] \in Nat /\ s_count[t] \in Nat
  BY Own
<1>2. idx[t] \in DOMAIN watch[t] /\ Current(t) \in Bufs /\ Watches(t, Current(t))
  BY <1>1 DEF CallOK, Current, Watches
<1>3. s_count[t] \in {0, 1}
  BY <1>1 DEF CallOK
<1>4. \A u \in Tasks : p_sb[u] => watch[u] \in Watch[u]
  BY Own DEF CallOK
<1>5. /\ ChainsOK' /\ DOMAIN mem' = Addrs /\ DOMAIN prev' = Items
      /\ s_count' = [s_count EXCEPT ![t] = @ + 1]
      /\ mem'[Hdr(Current(t))] # Nil
      /\ \A c \in Bufs : c # Current(t) => mem'[Hdr(c)] = mem[Hdr(c)]
  BY <1>1, <1>2, <1>3, <1>4, EnterStep DEF SelectTypes
<1>6. HeadsKept(t)
  BY <1>5 DEF HeadsKept
<1> QED BY <1>2, <1>5, <1>6

LEMMA ScanQueueKeeps ==
  ASSUME OneSelector, SelectInv, NEW t \in Tasks, ScanQueue(t)
  PROVE  SelectInv'
<1> USE DEF ScanQueue, Scanning, Advance, SbSelQueue, chainVars, bufVars, sleepVars
<1>1. /\ SelectTypes /\ SemOK /\ Stale
      /\ CallOK(t) /\ Asked(t) /\ Linked(t) /\ Woken(t)
      /\ Len(watch[t]) \in {1, 2} /\ DOMAIN watch[t] = 1 .. Len(watch[t])
      /\ \A n \in DOMAIN watch[t] : watch[t][n] \in Bufs
      /\ idx[t] \in Nat /\ s_count[t] \in Nat
  BY Own DEF InCall
<1>2. /\ pc[t] = "scan" /\ idx[t] <= Len(watch[t]) /\ ~ready[Current(t)]
      /\ idx'[t] = idx[t] + 1 /\ sbsel'[Current(t)]
      /\ \A b \in Bufs : sbsel[b] => sbsel'[b]
      /\ idx[t] \in DOMAIN watch[t] /\ Current(t) \in Bufs
      /\ UNCHANGED <<ready, sem, netbuf, pc, watch, found, p_sb, s_state,
                     timeout, sc_ready, timer, wchan, sig, error>>
  BY <1>1 DEF SelectTypes, CallOK, InCall, Current
<1>3. Asked(t)'
  BY <1>1, <1>2 DEF Asked, InCall, Current
<1>4. Woken(t)'
  BY <1>1, <1>2 DEF Woken, Asleep, InCall, SomeReady, Current
<1>5. CASE ~p_sb[t]
  <2>1. UNCHANGED <<mem, prev, s_count>>
    BY <1>5
  <2>2. SelectTypes'
    BY <1>1, <2>1 DEF SelectTypes
  <2>3. \A u \in Tasks : u # t => LocalSame(u)
    BY <1>1, <2>1 DEF SelectTypes, LocalSame
  <2>4. CallOK(t)'
    BY <1>1, <1>2, <1>5, <2>1 DEF CallOK, InCall
  <2>5. Linked(t)'
    BY <1>2, <1>5 DEF Linked
  <2> QED BY <1>2, <1>3, <1>4, <2>1, <2>2, <2>3, <2>4, <2>5, QuietStep DEF Contending
<1>6. CASE p_sb[t]
  <2>1. Free /\ Enter(t, Current(t))
    BY <1>6
  <2>2. /\ ChainsOK' /\ DOMAIN mem' = Addrs /\ DOMAIN prev' = Items
        /\ s_count' = [s_count EXCEPT ![t] = @ + 1]
        /\ mem'[Hdr(Current(t))] # Nil
        /\ \A c \in Bufs : c # Current(t) => mem'[Hdr(c)] = mem[Hdr(c)]
        /\ HeadsKept(t)
    BY <1>2, <1>6, <2>1, LinkStep DEF InCall
  <2>3. SelectTypes'
    BY <1>1, <2>2 DEF SelectTypes
  <2>4. \A u \in Tasks : u # t => LocalSame(u)
    BY <1>1, <2>2 DEF SelectTypes, LocalSame
  <2>5. s_count'[t] = s_count[t] + 1
    BY <1>1, <2>2 DEF SelectTypes
  <2>6. CallOK(t)'
    BY <1>1, <1>2, <2>5 DEF CallOK, InCall
  <2>7. Linked(t)'
    BY <1>1, <1>2, <2>2 DEF Linked, Current
  <2>8. SemOK' /\ QueueKept(t)
    BY <1>1, <1>2, SemSame
  <2>9. netbuf = Nil
    BY <1>1, <2>1, TaskAssumption DEF SemOK, SemWF, Contends, Free
  <2>10. Tested(t)' /\ BufsKept
    BY <1>2 DEF Tested, BufsKept
  <2> QED BY <1>3, <1>4, <2>2, <2>3, <2>4, <2>6, <2>7, <2>8, <2>9, <2>10, OneTask
<1> QED BY <1>5, <1>6

LEMMA ScanBlocksKeeps ==
  ASSUME SelectInv, NEW t \in Tasks, ScanBlocks(t)
  PROVE  SelectInv'
<1> USE DEF ScanBlocks, Scanning, Goto, chainVars, bufVars, scanVars, sleepVars
<1>1. /\ SelectTypes /\ SemOK /\ ChainsOK /\ Stale
      /\ CallOK(t) /\ Asked(t) /\ Linked(t) /\ Woken(t)
  BY Own
<1>2. /\ pc[t] = "scan" /\ pc'[t] = "selenter" /\ idx[t] <= Len(watch[t])
      /\ ~ready[Current(t)] /\ p_sb[t] /\ \A u \in Tasks : u # t => pc'[u] = pc[u]
      /\ UNCHANGED <<mem, prev, ready, sbsel, netbuf, watch, idx, found, p_sb, s_state, s_count,
                     timeout, sc_ready, timer, wchan, sig, error>>
  BY <1>1 DEF SelectTypes
<1>3. SelectTypes'
  BY <1>1 DEF SelectTypes, Places
<1>4. SemOK' /\ QueueKept(t) /\ (netbuf # Nil => Ahead(Net, t)')
  BY <1>1, <1>2, SemObtain DEF Contending
<1>5. ChainsOK'
  BY <1>1, <1>2, ChainsSame
<1>6. \A u \in Tasks : u # t => LocalSame(u)
  BY <1>2 DEF LocalSame
<1>7. HeadsKept(t) /\ BufsKept
  BY <1>2 DEF HeadsKept, BufsKept
<1>8. CallOK(t)'
  BY <1>1, <1>2 DEF CallOK, InCall
<1>9. Asked(t)' /\ Linked(t)'
  BY <1>1, <1>2 DEF Asked, Linked, InCall
<1>10. Tested(t)'
  <2>1. Current(t)' = Current(t)
    BY <1>2 DEF Current
  <2>2. netbuf = Current(t) => netbuf # Nil
    <3>1. Current(t) \in Bufs
      BY <1>2, Own DEF InCall, CallOK, Current
    <3> QED BY <3>1, NilAssumption
  <2> QED BY <1>2, <1>4, <2>1, <2>2 DEF Tested
<1>11. Woken(t)'
  BY <1>1, <1>2 DEF Woken, Asleep, InCall
<1>12. netbuf # Nil /\ ~ready[netbuf] => mem'[Hdr(netbuf)] = Nil
  BY <1>1, <1>2 DEF Stale
<1> QED BY <1>3, <1>4, <1>5, <1>6, <1>7, <1>8, <1>9, <1>10, <1>11, <1>12, OneTask

LEMMA ScanResumesKeeps ==
  ASSUME OneSelector, SelectInv, NEW t \in Tasks, ScanResumes(t)
  PROVE  SelectInv'
<1> USE DEF ScanResumes, Advance, SbSelQueue, Goto, sleepVars
<1>1. /\ SelectTypes /\ SemOK /\ Stale
      /\ CallOK(t) /\ Asked(t) /\ Linked(t) /\ Tested(t) /\ Woken(t)
      /\ Len(watch[t]) \in {1, 2} /\ DOMAIN watch[t] = 1 .. Len(watch[t])
      /\ \A n \in DOMAIN watch[t] : watch[t][n] \in Bufs
      /\ idx[t] \in Nat /\ s_count[t] \in Nat
  BY Own DEF InCall
<1>2. /\ pc[t] = "selenter" /\ pc'[t] = "scan" /\ sem.owner = t /\ Release /\ p_sb[t]
      /\ idx[t] <= Len(watch[t]) /\ idx'[t] = idx[t] + 1 /\ sbsel'[Current(t)]
      /\ Enter(t, Current(t))
      /\ \A b \in Bufs : sbsel[b] => sbsel'[b]
      /\ idx[t] \in DOMAIN watch[t] /\ Current(t) \in Bufs
      /\ \A u \in Tasks : u # t => pc'[u] = pc[u]
      /\ UNCHANGED <<ready, netbuf, watch, found, p_sb, s_state,
                     timeout, sc_ready, timer, wchan, sig, error>>
  BY <1>1 DEF SelectTypes, CallOK, InCall, Current
<1>3. Asked(t)'
  BY <1>1, <1>2 DEF Asked, InCall, Current
<1>4. Woken(t)'
  BY <1>1, <1>2 DEF Woken, Asleep, InCall
<1>5. /\ ChainsOK' /\ DOMAIN mem' = Addrs /\ DOMAIN prev' = Items
      /\ s_count' = [s_count EXCEPT ![t] = @ + 1]
      /\ mem'[Hdr(Current(t))] # Nil
      /\ \A c \in Bufs : c # Current(t) => mem'[Hdr(c)] = mem[Hdr(c)]
      /\ HeadsKept(t)
  BY <1>2, LinkStep DEF InCall
<1>6. SelectTypes'
  BY <1>1, <1>5 DEF SelectTypes, Places
<1>7. \A u \in Tasks : u # t => LocalSame(u)
  BY <1>1, <1>5 DEF SelectTypes, LocalSame
<1>8. s_count'[t] = s_count[t] + 1
  BY <1>1, <1>5 DEF SelectTypes
<1>9. CallOK(t)'
  BY <1>1, <1>2, <1>8 DEF CallOK, InCall
<1>10. Linked(t)'
  <2> SUFFICES ASSUME ~found[t], s_state[t] # "CLEAR", NEW n \in DOMAIN watch[t], n < idx[t] + 1
               PROVE  mem'[Hdr(watch[t][n])] # Nil /\ (ready[watch[t][n]] => netbuf = watch[t][n])
    BY <1>2 DEF Linked
  <2>1. CASE n = idx[t]
    <3>1. watch[t][n] = Current(t)
      BY <2>1 DEF Current
    <3> QED BY <1>1, <1>2, <1>5, <3>1 DEF Tested
  <2>2. CASE n < idx[t]
    <3>1. mem[Hdr(watch[t][n])] # Nil /\ (ready[watch[t][n]] => netbuf = watch[t][n])
      BY <1>1, <1>2, <2>2 DEF Linked
    <3>2. watch[t][n] \in Bufs
      BY <1>1
    <3> QED BY <1>5, <3>1, <3>2
  <2> QED BY <1>1, <2>1, <2>2
<1>11. SemOK' /\ QueueKept(t)
  BY <1>1, <1>2, SemRelease DEF Contending
<1>12. Tested(t)' /\ BufsKept
  BY <1>2 DEF Tested, BufsKept
<1>13. netbuf # Nil /\ ~ready[netbuf] => mem'[Hdr(netbuf)] = Nil
  <2>1. netbuf = Current(t) => ready[netbuf]
    BY <1>1, <1>2 DEF Tested, Ahead
  <2> QED BY <1>1, <1>5, <2>1 DEF Stale, SelectTypes
<1> QED BY <1>3, <1>4, <1>5, <1>6, <1>7, <1>9, <1>10, <1>11, <1>12, <1>13, OneTask

LEMMA FastReturnKeeps ==
  ASSUME SelectInv, NEW t \in Tasks, FastReturn(t)
  PROVE  SelectInv'
<1> USE DEF FastReturn, ScanDone, Leave, Goto, chainVars, bufVars
<1>1. SelectTypes /\ CallOK(t)
  BY Own
<1>2. SelectTypes'
  BY <1>1 DEF SelectTypes, Places
<1>3. /\ pc[t] = "scan" /\ pc'[t] = "user" /\ ~p_sb[t] /\ ~p_sb'[t]
      /\ timer'[t] = "idle" /\ error' = error
  BY <1>1 DEF SelectTypes
<1>4. \A u \in Tasks : u # t => LocalSame(u)
  BY <1>1 DEF SelectTypes, LocalSame
<1>5. CallOK(t)' /\ Asked(t)' /\ Linked(t)' /\ Woken(t)'
  BY <1>1, <1>3 DEF CallOK, Asked, Linked, Woken, Asleep, InCall
<1> QED BY <1>2, <1>3, <1>4, <1>5, QuietStep DEF Contending

LEMMA SetupFailsKeeps ==
  ASSUME SelectInv, NEW t \in Tasks, SetupFails(t)
  PROVE  SelectInv'
<1> USE DEF SetupFails, ScanDone, Goto, chainVars, bufVars, scanVars, sleepVars
<1>1. SelectTypes /\ CallOK(t)
  BY Own
<1>2. SelectTypes'
  BY <1>1 DEF SelectTypes, Places
<1>3. /\ pc[t] = "scan" /\ pc'[t] = "user" /\ ~p_sb[t] /\ p_sb' = p_sb /\ ~sc_ready[t]
      /\ timer' = timer /\ error' = error
  BY <1>1 DEF SelectTypes
<1>4. \A u \in Tasks : u # t => LocalSame(u)
  BY <1>1 DEF SelectTypes, LocalSame
<1>5. CallOK(t)' /\ Asked(t)' /\ Linked(t)' /\ Woken(t)'
  BY <1>1, <1>3 DEF CallOK, Asked, Linked, Woken, Asleep, InCall
<1> QED BY <1>2, <1>3, <1>4, <1>5, QuietStep DEF Contending

LEMMA BeginWaitKeeps ==
  ASSUME SelectInv, NEW t \in Tasks, BeginWait(t)
  PROVE  SelectInv'
<1> USE DEF BeginWait, ScanDone, StartScan, FreshCount, Goto, chainVars, bufVars
<1>1. /\ SelectTypes /\ CallOK(t) /\ Asked(t) /\ Woken(t)
      /\ Len(watch[t]) \in {1, 2} /\ DOMAIN watch[t] = 1 .. Len(watch[t])
      /\ idx[t] \in Nat
  BY Own DEF InCall
<1>2. SelectTypes'
  BY <1>1 DEF SelectTypes, Places
<1>3. /\ pc[t] = "scan" /\ pc'[t] = "scan" /\ ~p_sb[t] /\ p_sb'[t] /\ ~found[t] /\ ~found'[t]
      /\ idx[t] > Len(watch[t]) /\ idx'[t] = 1 /\ s_count'[t] = 0 /\ sc_ready'[t]
      /\ UNCHANGED <<ready, sbsel, watch, wchan, sig, error>>
  BY <1>1 DEF SelectTypes
<1>4. \A u \in Tasks : u # t => LocalSame(u)
  BY <1>1 DEF SelectTypes, LocalSame
<1>5. CallOK(t)'
  BY <1>1, <1>3 DEF CallOK, InCall
<1>6. Asked(t)'
  BY <1>1, <1>3 DEF Asked, InCall
<1>7. Linked(t)'
  BY <1>1, <1>3 DEF Linked
<1>8. Woken(t)'
  <2>1. timer'[t] = "port" => timer[t] = "port"
    BY <1>1 DEF SelectTypes
  <2>2. ~SomeReady(t, idx[t])
    BY <1>1, <1>3 DEF SomeReady
  <2> QED BY <1>1, <1>3, <2>1, <2>2 DEF Woken, Asleep, InCall
<1> QED BY <1>2, <1>3, <1>4, <1>5, <1>6, <1>7, <1>8, QuietStep DEF Contending

LEMMA AfterScanKeeps ==
  ASSUME SelectInv, NEW t \in Tasks, AfterScan(t)
  PROVE  SelectInv'
<1> USE DEF AfterScan, ScanDone, Goto, chainVars, bufVars, scanVars, sleepVars
<1>1. /\ SelectTypes /\ SemOK /\ ChainsOK /\ Stale
      /\ CallOK(t) /\ Asked(t) /\ Linked(t) /\ Woken(t)
  BY Own
<1>2. /\ pc[t] = "scan" /\ pc'[t] = IF found[t] THEN "unselect" ELSE "check"
      /\ idx[t] > Len(watch[t]) /\ p_sb[t] /\ \A u \in Tasks : u # t => pc'[u] = pc[u]
      /\ UNCHANGED <<mem, prev, ready, sbsel, netbuf, watch, idx, found, p_sb, s_state, s_count,
                     timeout, sc_ready, timer, wchan, sig, error>>
  BY <1>1 DEF SelectTypes
<1>3. SelectTypes'
  BY <1>1 DEF SelectTypes, Places
<1>4. SemOK' /\ QueueKept(t)
  BY <1>1, <1>2, SemObtain DEF Contending
<1>5. ChainsOK'
  BY <1>1, <1>2, ChainsSame
<1>6. \A u \in Tasks : u # t => LocalSame(u)
  BY <1>2 DEF LocalSame
<1>7. HeadsKept(t) /\ BufsKept
  BY <1>2 DEF HeadsKept, BufsKept
<1>8. CallOK(t)'
  BY <1>1, <1>2 DEF CallOK, InCall
<1>9. Asked(t)' /\ Linked(t)' /\ Tested(t)'
  BY <1>1, <1>2 DEF Asked, Linked, Tested, InCall
<1>10. Woken(t)'
  BY <1>1, <1>2 DEF Woken, Asleep, InCall
<1>11. netbuf # Nil /\ ~ready[netbuf] => mem'[Hdr(netbuf)] = Nil
  BY <1>1, <1>2 DEF Stale
<1> QED BY <1>3, <1>4, <1>5, <1>6, <1>7, <1>8, <1>9, <1>10, <1>11, OneTask

\* A task that holds the semaphore unlinks its items and ends this round.
LEMMA UnselectRound ==
  ASSUME OneSelector, SelectInv, NEW t \in Tasks, p_sb[t], p_sb' = [p_sb EXCEPT ![t] = FALSE],
         mem' = Unselected(t), UNCHANGED <<prev, s_count, watch, netbuf, ready>>
  PROVE  /\ ChainsOK' /\ DOMAIN mem' = Addrs /\ HeadsKept(t)
         /\ netbuf # Nil /\ ~ready[netbuf] => mem'[Hdr(netbuf)] = Nil
<1>1. SelectTypes /\ ChainsOK /\ Stale
  BY Own
<1>2. /\ ChainsOK' /\ DOMAIN mem' = Addrs
      /\ \A b \in Bufs : mem'[Hdr(b)] = IF OwnItem(t, mem[Hdr(b)]) THEN Nil ELSE mem[Hdr(b)]
  BY <1>1, UnselectStep DEF SelectTypes
<1>3. \A u \in Tasks : p_sb[u] => watch[u] \in Watch[u]
  BY Own DEF CallOK
<1>4. HeadsKept(t)
  <2> SUFFICES ASSUME NEW u \in Tasks, NEW b \in Bufs, u # t, p_sb[u], Watches(u, b),
                      mem[Hdr(b)] # Nil, OwnItem(t, mem[Hdr(b)])
               PROVE  FALSE
    BY <1>2 DEF HeadsKept
  <2>1. PICK v \in Tasks, n \in {1, 2} : OnChain(b, v, n)
    BY <1>1 DEF ChainsOK, HdrOK, OnChain
  <2>2. v = t
    BY <2>1 DEF OnChain, OwnItem
  <2>3. u = v
    BY <1>3, <2>1, SoleSelector DEF OnChain
  <2> QED BY <2>2, <2>3
<1>5. netbuf # Nil /\ ~ready[netbuf] => mem'[Hdr(netbuf)] = Nil
  BY <1>1, <1>2 DEF Stale, SelectTypes
<1> QED BY <1>2, <1>4, <1>5

LEMMA CheckRescanKeeps ==
  ASSUME OneSelector, SelectInv, NEW t \in Tasks, CheckRescan(t)
  PROVE  SelectInv'
<1> USE DEF CheckRescan, StartScan, Goto, bufVars, sleepVars
<1>1. /\ SelectTypes /\ SemOK /\ CallOK(t) /\ Asked(t) /\ Woken(t)
      /\ Len(watch[t]) \in {1, 2} /\ DOMAIN watch[t] = 1 .. Len(watch[t])
  BY Own DEF InCall
<1>2. /\ pc[t] = "check" /\ pc'[t] = "scan" /\ sem.owner = t /\ Release /\ p_sb[t]
      /\ p_sb' = [p_sb EXCEPT ![t] = FALSE] /\ idx'[t] = 1 /\ ~p_sb'[t]
      /\ mem' = Unselected(t) /\ \A u \in Tasks : u # t => pc'[u] = pc[u]
      /\ UNCHANGED <<prev, ready, sbsel, netbuf, watch, s_state, s_count,
                     timeout, sc_ready, timer, wchan, sig, error>>
  BY <1>1 DEF SelectTypes, CallOK
<1>3. /\ ChainsOK' /\ DOMAIN mem' = Addrs /\ HeadsKept(t)
      /\ netbuf # Nil /\ ~ready[netbuf] => mem'[Hdr(netbuf)] = Nil
  BY <1>2, UnselectRound
<1>4. SelectTypes'
  BY <1>1, <1>3 DEF SelectTypes, Places
<1>5. \A u \in Tasks : u # t => LocalSame(u)
  BY <1>1 DEF SelectTypes, LocalSame
<1>6. SemOK' /\ QueueKept(t)
  BY <1>1, <1>2, SemRelease DEF Contending
<1>7. CallOK(t)'
  BY <1>1, <1>2 DEF CallOK, InCall
<1>8. Asked(t)' /\ Linked(t)' /\ Tested(t)' /\ BufsKept
  BY <1>1, <1>2 DEF Asked, Linked, Tested, BufsKept, InCall
<1>9. Woken(t)'
  BY <1>1, <1>2 DEF Woken, Asleep, InCall, CallOK
<1> QED BY <1>3, <1>4, <1>5, <1>6, <1>7, <1>8, <1>9, OneTask

LEMMA CheckSleepKeeps ==
  ASSUME SelectInv, NEW t \in Tasks, CheckSleep(t)
  PROVE  SelectInv'
<1> USE DEF CheckSleep, CheckClear, Goto, chainVars, bufVars, scanVars
<1>1. /\ SelectTypes /\ SemOK /\ ChainsOK /\ Stale
      /\ CallOK(t) /\ Asked(t) /\ Linked(t) /\ Woken(t)
  BY Own
<1>2. /\ pc[t] = "check" /\ pc'[t] = "sleep" /\ sem.owner = t /\ Release
      /\ s_state[t] # "CLEAR" /\ s_state'[t] = "WAITING" /\ wchan'[t]
      /\ \A u \in Tasks : u # t => pc'[u] = pc[u]
      /\ UNCHANGED <<mem, prev, ready, sbsel, netbuf, watch, idx, found, p_sb, s_count,
                     timeout, sc_ready, timer, sig, error>>
  BY <1>1 DEF SelectTypes
<1>3. SelectTypes'
  BY <1>1 DEF SelectTypes, Places
<1>4. SemOK' /\ QueueKept(t)
  BY <1>1, <1>2, SemRelease DEF Contending
<1>5. ChainsOK'
  BY <1>1, <1>2, ChainsSame
<1>6. \A u \in Tasks : u # t => LocalSame(u)
  BY <1>1, <1>2 DEF LocalSame, SelectTypes
<1>7. HeadsKept(t) /\ BufsKept
  BY <1>2 DEF HeadsKept, BufsKept
<1>8. CallOK(t)'
  BY <1>1, <1>2 DEF CallOK, InCall
<1>9. Asked(t)' /\ Linked(t)' /\ Tested(t)'
  BY <1>1, <1>2 DEF Asked, Linked, Tested, InCall
<1>10. Woken(t)'
  BY <1>1, <1>2 DEF Woken, Asleep, InCall, CallOK
<1>11. netbuf # Nil /\ ~ready[netbuf] => mem'[Hdr(netbuf)] = Nil
  BY <1>1, <1>2 DEF Stale
<1> QED BY <1>3, <1>4, <1>5, <1>6, <1>7, <1>8, <1>9, <1>10, <1>11, OneTask

LEMMA SleepEndsKeeps ==
  ASSUME SelectInv, NEW t \in Tasks, SleepEnds(t)
  PROVE  SelectInv'
<1> DEFINE r == IF ~wchan[t] /\ sig[t] = {} THEN "woken" ELSE SleepResult(t)
<1>1. /\ SelectTypes /\ SemOK /\ ChainsOK /\ Stale
      /\ CallOK(t) /\ Asked(t) /\ Linked(t) /\ Woken(t)
  BY Own
<1>2. /\ r \in {"woken", "again", "ERESTART", "EWOULDBLOCK"}
      /\ r = "again" => wchan[t] /\ timer[t] # "port"
      /\ r = "woken" => ~wchan[t]
  BY DEF SleepResult
<1>3. /\ pc[t] = "sleep" /\ sig' = [sig EXCEPT ![t] = @ \ {"sleep"}]
      /\ UNCHANGED <<mem, prev, ready, sbsel, netbuf, watch, idx, found, p_sb, s_state,
                     s_count, timeout, sc_ready>>
  BY DEF SleepEnds, chainVars, bufVars, scanVars
<1>4. CASE r = "again"
  <2>1. UNCHANGED <<pc, sem, error, timer, wchan>>
    BY <1>4 DEF SleepEnds
  <2>2. SelectTypes'
    BY <1>1, <1>3, <2>1 DEF SelectTypes
  <2>3. \A u \in Tasks : u # t => LocalSame(u)
    BY <1>1, <1>3, <2>1 DEF SelectTypes, LocalSame
  <2>4. CallOK(t)' /\ Asked(t)' /\ Linked(t)'
    BY <1>1, <1>3, <2>1 DEF CallOK, Asked, Linked, InCall
  <2>5. Woken(t)'
    BY <1>1, <1>2, <1>3, <1>4, <2>1 DEF Woken, Asleep, InCall
  <2> QED BY <1>3, <2>1, <2>2, <2>3, <2>4, <2>5, QuietStep DEF Contending
<1>5. CASE r # "again"
  <2>1. /\ error' = [error EXCEPT ![t] = IF r = "woken" THEN "ok" ELSE r]
        /\ timer' = [timer EXCEPT ![t] = IF r = "EWOULDBLOCK" THEN "idle" ELSE @]
        /\ wchan' = [wchan EXCEPT ![t] = FALSE]
        /\ Obtain(t) /\ pc' = [pc EXCEPT ![t] = "unselect"]
    BY <1>5 DEF SleepEnds, Goto
  <2> HIDE DEF r
  <2>2. /\ pc'[t] = "unselect" /\ \A u \in Tasks : u # t => pc'[u] = pc[u]
        /\ error'[t] = (IF r = "woken" THEN "ok" ELSE r)
        /\ timer'[t] = (IF r = "EWOULDBLOCK" THEN "idle" ELSE timer[t])
    BY <1>1, <2>1 DEF SelectTypes
  <2>3. SelectTypes'
    BY <1>1, <1>3, <2>1 DEF SelectTypes, Places
  <2>4. SemOK' /\ QueueKept(t)
    BY <1>1, <1>3, <2>1, <2>2, SemObtain DEF Contending
  <2>5. ChainsOK'
    BY <1>1, <1>3, ChainsSame
  <2>6. \A u \in Tasks : u # t => LocalSame(u)
    BY <1>1, <1>3, <2>1 DEF LocalSame, SelectTypes
  <2>7. HeadsKept(t) /\ BufsKept
    BY <1>3 DEF HeadsKept, BufsKept
  <2>8. CallOK(t)'
    BY <1>1, <1>3, <2>2 DEF CallOK, InCall
  <2>9. Asked(t)' /\ Linked(t)' /\ Tested(t)'
    BY <1>1, <1>3, <2>2 DEF Asked, Linked, Tested, InCall
  <2>10. Woken(t)'
    BY <1>1, <1>2, <1>3, <1>5, <2>2 DEF Woken, Asleep, InCall, SomeReady
  <2>11. netbuf # Nil /\ ~ready[netbuf] => mem'[Hdr(netbuf)] = Nil
    BY <1>1, <1>3 DEF Stale
  <2> QED BY <2>3, <2>4, <2>5, <2>6, <2>7, <2>8, <2>9, <2>10, <2>11, OneTask
<1> QED BY <1>4, <1>5

LEMMA SleepSkippedKeeps ==
  ASSUME SelectInv, NEW t \in Tasks, SleepSkipped(t)
  PROVE  SelectInv'
<1> USE DEF SleepSkipped, Goto, chainVars, bufVars, scanVars
<1>1. /\ SelectTypes /\ SemOK /\ ChainsOK /\ Stale
      /\ CallOK(t) /\ Asked(t) /\ Linked(t) /\ Woken(t)
  BY Own
<1>2. /\ pc[t] = "sleep" /\ pc'[t] = "unselect" /\ ~wchan[t] /\ error'[t] = "ok" /\ Obtain(t)
      /\ \A u \in Tasks : u # t => pc'[u] = pc[u]
      /\ UNCHANGED <<mem, prev, ready, sbsel, netbuf, watch, idx, found, p_sb, s_state,
                     s_count, timeout, sc_ready, timer, wchan, sig>>
  BY <1>1 DEF SelectTypes
<1>3. SelectTypes'
  BY <1>1 DEF SelectTypes, Places
<1>4. SemOK' /\ QueueKept(t)
  BY <1>1, <1>2, SemObtain DEF Contending
<1>5. ChainsOK'
  BY <1>1, <1>2, ChainsSame
<1>6. \A u \in Tasks : u # t => LocalSame(u)
  BY <1>1 DEF LocalSame, SelectTypes
<1>7. HeadsKept(t) /\ BufsKept
  BY <1>2 DEF HeadsKept, BufsKept
<1>8. CallOK(t)'
  BY <1>1, <1>2 DEF CallOK, InCall
<1>9. Asked(t)' /\ Linked(t)' /\ Tested(t)'
  BY <1>1, <1>2 DEF Asked, Linked, Tested, InCall
<1>10. Woken(t)'
  BY <1>1, <1>2 DEF Woken, Asleep, InCall, SomeReady
<1>11. netbuf # Nil /\ ~ready[netbuf] => mem'[Hdr(netbuf)] = Nil
  BY <1>1, <1>2 DEF Stale
<1> QED BY <1>3, <1>4, <1>5, <1>6, <1>7, <1>8, <1>9, <1>10, <1>11, OneTask

LEMMA UnselectKeeps ==
  ASSUME OneSelector, SelectInv, NEW t \in Tasks, Unselect(t)
  PROVE  SelectInv'
<1> USE DEF Unselect, Leave, StartScan, Goto, bufVars
<1>1. /\ SelectTypes /\ SemOK /\ CallOK(t) /\ Asked(t) /\ Woken(t)
      /\ InCall(t) => Len(watch[t]) \in {1, 2} /\ DOMAIN watch[t] = 1 .. Len(watch[t])
  BY Own
<1>2. /\ pc[t] = "unselect" /\ sem.owner = t /\ Release /\ p_sb[t]
      /\ p_sb' = [p_sb EXCEPT ![t] = FALSE] /\ ~p_sb'[t]
      /\ mem' = Unselected(t) /\ pc'[t] \in {"user", "scan"}
      /\ \A u \in Tasks : u # t => pc'[u] = pc[u]
      /\ UNCHANGED <<prev, ready, sbsel, netbuf, watch, s_state, s_count, timeout, wchan, error>>
  BY <1>1 DEF SelectTypes, CallOK
<1>3. /\ ChainsOK' /\ DOMAIN mem' = Addrs /\ HeadsKept(t)
      /\ netbuf # Nil /\ ~ready[netbuf] => mem'[Hdr(netbuf)] = Nil
  BY <1>2, UnselectRound
<1>4. SelectTypes'
  <2>1. CASE found[t] \/ error[t] # "ok"
    BY <1>1, <1>3, <2>1 DEF SelectTypes, Places
  <2>2. CASE ~(found[t] \/ error[t] # "ok")
    <3>1. /\ pc' = [pc EXCEPT ![t] = "scan"] /\ idx' = [idx EXCEPT ![t] = 1]
          /\ found' = [found EXCEPT ![t] = FALSE] /\ p_sb' = [p_sb EXCEPT ![t] = FALSE]
          /\ UNCHANGED <<timer, sc_ready, sig, prev, ready, sbsel, netbuf, watch, s_state,
                         s_count, timeout, wchan, error>>
      BY <2>2
    <3> HIDE DEF Unselect, Leave, StartScan, Goto, bufVars
    <3> QED BY <1>1, <1>3, <3>1 DEF SelectTypes, Places
  <2> QED BY <2>1, <2>2
<1>5. \A u \in Tasks : u # t => LocalSame(u)
  BY <1>1 DEF SelectTypes, LocalSame
<1>6. SemOK' /\ QueueKept(t)
  BY <1>1, <1>2, SemRelease DEF Contending
<1>7. Linked(t)' /\ Tested(t)' /\ BufsKept
  BY <1>2 DEF Linked, Tested, BufsKept
<1>8. CASE found[t] \/ error[t] # "ok"
  <2>1. pc'[t] = "user" /\ timer'[t] = "idle"
    BY <1>1, <1>8 DEF SelectTypes
  <2>2. CallOK(t)' /\ Asked(t)' /\ Woken(t)'
    BY <1>1, <1>2, <2>1 DEF CallOK, Asked, Woken, Asleep, InCall
  <2> QED BY <1>3, <1>4, <1>5, <1>6, <1>7, <2>2, OneTask
<1>9. CASE ~(found[t] \/ error[t] # "ok")
  <2>1. /\ pc'[t] = "scan" /\ idx'[t] = 1 /\ error[t] = "ok"
        /\ UNCHANGED <<timer, sc_ready, sig>>
    BY <1>1, <1>9 DEF SelectTypes
  <2>2. CallOK(t)'
    BY <1>1, <1>2, <2>1 DEF CallOK, InCall
  <2>3. Asked(t)'
    BY <1>1, <1>2, <2>1 DEF Asked, InCall
  <2>4. Woken(t)'
    BY <1>1, <1>2, <2>1 DEF Woken, Asleep, InCall, SomeReady
  <2> QED BY <1>3, <1>4, <1>5, <1>6, <1>7, <2>2, <2>3, <2>4, OneTask
<1> QED BY <1>8, <1>9

-----------------------------------------------------------------------------
(* The timer, the caller's signals, and the buffers.                       *)

LEMMA SignalStep ==
  ASSUME SelectInv, NEW t \in Tasks,
         UNCHANGED <<chainVars, bufVars, sem, netbuf, pc, scanVars, s_state, s_count,
                     timeout, sc_ready, wchan, error>>,
         DOMAIN timer' = Tasks, DOMAIN sig' = Tasks,
         \A u \in Tasks : u # t => timer'[u] = timer[u] /\ sig'[u] = sig[u],
         CallOK(t)', Woken(t)'
  PROVE  SelectInv'
<1> USE DEF chainVars, bufVars, scanVars
<1>1. /\ SelectTypes /\ SemOK /\ ChainsOK /\ Stale /\ Asked(t) /\ Linked(t) /\ Tested(t)
  BY Own
<1>2. SelectTypes'
  BY <1>1 DEF SelectTypes
<1>3. SemOK' /\ QueueKept(t)
  BY <1>1, SemSame
<1>4. ChainsOK'
  BY <1>1, ChainsSame
<1>5. \A u \in Tasks : u # t => LocalSame(u)
  BY DEF LocalSame
<1>6. HeadsKept(t) /\ BufsKept
  BY DEF HeadsKept, BufsKept
<1>7. Asked(t)' /\ Linked(t)' /\ Tested(t)'
  BY <1>1 DEF Asked, Linked, Tested, InCall, Current, Ahead
<1>8. netbuf # Nil /\ ~ready[netbuf] => mem'[Hdr(netbuf)] = Nil
  BY <1>1 DEF Stale
<1> QED BY <1>2, <1>3, <1>4, <1>5, <1>6, <1>7, <1>8, OneTask

LEMMA TimerReplyKeeps ==
  ASSUME SelectInv, NEW t \in Tasks, TimerReply(t)
  PROVE  SelectInv'
<1> USE DEF TimerReply, chainVars, bufVars, scanVars
<1>1. SelectTypes /\ CallOK(t) /\ Woken(t)
  BY Own
<1>2. /\ timer[t] = "out" /\ "sleep" \in sig'[t]
      /\ DOMAIN timer' = Tasks /\ DOMAIN sig' = Tasks
      /\ \A u \in Tasks : u # t => timer'[u] = timer[u] /\ sig'[u] = sig[u]
  BY <1>1 DEF SelectTypes
<1>3. CallOK(t)'
  BY <1>1, <1>2 DEF CallOK, InCall
<1>4. Woken(t)'
  BY <1>1, <1>2 DEF Woken, Asleep, InCall, SomeReady
<1> QED BY <1>2, <1>3, <1>4, SignalStep

LEMMA UserSignalKeeps ==
  ASSUME SelectInv, NEW t \in Tasks, UserSignal(t)
  PROVE  SelectInv'
<1> USE DEF UserSignal, chainVars, bufVars, scanVars
<1>1. SelectTypes /\ CallOK(t) /\ Woken(t)
  BY Own
<1>2. /\ "sleep" \in sig[t] => "sleep" \in sig'[t]
      /\ DOMAIN timer' = Tasks /\ DOMAIN sig' = Tasks /\ timer' = timer
      /\ \A u \in Tasks : u # t => timer'[u] = timer[u] /\ sig'[u] = sig[u]
  BY <1>1 DEF SelectTypes
<1>3. CallOK(t)'
  BY <1>1, <1>2 DEF CallOK, InCall
<1>4. Woken(t)'
  BY <1>1, <1>2 DEF Woken, Asleep, InCall, SomeReady
<1> QED BY <1>2, <1>3, <1>4, SignalStep

\* What the steps of the buffers leave alone.
CallsKept == UNCHANGED <<pc, scanVars, s_count, timeout, sc_ready, timer, error>>

\* A buffer is drained while no call in progress selects on it.
LEMMA DrainKeeps ==
  ASSUME OneSelector, SelectInv, NEW b \in Bufs, Drain(b)
  PROVE  SelectInv'
<1> USE DEF Drain, chainVars, bufVars, scanVars, sleepVars
<1>1. SelectTypes /\ SemOK /\ ChainsOK /\ Stale
  BY DEF SelectInv
<1>2. /\ ready' = [ready EXCEPT ![b] = FALSE]
      /\ \A t \in Tasks : InCall(t) => ~Watches(t, b)
      /\ UNCHANGED <<mem, prev, sbsel, sem, netbuf, pc, watch, idx, found, p_sb, s_state,
                     s_count, timeout, sc_ready, timer, wchan, sig, error>>
  BY DEF OneSelector, InCall, Watches, Range
<1>3. SelectTypes'
  BY <1>1, <1>2 DEF SelectTypes
<1>4. SemOK'
  BY <1>1, <1>2 DEF SemOK, SemWF, Free, Contends
<1>5. ChainsOK'
  BY <1>1, <1>2, ChainsSame
<1>6. Stale'
  <2>1. mem[Hdr(b)] = Nil
    <3> SUFFICES ASSUME mem[Hdr(b)] # Nil PROVE FALSE
      OBVIOUS
    <3>1. PICK t \in Tasks, n \in {1, 2} : OnChain(b, t, n)
      BY <1>1 DEF ChainsOK, HdrOK, OnChain
    <3>2. InCall(t)
      BY <3>1, Own DEF OnChain, CallOK
    <3> QED BY <1>2, <3>1, <3>2 DEF OnChain
  <2> QED BY <1>1, <1>2, <2>1 DEF Stale, SelectTypes
<1>7. ASSUME NEW t \in Tasks PROVE TaskOK(t)'
  <2>1. /\ CallOK(t) /\ Asked(t) /\ Linked(t) /\ Tested(t) /\ Woken(t)
        /\ InCall(t) => /\ DOMAIN watch[t] = 1 .. Len(watch[t])
                        /\ \A n \in DOMAIN watch[t] : watch[t][n] \in Bufs
    BY Own
  <2>2. InCall(t) => \A n \in DOMAIN watch[t] : ready'[watch[t][n]] = ready[watch[t][n]]
    BY <1>1, <1>2, <2>1 DEF Watches, SelectTypes
  <2>3. CallOK(t)'
    BY <1>2, <2>1 DEF CallOK, InCall
  <2>4. Asked(t)'
    BY <1>2, <2>1, <2>2 DEF Asked, InCall
  <2>5. Linked(t)'
    BY <1>2, <2>1, <2>2 DEF Linked, CallOK
  <2>6. Tested(t)'
    <3>1. pc[t] = "selenter" => idx[t] \in DOMAIN watch[t] /\ InCall(t)
      BY <2>1 DEF CallOK, InCall
    <3>2. pc[t] = "selenter" => ready'[Current(t)] = ready[Current(t)]
      BY <2>2, <3>1 DEF Current
    <3>3. Current(t)' = Current(t) /\ \A x, y : Ahead(x, y)' <=> Ahead(x, y)
      BY <1>2 DEF Current, Ahead
    <3> QED BY <1>2, <2>1, <3>2, <3>3 DEF Tested
  <2>7. \A k : InCall(t) /\ SomeReady(t, k) => SomeReady(t, k)'
    BY <1>2, <2>2 DEF SomeReady
  <2>8. Woken(t)'
    BY <1>2, <2>1, <2>7 DEF Woken, Asleep, InCall
  <2> QED BY <2>3, <2>4, <2>5, <2>6, <2>8 DEF TaskOK
<1> QED BY <1>3, <1>4, <1>5, <1>6, <1>7 DEF SelectInv

\* sowakeup reaches the chain of a ready buffer.
LEMMA WakeTask ==
  ASSUME OneSelector, SelectInv, NEW b \in Bufs, WakeEffect(b),
         CallsKept, DOMAIN ready' = Bufs,
         \A c \in Bufs : c # b => mem'[Hdr(c)] = mem[Hdr(c)] /\ ready'[c] = ready[c],
         ready[b] => ready'[b], mem[Hdr(b)] # Nil => ready'[b],
         \A c \in Bufs : sbsel[c] \/ ready[c] => sbsel'[c] \/ ready'[c],
         netbuf \in {Nil, b}, NEW t \in Tasks, Tested(t)'
  PROVE  TaskOK(t)'
<1> USE DEF CallsKept, scanVars
<1>1. /\ SelectTypes /\ ChainsOK
      /\ CallOK(t) /\ Asked(t) /\ Linked(t) /\ Woken(t)
      /\ InCall(t) => \A n \in DOMAIN watch[t] : watch[t][n] \in Bufs
  BY Own
<1>2. /\ s_state'[t] = (IF Woke(t, b) THEN "CLEAR" ELSE s_state[t])
      /\ wchan'[t] <=> wchan[t] /\ ~(Woke(t, b) /\ s_state[t] = "WAITING")
      /\ "sleep" \in sig[t] => "sleep" \in sig'[t]
  BY DEF WakeEffect
<1>3. mem[Hdr(b)] # Nil => \E u \in Tasks, n \in {1, 2} : OnChain(b, u, n)
  BY <1>1 DEF ChainsOK, HdrOK, OnChain
<1>4. Woke(t, b) => Watches(t, b) /\ InCall(t) /\ ready'[b]
  <2> SUFFICES ASSUME Woke(t, b) PROVE Watches(t, b) /\ InCall(t) /\ ready'[b]
    OBVIOUS
  <2>1. \A i \in Items : i # Nil
    BY NilAssumption
  <2>2. mem[Hdr(b)] # Nil
    BY <2>1, ItemFacts DEF Woke, OwnItem
  <2>3. PICK u \in Tasks, n \in {1, 2} : OnChain(b, u, n)
    BY <1>3, <2>2
  <2>4. u = t
    BY <2>3 DEF Woke, OwnItem, OnChain
  <2> QED BY <1>1, <2>2, <2>3, <2>4 DEF OnChain, CallOK
<1>5. CallOK(t)'
  BY <1>1 DEF CallOK, InCall
<1>6. Asked(t)'
  BY <1>1 DEF Asked, InCall
<1>7. \A c \in Bufs : ready[c] => ready'[c]
  OBVIOUS
<1>8. \A k : InCall(t) /\ SomeReady(t, k) => SomeReady(t, k)'
  BY <1>1, <1>7 DEF SomeReady
<1>9. Linked(t)'
  <2> SUFFICES ASSUME p_sb[t], ~found[t], s_state'[t] # "CLEAR",
                      NEW n \in DOMAIN watch[t], n < idx[t]
               PROVE  mem'[Hdr(watch[t][n])] # Nil /\ ~ready'[watch[t][n]]
    BY DEF Linked
  <2>1. ~Woke(t, b) /\ s_state[t] # "CLEAR"
    BY <1>2
  <2>2. InCall(t) /\ watch[t] \in Watch[t] /\ watch[t][n] \in Bufs
    BY <1>1 DEF CallOK
  <2>3. mem[Hdr(watch[t][n])] # Nil /\ (ready[watch[t][n]] => netbuf = watch[t][n])
    BY <1>1, <2>1 DEF Linked
  <2>4. watch[t][n] # b
    <3> SUFFICES ASSUME watch[t][n] = b PROVE FALSE
      OBVIOUS
    <3>1. PICK u \in Tasks, m \in {1, 2} : OnChain(b, u, m)
      BY <1>3, <2>3
    <3>2. watch[u] \in Watch[u]
      BY <3>1, Own DEF OnChain, CallOK
    <3>3. Watches(t, b)
      BY DEF Watches
    <3>4. u = t
      BY <2>2, <3>1, <3>2, <3>3, SoleSelector DEF OnChain
    <3> QED BY <2>1, <3>1, <3>4 DEF Woke, OwnItem, OnChain
  <2> QED BY <2>2, <2>3, <2>4, NilAssumption
<1>10. Woken(t)'
  <2>1. Asleep(t)' => s_state'[t] = "WAITING"
    BY <1>1, <1>2 DEF Woken, Asleep
  <2>2. pc[t] = "sleep" /\ ~wchan'[t] => SomeReady(t, 1)'
    <3>1. CASE Woke(t, b)
      <4>1. InCall(t) => DOMAIN watch[t] = 1 .. Len(watch[t])
        BY Own
      <4> QED BY <1>4, <3>1, <4>1 DEF Watches, SomeReady, InCall
    <3>2. CASE ~Woke(t, b)
      BY <1>1, <1>2, <1>8, <3>2 DEF Woken, InCall
    <3> QED BY <3>1, <3>2
  <2> QED BY <1>1, <1>2, <1>8, <2>1, <2>2 DEF Woken, InCall
<1> QED BY <1>5, <1>6, <1>9, <1>10 DEF TaskOK

LEMMA DeliverKeeps ==
  ASSUME OneSelector, SelectInv, NEW b \in Bufs, Deliver(b)
  PROVE  SelectInv'
<1>1. SelectTypes /\ SemOK /\ ChainsOK /\ Stale
  BY DEF SelectInv
<1>2. /\ netbuf = Nil /\ ~ready[b] /\ b # Nil
      /\ ready' = [ready EXCEPT ![b] = TRUE] /\ sbsel' = [sbsel EXCEPT ![b] = FALSE]
      /\ CallsKept
  BY NilAssumption DEF Deliver, CallsKept
<1>3. /\ DOMAIN ready' = Bufs /\ DOMAIN sbsel' = Bufs /\ ready'[b]
      /\ \A c \in Bufs : c # b => ready'[c] = ready[c] /\ sbsel'[c] = sbsel[c]
  BY <1>1, <1>2 DEF SelectTypes
<1>4. CASE sbsel[b] /\ Free
  <2>1. SelWakeup(b) /\ sem' = sem /\ netbuf' = netbuf
    BY <1>4 DEF Deliver
  <2>2. /\ ChainsOK' /\ DOMAIN mem' = Addrs /\ DOMAIN prev' = Items /\ mem'[Hdr(b)] = Nil
        /\ \A c \in Bufs : c # b => mem'[Hdr(c)] = mem[Hdr(c)]
    BY <1>1, <1>2, <2>1, WakeChains DEF SelectTypes, CallsKept, scanVars
  <2>3. WakeEffect(b)
    BY <1>1, <2>1, WakeTasks
  <2>4. SelectTypes'
    BY <1>1, <1>2, <1>3, <2>1, <2>2, <2>3 DEF SelectTypes, CallsKept, scanVars, WakeEffect
  <2>5. SemOK'
    BY <1>1, <1>2, <2>1 DEF SemOK, SemWF, Free, Contends, CallsKept
  <2>6. Stale'
    BY <1>2, <2>1 DEF Stale
  <2>7. ASSUME NEW t \in Tasks PROVE TaskOK(t)'
    <3>1. pc[t] # "selenter"
      BY <1>1, <1>4, TaskAssumption DEF SemOK, SemWF, Contends, Free
    <3>2. Tested(t)'
      BY <1>2, <3>1 DEF Tested, CallsKept
    <3>3. \A c \in Bufs : sbsel[c] \/ ready[c] => sbsel'[c] \/ ready'[c]
      BY <1>3
    <3> QED BY <1>2, <1>3, <2>2, <2>3, <3>2, <3>3, WakeTask
  <2> QED BY <2>2, <2>4, <2>5, <2>6, <2>7 DEF SelectInv
<1>5. CASE ~(sbsel[b] /\ Free)
  <2>1. /\ UNCHANGED <<mem, prev, s_state, wchan, sig>>
        /\ sbsel[b] => Obtain(Net) /\ netbuf' = b
        /\ ~sbsel[b] => sem' = sem /\ netbuf' = netbuf
    BY <1>5 DEF Deliver, chainVars
  <2>2. SelectTypes'
    BY <1>1, <1>2, <1>3, <2>1 DEF SelectTypes, CallsKept, scanVars
  <2>3. /\ SemOK'
        /\ \A t \in Tasks : sbsel[b] /\ Contends(t) => Ahead(t, Net)'
    <3>1. CASE sbsel[b]
      <4>1. Net \in Agents /\ Tasks \subseteq Agents /\ ~Contends(Net)
        BY <1>1, <1>2 DEF Agents, SemOK
      <4>2. /\ SemWF'
            /\ \A y \in Agents : Contends(y)' <=> Contends(y) \/ y = Net
            /\ \A y \in Agents : Contends(y) => Ahead(y, Net)'
        BY <1>1, <2>1, <3>1, <4>1, ObtainStep DEF SemOK
      <4>3. \A t \in Tasks : t # Net
        BY TaskAssumption
      <4> QED BY <1>1, <1>2, <2>1, <3>1, <4>1, <4>2, <4>3 DEF SemOK, CallsKept
    <3>2. CASE ~sbsel[b]
      BY <1>1, <1>2, <2>1, <3>2 DEF SemOK, SemWF, Free, Contends, CallsKept
    <3> QED BY <3>1, <3>2
  <2>4. ChainsOK'
    BY <1>1, <1>2, <2>1, ChainsSame DEF CallsKept, scanVars
  <2>5. Stale'
    BY <1>2, <1>3, <2>1 DEF Stale
  <2>6. ASSUME NEW t \in Tasks PROVE TaskOK(t)'
    <3> USE DEF CallsKept, scanVars
    <3>1. /\ CallOK(t) /\ Asked(t) /\ Linked(t) /\ Tested(t) /\ Woken(t)
          /\ InCall(t) => \A n \in DOMAIN watch[t] : watch[t][n] \in Bufs
          /\ InCall(t) => DOMAIN watch[t] = 1 .. Len(watch[t])
      BY Own
    <3>2. CallOK(t)'
      BY <1>2, <3>1 DEF CallOK, InCall
    <3>3. Asked(t)'
      BY <1>2, <1>3, <3>1 DEF Asked, InCall
    <3>4. InCall(t) /\ sc_ready[t] /\ ~sbsel[b] => \A n \in DOMAIN watch[t] : watch[t][n] # b
      BY <1>2, <3>1 DEF Asked
    <3>5. Linked(t)'
      <4> SUFFICES ASSUME p_sb[t], ~found[t], s_state[t] # "CLEAR",
                          NEW n \in DOMAIN watch[t], n < idx[t]
                   PROVE  /\ mem[Hdr(watch[t][n])] # Nil
                          /\ ready'[watch[t][n]] => netbuf' = watch[t][n]
        BY <1>2, <2>1 DEF Linked
      <4>1. InCall(t) /\ sc_ready[t] /\ watch[t][n] \in Bufs
        BY <3>1 DEF CallOK
      <4>2. mem[Hdr(watch[t][n])] # Nil /\ (ready[watch[t][n]] => netbuf = watch[t][n])
        BY <3>1 DEF Linked
      <4>3. CASE watch[t][n] = b
        BY <2>1, <3>4, <4>1, <4>2, <4>3
      <4>4. CASE watch[t][n] # b
        BY <1>2, <1>3, <4>1, <4>2, <4>4, NilAssumption
      <4> QED BY <4>3, <4>4
    <3>6. Tested(t)'
      <4> SUFFICES ASSUME pc[t] = "selenter"
                   PROVE  /\ ready'[Current(t)] => netbuf' = Current(t) /\ Ahead(t, Net)'
                          /\ ~(netbuf' = Current(t) /\ ~ready'[netbuf'])
        BY <1>2 DEF Tested, Current
      <4>1. InCall(t) /\ sc_ready[t] /\ idx[t] \in DOMAIN watch[t] /\ Current(t) \in Bufs
        BY <3>1 DEF CallOK, InCall, Current
      <4>2. Contends(t)
        BY <1>1 DEF SemOK
      <4>3. ~ready[Current(t)]
        BY <1>2, <3>1, <4>1, NilAssumption DEF Tested
      <4>4. Current(t) = b => sbsel[b]
        BY <3>4, <4>1 DEF Current
      <4>5. netbuf' \in {Nil, b}
        BY <1>2, <2>1
      <4> QED BY <1>2, <1>3, <2>1, <2>3, <4>1, <4>2, <4>3, <4>4, <4>5, NilAssumption
    <3>7. \A k : InCall(t) /\ SomeReady(t, k) => SomeReady(t, k)'
      BY <1>2, <1>3, <3>1 DEF SomeReady
    <3>8. Woken(t)'
      BY <1>2, <2>1, <3>1, <3>7 DEF Woken, Asleep, InCall
    <3> QED BY <3>2, <3>3, <3>5, <3>6, <3>8 DEF TaskOK
  <2> QED BY <2>2, <2>3, <2>4, <2>5, <2>6 DEF SelectInv
<1> QED BY <1>4, <1>5

LEMMA DeliverResumesKeeps ==
  ASSUME OneSelector, SelectInv, DeliverResumes
  PROVE  SelectInv'
<1> DEFINE b == netbuf
<1>1. SelectTypes /\ SemOK /\ ChainsOK /\ Stale
  BY DEF SelectInv
<1>2. /\ b \in Bufs /\ sem.owner = Net /\ SelWakeup(b) /\ Release /\ netbuf' = Nil
      /\ CallsKept /\ UNCHANGED <<ready, sbsel>>
  BY <1>1 DEF DeliverResumes, CallsKept, bufVars, SelectTypes
<1> HIDE DEF b
<1>3. /\ ChainsOK' /\ DOMAIN mem' = Addrs /\ DOMAIN prev' = Items
      /\ \A c \in Bufs : c # b => mem'[Hdr(c)] = mem[Hdr(c)]
  BY <1>1, <1>2, WakeChains DEF SelectTypes, CallsKept, scanVars
<1>4. WakeEffect(b)
  BY <1>1, <1>2, WakeTasks
<1>5. SelectTypes'
  BY <1>1, <1>2, <1>3, <1>4 DEF SelectTypes, CallsKept, scanVars, WakeEffect
<1>6. SemOK'
  <2>1. Net \in Agents /\ Tasks \subseteq Agents /\ \A t \in Tasks : t # Net
    BY TaskAssumption DEF Agents
  <2>2. SemWF' /\ \A y \in Agents : Contends(y)' <=> Contends(y) /\ y # Net
    BY <1>1, <1>2, <2>1, ReleaseStep DEF SemOK
  <2> QED BY <1>1, <1>2, <2>1, <2>2 DEF SemOK, CallsKept
<1>7. Stale'
  BY <1>2 DEF Stale
<1>8. ASSUME NEW t \in Tasks PROVE TaskOK(t)'
  <2>1. mem[Hdr(b)] # Nil => ready'[b]
    BY <1>1, <1>2, NilAssumption DEF Stale, b
  <2>2. Tested(t)'
    <3> SUFFICES ASSUME pc[t] = "selenter"
                 PROVE  ~ready[Current(t)] /\ Current(t) # Nil
      BY <1>2 DEF Tested, CallsKept, scanVars, Current
    <3>1. ~ready[Current(t)]
      BY <1>2, Own DEF Tested, Ahead
    <3>2. Current(t) \in Bufs
      BY Own DEF CallOK, InCall, Current
    <3> QED BY <3>1, <3>2, NilAssumption
  <2>3. netbuf \in {Nil, b} /\ DOMAIN ready' = Bufs
    BY <1>1, <1>2 DEF b, SelectTypes
  <2> QED BY <1>2, <1>3, <1>4, <2>1, <2>2, <2>3, WakeTask
<1> QED BY <1>3, <1>5, <1>6, <1>7, <1>8 DEF SelectInv

-----------------------------------------------------------------------------
(* The theorem.                                                            *)

LEMMA SelectInit == Init => SelectInv
<1> SUFFICES ASSUME Init PROVE SelectInv
  OBVIOUS
<1> USE DEF Init
<1>1. SelectTypes
  BY DEF SelectTypes, Places
<1>2. SemOK
  <2>1. Contends(Net) <=> FALSE
    BY TaskAssumption DEF Contends
  <2>2. \A t \in Tasks : ~Contends(t)
    BY TaskAssumption DEF Contends
  <2> QED BY <2>1, <2>2 DEF SemOK, SemWF, Free
<1>3. ChainsOK
  BY AddrFacts DEF ChainsOK, HdrOK
<1>4. Stale
  BY DEF Stale
<1>5. ASSUME NEW t \in Tasks PROVE TaskOK(t)
  BY DEF TaskOK, CallOK, Asked, Linked, Tested, Woken, Asleep, InCall
<1> QED BY <1>1, <1>2, <1>3, <1>4, <1>5 DEF SelectInv

LEMMA SelectStutter ==
  ASSUME SelectInv, UNCHANGED vars
  PROVE  SelectInv'
<1> USE DEF vars, chainVars, bufVars, scanVars, sleepVars
<1>1. SelectTypes' /\ SemOK' /\ ChainsOK' /\ Stale'
  <2>1. SelectTypes /\ SemOK /\ ChainsOK /\ Stale
    BY DEF SelectInv
  <2>2. ChainsOK'
    BY <2>1, ChainsSame
  <2> QED BY <2>1, <2>2 DEF SelectTypes, SemOK, SemWF, Contends, Free, Stale
<1>2. ASSUME NEW t \in Tasks PROVE TaskOK(t)'
  <2>1. /\ CallOK(t) /\ Asked(t) /\ Linked(t) /\ Tested(t) /\ Woken(t)
    BY Own
  <2> QED BY <2>1 DEF TaskOK, CallOK, Asked, Linked, Tested, Woken, Asleep, InCall, Current,
                      Ahead, SomeReady
<1> QED BY <1>1, <1>2 DEF SelectInv

LEMMA SelectStep ==
  ASSUME OneSelector, SelectInv, [Next]_vars
  PROVE  SelectInv'
<1>1. ASSUME NEW t \in Tasks, TaskStep(t) PROVE SelectInv'
  BY <1>1, ScanReadyKeeps, ScanQueueKeeps, ScanBlocksKeeps, ScanResumesKeeps, FastReturnKeeps,
     SetupFailsKeeps, BeginWaitKeeps, AfterScanKeeps, CheckRescanKeeps, CheckSleepKeeps,
     SleepEndsKeeps, SleepSkippedKeeps, UnselectKeeps DEF TaskStep
<1>2. ASSUME NEW t \in Tasks, SelectCall(t) \/ TimerReply(t) \/ UserSignal(t)
      PROVE  SelectInv'
  BY <1>2, SelectCallKeeps, TimerReplyKeeps, UserSignalKeeps
<1>3. ASSUME NEW b \in Bufs, Deliver(b) \/ Drain(b) PROVE SelectInv'
  BY <1>3, DeliverKeeps, DrainKeeps
<1> QED BY <1>1, <1>2, <1>3, DeliverResumesKeeps, SelectStutter DEF Next

LEMMA SelectInvSound ==
  ASSUME SelectInv
  PROVE  SelectSound
<1>1. TimeoutKept
  <2> SUFFICES ASSUME NEW t \in Tasks, Asleep(t), timer[t] = "port" PROVE "sleep" \in sig[t]
    BY DEF TimeoutKept
  <2> QED BY Own DEF Woken, Asleep, InCall, CallOK
<1>2. NoMissedEvent
  <2> SUFFICES ASSUME NEW t \in Tasks, Asleep(t), NEW n \in DOMAIN watch[t], ready[watch[t][n]]
               PROVE  netbuf = watch[t][n]
    BY DEF NoMissedEvent
  <2>1. pc[t] = "sleep" /\ InCall(t) /\ s_state[t] = "WAITING"
    BY Own DEF Asleep, InCall, Woken
  <2>2. p_sb[t] /\ ~found[t] /\ n < idx[t]
    BY <2>1, Own DEF CallOK
  <2> QED BY <2>1, <2>2, Own DEF Linked
<1>3. ChainsClean
  <2> SUFFICES ASSUME NEW b \in Bufs
               PROVE  /\ ~Cyclic(b)
                      /\ \A i \in Chain(b) : /\ pc[i[1]] # "user" /\ sc_ready[i[1]]
                                             /\ i[2] <= s_count[i[1]]
                                             /\ b \in Range(watch[i[1]])
    BY DEF ChainsClean
  <2>1. ~Cyclic(b)
    BY Own, ChainItems DEF SelectInv
  <2>2. ASSUME NEW i \in Chain(b)
        PROVE  /\ pc[i[1]] # "user" /\ sc_ready[i[1]] /\ i[2] <= s_count[i[1]]
               /\ b \in Range(watch[i[1]])
    <3>1. PICK t \in Tasks, n \in {1, 2} :
            i = <<t, n>> /\ p_sb[t] /\ n <= s_count[t] /\ Watches(t, b)
      BY ChainItems DEF SelectInv
    <3>2. i[1] = t /\ i[2] = n
      BY <3>1
    <3>3. InCall(t) /\ sc_ready[t]
      BY <3>1, Own DEF CallOK
    <3> QED BY <3>1, <3>2, <3>3 DEF InCall, Watches, Range
  <2> QED BY <2>1, <2>2
<1> QED BY <1>1, <1>2, <1>3 DEF SelectSound

(* What WaitSelect waits for reaches it (SelectSound of Select): with each *)
(* buffer selected on and drained by one task, no sleeping task misses an  *)
(* event or its timeout, and selwakeup meets only items of calls in        *)
(* progress, whatever the order in which the tasks and the network task    *)
(* get select_semaphore (src/src/api/amiga_generic.c).                     *)
THEOREM SpecSelectSound ==
  ASSUME OneSelector
  PROVE  Spec => []SelectSound
<1>1. Init => SelectInv
  BY SelectInit
<1>2. SelectInv /\ [Next]_vars => SelectInv'
  BY SelectStep
<1>3. SelectInv => SelectSound
  BY SelectInvSound
<1> QED BY <1>1, <1>2, <1>3, PTL DEF Spec
=============================================================================
