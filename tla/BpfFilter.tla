------------------------------ MODULE BpfFilter ------------------------------
(***************************************************************************)
(* The filter machine of the packet capture (net/bpf_filter.c): what       *)
(* bpf_validate accepts and what bpf_filter does with it on a packet that  *)
(* is a chain of mbufs.                                                    *)
(*                                                                         *)
(* A program is not enumerated before it runs: the instruction at pc is    *)
(* chosen when the machine fetches it, among all that bpf_validate accepts *)
(* at that place of a program of Proglen instructions.  As a valid program *)
(* only jumps forward, every instruction is fetched at most once, and the  *)
(* behaviours are those of all valid programs.  Octets and words are       *)
(* scaled: an octet has two values, a word is four octets.                 *)
(***************************************************************************)
EXTENDS Integers, Sequences, FiniteSets, SequencesExt

CONSTANTS
  Proglen,    \* instructions of the program
  MemWords,   \* BPF_MEMWORDS
  Operands,   \* constants k the instructions carry
  ChainLens   \* lengths of the mbufs of the packet, as sequences

ASSUME BpfFilterAssumption ==
  /\ Proglen \in Nat \ {0} /\ MemWords \in Nat \ {0} /\ Operands \subseteq Int
  /\ ChainLens \subseteq Seq(Nat)

VARIABLES
  bpc,     \* pc, from 0; Proglen or more is outside the program
  acc,     \* A
  idx,     \* X
  mem,     \* mem[], Junk until it is stored to
  merr,    \* merr: "junk" until m_xword or m_xhalf sets it
  pkt,     \* the chain, a sequence of sequences of octets
  verdict, \* the value returned, or Junk
  fetched, \* instructions executed
  strayed, \* whether a load left the packet
  misread  \* whether a load inside the packet gave something else than its octets

fvars == <<bpc, acc, idx, mem, merr, pkt, verdict, fetched, strayed, misread>>

Word == 16
WordBits == 4
Junk == -1
Wrap(n) == n % Word
Signed(n) == IF n < Word \div 2 THEN n ELSE n - Word

AluOps == {"add", "sub", "mul", "div", "and", "or", "lsh", "rsh"}
JmpOps == {"jgt", "jge", "jeq", "jset"}

\* The instructions: class and mode, operand, branches.
Insns ==
  [code : ({"ret"} \X {"k", "a"}) \cup ({"ld", "ldx"} \X {"len", "imm", "mem"})
          \cup ({"ld_abs", "ld_ind"} \X {"b", "h", "w"}) \cup ({"ldx"} \X {"msh"})
          \cup ({"misc"} \X {"st", "stx", "ja", "neg", "tax", "txa", "unknown"})
          \cup ((AluOps \cup JmpOps) \X {"k", "x"}),
   k : Operands, jt : {0, 1}, jf : {0, 1}]

Size == [b |-> 1, h |-> 2, w |-> 4]

\* The test bpf_validate makes of instruction i.
ValidInsn(p, i) ==
  LET from == i + 1
  IN /\ p.code = <<"misc", "ja">> => p.k >= 0 /\ p.k < Proglen - from
     /\ p.code \in JmpOps \X {"k", "x"} => from + p.jt < Proglen /\ from + p.jf < Proglen
     /\ p.code \in {<<"misc", "st">>, <<"misc", "stx">>, <<"ld", "mem">>, <<"ldx", "mem">>} => p.k < MemWords /\ p.k >= 0
     /\ p.code = <<"div", "k">> => p.k # 0
     /\ p.code \in {"lsh", "rsh"} \X {"k"} => p.k >= 0 /\ p.k < WordBits
     /\ i = Proglen - 1 => p.code[1] = "ret"

-----------------------------------------------------------------------------
\* MINDEX: the mbuf that holds octet k and the place in it; 0 past the end.
MINDEX(c, k) ==
  LET upto(n) == Len(FlattenSeq(SubSeq(c, 1, n)))
      holds == {n \in DOMAIN c : upto(n - 1) <= k /\ k < upto(n)}
  IN IF k < 0 \/ holds = {} THEN [m |-> 0, k |-> 0]
     ELSE LET m == CHOOSE n \in holds : TRUE IN [m |-> m, k |-> k - upto(m - 1)]

Value(octets) == FoldLeft(LAMBDA v, o : 2 * v + o, 0, octets)

\* Mutant: the octets in the next mbuf are taken from one place too far.
Extract_SkipsNext(c, k, size) ==
  LET at == MINDEX(c, k)
      have == Len(c[at.m]) - at.k
      next == IF at.m < Len(c) THEN c[at.m + 1] ELSE <<>>
      enough == IF size = 2 THEN Len(next) > 1 ELSE Len(next) + have > size
  IN IF k < 0 THEN [v |-> 0, err |-> "set"]
     ELSE IF at.m = 0 THEN [v |-> 0, err |-> merr]
     ELSE IF have >= size THEN [v |-> Value(SubSeq(c[at.m], at.k + 1, at.k + size)), err |-> "clear"]
     ELSE IF at.m < Len(c) /\ enough
     THEN [v |-> Value(SubSeq(c[at.m], at.k + 1, Len(c[at.m])) \o SubSeq(next, 2, 1 + size - have)),
           err |-> "clear"]
     ELSE [v |-> 0, err |-> "set"]

\* m_xword and m_xhalf: the value and what becomes of *err.  Past the end of the
\* chain MINDEX leaves the function with *err as it was.
Extract(c, k, size) ==
  LET at == MINDEX(c, k)
      have == Len(c[at.m]) - at.k
      next == IF at.m < Len(c) THEN c[at.m + 1] ELSE <<>>
      enough == IF size = 2 THEN next # <<>> ELSE Len(next) + have >= size
  IN IF k < 0 THEN [v |-> 0, err |-> "set"]
     ELSE IF at.m = 0 THEN [v |-> 0, err |-> merr]
     ELSE IF have >= size THEN [v |-> Value(SubSeq(c[at.m], at.k + 1, at.k + size)), err |-> "clear"]
     ELSE IF at.m < Len(c) /\ enough
     THEN [v |-> Value(SubSeq(c[at.m], at.k + 1, Len(c[at.m])) \o SubSeq(next, 1, size - have)),
           err |-> "clear"]
     ELSE [v |-> 0, err |-> "set"]

Halt(v) == verdict' = v /\ UNCHANGED <<bpc, acc, idx, mem, merr>>

Step(a, x, d) ==
  /\ acc' = a /\ idx' = x /\ bpc' = bpc + 1 + d /\ UNCHANGED <<mem, verdict>>

\* A load of `size` octets at offset k into A: from the first mbuf directly, else
\* through Extract; a single octet through MINDEX alone.
Load(k, size) ==
  LET e == Extract(pkt, k, size)
      direct == k >= 0 /\ k + size <= Len(pkt[1])
      at == MINDEX(pkt, k)
      flat == FlattenSeq(pkt)
      inside == k >= 0 /\ k + size <= Len(flat)
  IN /\ strayed' = (strayed \/ ~inside)
     /\ IF direct THEN Step(Value(SubSeq(pkt[1], k + 1, k + size)), idx, 0) /\ UNCHANGED merr
        ELSE IF size = 1 THEN IF at.m = 0 THEN Halt(0)
                              ELSE Step(pkt[at.m][at.k + 1], idx, 0) /\ UNCHANGED merr
        ELSE \/ /\ e.err \in {"set", "junk"} /\ verdict' = 0 /\ merr' = e.err
                /\ UNCHANGED <<bpc, acc, idx, mem>>
             \/ e.err \in {"clear", "junk"} /\ Step(Wrap(e.v), idx, 0) /\ merr' = e.err
     /\ misread' = (misread \/ (inside /\ verdict' = Junk /\ acc' # Value(SubSeq(flat, k + 1, k + size))))

\* X = the low half of an octet, times four.
LoadMsh(k) ==
  LET at == MINDEX(pkt, k)
  IN /\ strayed' = (strayed \/ at.m = 0) /\ UNCHANGED misread
     /\ IF at.m = 0 THEN Halt(0)
        ELSE Step(acc, Wrap(4 * pkt[at.m][at.k + 1]), 0) /\ UNCHANGED merr

BitAnd(a, b) ==
  LET bit(n, i) == (n \div 2^i) % 2
  IN FoldLeft(LAMBDA v, i : v + 2^i * bit(a, i) * bit(b, i), 0, [i \in 1..WordBits |-> i - 1])

Alu(op, y) ==
  CASE op = "add" -> acc + y [] op = "sub" -> acc - y [] op = "mul" -> acc * y
    [] op = "div" -> acc \div y [] op = "and" -> BitAnd(acc, y)
    [] op = "or" -> acc + y - BitAnd(acc, y)
    [] op = "lsh" -> acc * 2^y [] op = "rsh" -> acc \div 2^y

Holds(op, y) ==
  CASE op = "jgt" -> acc > y [] op = "jge" -> acc >= y
    [] op = "jeq" -> acc = y [] op = "jset" -> BitAnd(acc, y) # 0

\* What a scratch word is when it is loaded.
Scratch(k) == IF mem[k] = Junk THEN {0, Word - 1} ELSE {mem[k]}

\* Registers and branches: nothing is loaded from the packet.
Internal(p) ==
  LET k == Wrap(p.k)
      y(s) == IF s = "k" THEN k ELSE idx
      c == p.code
  IN /\ UNCHANGED <<strayed, misread>>
     /\ \/ c = <<"ret", "k">> /\ Halt(k)
        \/ c = <<"ret", "a">> /\ Halt(acc)
        \/ c = <<"misc", "unknown">> /\ Halt(0)
        \/ UNCHANGED merr /\
           ( \/ c = <<"ld", "len">> /\ Step(Wrap(Len(FlattenSeq(pkt))), idx, 0)
             \/ c = <<"ldx", "len">> /\ Step(acc, Wrap(Len(FlattenSeq(pkt))), 0)
             \/ c = <<"ld", "imm">> /\ Step(k, idx, 0)
             \/ c = <<"ldx", "imm">> /\ Step(acc, k, 0)
             \/ c = <<"ld", "mem">> /\ \E v \in Scratch(p.k) : Step(v, idx, 0)
             \/ c = <<"ldx", "mem">> /\ \E v \in Scratch(p.k) : Step(acc, v, 0)
             \/ /\ c \in {<<"misc", "st">>, <<"misc", "stx">>} /\ bpc' = bpc + 1
                /\ mem' = [mem EXCEPT ![p.k] = IF c[2] = "st" THEN acc ELSE idx]
                /\ UNCHANGED <<acc, idx, verdict>>
             \/ c = <<"misc", "ja">> /\ Step(acc, idx, p.k)
             \/ c = <<"misc", "neg">> /\ Step(Wrap(-acc), idx, 0)
             \/ c = <<"misc", "tax">> /\ Step(acc, acc, 0)
             \/ c = <<"misc", "txa">> /\ Step(idx, idx, 0))
        \/ \E op \in JmpOps, s \in {"k", "x"} :
             c = <<op, s>> /\ Step(acc, idx, IF Holds(op, y(s)) THEN p.jt ELSE p.jf) /\ UNCHANGED merr
        \/ \E op \in AluOps, s \in {"k", "x"} :
             /\ c = <<op, s>>
             /\ IF s = "x" /\ ((op = "div" /\ idx = 0) \/ (op \in {"lsh", "rsh"} /\ idx >= WordBits))
                THEN Halt(0)
                ELSE Step(Wrap(Alu(op, y(s))), idx, 0) /\ UNCHANGED merr

BpfFilterInit ==
  /\ bpc = 0 /\ acc = 0 /\ idx = 0 /\ merr = "junk" /\ verdict = Junk /\ fetched = 0
  /\ mem = [k \in 0..(MemWords - 1) |-> Junk] /\ strayed = FALSE /\ misread = FALSE
  /\ \E lens \in ChainLens :
       \E octets \in [1..Len(FlattenSeq([n \in DOMAIN lens |-> [j \in 1..lens[n] |-> 0]])) -> {0, 1}] :
         LET from(n) == FoldLeft(LAMBDA v, l : v + l, 0, SubSeq(lens, 1, n - 1))
         IN pkt = [n \in DOMAIN lens |-> [j \in 1..lens[n] |-> octets[from(n) + j]]]

BpfFilterNext ==
  /\ verdict = Junk /\ bpc \in 0..(Proglen - 1)
  /\ fetched' = fetched + 1 /\ UNCHANGED pkt
  /\ \E p \in {q \in Insns : ValidInsn(q, bpc)} :
       \/ Internal(p)
       \/ p.code[1] = "ld_abs" /\ Load(p.k, Size[p.code[2]])
       \/ p.code[1] = "ld_ind" /\ Load(Signed(Wrap(idx + p.k)), Size[p.code[2]])
       \/ p.code = <<"ldx", "msh">> /\ LoadMsh(p.k)

BpfFilterSpec == BpfFilterInit /\ [][BpfFilterNext]_fvars

-----------------------------------------------------------------------------
\* A program bpf_validate accepts stays inside itself, ends within as many steps
\* as it has instructions, reads the octets of the packet wherever the chain is
\* split, and every register and scratch word it leaves is a word
\* of the machine (no shift, division or index outside its range).
FilterSafe ==
  /\ bpc \in 0..(Proglen - 1) /\ fetched <= Proglen /\ ~misread
  /\ {acc, idx} \subseteq 0..(Word - 1)
  /\ \A k \in DOMAIN mem : mem[k] \in {Junk} \cup 0..(Word - 1)
  /\ DOMAIN mem = 0..(MemWords - 1)
  /\ fetched = Proglen => verdict # Junk

\* "... letting a filter's accept/reject decision depend on memory that was never
\* part of the packet" (m_xhalf): a packet too short for a load is rejected.
OffEndRejects == strayed => verdict = 0
=============================================================================
