------------------------------- MODULE SockOpt -------------------------------
(***************************************************************************)
(* The options and names of a socket: setsockopt, getsockopt, getsockname, *)
(* getpeername and sockArgs (api/amiga_syscalls.c), sosetopt and sogetopt  *)
(* (kern/uipc_socket.c), soreserve, sbreserve and sbrelease                *)
(* (kern/uipc_socket2.c).  Every call carries its value in one mbuf of a   *)
(* pool that may be dry, and the sizes are 32-bit numbers (0..Word-1).     *)
(***************************************************************************)
EXTENDS Integers, Sequences, FiniteSets, FiniteSetsExt

CONSTANTS
  LongWord,          \* 2^32
  SbMax, MSize, MClBytes, SoBufMin,
  Values,        \* numbers a program or a tunable gives; -1 is a negative int
  Pool,          \* mbufs
  MaxOptCalls    \* bound: calls

ASSUME SockOptAssumption == {LongWord, SbMax, MSize, MClBytes, SoBufMin, Pool, MaxOptCalls} \subseteq Nat

VARIABLES
  opt,     \* [made, flags, linger, snd, rcv]; snd, rcv: [hiwat, mbmax, lowat, timeo]
  mfree,   \* free mbufs
  asked,   \* history: option -> the value of the last setsockopt that succeeded
  got,     \* the answer of the last call: [rc, name, val]
  optcalls

optvars == <<opt, mfree, asked, got, optcalls>>

FlagNames == {"KEEPALIVE", "REUSEADDR"}
BufNames == {"SNDBUF", "RCVBUF"}
LowNames == {"SNDLOWAT", "RCVLOWAT"}
TimeNames == {"SNDTIMEO", "RCVTIMEO"}
LingerNames == {"LINGER", "UNLINGER"}     \* with l_onoff set and clear
OptNames == FlagNames \cup BufNames \cup LowNames \cup TimeNames \cup LingerNames
Side(name) == IF name \in {"SNDBUF", "SNDLOWAT", "SNDTIMEO"} THEN "snd" ELSE "rcv"
Unsigned(v) == IF v < 0 THEN LongWord + v ELSE v

NewBuf == [hiwat |-> 0, mbmax |-> 0, lowat |-> 0, timeo |-> 0]

SockOptInit ==
  /\ opt = [made |-> FALSE, flags |-> {}, linger |-> 0, snd |-> NewBuf, rcv |-> NewBuf]
  /\ mfree \in 0..Pool /\ asked = [n \in {} |-> 0] /\ got = [rc |-> "none", name |-> "none", val |-> 0] /\ optcalls = 0

Answer1(rc, name, val) == got' = [rc |-> rc, name |-> name, val |-> val] /\ optcalls < MaxOptCalls /\ optcalls' = optcalls + 1

-----------------------------------------------------------------------------
\* Divides before it multiplies, so that no 32-bit product overflows.
Ceiling == (SbMax \div (MSize + MClBytes)) * MClBytes

\* sb_max is at most 2 MB, in every tier of ng_ram_tier, and an option is a 32-bit int.
ASSUME SizesAssumption ==
  /\ MSize > 0 /\ SbMax > 0 /\ 2 * SbMax <= LongWord
  /\ \A v \in Values : v \in Int /\ -LongWord <= 2 * v

sbreserve(sb, cc) ==
  [sb EXCEPT !.hiwat = cc, !.mbmax = Min({(cc * 2) % LongWord, SbMax}), !.lowat = Min({@, cc})]

sbrelease(sb) == [sb EXCEPT !.hiwat = 0, !.mbmax = 0]

\* Mutant: a socket refused for its receive buffer keeps the send reservation.
soreserve_KeepSend(sndcc, rcvcc) ==
  LET s == Max({sndcc, SoBufMin})
      r == Max({rcvcc, SoBufMin})
      snd == sbreserve(opt.snd, s)
      low == IF snd.lowat = 0 THEN MClBytes ELSE snd.lowat
  IN /\ ~opt.made /\ UNCHANGED <<mfree, asked>>
     /\ IF s > Ceiling THEN Answer1("ENOBUFS", "socket", 0) /\ UNCHANGED opt
        ELSE IF r > Ceiling THEN Answer1("ENOBUFS", "socket", 0) /\ opt' = [opt EXCEPT !.snd = snd]
        ELSE /\ opt' = [opt EXCEPT !.made = TRUE, !.snd = [snd EXCEPT !.lowat = Min({low, snd.hiwat})],
                                   !.rcv = [sbreserve(opt.rcv, r) EXCEPT !.lowat = 1]]
             /\ Answer1("ok", "socket", 0)

\* The buffers of a new socket, from the tunables.
soreserve(sndcc, rcvcc) ==
  LET s == Max({sndcc, SoBufMin})
      r == Max({rcvcc, SoBufMin})
      snd == sbreserve(opt.snd, s)
      low == IF snd.lowat = 0 THEN MClBytes ELSE snd.lowat
  IN /\ ~opt.made /\ UNCHANGED <<mfree, asked>>
     /\ IF s > Ceiling THEN Answer1("ENOBUFS", "socket", 0) /\ UNCHANGED opt
        ELSE IF r > Ceiling THEN Answer1("ENOBUFS", "socket", 0) /\ opt' = [opt EXCEPT !.snd = sbrelease(snd)]
        ELSE /\ opt' = [opt EXCEPT !.made = TRUE, !.snd = [snd EXCEPT !.lowat = Min({low, snd.hiwat})],
                                   !.rcv = [sbreserve(opt.rcv, r) EXCEPT !.lowat = 1]]
             /\ Answer1("ok", "socket", 0)

-----------------------------------------------------------------------------
(* setsockopt: `room' is what the program says the value takes. *)

SetFlag(name, v) == [opt EXCEPT !.flags = IF v # 0 THEN @ \cup {name} ELSE @ \ {name}]

SetBuf(name, v) ==
  IF Side(name) = "snd" THEN [opt EXCEPT !.snd = sbreserve(@, Unsigned(v))]
  ELSE [opt EXCEPT !.rcv = sbreserve(@, Unsigned(v))]

SetSide(name, f, v) ==
  IF Side(name) = "snd" THEN [opt EXCEPT !.snd[f] = v] ELSE [opt EXCEPT !.rcv[f] = v]

Wrong(name, v, short) ==
  IF name \notin OptNames THEN "ENOPROTOOPT"
  ELSE IF short \/ (name \in TimeNames \cup LingerNames /\ v < 0) THEN "EINVAL"
  ELSE IF name \in BufNames /\ Unsigned(v) > Ceiling THEN "ENOBUFS" ELSE "ok"

sosetopt(name, v) ==
  CASE name \in FlagNames -> SetFlag(name, v)
    [] name \in LingerNames -> [SetFlag("LINGER", IF name = "LINGER" THEN 1 ELSE 0) EXCEPT !.linger = v]
    [] name \in BufNames -> SetBuf(name, v)
    [] name \in LowNames -> SetSide(name, "lowat", v)
    [] OTHER -> SetSide(name, "timeo", v)

\* The mbuf is freed by sosetopt whatever comes of it.
setsockopt(name, v, short) ==
  /\ opt.made /\ UNCHANGED mfree
  /\ IF mfree = 0 THEN Answer1("ENOBUFS", name, 0) /\ UNCHANGED <<opt, asked>>
     ELSE LET rc == Wrong(name, v, short)
          IN /\ Answer1(rc, name, 0)
             /\ IF rc = "ok" THEN /\ opt' = sosetopt(name, v)
                                  /\ asked' = [n \in DOMAIN asked \cup {name} |-> IF n = name THEN v ELSE asked[n]]
                ELSE UNCHANGED <<opt, asked>>

OptionOf(name) ==
  CASE name \in FlagNames -> IF name \in opt.flags THEN 1 ELSE 0
    [] name \in LingerNames -> opt.linger
    [] name \in BufNames -> opt[Side(name)].hiwat
    [] name \in LowNames -> opt[Side(name)].lowat
    [] OTHER -> opt[Side(name)].timeo

\* sogetopt answers in an mbuf that getsockopt frees; for an unknown option it frees it itself.
sogetopt(name) ==
  /\ opt.made /\ UNCHANGED <<opt, asked, mfree>>
  /\ IF mfree = 0 THEN Answer1("ENOBUFS", name, 0)
     ELSE IF name \notin OptNames THEN Answer1("ENOPROTOOPT", name, 0)
     ELSE Answer1("ok", name, OptionOf(name))

getpeername(connected) ==
  /\ opt.made /\ UNCHANGED <<opt, asked, mfree>>
  /\ Answer1(IF ~connected THEN "ENOTCONN" ELSE IF mfree = 0 THEN "ENOBUFS" ELSE "ok", "peer", 0)

getsockname ==
  opt.made /\ UNCHANGED <<opt, asked, mfree>> /\ Answer1(IF mfree = 0 THEN "ENOBUFS" ELSE "ok", "name", 0)

\* Other traffic takes and returns mbufs.
PoolMoves == \E n \in {mfree - 1, mfree + 1} \cap (0..Pool) : mfree' = n /\ UNCHANGED <<opt, asked, got, optcalls>>

SockOptNext ==
  \/ \E s, r \in {v \in Values : v >= 0} : soreserve(s, r)
  \/ \E n \in OptNames \cup {"other"}, v \in Values, short \in BOOLEAN : setsockopt(n, v, short)
  \/ \E n \in OptNames \cup {"other"} : sogetopt(n)
  \/ \E c \in BOOLEAN : getpeername(c)
  \/ getsockname \/ PoolMoves

SockOptSpec == SockOptInit /\ [][SockOptNext]_optvars

-----------------------------------------------------------------------------
\* The options of a socket are those that were set: an option has the last value that was
\* accepted, but that a smaller buffer lowers its low-water mark and any value but 0 turns a
\* flag on, and getsockopt tells it; buffers keep to what the mbuf accounting can back and mbmax
\* covers the data, a wait is never negative, a socket that was refused holds no reservation and
\* a new one has room for a datagram whatever the tunables say.
OptionsKept ==
  /\ \A n \in DOMAIN asked :
       CASE n \in FlagNames -> OptionOf(n) = (IF asked[n] = 0 THEN 0 ELSE 1)
         [] n \in LowNames -> OptionOf(n) <= asked[n]
         [] n \in LingerNames -> OptionOf(n) \in {asked[m] : m \in DOMAIN asked \cap LingerNames}
         [] OTHER -> OptionOf(n) = asked[n]
  /\ \A b \in {opt.snd, opt.rcv} : /\ b.hiwat <= Ceiling /\ b.timeo >= 0 /\ opt.linger >= 0
                                   /\ b.mbmax >= b.hiwat
  /\ ~opt.made => opt.snd.hiwat = 0 /\ opt.rcv.hiwat = 0
  /\ opt.made /\ DOMAIN asked \cap BufNames = {} => opt.snd.hiwat >= SoBufMin /\ opt.rcv.hiwat >= SoBufMin
=============================================================================
