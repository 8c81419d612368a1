----------------------------- MODULE DataProofs ------------------------------
(***************************************************************************)
(* What is proved of the numbers: the options of a socket and the tunables *)
(* of the stack.                                                           *)
(***************************************************************************)
EXTENDS SockOpt, Tunables, TLAPS

-----------------------------------------------------------------------------
(* Numbers.                                                                *)

LEMMA MinMax ==
  ASSUME NEW a \in Int, NEW b \in Int
  PROVE  /\ Min({a, b}) = IF a <= b THEN a ELSE b
         /\ Max({a, b}) = IF a >= b THEN a ELSE b
BY DEF Min, Max

LEMMA MinIs == ASSUME NEW a \in Nat, NEW b \in Nat PROVE Min({a, b}) = IF a <= b THEN a ELSE b
BY MinMax

LEMMA MaxIs == ASSUME NEW a \in Nat, NEW b \in Nat PROVE Max({a, b}) = IF a >= b THEN a ELSE b
BY MinMax

LEMMA MaxOfThree ==
  ASSUME NEW a \in Nat, NEW b \in Nat, NEW c \in Nat
  PROVE  Max({a, b, c}) \in Nat /\ Max({a, b, c}) >= a /\ Max({a, b, c}) >= b /\ Max({a, b, c}) >= c
<1>1. \E m \in {a, b, c} : \A n \in {a, b, c} : m >= n
  <2>1. CASE a >= b /\ a >= c
    BY <2>1
  <2>2. CASE b >= a /\ b >= c
    BY <2>2
  <2>3. CASE c >= a /\ c >= b
    BY <2>3
  <2> QED BY <2>1, <2>2, <2>3
<1> QED BY <1>1 DEF Max

LEMMA MinOfThree ==
  ASSUME NEW a \in Nat, NEW b \in Nat, NEW c \in Nat, NEW r \in Nat, r >= a \/ r >= b \/ r >= c
  PROVE  r >= Min({a, b, c})
<1>1. \E m \in {a, b, c} : \A n \in {a, b, c} : m <= n
  <2>1. CASE a <= b /\ a <= c
    BY <2>1
  <2>2. CASE b <= a /\ b <= c
    BY <2>2
  <2>3. CASE c <= a /\ c <= b
    BY <2>3
  <2> QED BY <2>1, <2>2, <2>3
<1>2. Min({a, b, c}) \in {a, b, c} /\ \A n \in {a, b, c} : Min({a, b, c}) <= n
  BY <1>1 DEF Min
<1> QED BY <1>2

LEMMA MinNat == ASSUME NEW a \in Nat, NEW b \in Nat PROVE Min({a, b}) \in Nat
BY MinIs

LEMMA MaxNat == ASSUME NEW a \in Nat, NEW b \in Nat PROVE Max({a, b}) \in Nat
BY MaxIs

LEMMA Division ==
  ASSUME NEW a \in Nat, NEW n \in Nat, n > 0
  PROVE  a \div n \in Nat /\ (a \div n) * n <= a
OBVIOUS

-----------------------------------------------------------------------------
(***************************************************************************)
(* Socket options: OptionsKept, for any buffer sizes and any values.       *)
(***************************************************************************)

BufSet == [hiwat : Nat, mbmax : Nat, lowat : Int, timeo : Int]
OptSet == [made : BOOLEAN, flags : SUBSET (FlagNames \cup {"LINGER"}), linger : Int,
           snd : BufSet, rcv : BufSet]
Asked == DOMAIN asked

\* The half of the socket an option is of.
Half(o, n) == IF Side(n) = "snd" THEN o.snd ELSE o.rcv

\* What sbreserve and the waits keep within.
SideOK(b) == b.hiwat <= Ceiling /\ b.timeo >= 0 /\ b.mbmax >= b.hiwat

\* What the calls that succeeded left of each other's values.
OptTypes == /\ opt \in OptSet /\ Asked \subseteq OptNames /\ (\A n \in Asked : asked[n] \in Values)
            /\ asked = [n \in Asked |-> asked[n]]
            /\ ~opt.made => Asked = {}
SidesOK == SideOK(opt.snd) /\ SideOK(opt.rcv) /\ opt.linger >= 0
AskedKept(o, a) ==
  /\ \A n \in DOMAIN a \cap FlagNames : n \in o.flags <=> a[n] # 0
  /\ \A n \in DOMAIN a \cap LowNames : Half(o, n).lowat <= a[n]
  /\ \A n \in DOMAIN a \cap BufNames : Half(o, n).hiwat = a[n]
  /\ \A n \in DOMAIN a \cap TimeNames : Half(o, n).timeo = a[n]
  /\ DOMAIN a \cap LingerNames # {} => \E n \in DOMAIN a \cap LingerNames : o.linger = a[n]
Reservations ==
  /\ ~opt.made => opt.snd.hiwat = 0 /\ opt.rcv.hiwat = 0
  /\ opt.made /\ Asked \cap BufNames = {} => opt.snd.hiwat >= SoBufMin /\ opt.rcv.hiwat >= SoBufMin

OptInv == OptTypes /\ SidesOK /\ AskedKept(opt, asked) /\ Reservations

LEMMA Constants == /\ LongWord \in Nat /\ SbMax \in Nat /\ MSize \in Nat \ {0} /\ MClBytes \in Nat
                   /\ SoBufMin \in Nat /\ SbMax > 0 /\ 2 * SbMax <= LongWord
BY SockOptAssumption, SizesAssumption

\* What sbreserve accepts is less than sb_max.
LEMMA CeilingIs == Ceiling \in Nat /\ (Ceiling = 0 \/ Ceiling < SbMax)
<1> DEFINE n == MSize + MClBytes
           q == SbMax \div n
<1>1. n \in Nat /\ n > 0 /\ n > MClBytes /\ MClBytes \in Nat
  BY Constants
<1> HIDE DEF n
<1>2. q \in Nat /\ q * n <= SbMax
  BY <1>1, Constants, Division
<1> HIDE DEF q
<1>3. q * MClBytes \in Nat
  BY <1>1, <1>2
<1>4. q = 0 \/ q * MClBytes < q * n
  BY <1>1, <1>2
<1>5. Ceiling = q * MClBytes
  BY DEF Ceiling, q, n
<1>6. q = 0 => q * MClBytes = 0
  BY <1>1
<1> QED BY <1>1, <1>2, <1>3, <1>4, <1>5, <1>6, Constants

\* A reservation within the ceiling.
LEMMA Reserved ==
  ASSUME NEW sb \in BufSet, sb.timeo >= 0, NEW cc \in Nat, cc <= Ceiling
  PROVE  LET r == sbreserve(sb, cc)
         IN  /\ r \in BufSet /\ SideOK(r) /\ r.hiwat = cc /\ r.timeo = sb.timeo
             /\ r.lowat <= sb.lowat
<1>1. LongWord \in Nat /\ cc * 2 \in Nat /\ cc * 2 < LongWord
  BY CeilingIs, Constants
<1>2. (cc * 2) % LongWord = cc * 2
  <2> DEFINE a == cc * 2
  <2>1. a \in Nat /\ LongWord \in Nat /\ a < LongWord
    BY <1>1
  <2> HIDE DEF a
  <2>2. a % LongWord = a
    BY <2>1
  <2> QED BY <2>2 DEF a
<1>3. Min({cc * 2, SbMax}) \in Nat /\ Min({cc * 2, SbMax}) >= cc
  BY <1>1, CeilingIs, Constants, MinMax
<1>4. sb.lowat \in Int /\ Min({sb.lowat, cc}) \in Int /\ Min({sb.lowat, cc}) <= sb.lowat
  BY MinMax DEF BufSet
<1> DEFINE m == Min({(cc * 2) % LongWord, SbMax})
           l == Min({sb.lowat, cc})
<1>5. sbreserve(sb, cc) = [sb EXCEPT !.hiwat = cc, !.mbmax = m, !.lowat = l]
  BY DEF sbreserve
<1>6. m \in Nat /\ m >= cc /\ l \in Int /\ l <= sb.lowat
  BY <1>2, <1>3, <1>4
<1> HIDE DEF m, l
<1>7. sbreserve(sb, cc) = [hiwat |-> cc, mbmax |-> m, lowat |-> l, timeo |-> sb.timeo]
  BY <1>5 DEF BufSet
<1> QED BY <1>6, <1>7 DEF BufSet, SideOK

LEMMA Released ==
  ASSUME NEW sb \in BufSet, sb.timeo >= 0
  PROVE  sbrelease(sb) \in BufSet /\ SideOK(sbrelease(sb)) /\ sbrelease(sb).hiwat = 0
<1> DEFINE b == [hiwat |-> 0, mbmax |-> 0, lowat |-> sb.lowat, timeo |-> sb.timeo]
<1>1. sbrelease(sb) = b
  <2>1. sbrelease(sb) = [sb EXCEPT !.hiwat = 0, !.mbmax = 0]
    BY DEF sbrelease
  <2> QED BY <2>1 DEF BufSet
<1>2. b \in BufSet /\ b.hiwat = 0 /\ b.mbmax = 0 /\ b.timeo = sb.timeo
  BY DEF BufSet
<1> QED BY <1>1, <1>2, CeilingIs DEF SideOK

LEMMA NoOption == ASSUME OptInv, UNCHANGED <<opt, asked>> PROVE OptInv'
BY DEF OptInv, OptTypes, OptSet, BufSet, Asked, SidesOK, SideOK, AskedKept, Half, Reservations

\* The buffers of a new socket: all, or nothing.
LEMMA NewSocket ==
  ASSUME OptInv, NEW sndcc \in Values, NEW rcvcc \in Values, sndcc >= 0, rcvcc >= 0,
         soreserve(sndcc, rcvcc)
  PROVE  OptInv'
<1> DEFINE s == Max({sndcc, SoBufMin})
           r == Max({rcvcc, SoBufMin})
           snd == sbreserve(opt.snd, s)
           rc1 == sbreserve(opt.rcv, r)
           low == IF snd.lowat = 0 THEN MClBytes ELSE snd.lowat
           low1 == Min({low, snd.hiwat})
<1>1. s \in Nat /\ s >= SoBufMin /\ r \in Nat /\ r >= SoBufMin
  <2>1. sndcc \in Int /\ rcvcc \in Int /\ SoBufMin \in Nat
    BY Constants, SizesAssumption
  <2>2. /\ Max({sndcc, SoBufMin}) = IF sndcc >= SoBufMin THEN sndcc ELSE SoBufMin
        /\ Max({rcvcc, SoBufMin}) = IF rcvcc >= SoBufMin THEN rcvcc ELSE SoBufMin
    BY <2>1, MinMax
  <2> QED BY <2>1, <2>2
<1>2. ~opt.made /\ asked' = asked /\ Asked = {}
  BY DEF soreserve, OptInv, OptTypes
<1>3. \/ opt' = opt
      \/ s <= Ceiling /\ opt' = [opt EXCEPT !.snd = sbrelease(snd)]
      \/ s <= Ceiling /\ r <= Ceiling
         /\ opt' = [opt EXCEPT !.made = TRUE, !.snd = [snd EXCEPT !.lowat = low1],
                               !.rcv = [rc1 EXCEPT !.lowat = 1]]
  BY <1>1, CeilingIs DEF soreserve
<1>4. /\ opt \in OptSet /\ opt.snd \in BufSet /\ opt.rcv \in BufSet
      /\ SidesOK /\ opt.snd.timeo >= 0 /\ opt.rcv.timeo >= 0
  BY DEF OptInv, OptTypes, OptSet, SidesOK, SideOK
<1>5. s <= Ceiling => snd \in BufSet /\ SideOK(snd) /\ snd.hiwat = s
  BY <1>1, <1>4, Reserved
<1>6. r <= Ceiling => rc1 \in BufSet /\ SideOK(rc1) /\ rc1.hiwat = r
  BY <1>1, <1>4, Reserved
<1>7. s <= Ceiling => low1 \in Int
  <2>1. s <= Ceiling => low \in Int /\ snd.hiwat \in Int
    BY <1>5, Constants DEF BufSet
  <2> HIDE DEF low, snd
  <2>2. s <= Ceiling => low1 = IF low <= snd.hiwat THEN low ELSE snd.hiwat
    BY <2>1, MinMax
  <2> QED BY <2>1, <2>2
<1> HIDE DEF s, r, snd, rc1, low1
<1>8. CASE opt' = opt
  BY <1>2, <1>8, NoOption
<1>9. CASE s <= Ceiling /\ opt' = [opt EXCEPT !.snd = sbrelease(snd)]
  <2>1. sbrelease(snd) \in BufSet /\ SideOK(sbrelease(snd)) /\ sbrelease(snd).hiwat = 0
    BY <1>5, <1>9, Released DEF SideOK
  <2>2. /\ opt' \in OptSet /\ ~opt'.made /\ opt'.snd = sbrelease(snd) /\ opt'.rcv = opt.rcv
        /\ opt'.linger = opt.linger
    BY <1>2, <1>4, <1>9, <2>1 DEF OptSet
  <2> QED BY <1>2, <1>4, <2>1, <2>2 DEF OptInv, OptTypes, Asked, SidesOK, AskedKept, Reservations
<1>10. CASE /\ s <= Ceiling /\ r <= Ceiling
            /\ opt' = [opt EXCEPT !.made = TRUE, !.snd = [snd EXCEPT !.lowat = low1],
                                  !.rcv = [rc1 EXCEPT !.lowat = 1]]
  <2> DEFINE a == [snd EXCEPT !.lowat = low1]
             b == [rc1 EXCEPT !.lowat = 1]
  <2>1. a \in BufSet /\ SideOK(a) /\ a.hiwat = s
    BY <1>5, <1>7, <1>10 DEF BufSet, SideOK
  <2>2. b \in BufSet /\ SideOK(b) /\ b.hiwat = r
    BY <1>6, <1>10 DEF BufSet, SideOK
  <2> HIDE DEF a, b
  <2>3. opt' = [opt EXCEPT !.made = TRUE, !.snd = a, !.rcv = b]
    BY <1>10 DEF a, b
  <2>4. /\ opt' \in OptSet /\ opt'.made /\ opt'.snd = a /\ opt'.rcv = b /\ opt'.linger = opt.linger
    BY <1>4, <2>1, <2>2, <2>3 DEF OptSet
  <2> QED BY <1>1, <1>2, <1>4, <2>1, <2>2, <2>4
      DEF OptInv, OptTypes, Asked, SidesOK, AskedKept, Reservations
<1> QED BY <1>3, <1>8, <1>9, <1>10

-----------------------------------------------------------------------------
(* setsockopt.                                                             *)

\* What an accepted call knows of its value.
LEMMA Accepted ==
  ASSUME OptInv, NEW name, NEW v \in Values, NEW short \in BOOLEAN, Wrong(name, v, short) = "ok"
  PROVE  /\ name \in OptNames /\ v \in Int
         /\ name \in TimeNames \cup LingerNames => v >= 0
         /\ name \in BufNames => Unsigned(v) = v /\ v \in Nat /\ v <= Ceiling
<1>1. name \in OptNames /\ (name \in TimeNames \cup LingerNames => ~(v < 0))
      /\ (name \in BufNames => ~(Unsigned(v) > Ceiling))
  BY DEF Wrong
<1>2. v \in Int /\ -LongWord <= 2 * v
  BY SizesAssumption
<1>3. v < 0 => Unsigned(v) > Ceiling
  BY <1>2, CeilingIs, Constants DEF Unsigned
<1>4. v >= 0 => Unsigned(v) = v /\ v \in Nat
  BY <1>2 DEF Unsigned
<1>5. v < 0 \/ v >= 0
  BY <1>2
<1> QED BY <1>1, <1>2, <1>3, <1>4, <1>5, CeilingIs

\* Setting a number of one half.
LEMMA SetHalf ==
  ASSUME OptInv, NEW name \in OptNames, NEW b \in BufSet, SideOK(b),
         opt' = IF Side(name) = "snd" THEN [opt EXCEPT !.snd = b] ELSE [opt EXCEPT !.rcv = b]
  PROVE  /\ opt' \in OptSet /\ SidesOK' /\ opt'.made = opt.made /\ opt'.flags = opt.flags
         /\ opt'.linger = opt.linger /\ Half(opt', name) = b
         /\ \A n \in OptNames : Half(opt', n) = IF Side(n) = Side(name) THEN b ELSE Half(opt, n)
<1>1. opt \in OptSet /\ SidesOK
  BY DEF OptInv, OptTypes
<1>2. CASE Side(name) = "snd"
  <2>1. opt' = [opt EXCEPT !.snd = b]
    BY <1>2
  <2>2. opt' \in OptSet /\ opt'.snd = b /\ opt'.rcv = opt.rcv /\ opt'.made = opt.made
        /\ opt'.flags = opt.flags /\ opt'.linger = opt.linger
    BY <1>1, <2>1 DEF OptSet
  <2> QED BY <1>1, <1>2, <2>2 DEF SidesOK, Half
<1>3. CASE Side(name) # "snd"
  <2>1. opt' = [opt EXCEPT !.rcv = b]
    BY <1>3
  <2>2. opt' \in OptSet /\ opt'.rcv = b /\ opt'.snd = opt.snd /\ opt'.made = opt.made
        /\ opt'.flags = opt.flags /\ opt'.linger = opt.linger
    BY <1>1, <2>1 DEF OptSet
  <2>3. \A n \in OptNames : Side(n) = Side(name) <=> Side(n) # "snd"
    BY <1>3 DEF Side
  <2> QED BY <1>1, <1>3, <2>2, <2>3 DEF SidesOK, Half
<1> QED BY <1>2, <1>3

LEMMA Groups ==
  /\ OptNames = FlagNames \cup BufNames \cup LowNames \cup TimeNames \cup LingerNames
  /\ FlagNames \cap (BufNames \cup LowNames \cup TimeNames \cup LingerNames) = {}
  /\ BufNames \cap (LowNames \cup TimeNames \cup LingerNames) = {}
  /\ LowNames \cap (TimeNames \cup LingerNames) = {}
  /\ TimeNames \cap LingerNames = {} /\ "LINGER" \notin FlagNames
  /\ \A m, n \in BufNames : m # n => Side(m) # Side(n)
  /\ \A m, n \in LowNames : m # n => Side(m) # Side(n)
  /\ \A m, n \in TimeNames : m # n => Side(m) # Side(n)
BY DEF OptNames, FlagNames, BufNames, LowNames, TimeNames, LingerNames, Side

LEMMA HalfIn ==
  ASSUME OptInv, NEW n
  PROVE  Half(opt, n) \in BufSet /\ SideOK(Half(opt, n)) /\ Half(opt, n).timeo >= 0
BY DEF OptInv, OptTypes, OptSet, SidesOK, SideOK, Half

LEMMA HalfSame ==
  /\ \A m, n : Side(m) = Side(n) => Half(opt, m) = Half(opt, n)
  /\ \A o : (o.snd = Half(o, "SNDBUF")) /\ (o.rcv = Half(o, "RCVBUF"))
BY DEF Half, Side

\* The halves of a socket whose reservations were left alone.
LEMMA HalfOf ==
  ASSUME NEW name \in OptNames, Half(opt', name).hiwat = Half(opt, name).hiwat,
         \A n \in OptNames : Side(n) # Side(name) => Half(opt', n) = Half(opt, n)
  PROVE  opt'.snd.hiwat = opt.snd.hiwat /\ opt'.rcv.hiwat = opt.rcv.hiwat
<1>1. "SNDBUF" \in OptNames /\ "RCVBUF" \in OptNames /\ Side("SNDBUF") = "snd" /\ Side("RCVBUF") = "rcv"
  BY DEF OptNames, BufNames, Side
<1>2. Side(name) \in {"snd", "rcv"}
  BY DEF Side
<1> QED BY <1>1, <1>2 DEF Half

LEMMA SetOption ==
  ASSUME OptInv, NEW name, NEW v \in Values, NEW short \in BOOLEAN,
         opt.made, Wrong(name, v, short) = "ok", opt' = sosetopt(name, v),
         asked' = [n \in DOMAIN asked \cup {name} |-> IF n = name THEN v ELSE asked[n]]
  PROVE  OptInv'
<1>1. /\ name \in OptNames /\ v \in Int
      /\ name \in TimeNames \cup LingerNames => v >= 0
      /\ name \in BufNames => Unsigned(v) = v /\ v \in Nat /\ v <= Ceiling
  BY Accepted
<1>2. /\ Asked' = Asked \cup {name} /\ Asked' \subseteq OptNames /\ name \in Asked'
      /\ asked' = [n \in Asked' |-> asked'[n]]
      /\ asked'[name] = v /\ (\A n \in Asked' \ {name} : n \in Asked /\ asked'[n] = asked[n])
      /\ \A n \in Asked' : asked'[n] \in Values
  BY <1>1 DEF OptInv, OptTypes, Asked
<1>3. /\ opt \in OptSet /\ Half(opt, name) \in BufSet /\ SideOK(Half(opt, name))
      /\ Half(opt, name).timeo >= 0 /\ SidesOK /\ Reservations
  BY HalfIn DEF OptInv, OptTypes
<1>4. SUFFICES opt' \in OptSet /\ opt'.made /\ SidesOK' /\ AskedKept(opt', asked') /\ Reservations'
  BY <1>2 DEF OptInv, OptTypes
<1>a. CASE name \in FlagNames
  <2>1. opt' = [opt EXCEPT !.flags = IF v # 0 THEN @ \cup {name} ELSE @ \ {name}]
    BY <1>a, Groups DEF sosetopt, SetFlag
  <2>2. /\ opt' \in OptSet /\ opt'.made = opt.made /\ opt'.linger = opt.linger
        /\ opt'.snd = opt.snd /\ opt'.rcv = opt.rcv
        /\ opt'.flags = IF v # 0 THEN opt.flags \cup {name} ELSE opt.flags \ {name}
    BY <1>3, <1>a, <2>1 DEF OptSet
  <2>3. SidesOK' /\ \A n : Half(opt', n) = Half(opt, n)
    BY <1>3, <2>2 DEF SidesOK, Half
  <2>4. Asked' \cap BufNames = Asked \cap BufNames /\ Reservations'
    BY <1>2, <1>3, <1>a, <2>2, Groups DEF Reservations
  <2>5. AskedKept(opt', asked')
    BY <1>2, <1>a, <2>2, <2>3, Groups DEF AskedKept, OptInv, Asked
  <2> QED BY <2>2, <2>3, <2>4, <2>5
<1>b. CASE name \in LingerNames
  <2> DEFINE on == IF name = "LINGER" THEN 1 ELSE 0
  <2>1. opt' = [SetFlag("LINGER", on) EXCEPT !.linger = v]
    BY <1>b, Groups DEF sosetopt
  <2>2. \E F \in SUBSET (FlagNames \cup {"LINGER"}) :
          /\ \A n \in FlagNames : n \in F <=> n \in opt.flags
          /\ SetFlag("LINGER", on) = [opt EXCEPT !.flags = F]
    <3> DEFINE F == IF on # 0 THEN opt.flags \cup {"LINGER"} ELSE opt.flags \ {"LINGER"}
    <3>1. F \in SUBSET (FlagNames \cup {"LINGER"}) /\ \A n \in FlagNames : n \in F <=> n \in opt.flags
      BY <1>3, Groups DEF OptSet
    <3>2. SetFlag("LINGER", on) = [opt EXCEPT !.flags = F]
      BY DEF SetFlag
    <3> QED BY <3>1, <3>2
  <2>3. PICK F \in SUBSET (FlagNames \cup {"LINGER"}) :
          /\ \A n \in FlagNames : n \in F <=> n \in opt.flags
          /\ SetFlag("LINGER", on) = [opt EXCEPT !.flags = F]
    BY <2>2
  <2>4. /\ opt' \in OptSet /\ opt'.made = opt.made /\ opt'.linger = v
        /\ opt'.snd = opt.snd /\ opt'.rcv = opt.rcv /\ opt'.flags = F
    <3>1. opt' = [[opt EXCEPT !.flags = F] EXCEPT !.linger = v]
      BY <2>1, <2>3
    <3> QED BY <1>1, <1>3, <3>1 DEF OptSet
  <2>5. SidesOK' /\ \A n : Half(opt', n) = Half(opt, n)
    BY <1>1, <1>3, <1>b, <2>4 DEF SidesOK, Half
  <2>6. Asked' \cap BufNames = Asked \cap BufNames /\ Reservations'
    BY <1>2, <1>3, <1>b, <2>4, Groups DEF Reservations
  <2>7. AskedKept(opt', asked')
    BY <1>2, <1>b, <2>3, <2>4, <2>5, Groups DEF AskedKept, OptInv, Asked
  <2> QED BY <2>4, <2>5, <2>6, <2>7
<1>c. CASE name \in BufNames
  <2> DEFINE b == sbreserve(Half(opt, name), v)
  <2>1. b \in BufSet /\ SideOK(b) /\ b.hiwat = v /\ b.timeo = Half(opt, name).timeo
        /\ b.lowat <= Half(opt, name).lowat
    BY <1>1, <1>3, <1>c, Reserved
  <2>2. opt' = IF Side(name) = "snd" THEN [opt EXCEPT !.snd = b] ELSE [opt EXCEPT !.rcv = b]
    BY <1>1, <1>c, Groups DEF sosetopt, SetBuf, Half
  <2> HIDE DEF b
  <2>3. /\ opt' \in OptSet /\ SidesOK' /\ opt'.made = opt.made /\ opt'.flags = opt.flags
        /\ opt'.linger = opt.linger /\ Half(opt', name) = b
        /\ \A n \in OptNames : Half(opt', n) = IF Side(n) = Side(name) THEN b ELSE Half(opt, n)
    BY <1>1, <2>1, <2>2, SetHalf
  <2>4. /\ AskedKept(opt, asked)
        /\ \A n \in OptNames : Half(opt', n) = IF Side(n) = Side(name) THEN b ELSE Half(opt, n)
        /\ \A n \in OptNames : Side(n) = Side(name) => Half(opt, n) = Half(opt, name)
    BY <2>3, HalfSame DEF OptInv
  <2>5. AskedKept(opt', asked')
    <3>1. \A n \in DOMAIN asked' \cap FlagNames : n \in opt'.flags <=> asked'[n] # 0
      BY <1>2, <1>c, <2>3, <2>4, Groups DEF AskedKept, Asked
    <3>2. \A n \in DOMAIN asked' \cap LowNames : Half(opt', n).lowat <= asked'[n]
      <4> SUFFICES ASSUME NEW n \in DOMAIN asked' \cap LowNames PROVE Half(opt', n).lowat <= asked'[n]
        OBVIOUS
      <4>1. n \in OptNames /\ n \in DOMAIN asked /\ asked'[n] = asked[n] /\ asked[n] \in Int
        BY <1>2, <1>c, Groups, SizesAssumption DEF Asked
      <4>2. Half(opt, n).lowat <= asked[n] /\ Half(opt, n).lowat \in Int
        BY <4>1, <2>4, HalfIn DEF AskedKept, BufSet
      <4> QED BY <4>1, <4>2, <2>1, <2>4 DEF BufSet
    <3>3. \A n \in DOMAIN asked' \cap BufNames : Half(opt', n).hiwat = asked'[n]
      BY <1>1, <1>2, <1>c, <2>1, <2>3, <2>4, Groups DEF AskedKept, Asked
    <3>4. \A n \in DOMAIN asked' \cap TimeNames : Half(opt', n).timeo = asked'[n]
      BY <1>1, <1>2, <1>c, <2>1, <2>3, <2>4, Groups DEF AskedKept, Asked
    <3>5. DOMAIN asked' \cap LingerNames # {} => \E n \in DOMAIN asked' \cap LingerNames : opt'.linger = asked'[n]
      BY <1>1, <1>2, <1>c, <2>3, <2>4, Groups DEF AskedKept, Asked
    <3> QED BY <3>1, <3>2, <3>3, <3>4, <3>5 DEF AskedKept
  <2>6. Reservations'
    BY <1>2, <1>c, <2>3 DEF Reservations
  <2> QED BY <2>3, <2>5, <2>6
<1>d. CASE name \in LowNames
  <2> DEFINE b == [Half(opt, name) EXCEPT !.lowat = v]
  <2>1. b \in BufSet /\ SideOK(b) /\ b.hiwat = Half(opt, name).hiwat
        /\ b.timeo = Half(opt, name).timeo /\ b.lowat = v
    BY <1>1, <1>3 DEF BufSet, SideOK
  <2>2. opt' = IF Side(name) = "snd" THEN [opt EXCEPT !.snd = b] ELSE [opt EXCEPT !.rcv = b]
    BY <1>d, Groups DEF sosetopt, SetSide, Half
  <2> HIDE DEF b
  <2>3. /\ opt' \in OptSet /\ SidesOK' /\ opt'.made = opt.made /\ opt'.flags = opt.flags
        /\ opt'.linger = opt.linger /\ Half(opt', name) = b
        /\ \A n \in OptNames : Half(opt', n) = IF Side(n) = Side(name) THEN b ELSE Half(opt, n)
    BY <1>1, <2>1, <2>2, SetHalf
  <2>5. AskedKept(opt', asked')
    BY <1>1, <1>2, <1>d, <2>1, <2>3, Groups, HalfSame DEF AskedKept, OptInv, Asked
  <2>6. Reservations'
    BY <1>2, <1>3, <1>d, <2>1, <2>3, Groups, HalfOf DEF Reservations
  <2> QED BY <2>3, <2>5, <2>6
<1>e. CASE name \in TimeNames
  <2> DEFINE b == [Half(opt, name) EXCEPT !.timeo = v]
  <2>1. b \in BufSet /\ SideOK(b) /\ b.hiwat = Half(opt, name).hiwat
        /\ b.timeo = v /\ b.lowat = Half(opt, name).lowat
    BY <1>1, <1>3, <1>e DEF BufSet, SideOK
  <2>2. opt' = IF Side(name) = "snd" THEN [opt EXCEPT !.snd = b] ELSE [opt EXCEPT !.rcv = b]
    BY <1>e, Groups DEF sosetopt, SetSide, Half
  <2> HIDE DEF b
  <2>3. /\ opt' \in OptSet /\ SidesOK' /\ opt'.made = opt.made /\ opt'.flags = opt.flags
        /\ opt'.linger = opt.linger /\ Half(opt', name) = b
        /\ \A n \in OptNames : Half(opt', n) = IF Side(n) = Side(name) THEN b ELSE Half(opt, n)
    BY <1>1, <2>1, <2>2, SetHalf
  <2>5. AskedKept(opt', asked')
    BY <1>1, <1>2, <1>e, <2>1, <2>3, Groups, HalfSame DEF AskedKept, OptInv, Asked
  <2>6. Reservations'
    BY <1>2, <1>3, <1>e, <2>1, <2>3, Groups, HalfOf DEF Reservations
  <2> QED BY <2>3, <2>5, <2>6
<1> QED BY <1>1, <1>a, <1>b, <1>c, <1>d, <1>e, Groups

LEMMA NextOption == ASSUME OptInv, [SockOptNext]_optvars PROVE OptInv'
<1>1. CASE UNCHANGED <<opt, asked>>
  BY <1>1, NoOption
<1>2. ASSUME NEW s \in Values, NEW r \in Values, s >= 0, r >= 0, soreserve(s, r) PROVE OptInv'
  BY <1>2, NewSocket
<1>3. ASSUME NEW n \in OptNames \cup {"other"}, NEW v \in Values, NEW short \in BOOLEAN,
             setsockopt(n, v, short)
      PROVE  OptInv'
  <2>1. \/ UNCHANGED <<opt, asked>>
        \/ /\ opt.made /\ Wrong(n, v, short) = "ok" /\ opt' = sosetopt(n, v)
           /\ asked' = [m \in DOMAIN asked \cup {n} |-> IF m = n THEN v ELSE asked[m]]
    BY <1>3 DEF setsockopt
  <2> QED BY <1>1, <2>1, SetOption
<1>4. \/ UNCHANGED <<opt, asked>>
      \/ \E s, r \in {v \in Values : v >= 0} : soreserve(s, r)
      \/ \E n \in OptNames \cup {"other"}, v \in Values, short \in BOOLEAN : setsockopt(n, v, short)
  BY DEF SockOptNext, optvars, sogetopt, getpeername, getsockname, PoolMoves
<1> QED BY <1>1, <1>2, <1>3, <1>4

LEMMA FirstOption == SockOptInit => OptInv
<1> SUFFICES ASSUME SockOptInit PROVE OptInv
  OBVIOUS
<1>1. NewBuf \in BufSet /\ SideOK(NewBuf) /\ NewBuf.hiwat = 0
  BY CeilingIs DEF NewBuf, BufSet, SideOK
<1>2. opt \in OptSet /\ ~opt.made /\ opt.snd = NewBuf /\ opt.rcv = NewBuf /\ opt.linger = 0
  BY <1>1 DEF SockOptInit, OptSet
<1>3. Asked = {} /\ asked = [n \in Asked |-> asked[n]]
  BY DEF SockOptInit, Asked
<1> QED BY <1>1, <1>2, <1>3 DEF OptInv, OptTypes, Asked, SidesOK, AskedKept, Reservations

\* What the calls answer is what the invariant says of the options.
LEMMA KeptOptions == OptInv => OptionsKept
<1> SUFFICES ASSUME OptInv PROVE OptionsKept
  OBVIOUS
<1>1. \A n \in OptNames \ (FlagNames \cup LingerNames) : Half(opt, n) = opt[Side(n)]
  BY DEF Half, Side, OptInv, OptTypes, OptSet
<1>2. ASSUME NEW n \in Asked
      PROVE  CASE n \in FlagNames -> OptionOf(n) = (IF asked[n] = 0 THEN 0 ELSE 1)
               [] n \in LowNames -> OptionOf(n) <= asked[n]
               [] n \in LingerNames -> OptionOf(n) \in {asked[m] : m \in Asked \cap LingerNames}
               [] OTHER -> OptionOf(n) = asked[n]
  <2>1. n \in OptNames /\ AskedKept(opt, asked)
    BY DEF OptInv, OptTypes
  <2>2. CASE n \in FlagNames
    BY <2>1, <2>2, Groups DEF OptionOf, AskedKept, Asked
  <2>3. CASE n \in LowNames
    <3>1. OptionOf(n) = Half(opt, n).lowat
      BY <1>1, <2>1, <2>3, Groups DEF OptionOf
    <3> QED BY <2>1, <2>3, <3>1, Groups DEF AskedKept, Asked
  <2>4. CASE n \in LingerNames
    <3>1. OptionOf(n) = opt.linger
      BY <2>4, Groups DEF OptionOf
    <3> QED BY <2>1, <2>4, <3>1, Groups DEF AskedKept, Asked
  <2>5. CASE n \in BufNames
    <3>1. OptionOf(n) = Half(opt, n).hiwat
      BY <1>1, <2>1, <2>5, Groups DEF OptionOf
    <3> QED BY <2>1, <2>5, <3>1, Groups DEF AskedKept, Asked
  <2>6. CASE n \in TimeNames
    <3>1. OptionOf(n) = Half(opt, n).timeo
      BY <1>1, <2>1, <2>6, Groups DEF OptionOf
    <3> QED BY <2>1, <2>6, <3>1, Groups DEF AskedKept, Asked
  <2> QED BY <2>1, <2>2, <2>3, <2>4, <2>5, <2>6, Groups
<1>3. \A b \in {opt.snd, opt.rcv} : b.hiwat <= Ceiling /\ b.timeo >= 0 /\ opt.linger >= 0
                                    /\ b.mbmax >= b.hiwat
  BY DEF OptInv, SidesOK, SideOK
<1>4. Reservations
  BY DEF OptInv
<1> QED BY <1>2, <1>3, <1>4 DEF OptionsKept, Reservations, Asked

\* An option has the value last accepted, buffers keep within the ceiling, and a refused socket
\* holds no reservation: setsockopt, getsockopt and soreserve, for any sizes and any values.
THEOREM SpecOptionsKept == SockOptSpec => []OptionsKept
BY FirstOption, NextOption, KeptOptions, PTL DEF SockOptSpec

-----------------------------------------------------------------------------
(***************************************************************************)
(* The tunables: TunablesSound, for any machines, environments,            *)
(* configurations, interfaces, devices and values, and any number of       *)
(* operations.                                                             *)
(***************************************************************************)
HIDE SockOptAssumption
HIDE SizesAssumption
USE DEF Kb, Seg, MbufSize, MinClSize

Numbers == {"maxmem", "mcl", "sbmax", "snd", "rcv", "ceiling", "ipq", "tstamp", "pri", "mss"}

\* The numbers the invariants speak of; mss, ipq and tstamp are any.
NumbersOK(t) ==
  /\ t = [f \in Numbers |-> t[f]]
  /\ t["maxmem"] \in Nat /\ t["mcl"] \in Nat \ {0} /\ t["sbmax"] \in Nat
  /\ t["snd"] \in Nat /\ t["rcv"] \in Nat /\ t["ceiling"] \in Nat
  /\ ng_task_pri_ok(t["pri"])

\* With clusters of 2048 bytes a socket buffer of cc bytes is accepted under sb_max = m.
Backed(cc, m) == cc <= (m \div 2176) * 2048

TunTypes ==
  /\ NumbersOK(tun) /\ override \in BOOLEAN /\ stackUp \in BOOLEAN /\ machine \in Machines
  /\ writer \in {"none", "tier", "link", "iface", "config"}
  /\ given \in [snd : Nat, rcv : Nat]

\* Windows: sb_max never falls below 64 KB and backs the ceiling of the tier; what an interface
\* file asked for stands, and keeps every later link from re-tuning.
WindowsKept ==
  /\ tun["sbmax"] >= 65536 /\ Backed(tun["ceiling"], tun["sbmax"])
  /\ writer # "none" => tun["ceiling"] > 0
  /\ stackUp => writer # "none"
  /\ writer \in {"tier", "link"} => tun["snd"] = tun["rcv"] /\ tun["snd"] <= tun["ceiling"]
  /\ writer = "iface" => Backed(tun["snd"], tun["sbmax"]) /\ Backed(tun["rcv"], tun["sbmax"])
  /\ given.snd > 0 => override /\ tun["snd"] = given.snd
  /\ given.rcv > 0 => override /\ tun["rcv"] = given.rcv

Ring == [read : Nat, total : Nat, mtu : Nat \ {0}, wire : {"ether", "slip"}, asked : BOOLEAN,
         baud : Nat, win : Nat]

\* A ring sized for a window, against the pool of that time.
RingFor(r, win, maxmem, mcl) ==
  /\ r \in Ring /\ r.total \in r.read..65535
  /\ \/ r.asked
     \/ /\ r.read >= win \div r.mtu \/ r.read >= 256 \/ r.read >= (maxmem * 256) \div mcl
        /\ r.read <= win \div r.mtu \/ r.read <= wire_defaults[r.wire].read

RingFits(r, maxmem, mcl) == RingFor(r, r.win, maxmem, mcl)

\* The pool changes only while there is no interface.
RingsKept ==
  /\ \A i \in TunIfs : rings[i] = <<>> \/ \E r : rings[i] = <<r>> /\ RingFits(r, tun["maxmem"], tun["mcl"])
  /\ rings = [i \in TunIfs |-> rings[i]]
  /\ ~stackUp => \A i \in TunIfs : rings[i] = <<>>

PriKept ==
  /\ stackUp => taskPri = tun["pri"]
  /\ priFrom = "cpu" => tun["pri"] = ng_cpu_tune(machine.cpu020).pri

TunInv == TunTypes /\ WindowsKept /\ RingsKept /\ PriKept

-----------------------------------------------------------------------------
LEMMA BackedTwice ==
  ASSUME NEW m \in Nat, NEW s \in Nat, m >= 65536, m >= 2 * s
  PROVE  Backed(s, m)
BY DEF Backed

LEMMA BackedMore ==
  ASSUME NEW m \in Nat, NEW n \in Nat, NEW s \in Nat, NEW r \in Nat, n >= m, r <= s, Backed(s, m)
  PROVE  Backed(r, n)
BY DEF Backed

\* Every tier of the machine's memory backs its own window.
LEMMA Tiers ==
  ASSUME NEW ram \in Nat
  PROVE  LET t == ng_ram_tier(ram)
         IN  /\ t.maxmem \in Nat /\ t.sbmax \in Nat /\ t.sbmax >= 65536
             /\ t.snd \in Nat /\ t.snd > 0 /\ t.rcv = t.snd /\ t.ceiling = t.snd
             /\ Backed(t.snd, t.sbmax)
             /\ DOMAIN t = {"maxmem", "sbmax", "snd", "rcv", "ceiling", "ipq"}
<1> DEFINE tier == CASE ram <= 1        -> <<128, 64, 11>>
                     [] ram \in 2..4    -> <<256, 64, 42>>
                     [] ram \in 5..16   -> <<1024, 256, 90>>
                     [] ram \in 17..64  -> <<4096, 512, 180>>
                     [] ram \in 65..128 -> <<8192, 1024, 359>>
                     [] OTHER           -> <<16384, 2048, 718>>
<1>1. tier \in {<<128, 64, 11>>, <<256, 64, 42>>, <<1024, 256, 90>>, <<4096, 512, 180>>,
                <<8192, 1024, 359>>, <<16384, 2048, 718>>}
  OBVIOUS
<1> DEFINE w == tier[3] * Seg
<1>2. ng_ram_tier(ram) = [maxmem |-> tier[1], sbmax |-> tier[2] * Kb, snd |-> w, rcv |-> w,
                          ceiling |-> w, ipq |-> Clip(w \div 1500, 50, 256)]
  BY DEF ng_ram_tier
<1> HIDE DEF tier
<1>3. /\ tier[1] \in Nat /\ tier[2] * Kb \in Nat /\ tier[2] * Kb >= 65536 /\ w \in Nat /\ w > 0
      /\ Backed(w, tier[2] * Kb)
  BY <1>1 DEF Backed
<1> HIDE DEF w
<1> QED BY <1>2, <1>3

-----------------------------------------------------------------------------
(* The start.                                                              *)

\* The environment writes the priority, if it is legal, and the segment size.
LEMMA EnvOption ==
  ASSUME NEW acc, NEW o \in DOMAIN Variable, NumbersOK(acc.t)
  PROVE  LET r == ng_apply_option(acc, o)
         IN  /\ NumbersOK(r.t) /\ \A f \in Numbers \ {"pri", "mss"} : r.t[f] = acc.t[f]
             /\ r.from = "env" \/ (r.from = acc.from /\ r.t["pri"] = acc.t["pri"])
<1> DEFINE r == ng_apply_option(acc, o)
           v == IF o \in DOMAIN env /\ o \notin AutoTuned THEN ParseLong(env[o]) ELSE <<>>
<1>1. \/ r = acc
      \/ /\ v # <<>> /\ ~(Variable[o] = "pri" /\ ~ng_task_pri_ok(v[1]))
         /\ r = [t |-> [acc.t EXCEPT ![Variable[o]] = v[1]],
                 from |-> IF Variable[o] = "pri" THEN "env" ELSE acc.from]
  BY DEF ng_apply_option
<1>2. v # <<>> => Variable[o] \in {"pri", "mss"}
  BY DEF Variable, AutoTuned, OptionTable
<1> HIDE DEF v, r
<1>3. CASE r = acc
  BY <1>3 DEF r
<1>4. CASE /\ v # <<>> /\ ~(Variable[o] = "pri" /\ ~ng_task_pri_ok(v[1]))
           /\ r = [t |-> [acc.t EXCEPT ![Variable[o]] = v[1]],
                   from |-> IF Variable[o] = "pri" THEN "env" ELSE acc.from]
  <2> DEFINE x == v[1]
             k == Variable[o]
  <2>1. k \in {"pri", "mss"} /\ (k = "pri" => ng_task_pri_ok(x))
    BY <1>2, <1>4
  <2>2. r.t = [acc.t EXCEPT ![k] = x] /\ r.from = IF k = "pri" THEN "env" ELSE acc.from
    BY <1>4
  <2> HIDE DEF x, k
  <2>3. /\ acc.t = [f \in Numbers |-> acc.t[f]]
        /\ r.t = [f \in Numbers |-> IF f = k THEN x ELSE acc.t[f]]
    BY <2>1, <2>2 DEF NumbersOK, Numbers
  <2>4. /\ r.t = [f \in Numbers |-> r.t[f]]
        /\ \A f \in Numbers \ {"pri", "mss"} : r.t[f] = acc.t[f]
        /\ r.t["pri"] = IF k = "pri" THEN x ELSE acc.t["pri"]
    BY <2>1, <2>3 DEF Numbers
  <2>5. NumbersOK(r.t)
    BY <2>1, <2>4 DEF NumbersOK, Numbers
  <2> QED BY <2>1, <2>2, <2>4, <2>5 DEF r
<1> QED BY <1>1, <1>3, <1>4

LEMMA Env ==
  ASSUME NEW t, NEW from, NumbersOK(t)
  PROVE  LET r == ng_apply_env_tunables(t, from)
         IN  /\ NumbersOK(r.t) /\ \A f \in Numbers \ {"pri", "mss"} : r.t[f] = t[f]
             /\ r.from = "env" \/ (r.from = from /\ r.t["pri"] = t["pri"])
<1> DEFINE a == [t |-> t, from |-> from]
           b == ng_apply_option(a, OptionTable[1])
           c == ng_apply_option(b, OptionTable[2])
           d == ng_apply_option(c, OptionTable[3])
           e == ng_apply_option(d, OptionTable[4])
           f5 == ng_apply_option(e, OptionTable[5])
           Like(r, s) == /\ NumbersOK(r.t) /\ \A f \in Numbers \ {"pri", "mss"} : r.t[f] = s.t[f]
                         /\ r.from = "env" \/ (r.from = s.from /\ r.t["pri"] = s.t["pri"])
<1>1. \A i \in 1..5 : OptionTable[i] \in DOMAIN Variable
  BY DEF Variable
<1>2. ng_apply_env_tunables(t, from) = f5
  BY DEF ng_apply_env_tunables
<1>3. NumbersOK(a.t) /\ a.t = t /\ a.from = from
  OBVIOUS
<1>4. Like(b, a)
  BY <1>1, <1>3, EnvOption
<1>5. Like(c, b)
  BY <1>1, <1>4, EnvOption
<1>6. Like(d, c)
  BY <1>1, <1>5, EnvOption
<1>7. Like(e, d)
  BY <1>1, <1>6, EnvOption
<1>8. Like(f5, e)
  BY <1>1, <1>7, EnvOption
<1> HIDE DEF a, b, c, d, e, f5
<1> QED BY <1>2, <1>3, <1>4, <1>5, <1>6, <1>7, <1>8

\* What the configuration accepts.
LEMMA Checks ==
  /\ \A v \in Int : mb_check_conf("maxmem", v) => v \in Nat
  /\ \A v \in Int : mb_check_conf("mcl", v) => v \in Nat \ {0}
  /\ \A v : mb_check_conf("pri", v) => ng_task_pri_ok(v)
<1>1. ASSUME NEW v \in Int, mb_check_conf("maxmem", v) PROVE v \in Nat
  <2>1. v > 32
    BY <1>1 DEF mb_check_conf
  <2> QED BY <2>1
<1>2. ASSUME NEW v \in Int, mb_check_conf("mcl", v) PROVE v \in Nat \ {0}
  <2>1. v >= 204
    BY <1>2 DEF mb_check_conf
  <2> QED BY <2>1
<1>3. ASSUME NEW v, mb_check_conf("pri", v) PROVE ng_task_pri_ok(v)
  BY <1>3 DEF mb_check_conf
<1> QED BY <1>1, <1>2, <1>3, Zenon

LEMMA Start ==
  ASSUME TunInv, NEW config \in Configs, NEW succeeds \in BOOLEAN, StackStarts(config, succeeds)
  PROVE  TunInv'
<1> DEFINE tier == ng_ram_tier(machine.ram)
           cpu == ng_cpu_tune(machine.cpu020)
           base == [v \in DOMAIN tun |-> IF v \in DOMAIN tier THEN tier[v]
                                         ELSE IF v \in DOMAIN cpu THEN cpu[v] ELSE tun[v]]
           e == ng_apply_env_tunables(base, "cpu")
           set == {v \in DOMAIN config : mb_check_conf(v, config[v])}
<1>1. /\ ~stackUp /\ tun' = [v \in DOMAIN tun |-> IF v \in set THEN config[v] ELSE e.t[v]]
      /\ writer' = IF set \cap {"snd", "rcv"} # {} THEN "config" ELSE "tier"
      /\ priFrom' = IF "pri" \in set THEN "config" ELSE e.from
      /\ stackUp' = succeeds
      /\ taskPri' = IF succeeds THEN tun'.pri ELSE taskPri
      /\ given' = [snd |-> 0, rcv |-> 0]
      /\ UNCHANGED <<override, rings, handle, machine, env>>
  BY DEF StackStarts
<1>2. machine.ram \in Nat /\ machine.cpu020 \in BOOLEAN
  BY TunablesAssumption DEF TunInv, TunTypes
<1>3. /\ tier.maxmem \in Nat /\ tier.sbmax \in Nat /\ tier.sbmax >= 65536
      /\ tier.snd \in Nat /\ tier.snd > 0 /\ tier.rcv = tier.snd /\ tier.ceiling = tier.snd
      /\ Backed(tier.snd, tier.sbmax)
      /\ DOMAIN tier = {"maxmem", "sbmax", "snd", "rcv", "ceiling", "ipq"}
  BY <1>2, Tiers
<1>4. DOMAIN cpu = {"tstamp", "pri"} /\ ng_task_pri_ok(cpu.pri)
  BY <1>2 DEF ng_cpu_tune, ng_task_pri_ok
<1>5. tun = [f \in Numbers |-> tun[f]] /\ DOMAIN tun = Numbers /\ tun["mcl"] \in Nat \ {0}
  BY DEF TunInv, TunTypes, NumbersOK
<1> HIDE DEF tier, cpu
<1>6. /\ base = [f \in Numbers |-> base[f]]
      /\ base["maxmem"] = tier.maxmem /\ base["mcl"] = tun["mcl"] /\ base["sbmax"] = tier.sbmax
      /\ base["snd"] = tier.snd /\ base["rcv"] = tier.snd /\ base["ceiling"] = tier.snd
      /\ base["pri"] = cpu.pri
  BY <1>3, <1>4, <1>5 DEF Numbers
<1>7. NumbersOK(base)
  BY <1>3, <1>4, <1>5, <1>6 DEF NumbersOK
<1> HIDE DEF base
<1>8. /\ NumbersOK(e.t) /\ \A f \in Numbers \ {"pri", "mss"} : e.t[f] = base[f]
      /\ e.from = "env" \/ (e.from = "cpu" /\ e.t["pri"] = base["pri"])
  BY <1>7, Env
<1> HIDE DEF e
<1>9. /\ set \subseteq {"maxmem", "mcl", "pri", "snd", "rcv", "mss"}
      /\ "maxmem" \in set => config["maxmem"] \in Nat
      /\ "mcl" \in set => config["mcl"] \in Nat \ {0}
      /\ "pri" \in set => ng_task_pri_ok(config["pri"])
      /\ "snd" \in set => config["snd"] \in Nat
      /\ "rcv" \in set => config["rcv"] \in Nat
  <2>1. /\ DOMAIN config \subseteq {"maxmem", "mcl", "pri", "snd", "rcv", "mss"}
        /\ \A v \in DOMAIN config : config[v] \in IF v \in {"snd", "rcv"} THEN Nat ELSE Int
    BY TunablesAssumption
  <2>2. \A v \in set : v \in DOMAIN config /\ mb_check_conf(v, config[v])
    OBVIOUS
  <2> HIDE DEF set
  <2>3. "maxmem" \in set => config["maxmem"] \in Nat
    <3>1. "maxmem" \in set => config["maxmem"] \in Int /\ mb_check_conf("maxmem", config["maxmem"])
      BY <2>1, <2>2
    <3> QED BY <3>1, Checks
  <2>4. "mcl" \in set => config["mcl"] \in Nat \ {0}
    <3>1. "mcl" \in set => config["mcl"] \in Int /\ mb_check_conf("mcl", config["mcl"])
      BY <2>1, <2>2
    <3> QED BY <3>1, Checks
  <2>5. "pri" \in set => ng_task_pri_ok(config["pri"])
    <3>1. "pri" \in set => mb_check_conf("pri", config["pri"])
      BY <2>2
    <3> QED BY <3>1, Checks
  <2>6. ("snd" \in set => config["snd"] \in Nat) /\ ("rcv" \in set => config["rcv"] \in Nat)
    BY <2>1, <2>2
  <2>7. set \subseteq {"maxmem", "mcl", "pri", "snd", "rcv", "mss"}
    BY <2>1, <2>2
  <2> QED BY <2>3, <2>4, <2>5, <2>6, <2>7
<1> HIDE DEF set
<1>10. /\ tun' = [f \in Numbers |-> tun'[f]]
       /\ \A f \in Numbers : tun'[f] = IF f \in set THEN config[f] ELSE e.t[f]
  BY <1>1, <1>5
<1>11. /\ tun'["maxmem"] \in Nat /\ tun'["mcl"] \in Nat \ {0}
       /\ tun'["snd"] \in Nat /\ tun'["rcv"] \in Nat /\ ng_task_pri_ok(tun'["pri"])
  BY <1>8, <1>9, <1>10 DEF NumbersOK, Numbers
<1>12. tun'["sbmax"] = tier.sbmax /\ tun'["ceiling"] = tier.snd
  BY <1>6, <1>8, <1>9, <1>10 DEF Numbers
<1>13. writer' = "tier" => tun'["snd"] = tier.snd /\ tun'["rcv"] = tier.snd
  BY <1>1, <1>6, <1>8, <1>10 DEF Numbers
<1>14. writer' \in {"config", "tier"}
  BY <1>1
<1>15. NumbersOK(tun')
  BY <1>3, <1>10, <1>11, <1>12 DEF NumbersOK
<1>16. TunTypes'
  BY <1>1, <1>14, <1>15 DEF TunInv, TunTypes
<1>17. WindowsKept'
  BY <1>1, <1>3, <1>12, <1>13, <1>14 DEF WindowsKept
<1>18. RingsKept'
  BY <1>1 DEF TunInv, RingsKept
<1>19. PriKept'
  <2>1. priFrom' = "cpu" => "pri" \notin set /\ e.from = "cpu" /\ e.t["pri"] = cpu.pri
    BY <1>1, <1>6, <1>8
  <2>2. priFrom' = "cpu" => tun'["pri"] = cpu.pri
    BY <1>10, <2>1 DEF Numbers
  <2> QED BY <1>1, <2>2 DEF PriKept, cpu
<1> QED BY <1>16, <1>17, <1>18, <1>19 DEF TunInv

-----------------------------------------------------------------------------
(* Interfaces.                                                             *)

LEMMA SpeedWindow == \A bps \in Nat : ng_speed_window(bps) \in Nat
BY DEF ng_speed_window

\* A number read for an interface ring, when the file gave none: the window in packets, a quarter
\* of the pool and 256 bound it, the default of the wire is its floor.
LEMMA RingRead ==
  ASSUME NEW fit \in Nat, NEW pool \in Nat, NEW floor \in Nat,
         NEW w, w = (IF fit <= pool THEN fit ELSE pool),
         NEW x, x = (IF w >= floor THEN w ELSE floor), NEW r, r = (IF x <= 256 THEN x ELSE 256)
  PROVE  /\ r \in Nat /\ r <= 256
         /\ r >= fit \/ r >= 256 \/ r >= pool
         /\ r <= fit \/ r <= floor
<1>1. w \in Nat /\ w <= fit /\ w <= pool /\ (w = fit \/ w = pool)
  OBVIOUS
<1>2. x \in Nat /\ x >= w /\ x >= floor /\ (x = w \/ x = floor)
  BY <1>1
<1>3. r \in Nat /\ r <= 256 /\ r <= x /\ (r = x \/ r = 256)
  BY <1>2
<1> QED BY <1>1, <1>2, <1>3

LEMMA QuarterPool ==
  ASSUME NEW m \in Nat, NEW mcl \in Nat \ {0}
  PROVE  (m * 256) \div mcl \in Nat
<1>1. m * 256 \in Nat
  OBVIOUS
<1> QED BY <1>1, Division

LEMMA WireDefaults ==
  ASSUME NEW w \in {"ether", "slip"}
  PROVE  wire_defaults[w].read \in Nat /\ wire_defaults[w].write \in Nat /\ wire_defaults[w].arp \in Nat
BY DEF wire_defaults

\* The larger of the two windows.
Larger(t) == Max({t["snd"], t["rcv"]})

LEMMA EffectiveWindow ==
  ASSUME NEW t, NEW forced, NEW baud \in Nat, NumbersOK(t)
  PROVE  /\ Larger(t) \in Nat /\ ng_effective_window(t, forced, baud) \in Nat
         /\ forced \/ ng_speed_window(baud) = 0 => ng_effective_window(t, forced, baud) = Larger(t)
         /\ ~forced /\ ng_speed_window(baud) # 0 /\ t["ceiling"] # 0
              => ng_effective_window(t, forced, baud) = Min({ng_speed_window(baud), t["ceiling"]})
<1> DEFINE s == ng_speed_window(baud)
           c == IF t.ceiling = 0 THEN Max({t.snd, t.rcv}) ELSE t.ceiling
<1>1. s \in Nat
  BY SpeedWindow
<1>2. Larger(t) \in Nat
  <2>1. t["snd"] \in Nat /\ t["rcv"] \in Nat
    BY DEF NumbersOK
  <2> QED BY <2>1, MaxNat DEF Larger
<1>3. c \in Nat /\ (t["ceiling"] # 0 => c = t["ceiling"])
  BY <1>2 DEF NumbersOK, Larger
<1>4. ng_effective_window(t, forced, baud) = IF forced \/ s = 0 THEN Larger(t) ELSE Min({s, c})
  BY DEF ng_effective_window, Larger
<1> HIDE DEF s, c
<1>5. Min({s, c}) \in Nat
  BY <1>1, <1>3, MinMax
<1> QED BY <1>1, <1>2, <1>3, <1>4, <1>5 DEF s

LEMMA NewRing ==
  ASSUME NEW t, NEW forced, NEW tags \in TagLists, NEW dev \in Devices, NumbersOK(t)
  PROVE  LET r == ssconfig(t, forced, tags, dev)
         IN  RingFor(r, ng_effective_window(t, forced, r.baud), t["maxmem"], t["mcl"])
<1> DEFINE baud == IF tags.speed > 0 THEN tags.speed ELSE dev.baud
           mtu == IF dev.mtu = 0 THEN 1500 ELSE dev.mtu
           eff == ng_effective_window(t, forced, baud)
           n == eff \div mtu
           pool == (t["maxmem"] * 256) \div t["mcl"]
           win == IF t["mcl"] = 0 THEN n ELSE Min({n, pool})
           wd == wire_defaults[dev.wire]
           file == tags.ipreq > 0
           rd == (IF tags.ipreq > 0 THEN tags.ipreq ELSE Min({Max({win, wd.read}), 256})) % 65536
           wrq == IF tags.wreq > 0 THEN tags.wreq ELSE Min({Max({win, wd.write}), 256})
           tot == Min({rd + wd.arp + wrq, 65535})
<1>1. /\ tags \in [ipreq : Nat, wreq : Nat, snd : Nat, rcv : Nat, mss : Nat, speed : Nat]
      /\ dev \in [opens : BOOLEAN, baud : Nat, mtu : Nat, wire : {"ether", "slip"}]
  BY TunablesAssumption
<1>2. t["maxmem"] \in Nat /\ t["mcl"] \in Nat \ {0}
  BY DEF NumbersOK
<1>3. ssconfig(t, forced, tags, dev)
        = [read |-> rd, total |-> tot, mtu |-> mtu, wire |-> dev.wire, asked |-> file,
           baud |-> baud, win |-> 0]
  BY DEF ssconfig
<1>4. baud \in Nat /\ mtu \in Nat \ {0} /\ dev.wire \in {"ether", "slip"} /\ file \in BOOLEAN
      /\ tags.ipreq \in Nat /\ tags.wreq \in Nat
  BY <1>1
<1>5. wd.read \in Nat /\ wd.write \in Nat /\ wd.arp \in Nat
  BY <1>4, WireDefaults
<1> HIDE DEF baud, mtu, wd, file
<1>6. eff \in Nat
  BY <1>4, EffectiveWindow
<1> HIDE DEF eff
<1>7. n \in Nat /\ pool \in Nat
  BY <1>2, <1>4, <1>6, Division, QuarterPool
<1> HIDE DEF n, pool
<1>8. win = Min({n, pool}) /\ win \in Nat
  BY <1>2, <1>7, MinNat
<1> HIDE DEF win
<1>9. wrq \in Nat
  <2>1. Max({win, wd.write}) \in Nat
    <3>1. wd.write \in Nat /\ win \in Nat
      BY <1>5, <1>8
    <3> QED BY <3>1, MaxNat, Zenon
  <2>2. Min({Max({win, wd.write}), 256}) \in Nat
    <3>1. 256 \in Nat
      OBVIOUS
    <3> QED BY <2>1, <3>1, MinNat, Zenon
  <2> QED BY <1>4, <2>2
<1> HIDE DEF wrq
<1> DEFINE y == Max({win, wd.read})
           x == Min({y, 256})
<1>a. n \in Nat /\ pool \in Nat /\ wd.read \in Nat /\ win = IF n <= pool THEN n ELSE pool
  BY <1>5, <1>7, <1>8, MinMax
<1>b. y = IF win >= wd.read THEN win ELSE wd.read
  <2> DEFINE f == wd.read
  <2>1. f \in Nat /\ win \in Nat
    BY <1>8, <1>a
  <2>2. y = Max({win, f})
    OBVIOUS
  <2> HIDE DEF f, y
  <2>3. Max({win, f}) = IF win >= f THEN win ELSE f
    BY <2>1, MaxIs, Zenon
  <2>4. y = IF win >= f THEN win ELSE f
    BY <2>2, <2>3
  <2> QED BY <2>4 DEF f
<1>c. y \in Nat
  BY <1>8, <1>a, <1>b
<1> HIDE DEF y
<1>d. x = IF y <= 256 THEN y ELSE 256
  BY <1>c, MinMax
<1> HIDE DEF x
<1>x. /\ x \in Nat /\ x <= 256
      /\ x >= n \/ x >= 256 \/ x >= pool
      /\ x <= n \/ x <= wd.read
  BY <1>a, <1>b, <1>d, RingRead
<1>y. rd = (IF tags.ipreq > 0 THEN tags.ipreq ELSE x) % 65536
  BY DEF x, y
<1> HIDE DEF rd
<1>z. ~(tags.ipreq > 0) => rd = x
  BY <1>x, <1>y
<1>10. rd \in Nat /\ rd <= 65535
  <2> DEFINE a == IF tags.ipreq > 0 THEN tags.ipreq ELSE x
  <2>1. a \in Nat
    BY <1>4, <1>x
  <2>2. rd = a % 65536
    BY <1>y
  <2> HIDE DEF a
  <2> QED BY <2>1, <2>2
<1>f. file \/ ((rd >= n \/ rd >= 256 \/ rd >= pool) /\ (rd <= n \/ rd <= wd.read))
  BY <1>x, <1>z DEF file
<1>11. tot \in Nat /\ rd <= tot /\ tot <= 65535
  <2> DEFINE a == wd.arp
             s == rd + a + wrq
  <2>1. a \in Nat
    BY <1>5
  <2> HIDE DEF a
  <2>2. s \in Nat /\ s >= rd
    BY <1>9, <1>10, <2>1
  <2>3. tot = Min({s, 65535})
    BY DEF a
  <2> HIDE DEF s
  <2>4. tot = IF s <= 65535 THEN s ELSE 65535
    BY <2>2, <2>3, MinMax
  <2> QED BY <1>10, <2>2, <2>4
<1> HIDE DEF tot
<1> DEFINE q == [read |-> rd, total |-> tot, mtu |-> mtu, wire |-> dev.wire, asked |-> file,
                 baud |-> baud, win |-> 0]
<1>12. /\ q.read = rd /\ q.total = tot /\ q.mtu = mtu /\ q.wire = dev.wire /\ q.asked = file
       /\ q.baud = baud /\ q \in Ring
  BY <1>4, <1>10, <1>11 DEF Ring
<1> HIDE DEF q
<1>14. q.total \in q.read..65535
  BY <1>10, <1>11, <1>12
<1>15. n = ng_effective_window(t, forced, q.baud) \div q.mtu
       /\ pool = (t["maxmem"] * 256) \div t["mcl"] /\ wd = wire_defaults[q.wire]
  BY <1>12 DEF n, eff, pool, wd
<1>16. \/ q.asked
       \/ /\ q.read >= n \/ q.read >= 256 \/ q.read >= pool
          /\ q.read <= n \/ q.read <= wd.read
  BY <1>f, <1>12
<1>17. RingFor(q, ng_effective_window(t, forced, q.baud), t["maxmem"], t["mcl"])
  <2> DEFINE win2 == ng_effective_window(t, forced, q.baud)
             a == t["maxmem"]
             c == t["mcl"]
  <2>1. n = win2 \div q.mtu /\ pool = (a * 256) \div c /\ wd = wire_defaults[q.wire]
    BY <1>15
  <2> HIDE DEF win2, a, c
  <2>2. \/ q.asked
        \/ /\ q.read >= win2 \div q.mtu \/ q.read >= 256 \/ q.read >= (a * 256) \div c
           /\ q.read <= win2 \div q.mtu \/ q.read <= wire_defaults[q.wire].read
    BY <1>16, <2>1
  <2>3. q \in Ring
    BY <1>12
  <2>4. RingFor(q, win2, a, c)
    BY <1>14, <2>2, <2>3 DEF RingFor
  <2> QED BY <2>4 DEF win2, a, c
<1> QED BY <1>3, <1>17 DEF q

\* What an interface file leaves of the numbers: its windows and an sb_max of at least twice
\* each, or none of them.
LEMMA FileKept ==
  ASSUME NEW tags \in TagLists, TunInv
  PROVE  LET t == FileNumbers(tags)
         IN  /\ NumbersOK(t) /\ t["sbmax"] >= tun["sbmax"]
             /\ \A f \in {"maxmem", "mcl", "ceiling", "pri"} : t[f] = tun[f]
             /\ t["snd"] = IF tags.snd > 0 THEN tags.snd ELSE tun["snd"]
             /\ t["rcv"] = IF tags.rcv > 0 THEN tags.rcv ELSE tun["rcv"]
             /\ GivesWindow(tags) => Backed(t["snd"], t["sbmax"]) /\ Backed(t["rcv"], t["sbmax"])
             /\ ~GivesWindow(tags) => t["sbmax"] = tun["sbmax"]
<1> DEFINE t == FileNumbers(tags)
           snd == IF tags.snd > 0 THEN tags.snd ELSE tun.snd
           rcv == IF tags.rcv > 0 THEN tags.rcv ELSE tun.rcv
           mss == IF tags.mss > 0 THEN Min({tags.mss, 65535}) ELSE tun.mss
           m == Max({tun.sbmax, 2 * snd, 2 * rcv})
<1>1. NumbersOK(tun) /\ tun["sbmax"] \in Nat /\ tun["sbmax"] >= 65536
  BY DEF TunInv, TunTypes, WindowsKept, NumbersOK
<1>2. tun = [f \in Numbers |-> tun[f]]
  BY <1>1 DEF NumbersOK
<1>3. tags.snd \in Nat /\ tags.rcv \in Nat /\ tun["snd"] \in Nat /\ tun["rcv"] \in Nat
  BY <1>1, TunablesAssumption DEF NumbersOK
<1>4. snd \in Nat /\ rcv \in Nat /\ (~GivesWindow(tags) => snd = tun["snd"] /\ rcv = tun["rcv"])
  BY <1>3 DEF GivesWindow
<1>5. t = IF ~GivesWindow(tags) THEN [tun EXCEPT !.mss = mss]
          ELSE [tun EXCEPT !.snd = snd, !.rcv = rcv, !.mss = mss, !.sbmax = m]
  BY DEF FileNumbers
<1>6. (snd = IF tags.snd > 0 THEN tags.snd ELSE tun["snd"])
      /\ (rcv = IF tags.rcv > 0 THEN tags.rcv ELSE tun["rcv"])
  OBVIOUS
<1> HIDE DEF t, snd, rcv, mss
<1>7. m \in Nat /\ m >= tun["sbmax"] /\ m >= 2 * snd /\ m >= 2 * rcv
  <2> DEFINE a == tun["sbmax"]
             b == 2 * snd
             c == 2 * rcv
  <2>1. a \in Nat /\ b \in Nat /\ c \in Nat
    BY <1>1, <1>4
  <2>2. m = Max({a, b, c})
    OBVIOUS
  <2> HIDE DEF a, b, c, m
  <2>3. Max({a, b, c}) \in Nat /\ Max({a, b, c}) >= a /\ Max({a, b, c}) >= b /\ Max({a, b, c}) >= c
    BY <2>1, MaxOfThree, Zenon
  <2>4. m \in Nat /\ m >= a /\ m >= b /\ m >= c
    BY <2>2, <2>3, Zenon
  <2> QED BY <2>4 DEF a, b, c
<1> HIDE DEF m
<1>8. CASE ~GivesWindow(tags)
  <2>1. t = [f \in Numbers |-> IF f = "mss" THEN mss ELSE tun[f]]
    BY <1>2, <1>5, <1>8 DEF Numbers
  <2>2. t = [f \in Numbers |-> t[f]] /\ \A f \in Numbers \ {"mss"} : t[f] = tun[f]
    BY <2>1 DEF Numbers
  <2>3. NumbersOK(t)
    BY <1>1, <2>2 DEF NumbersOK, Numbers
  <2>4. /\ t["sbmax"] = tun["sbmax"] /\ t["snd"] = snd /\ t["rcv"] = rcv
        /\ \A f \in {"maxmem", "mcl", "ceiling", "pri"} : t[f] = tun[f]
    BY <1>4, <1>8, <2>2 DEF Numbers
  <2>5. t["sbmax"] >= tun["sbmax"]
    BY <1>1, <2>4
  <2> QED BY <1>6, <1>8, <2>3, <2>4, <2>5, Zenon DEF t
<1>9. CASE GivesWindow(tags)
  <2>1. t = [tun EXCEPT !.snd = snd, !.rcv = rcv, !.mss = mss, !.sbmax = m]
    BY <1>5, <1>9
  <2>2. t = [f \in Numbers |-> IF f = "snd" THEN snd ELSE IF f = "rcv" THEN rcv
                               ELSE IF f = "mss" THEN mss ELSE IF f = "sbmax" THEN m ELSE tun[f]]
    BY <1>2, <2>1 DEF Numbers
  <2>3. /\ t = [f \in Numbers |-> t[f]] /\ t["snd"] = snd /\ t["rcv"] = rcv /\ t["sbmax"] = m
        /\ \A f \in {"maxmem", "mcl", "ceiling", "pri"} : t[f] = tun[f]
    BY <2>2 DEF Numbers
  <2>4. /\ tun["maxmem"] \in Nat /\ tun["mcl"] \in Nat \ {0} /\ tun["ceiling"] \in Nat
        /\ ng_task_pri_ok(tun["pri"])
    BY <1>1 DEF NumbersOK
  <2>5. /\ t["maxmem"] \in Nat /\ t["mcl"] \in Nat \ {0} /\ t["ceiling"] \in Nat
        /\ ng_task_pri_ok(t["pri"]) /\ t["snd"] \in Nat /\ t["rcv"] \in Nat /\ t["sbmax"] \in Nat
    BY <1>4, <1>7, <2>3, <2>4
  <2>6. NumbersOK(t)
    BY <2>3, <2>5, Zenon DEF NumbersOK
  <2>7. m >= 65536
    BY <1>1, <1>7
  <2>8. Backed(snd, m) /\ Backed(rcv, m)
    BY <1>4, <1>7, <2>7, BackedTwice
  <2>9. t["sbmax"] >= tun["sbmax"]
    BY <1>7, <2>3
  <2> QED BY <1>6, <1>9, <2>3, <2>6, <2>8, <2>9, Zenon DEF t
<1> QED BY <1>8, <1>9

WithWindows(t, w) == [t EXCEPT !.snd = w, !.rcv = w]

LEMMA Retuned ==
  ASSUME NEW t, NEW w \in Nat, NumbersOK(t)
  PROVE  /\ NumbersOK(WithWindows(t, w)) /\ WithWindows(t, w)["snd"] = w /\ WithWindows(t, w)["rcv"] = w
         /\ \A f \in Numbers \ {"snd", "rcv"} : WithWindows(t, w)[f] = t[f]
<1> DEFINE u == WithWindows(t, w)
<1>1. /\ u = [f \in Numbers |-> u[f]] /\ u["snd"] = w /\ u["rcv"] = w
      /\ \A f \in Numbers \ {"snd", "rcv"} : u[f] = t[f]
  BY DEF NumbersOK, Numbers, WithWindows
<1> HIDE DEF u
<1>2. NumbersOK(u)
  BY <1>1 DEF NumbersOK, Numbers
<1> QED BY <1>1, <1>2 DEF u

\* The window of the link that is added: what the rings were sized for is what the sockets get.
LEMMA LinkWindows ==
  ASSUME NEW t, NEW baud \in Nat, NumbersOK(t), t["ceiling"] > 0
  PROVE  /\ LinkWindow(t, baud) \in Nat /\ LinkWindow(t, baud) <= t["ceiling"]
         /\ LinkWindow(t, baud) > 0 => ng_effective_window(t, FALSE, baud) = LinkWindow(t, baud)
         /\ ~(LinkWindow(t, baud) > 0) => ng_effective_window(t, FALSE, baud) = Larger(t)
<1> DEFINE a == ng_speed_window(baud)
           c == t["ceiling"]
           w == LinkWindow(t, baud)
<1>1. a \in Nat /\ c \in Nat /\ c > 0
  BY SpeedWindow DEF NumbersOK
<1>2. w = Min({a, c})
  BY DEF LinkWindow
<1>3. /\ a = 0 => ng_effective_window(t, FALSE, baud) = Larger(t)
      /\ a # 0 => ng_effective_window(t, FALSE, baud) = Min({a, c})
  <2>1. t["ceiling"] # 0
    BY <1>1
  <2> QED BY <2>1, EffectiveWindow, Zenon
<1> HIDE DEF a, c, w
<1>4. Min({a, c}) = IF a <= c THEN a ELSE c
  BY <1>1, MinIs, Zenon
<1>5. w \in Nat /\ w <= c /\ (w > 0 => a # 0) /\ (~(w > 0) => a = 0)
  BY <1>1, <1>2, <1>4
<1> QED BY <1>2, <1>3, <1>5, Zenon DEF w, c

LEMMA AddStep ==
  ASSUME NEW i \in TunIfs, NEW tags \in TagLists, NEW dev \in Devices,
         AddInterfaceTagList(i, tags, dev)
  PROVE  LET t == FileNumbers(tags)
             forced == override \/ GivesWindow(tags)
             ring == ssconfig(t, forced, tags, dev)
             want == LinkWindow(t, ring.baud)
             retune == dev.opens /\ ~forced /\ want > 0
         IN  /\ stackUp /\ rings[i] = <<>> /\ override' = forced
             /\ tun' = IF retune THEN [t EXCEPT !.snd = want, !.rcv = want] ELSE t
             /\ rings' = IF dev.opens
                         THEN [rings EXCEPT ![i] = <<[ring EXCEPT !.win = Max({tun'.snd, tun'.rcv})]>>]
                         ELSE rings
             /\ writer' = IF GivesWindow(tags) THEN "iface" ELSE IF retune THEN "link" ELSE writer
             /\ given' = [snd |-> IF tags.snd > 0 THEN tags.snd ELSE given.snd,
                          rcv |-> IF tags.rcv > 0 THEN tags.rcv ELSE given.rcv]
             /\ UNCHANGED <<stackUp, taskPri, handle, machine, env, priFrom>>
BY Zenon DEF AddInterfaceTagList

LEMMA WindowsNext ==
  ASSUME tun'["sbmax"] >= 65536, Backed(tun'["ceiling"], tun'["sbmax"]),
         writer' # "none" => tun'["ceiling"] > 0, stackUp' => writer' # "none",
         writer' \in {"tier", "link"} => tun'["snd"] = tun'["rcv"] /\ tun'["snd"] <= tun'["ceiling"],
         writer' = "iface" => Backed(tun'["snd"], tun'["sbmax"]) /\ Backed(tun'["rcv"], tun'["sbmax"]),
         given'.snd > 0 => override' /\ tun'["snd"] = given'.snd,
         given'.rcv > 0 => override' /\ tun'["rcv"] = given'.rcv
  PROVE  WindowsKept'
BY DEF WindowsKept

LEMMA Added ==
  ASSUME TunInv, NEW i \in TunIfs, NEW tags \in TagLists, NEW dev \in Devices,
         AddInterfaceTagList(i, tags, dev)
  PROVE  TunInv'
<1> DEFINE t == FileNumbers(tags)
           file == GivesWindow(tags)
           forced == override \/ file
           ring == ssconfig(t, forced, tags, dev)
           want == LinkWindow(t, ring.baud)
           retune == dev.opens /\ ~forced /\ want > 0
           eff == ng_effective_window(t, forced, ring.baud)
<1>1. /\ stackUp /\ rings[i] = <<>> /\ override' = forced
      /\ tun' = IF retune THEN [t EXCEPT !.snd = want, !.rcv = want] ELSE t
      /\ rings' = IF dev.opens
                  THEN [rings EXCEPT ![i] = <<[ring EXCEPT !.win = Max({tun'.snd, tun'.rcv})]>>]
                  ELSE rings
      /\ writer' = IF file THEN "iface" ELSE IF retune THEN "link" ELSE writer
      /\ given' = [snd |-> IF tags.snd > 0 THEN tags.snd ELSE given.snd,
                   rcv |-> IF tags.rcv > 0 THEN tags.rcv ELSE given.rcv]
      /\ UNCHANGED <<stackUp, taskPri, handle, machine, env, priFrom>>
  BY AddStep, Zenon
<1>2. /\ tags.snd \in Nat /\ tags.rcv \in Nat /\ dev.opens \in BOOLEAN
      /\ file = (tags.snd > 0 \/ tags.rcv > 0)
  BY TunablesAssumption DEF GivesWindow
<1>3. TunTypes /\ WindowsKept /\ RingsKept /\ PriKept
  BY Zenon DEF TunInv
<1>4. NumbersOK(tun) /\ override \in BOOLEAN /\ given.snd \in Nat /\ given.rcv \in Nat
      /\ writer \in {"none", "tier", "link", "iface", "config"} /\ machine \in Machines
  BY <1>3 DEF TunTypes
<1>5. /\ NumbersOK(t) /\ t["sbmax"] >= tun["sbmax"]
      /\ \A f \in {"maxmem", "mcl", "ceiling", "pri"} : t[f] = tun[f]
      /\ t["snd"] = IF tags.snd > 0 THEN tags.snd ELSE tun["snd"]
      /\ t["rcv"] = IF tags.rcv > 0 THEN tags.rcv ELSE tun["rcv"]
      /\ file => Backed(t["snd"], t["sbmax"]) /\ Backed(t["rcv"], t["sbmax"])
      /\ ~file => t["sbmax"] = tun["sbmax"]
  BY FileKept, Zenon
<1>6. RingFor(ring, eff, t["maxmem"], t["mcl"])
  BY <1>5, NewRing, Zenon
<1> HIDE DEF t, file, ring
<1>7. ring \in Ring /\ ring.baud \in Nat
  <2> HIDE DEF eff
  <2>1. ring \in Ring
    BY <1>6 DEF RingFor
  <2> QED BY <2>1 DEF Ring
<1>8. writer # "none" /\ t["ceiling"] > 0
  BY <1>1, <1>3, <1>5 DEF WindowsKept
<1>9. eff \in Nat /\ (forced => eff = Larger(t)) /\ Larger(t) \in Nat
  BY <1>5, <1>7, EffectiveWindow, Zenon
<1>10. /\ want \in Nat /\ want <= t["ceiling"]
       /\ want > 0 => ng_effective_window(t, FALSE, ring.baud) = want
       /\ ~(want > 0) => ng_effective_window(t, FALSE, ring.baud) = Larger(t)
  BY <1>5, <1>7, <1>8, LinkWindows, Zenon
<1>11. /\ ~forced /\ want > 0 => eff = want
       /\ ~forced /\ ~(want > 0) => eff = Larger(t)
  <2>1. ~forced => (forced = FALSE)
    BY <1>2, <1>4
  <2> QED BY <1>10, <2>1, Zenon
<1> DEFINE win == Max({tun'.snd, tun'.rcv})
<1>a. override' = forced /\ stackUp' = stackUp /\ stackUp /\ machine' = machine /\ taskPri' = taskPri
      /\ priFrom' = priFrom
  BY <1>1, Zenon
<1>b. /\ (given'.snd = IF tags.snd > 0 THEN tags.snd ELSE given.snd)
      /\ (given'.rcv = IF tags.rcv > 0 THEN tags.rcv ELSE given.rcv)
      /\ given' \in [snd : Nat, rcv : Nat]
  <2>1. given' = [snd |-> IF tags.snd > 0 THEN tags.snd ELSE given.snd,
                  rcv |-> IF tags.rcv > 0 THEN tags.rcv ELSE given.rcv]
    BY <1>1, Zenon
  <2> QED BY <1>2, <1>4, <2>1
<1>c. dev.opens => rings' = [rings EXCEPT ![i] = <<[ring EXCEPT !.win = win]>>]
  BY <1>1, Zenon
<1>d. ~dev.opens => rings' = rings
  BY <1>1, Zenon
<1>e. retune => tun' = [t EXCEPT !.snd = want, !.rcv = want]
  BY <1>1, Zenon
<1>f. ~retune => tun' = t
  BY <1>1, Zenon
<1>g. writer' = IF file THEN "iface" ELSE IF retune THEN "link" ELSE writer
  BY <1>1, Zenon
<1> DEFINE T == tun'
<1>h. retune => /\ NumbersOK(T) /\ T["snd"] = want /\ T["rcv"] = want
                /\ \A f \in Numbers \ {"snd", "rcv"} : T[f] = t[f]
  <2> HIDE DEF want, retune, T
  <2> DEFINE u == WithWindows(t, want)
  <2>1. /\ NumbersOK(u) /\ u["snd"] = want /\ u["rcv"] = want
        /\ \A f \in Numbers \ {"snd", "rcv"} : u[f] = t[f]
    BY <1>5, <1>10, Retuned, Zenon
  <2>2. retune => T = u
    BY <1>e, Zenon DEF T, WithWindows
  <2> HIDE DEF u
  <2> QED BY <2>1, <2>2
<1>i. (retune => ~file /\ ~forced /\ want > 0 /\ dev.opens) /\ (file => forced) /\ (override => forced)
      /\ (~retune /\ dev.opens => forced \/ ~(want > 0)) /\ (forced => override \/ file)
      /\ retune \in BOOLEAN
  BY <1>2, <1>4, Zenon
<1> HIDE DEF want, forced, retune, win, eff
<1>j. NumbersOK(T) /\ \A f \in {"maxmem", "mcl", "ceiling", "pri", "sbmax"} : T[f] = t[f]
  <2>1. CASE retune
    BY <1>h, <2>1 DEF Numbers
  <2>2. CASE ~retune
    BY <1>5, <1>f, <2>2
  <2> QED BY <2>1, <2>2
<1>k. \A f \in {"maxmem", "mcl", "ceiling", "pri"} : T[f] = tun[f]
  BY <1>5, <1>j
<1>l. ~retune => T["snd"] = t["snd"] /\ T["rcv"] = t["rcv"]
  BY <1>f
<1> HIDE DEF T
<1>m. /\ tun["sbmax"] \in Nat /\ T["sbmax"] \in Nat /\ T["sbmax"] >= tun["sbmax"]
      /\ T["ceiling"] = tun["ceiling"] /\ tun["ceiling"] \in Nat
  BY <1>4, <1>5, <1>j, <1>k DEF NumbersOK
<1>n. T["snd"] \in Nat /\ T["rcv"] \in Nat
  BY <1>j DEF NumbersOK
<1>12. TunTypes'
  <2>1. override' \in BOOLEAN
    BY <1>2, <1>4, <1>a DEF forced
  <2>2. writer' \in {"none", "tier", "link", "iface", "config"}
    BY <1>4, <1>g
  <2>3. stackUp' \in BOOLEAN
    BY <1>3, <1>a DEF TunTypes
  <2> QED BY <1>4, <1>a, <1>b, <1>j, <2>1, <2>2, <2>3, Zenon DEF TunTypes, T
<1>13. WindowsKept'
  <2>1. /\ tun["sbmax"] >= 65536 /\ Backed(tun["ceiling"], tun["sbmax"]) /\ tun["ceiling"] > 0
        /\ writer \in {"tier", "link"} => tun["snd"] = tun["rcv"] /\ tun["snd"] <= tun["ceiling"]
        /\ writer = "iface" => Backed(tun["snd"], tun["sbmax"]) /\ Backed(tun["rcv"], tun["sbmax"])
        /\ given.snd > 0 => override /\ tun["snd"] = given.snd
        /\ given.rcv > 0 => override /\ tun["rcv"] = given.rcv
    BY <1>3, <1>8 DEF WindowsKept
  <2>2. T["sbmax"] >= 65536 /\ T["ceiling"] > 0
    BY <1>m, <2>1
  <2>3. Backed(T["ceiling"], T["sbmax"])
    BY <1>m, <2>1, BackedMore
  <2>4. writer' # "none"
    BY <1>8, <1>g
  <2>5. writer' \in {"tier", "link"} => T["snd"] = T["rcv"] /\ T["snd"] <= T["ceiling"]
    <3>1. CASE retune
      BY <1>5, <1>10, <1>h, <1>k, <3>1 DEF T
    <3>2. CASE ~retune
      <4>1. writer' \in {"tier", "link"} => ~file /\ writer' = writer
        BY <1>g, <3>2
      <4>2. ~file => T["snd"] = tun["snd"] /\ T["rcv"] = tun["rcv"]
        BY <1>2, <1>5, <1>l, <3>2 DEF T
      <4> QED BY <1>m, <2>1, <4>1, <4>2
    <3> QED BY <3>1, <3>2
  <2>6. writer' = "iface" => Backed(T["snd"], T["sbmax"]) /\ Backed(T["rcv"], T["sbmax"])
    <3>1. CASE retune
      BY <1>g, <1>i, <3>1
    <3>2. CASE ~retune /\ file
      BY <1>5, <1>f, <3>2 DEF T
    <3>3. CASE ~retune /\ ~file
      <4>1. writer' = writer
        BY <1>g, <3>3
      <4>2. T["snd"] = tun["snd"] /\ T["rcv"] = tun["rcv"] /\ T["sbmax"] = tun["sbmax"]
        BY <1>2, <1>5, <1>l, <1>j, <3>3
      <4> QED BY <2>1, <4>1, <4>2
    <3> QED BY <3>1, <3>2, <3>3
  <2>7. (given'.snd > 0 => override' /\ T["snd"] = given'.snd)
        /\ (given'.rcv > 0 => override' /\ T["rcv"] = given'.rcv)
    <3>1. CASE forced
      <4>1. ~retune
        BY <1>i, <3>1
      <4> QED BY <1>2, <1>5, <1>a, <1>b, <1>l, <2>1, <3>1, <4>1
    <3>2. CASE ~forced
      <4>1. ~file /\ ~override
        BY <1>i, <3>2
      <4>2. ~(tags.snd > 0) /\ ~(tags.rcv > 0)
        BY <1>2, <4>1
      <4>3. given'.snd = given.snd /\ given'.rcv = given.rcv
        BY <1>b, <4>2, Zenon
      <4>4. ~(given.snd > 0) /\ ~(given.rcv > 0)
        BY <2>1, <4>1
      <4> QED BY <4>3, <4>4, Zenon
    <3> QED BY <3>1, <3>2
  <2>8. /\ tun'["sbmax"] >= 65536 /\ Backed(tun'["ceiling"], tun'["sbmax"])
        /\ writer' # "none" => tun'["ceiling"] > 0
        /\ stackUp' => writer' # "none"
    BY <2>2, <2>3, <2>4 DEF T
  <2>9. /\ writer' \in {"tier", "link"} => tun'["snd"] = tun'["rcv"] /\ tun'["snd"] <= tun'["ceiling"]
        /\ writer' = "iface" => Backed(tun'["snd"], tun'["sbmax"]) /\ Backed(tun'["rcv"], tun'["sbmax"])
    BY <2>5, <2>6, Zenon DEF T
  <2>10. /\ given'.snd > 0 => override' /\ tun'["snd"] = given'.snd
         /\ given'.rcv > 0 => override' /\ tun'["rcv"] = given'.rcv
    BY <2>7, Zenon DEF T
  <2> QED BY <2>8, <2>9, <2>10, WindowsNext
<1>14. dev.opens => eff = Larger(T)
  <2>1. CASE retune
    <3>1. Larger(T) = want
      <4>1. Max({want, want}) = want
        BY <1>10, MaxIs, Zenon
      <4>2. T["snd"] = want /\ T["rcv"] = want
        BY <1>h, <2>1 DEF T
      <4> QED BY <4>1, <4>2 DEF Larger
    <3> QED BY <1>11, <1>i, <2>1, <3>1
  <2>2. CASE ~retune
    <3>1. T = t
      BY <1>f, <2>2 DEF T
    <3> QED BY <1>9, <1>11, <1>i, <2>2, <3>1
  <2> QED BY <2>1, <2>2
<1>15. RingsKept'
  <2>1. rings = [j \in TunIfs |-> rings[j]]
        /\ \A j \in TunIfs : rings[j] = <<>>
             \/ \E q : rings[j] = <<q>> /\ RingFits(q, tun["maxmem"], tun["mcl"])
    BY <1>3, Zenon DEF RingsKept
  <2>2. T["maxmem"] = tun["maxmem"] /\ T["mcl"] = tun["mcl"]
    BY <1>k
  <2>3. CASE ~dev.opens
    <3>1. rings' = rings
      BY <1>d, <2>3
    <3> QED BY <1>a, <2>1, <2>2, <3>1, Zenon DEF RingsKept, T
  <2>4. CASE dev.opens
    <3> DEFINE r == [ring EXCEPT !.win = win]
    <3>1. win = Larger(T) /\ win \in Nat /\ eff = win
      BY <1>9, <1>14, <2>4 DEF win, Larger, T
    <3>2. RingFits(r, T["maxmem"], T["mcl"])
      <4>1. RingFor(ring, win, T["maxmem"], T["mcl"])
        BY <1>5, <1>6, <1>k, <3>1
      <4>2. /\ r \in Ring /\ r.win = win /\ r.read = ring.read /\ r.total = ring.total /\ r.mtu = ring.mtu
            /\ r.asked = ring.asked /\ r.wire = ring.wire
        BY <1>7, <3>1 DEF Ring
      <4> HIDE DEF r
      <4> QED BY <4>1, <4>2 DEF RingFits, RingFor
    <3>3. rings' = [rings EXCEPT ![i] = <<r>>]
      BY <1>c, <2>4
    <3> HIDE DEF r
    <3>4. rings' = [j \in TunIfs |-> IF j = i THEN <<r>> ELSE rings[j]]
      BY <2>1, <3>3
    <3>5. rings' = [j \in TunIfs |-> rings'[j]]
      BY <3>4
    <3>6. \A j \in TunIfs : rings'[j] = <<>>
            \/ \E q : rings'[j] = <<q>> /\ RingFits(q, T["maxmem"], T["mcl"])
      <4> TAKE j \in TunIfs
      <4>1. CASE j = i
        <5>1. rings'[j] = <<r>>
          BY <3>4, <4>1
        <5> QED BY <3>2, <5>1, Zenon
      <4>2. CASE j # i
        <5>1. rings'[j] = rings[j]
          BY <3>4, <4>2
        <5> QED BY <2>1, <2>2, <5>1, Zenon
      <4> QED BY <4>1, <4>2
    <3> QED BY <1>a, <3>5, <3>6, Zenon DEF RingsKept, T
  <2> QED BY <1>2, <2>3, <2>4
<1>16. PriKept'
  <2>1. T["pri"] = tun["pri"]
    BY <1>k
  <2> QED BY <1>3, <1>a, <2>1, Zenon DEF PriKept, T
<1> QED BY <1>12, <1>13, <1>15, <1>16, Zenon DEF TunInv

-----------------------------------------------------------------------------
(* The other operations.                                                   *)

\* An operation that changes no interface and no pool keeps the rings.
LEMMA RingsSame ==
  ASSUME RingsKept, tun'["maxmem"] = tun["maxmem"], tun'["mcl"] = tun["mcl"],
         rings' = rings, stackUp' = stackUp
  PROVE  RingsKept'
BY Zenon DEF RingsKept

\* An operation that writes none of these keeps the invariant.
LEMMA Idle ==
  ASSUME TunInv, UNCHANGED <<tun, override, stackUp, taskPri, rings, machine, writer, given, priFrom>>
  PROVE  TunInv'
<1>1. TunTypes'
  BY DEF TunInv, TunTypes
<1>2. WindowsKept'
  BY DEF TunInv, WindowsKept
<1>3. RingsKept'
  BY DEF TunInv, RingsKept
<1>4. PriKept'
  BY DEF TunInv, PriKept
<1> QED BY <1>1, <1>2, <1>3, <1>4 DEF TunInv

LEMMA Stops ==
  ASSUME TunInv, StackStops
  PROVE  TunInv'
<1>1. /\ stackUp' = FALSE /\ rings' = [i \in TunIfs |-> <<>>]
      /\ UNCHANGED <<tun, override, taskPri, machine, writer, given, priFrom>>
  BY DEF StackStops
<1>2. TunTypes'
  BY <1>1 DEF TunInv, TunTypes
<1>3. WindowsKept'
  BY <1>1 DEF TunInv, WindowsKept
<1>4. RingsKept'
  BY <1>1 DEF RingsKept
<1>5. PriKept'
  BY <1>1 DEF TunInv, PriKept
<1> QED BY <1>2, <1>3, <1>4, <1>5 DEF TunInv

LEMMA Removed ==
  ASSUME TunInv, NEW i \in TunIfs, RemoveInterface(i)
  PROVE  TunInv'
<1>1. /\ rings' = [rings EXCEPT ![i] = <<>>]
      /\ UNCHANGED <<tun, override, stackUp, taskPri, machine, writer, given, priFrom>>
  BY DEF RemoveInterface
<1>2. TunTypes'
  BY <1>1 DEF TunInv, TunTypes
<1>3. WindowsKept'
  BY <1>1 DEF TunInv, WindowsKept
<1>4. RingsKept'
  <2>1. RingsKept
    BY DEF TunInv
  <2>2. rings' = [j \in TunIfs |-> IF j = i THEN <<>> ELSE rings[j]]
    BY <1>1, <2>1 DEF RingsKept
  <2>3. rings' = [j \in TunIfs |-> rings'[j]]
    BY <2>2
  <2>4. \A j \in TunIfs : rings'[j] = <<>> \/ rings'[j] = rings[j]
    BY <2>2
  <2>5. UNCHANGED <<tun, stackUp>>
    BY <1>1
  <2> QED BY <2>1, <2>3, <2>4, <2>5, Zenon DEF RingsKept
<1>5. PriKept'
  BY <1>1 DEF TunInv, PriKept
<1> QED BY <1>2, <1>3, <1>4, <1>5 DEF TunInv

\* One number written.
Written(t, k, v) == [t EXCEPT ![k] = v]

LEMMA OneNumber ==
  ASSUME NEW t, NEW k \in {"snd", "rcv", "pri", "mss"}, NEW v, NumbersOK(t),
         k \in {"snd", "rcv"} => v \in Nat, k = "pri" => ng_task_pri_ok(v)
  PROVE  /\ NumbersOK(Written(t, k, v)) /\ Written(t, k, v)[k] = v
         /\ \A f \in Numbers \ {k} : Written(t, k, v)[f] = t[f]
<1> DEFINE u == Written(t, k, v)
<1>1. /\ u = [f \in Numbers |-> u[f]] /\ u[k] = v /\ \A f \in Numbers \ {k} : u[f] = t[f]
  BY DEF NumbersOK, Numbers, Written
<1> HIDE DEF u
<1>2. /\ t["maxmem"] \in Nat /\ t["mcl"] \in Nat \ {0} /\ t["sbmax"] \in Nat
      /\ t["snd"] \in Nat /\ t["rcv"] \in Nat /\ t["ceiling"] \in Nat
      /\ ng_task_pri_ok(t["pri"])
  BY DEF NumbersOK
<1>3. /\ u["maxmem"] \in Nat /\ u["mcl"] \in Nat \ {0} /\ u["sbmax"] \in Nat
      /\ u["snd"] \in Nat /\ u["rcv"] \in Nat /\ u["ceiling"] \in Nat
      /\ ng_task_pri_ok(u["pri"])
  BY <1>1, <1>2 DEF Numbers
<1>4. NumbersOK(u)
  BY <1>1, <1>3, Zenon DEF NumbersOK
<1> QED BY <1>1, <1>4 DEF u

\* A priority written while the stack runs.
LEMMA PriorityWritten ==
  ASSUME TunInv, NEW v, stackUp, ng_task_pri_changed(v),
         UNCHANGED <<override, stackUp, rings, machine, writer, given>>
  PROVE  TunInv'
<1>1. CASE ~ng_task_pri_ok(v)
  <2>1. UNCHANGED <<tun, taskPri, priFrom>>
    BY <1>1 DEF ng_task_pri_changed
  <2> QED BY <2>1, Idle
<1>2. CASE ng_task_pri_ok(v)
  <2>1. tun' = Written(tun, "pri", v) /\ priFrom' = "live" /\ taskPri' = v
    BY <1>2 DEF ng_task_pri_changed, Written
  <2>2. TunTypes /\ WindowsKept /\ RingsKept /\ NumbersOK(tun)
    BY DEF TunInv, TunTypes
  <2>3. NumbersOK(tun') /\ tun'["pri"] = v /\ \A f \in Numbers \ {"pri"} : tun'[f] = tun[f]
    BY <1>2, <2>1, <2>2, OneNumber
  <2>4. \A f \in {"maxmem", "mcl", "sbmax", "snd", "rcv", "ceiling"} : tun'[f] = tun[f]
    BY <2>3 DEF Numbers
  <2>5. TunTypes'
    BY <2>2, <2>3 DEF TunTypes
  <2>6. WindowsKept'
    BY <2>2, <2>4 DEF WindowsKept
  <2>7. RingsKept'
    BY <2>2, <2>4, RingsSame
  <2>8. PriKept'
    BY <2>1, <2>3 DEF PriKept
  <2> QED BY <2>5, <2>6, <2>7, <2>8 DEF TunInv
<1> QED BY <1>1, <1>2

\* The segment size written while the stack runs.
LEMMA MssWritten ==
  ASSUME TunInv, NEW v, tun' = Written(tun, "mss", v),
         UNCHANGED <<override, stackUp, taskPri, rings, machine, writer, given, priFrom>>
  PROVE  TunInv'
<1>1. TunTypes /\ WindowsKept /\ RingsKept /\ PriKept /\ NumbersOK(tun)
  BY DEF TunInv, TunTypes
<1>2. NumbersOK(tun') /\ \A f \in Numbers \ {"mss"} : tun'[f] = tun[f]
  BY <1>1, OneNumber
<1>3. \A f \in {"maxmem", "mcl", "sbmax", "snd", "rcv", "ceiling", "pri"} : tun'[f] = tun[f]
  BY <1>2 DEF Numbers
<1>4. TunTypes'
  BY <1>1, <1>2 DEF TunTypes
<1>5. WindowsKept'
  BY <1>1, <1>3 DEF WindowsKept
<1>6. RingsKept'
  BY <1>1, <1>3, RingsSame
<1>7. PriKept'
  BY <1>1, <1>3 DEF PriKept
<1> QED BY <1>4, <1>5, <1>6, <1>7 DEF TunInv

\* A window written by the configuration while the stack runs: no file asked for it any more.
LEMMA WindowWritten ==
  ASSUME TunInv, stackUp, NEW k \in {"snd", "rcv"}, NEW v \in Nat, tun' = Written(tun, k, v), writer' = "config",
         given' = [x \in {"snd", "rcv"} |-> IF x = k THEN 0 ELSE given[x]],
         UNCHANGED <<override, stackUp, taskPri, rings, machine, priFrom>>
  PROVE  TunInv'
<1>1. TunTypes /\ WindowsKept /\ RingsKept /\ PriKept /\ NumbersOK(tun)
  BY DEF TunInv, TunTypes
<1>2. NumbersOK(tun') /\ tun'[k] = v /\ \A f \in Numbers \ {k} : tun'[f] = tun[f]
  <2> DEFINE u == Written(tun, k, v)
  <2>1. /\ k \in {"snd", "rcv", "pri", "mss"}
        /\ k \in {"snd", "rcv"} => v \in Nat
        /\ k = "pri" => ng_task_pri_ok(v)
    OBVIOUS
  <2>2. NumbersOK(u) /\ u[k] = v /\ \A f \in Numbers \ {k} : u[f] = tun[f]
    BY <1>1, <2>1, OneNumber
  <2>3. tun' = u
    OBVIOUS
  <2> HIDE DEF u
  <2> QED BY <2>2, <2>3, Zenon
<1>3. \A f \in {"maxmem", "mcl", "sbmax", "ceiling", "pri"} \cup ({"snd", "rcv"} \ {k}) : tun'[f] = tun[f]
  BY <1>2 DEF Numbers
<1>4. /\ given' \in [snd : Nat, rcv : Nat] /\ given'[k] = 0
      /\ k = "snd" => given'.rcv = given.rcv
      /\ k = "rcv" => given'.snd = given.snd
  <2>1. given.snd \in Nat /\ given.rcv \in Nat
    BY <1>1 DEF TunTypes
  <2>2. given' = [snd |-> IF "snd" = k THEN 0 ELSE given.snd, rcv |-> IF "rcv" = k THEN 0 ELSE given.rcv]
    OBVIOUS
  <2> QED BY <2>1, <2>2
<1>5. TunTypes'
  BY <1>1, <1>2, <1>4 DEF TunTypes
<1>6. WindowsKept'
  <2>1. /\ tun'["sbmax"] >= 65536 /\ Backed(tun'["ceiling"], tun'["sbmax"]) /\ tun'["ceiling"] = tun["ceiling"]
        /\ writer # "none" => tun["ceiling"] > 0
        /\ stackUp => writer # "none"
    BY <1>1, <1>3 DEF WindowsKept
  <2>2. /\ given.snd > 0 => override /\ tun["snd"] = given.snd
        /\ given.rcv > 0 => override /\ tun["rcv"] = given.rcv
    BY <1>1 DEF WindowsKept
  <2>3. /\ given'.snd > 0 => override' /\ tun'["snd"] = given'.snd
        /\ given'.rcv > 0 => override' /\ tun'["rcv"] = given'.rcv
    <3>1. CASE k = "snd"
      BY <1>3, <1>4, <2>2, <3>1
    <3>2. CASE k = "rcv"
      BY <1>3, <1>4, <2>2, <3>2
    <3> QED BY <3>1, <3>2
  <2>4. tun'["ceiling"] > 0
    BY <2>1
  <2> QED BY <2>1, <2>3, <2>4, WindowsNext
<1>7. RingsKept'
  BY <1>1, <1>3, RingsSame
<1>8. PriKept'
  BY <1>1, <1>3 DEF PriKept
<1> QED BY <1>5, <1>6, <1>7, <1>8 DEF TunInv

LEMMA Changed ==
  ASSUME TunInv, NEW o \in DOMAIN Variable, NEW v \in SetValues, ChangeRoadshowData(o, v)
  PROVE  TunInv'
<1>1. /\ stackUp /\ UNCHANGED <<override, stackUp, rings, machine, writer, given>>
      /\ IF handle # "write" \/ o \in AutoTuned THEN UNCHANGED <<tun, taskPri, priFrom>>
         ELSE IF Variable[o] = "pri" THEN ng_task_pri_changed(v)
         ELSE tun' = [tun EXCEPT ![Variable[o]] = v] /\ UNCHANGED <<taskPri, priFrom>>
  BY DEF ChangeRoadshowData
<1>2. CASE handle # "write" \/ o \in AutoTuned
  BY <1>1, <1>2, Idle
<1>3. CASE ~(handle # "write" \/ o \in AutoTuned) /\ Variable[o] = "pri"
  <2>1. ng_task_pri_changed(v)
    BY <1>1, <1>3
  <2> QED BY <1>1, <2>1, PriorityWritten
<1>4. CASE ~(handle # "write" \/ o \in AutoTuned) /\ Variable[o] # "pri"
  <2>1. Variable[o] = "mss"
    BY <1>4 DEF Variable, AutoTuned, OptionTable
  <2>2. tun' = Written(tun, "mss", v) /\ UNCHANGED <<taskPri, priFrom>>
    BY <1>1, <1>4, <2>1 DEF Written
  <2> QED BY <1>1, <2>2, MssWritten
<1> QED BY <1>2, <1>3, <1>4

LEMMA VariableSet ==
  ASSUME TunInv, NEW k \in {"snd", "rcv", "pri", "mss"}, NEW v \in SetValues, SetVariable(k, v)
  PROVE  TunInv'
<1>1. /\ stackUp /\ UNCHANGED <<override, stackUp, rings, machine>>
      /\ given' = [x \in {"snd", "rcv"} |-> IF x = k THEN 0 ELSE given[x]]
      /\ IF k = "pri" THEN ng_task_pri_changed(v) /\ UNCHANGED writer
         ELSE /\ v >= 0 /\ tun' = [tun EXCEPT ![k] = v] /\ UNCHANGED <<taskPri, priFrom>>
              /\ writer' = IF k \in {"snd", "rcv"} THEN "config" ELSE writer
  BY DEF SetVariable
<1>2. k \in {"pri", "mss"} => given' = given
  <2>1. given \in [snd : Nat, rcv : Nat]
    BY DEF TunInv, TunTypes
  <2>2. given = [x \in {"snd", "rcv"} |-> given[x]]
    BY <2>1
  <2> QED BY <1>1, <2>2
<1>3. CASE k = "pri"
  BY <1>1, <1>2, <1>3, PriorityWritten
<1>4. CASE k = "mss"
  <2>1. /\ tun' = Written(tun, "mss", v)
        /\ UNCHANGED <<override, stackUp, taskPri, rings, machine, writer, given, priFrom>>
    BY <1>1, <1>2, <1>4 DEF Written
  <2> QED BY <2>1, MssWritten
<1>5. CASE k \in {"snd", "rcv"}
  <2>1. /\ tun' = Written(tun, k, v) /\ writer' = "config"
        /\ UNCHANGED <<override, stackUp, taskPri, rings, machine, priFrom>>
        /\ given' = [x \in {"snd", "rcv"} |-> IF x = k THEN 0 ELSE given[x]]
        /\ stackUp
    BY <1>1, <1>5 DEF Written
  <2>2. v \in Nat
    BY <1>1, <1>5, TunablesAssumption
  <2> QED BY <1>5, <2>1, <2>2, WindowWritten
<1> QED BY <1>3, <1>4, <1>5

-----------------------------------------------------------------------------
(* The theorem.                                                            *)

LEMMA TunStart == TunablesInit => TunInv
<1> SUFFICES ASSUME TunablesInit PROVE TunInv
  OBVIOUS
<1>1. tun = [maxmem |-> 256, mcl |-> 2048, sbmax |-> 65536, snd |-> 8192, rcv |-> 8192, ceiling |-> 0,
             ipq |-> 50, tstamp |-> FALSE, pri |-> 5, mss |-> 0]
  BY DEF TunablesInit
<1>a. /\ machine \in Machines /\ override = FALSE /\ stackUp = FALSE
      /\ rings = [i \in TunIfs |-> <<>>]
      /\ writer = "none" /\ given = [snd |-> 0, rcv |-> 0] /\ priFrom = "none"
  BY DEF TunablesInit
<1>2. /\ DOMAIN tun = Numbers /\ tun = [f \in Numbers |-> tun[f]]
      /\ tun["maxmem"] = 256 /\ tun["mcl"] = 2048 /\ tun["sbmax"] = 65536 /\ tun["snd"] = 8192
      /\ tun["rcv"] = 8192 /\ tun["ceiling"] = 0 /\ tun["pri"] = 5
  BY <1>1 DEF Numbers
<1>3. NumbersOK(tun)
  BY <1>2 DEF NumbersOK, ng_task_pri_ok
<1>4. TunTypes
  BY <1>3, <1>a DEF TunTypes
<1>5. WindowsKept
  BY <1>2, <1>a DEF WindowsKept, Backed
<1>6. RingsKept
  BY <1>a DEF RingsKept
<1>7. PriKept
  BY <1>a DEF PriKept
<1> QED BY <1>4, <1>5, <1>6, <1>7 DEF TunInv

LEMMA TunStep == TunInv /\ [TunablesNext]_tunvars => TunInv'
<1> SUFFICES ASSUME TunInv, [TunablesNext]_tunvars PROVE TunInv'
  OBVIOUS
<1>1. ASSUME NEW c \in Configs, NEW b \in BOOLEAN, StackStarts(c, b) PROVE TunInv'
  BY <1>1, Start
<1>2. CASE StackStops
  BY <1>2, Stops
<1>3. ASSUME NEW i \in TunIfs, NEW t \in TagLists, NEW d \in Devices, AddInterfaceTagList(i, t, d)
      PROVE TunInv'
  BY <1>3, Added
<1>4. ASSUME NEW i \in TunIfs, RemoveInterface(i) PROVE TunInv'
  BY <1>4, Removed
<1>5. ASSUME NEW a \in {"read", "write"}, ObtainRoadshowData(a) PROVE TunInv'
  BY <1>5, Idle DEF ObtainRoadshowData
<1>6. CASE ReleaseRoadshowData
  BY <1>6, Idle DEF ReleaseRoadshowData
<1>7. ASSUME NEW o \in DOMAIN Variable, NEW v \in SetValues, ChangeRoadshowData(o, v) PROVE TunInv'
  BY <1>7, Changed
<1>8. ASSUME NEW x \in {"snd", "rcv", "pri", "mss"}, NEW v \in SetValues, SetVariable(x, v) PROVE TunInv'
  BY <1>8, VariableSet
<1>9. CASE UNCHANGED tunvars
  BY <1>9, Idle DEF tunvars
<1> QED BY <1>1, <1>2, <1>3, <1>4, <1>5, <1>6, <1>7, <1>8, <1>9, Zenon DEF TunablesNext

LEMMA FitsCovers ==
  ASSUME NEW r, RingFits(r, tun["maxmem"], tun["mcl"]), tun["maxmem"] \in Nat, tun["mcl"] \in Nat \ {0}
  PROVE  RingCovers(r)
<1> DEFINE a == r.win \div r.mtu
           p == (tun["maxmem"] * 256) \div tun["mcl"]
           w == wire_defaults[r.wire].read
<1>2. /\ r \in Ring /\ r.total \in r.read..65535
      /\ r.asked \/ ((r.read >= a \/ r.read >= 256 \/ r.read >= p) /\ (r.read <= a \/ r.read <= w))
  BY DEF RingFits, RingFor
<1>3. /\ r.read \in Nat /\ r.win \in Nat /\ r.mtu \in Nat /\ r.mtu > 0 /\ r.wire \in {"ether", "slip"}
  BY <1>2 DEF Ring
<1>4. a \in Nat
  BY <1>3, Division
<1>5. p \in Nat
  BY QuarterPool
<1>6. w \in Nat
  BY <1>3, WireDefaults
<1> HIDE DEF a, p, w
<1>7. r.asked \/ r.read >= Min({a, 256, p})
  <2> SUFFICES ASSUME ~r.asked PROVE r.read >= Min({a, 256, p})
    OBVIOUS
  <2>1. r.read >= a \/ r.read >= 256 \/ r.read >= p
    BY <1>2
  <2> DEFINE k == 256
             x == r.read
  <2>2. k \in Nat /\ x \in Nat /\ (x >= a \/ x >= k \/ x >= p)
    BY <1>3, <2>1
  <2> HIDE DEF k, x
  <2>3. x >= Min({a, k, p})
    BY <1>4, <1>5, <2>2, MinOfThree, Zenon
  <2> QED BY <2>3 DEF k, x
<1>8. r.asked \/ r.read <= Max({a, w})
  <2>1. Max({a, w}) = IF a >= w THEN a ELSE w
    BY <1>4, <1>6, MaxIs, Zenon
  <2> QED BY <1>2, <1>3, <1>4, <1>6, <2>1
<1> QED BY <1>2, <1>7, <1>8 DEF a, p, w, RingCovers

LEMMA TunEnough == TunInv => TunablesSound
<1> SUFFICES ASSUME TunInv PROVE TunablesSound
  OBVIOUS
<1>1. TunTypes /\ WindowsKept /\ RingsKept /\ PriKept /\ NumbersOK(tun)
  BY DEF TunInv, TunTypes
<1>2. PriorityKept
  BY <1>1 DEF PriKept, PriorityKept, NumbersOK
<1>3. WindowsBacked
  <2> SUFFICES ASSUME writer \notin {"config", "none"}, tun["mcl"] = 2048
               PROVE  /\ Reservable(tun["snd"]) /\ Reservable(tun["rcv"])
                      /\ writer # "iface" => tun["snd"] = tun["rcv"] /\ tun["snd"] <= tun["ceiling"]
                      /\ writer = "iface" => /\ given.snd > 0 => tun["snd"] = given.snd
                                             /\ given.rcv > 0 => tun["rcv"] = given.rcv
    BY DEF WindowsBacked
  <2>1. writer \in {"tier", "link", "iface"}
    BY <1>1 DEF TunTypes
  <2>2. writer # "iface" => tun["snd"] = tun["rcv"] /\ tun["snd"] <= tun["ceiling"]
    BY <1>1, <2>1 DEF WindowsKept
  <2>3. Backed(tun["snd"], tun["sbmax"]) /\ Backed(tun["rcv"], tun["sbmax"])
    <3>1. /\ tun["sbmax"] \in Nat /\ tun["snd"] \in Nat /\ tun["rcv"] \in Nat /\ tun["ceiling"] \in Nat
          /\ Backed(tun["ceiling"], tun["sbmax"])
      BY <1>1 DEF NumbersOK, WindowsKept
    <3>2. CASE writer = "iface"
      BY <1>1, <3>2 DEF WindowsKept
    <3>3. CASE writer # "iface"
      BY <2>2, <3>1, <3>3, BackedMore
    <3> QED BY <3>2, <3>3
  <2>4. \A cc : Backed(cc, tun["sbmax"]) => Reservable(cc)
    BY DEF Backed, Reservable
  <2>5. writer = "iface" => /\ given.snd > 0 => tun["snd"] = given.snd
                            /\ given.rcv > 0 => tun["rcv"] = given.rcv
    BY <1>1 DEF WindowsKept
  <2> QED BY <2>2, <2>3, <2>4, <2>5
<1>4. RingsCoverWindow
  <2> SUFFICES ASSUME NEW i \in TunIfs, rings[i] # <<>> PROVE RingCovers(rings[i][1])
    BY DEF RingsCoverWindow
  <2>1. PICK q : rings[i] = <<q>> /\ RingFits(q, tun["maxmem"], tun["mcl"])
    BY <1>1 DEF RingsKept
  <2>2. rings[i][1] = q /\ tun["maxmem"] \in Nat /\ tun["mcl"] \in Nat \ {0}
    BY <1>1, <2>1 DEF NumbersOK
  <2> QED BY <2>1, <2>2, FitsCovers
<1> QED BY <1>2, <1>3, <1>4 DEF TunablesSound

\* The numbers of the stack agree with each other and with who wrote them, on every machine and
\* for any environment, configuration files, devices and interface files.
THEOREM SpecTunablesSound == TunablesSpec => []TunablesSound
<1>1. TunablesInit => TunInv
  BY TunStart
<1>2. TunInv /\ [TunablesNext]_tunvars => TunInv'
  BY TunStep
<1>3. TunInv => TunablesSound
  BY TunEnough
<1> QED BY <1>1, <1>2, <1>3, PTL DEF TunablesSpec
====
