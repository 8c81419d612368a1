----------------------------- MODULE MCSockLife -----------------------------
(* Small instances of SockLife.                                            *)
EXTENDS SockLife, TLC

CONSTANTS b1, b2, t1, t2

\* every task opens its own base
OwnHome   == t1 :> b1 @@ t2 :> b2
OwnOpener == b1 :> t1 @@ b2 :> t2

\* t1 opens one base and shares it with t2
SharedHome   == t1 :> b1 @@ t2 :> b1
SharedOpener == b1 :> t1

SockSymmetry == Permutations(Socks)
=============================================================================
