---------------------------- MODULE MCKernSynch ----------------------------
(* Two tasks sharing one library base, one below and one above the network  *)
(* task's priority; two channels in one bucket.                             *)
EXTENDS KernSynch, TLC

CONSTANTS t1, t2, b1, lib

MCHash   == [c \in Chans |-> b1]
MCBase   == [t \in Tasks |-> lib]
MCOwnPri == [t \in Tasks |-> IF t = t1 THEN 0 ELSE 9]
=============================================================================
