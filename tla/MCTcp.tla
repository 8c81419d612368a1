------------------------------- MODULE MCTcp --------------------------------
(* Instances of Tcp for TLC.                                               *)
EXTENDS Tcp

\* what the applications write
TwoOneWay == "client" :> 2 @@ "server" :> 0
ThreeOneWay == "client" :> 3 @@ "server" :> 0
\* initial sequence numbers close to the end of the sequence space
NearWrap == "client" :> SeqSpace - 2 @@ "server" :> 3
=============================================================================
