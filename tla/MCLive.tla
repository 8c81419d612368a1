------------------------------- MODULE MCLive -------------------------------
(* Calls and queues that must come to an end: WaitSelect, reassembly       *)
(* queues, name lookups and shutdown requests.  The components share no    *)
(* variable, so every behaviour runs one of them, chosen at the start, and *)
(* leaves the others in their initial state; fairness is that of the one   *)
(* that runs.                                                              *)
EXTENDS Select, IpReass, Names, Stack

CONSTANTS t1, b1, b2, d1, d2, d3

VARIABLE focus

\* Select: one task watches one buffer for two conditions, or two buffers
OneWatch == t1 :> {<<b1, b1>>, <<b1, b2>>}

\* IpReass: three datagrams, one of them longer than ip_len can say, and room for two
\* queues; fragments overlap in every way two or three of them can, and some are empty
MCSize == d1 :> 3 @@ d2 :> 4 @@ d3 :> 1
MCPieces == d1 :> {<<0, 1>>, <<0, 2>>, <<1, 1>>, <<1, 2>>, <<2, 1>>, <<3, 0>>}
         @@ d2 :> {<<0, 1>>, <<0, 3>>, <<1, 3>>, <<1, 2>>, <<2, 0>>, <<3, 1>>}
         @@ d3 :> {<<0, 0>>, <<1, 0>>}

\* Names: a name without a dot, and a database file with one server
DotsDef == [q \in Hosts |-> "none"]
FileNs == <<[addr |-> "s1", dynamic |-> FALSE, owner |-> "none"]>>
FileSearch == <<"d1">>

LiveInit ==
  /\ focus \in {"select", "reass", "names", "netdb", "stack"}
  /\ Init /\ ReassInit /\ NamesInit
  /\ StackInit /\ (focus # "stack" => build = "library")

LiveNext ==
  /\ UNCHANGED focus
  /\ \/ focus = "select" /\ Next /\ UNCHANGED <<reassvars, nvars, stkvars>>
     \/ focus = "reass" /\ ReassNext /\ UNCHANGED <<vars, nvars, stkvars>>
     \/ focus = "names" /\ NamesNext /\ UNCHANGED <<walk, vars, reassvars, stkvars>>
     \/ focus = "netdb" /\ NamesNext /\ UNCHANGED <<look, vars, reassvars, stkvars>>
     \/ focus = "stack" /\ StackNext /\ UNCHANGED <<vars, reassvars, nvars>>

livevars == <<focus, vars, reassvars, nvars, stkvars>>

LiveSpec ==
  /\ LiveInit /\ [][LiveNext]_livevars
  /\ \A t \in Tasks : /\ WF_vars(focus = "select" /\ TaskStep(t))
                      /\ WF_vars(focus = "select" /\ TimerReply(t))
  /\ WF_vars(focus = "select" /\ DeliverResumes)
  /\ WF_reassvars(focus = "reass" /\ SlowTimo)
  /\ \A c \in Clients : WF_nvars(focus = "names" /\ Lookup(c))
  /\ WF_stkvars(focus = "stack" /\ ~clash /\ Serving)
  /\ WF_stkvars(focus = "stack" /\ ~clash /\ SecondPasses)
  /\ \A t \in Timers : WF_stkvars(focus = "stack" /\ ~clash /\ TimerBack(t))
=============================================================================
