------------------------------- MODULE MCLink -------------------------------
(* The link side of the stack: driver requests, the device helper, ARP and *)
(* address configuration; and the stack's own start and end, with two      *)
(* programs at its door.  The components share no variable, so every       *)
(* behaviour runs one of them, chosen at the start, and leaves the others  *)
(* in their initial state.                                                 *)
EXTENDS Sana, SanaHelper, Arp, Dhcp, Stack

CONSTANTS a1, a2

VARIABLE focus

HashDef == [a \in Addrs |-> 0]     \* both addresses in one ARP bucket

LinkInit ==
  /\ SanaInit /\ HelperInit /\ ArpInit /\ DhcpInit
  /\ focus \in {"sana", "helper", "arp", "dhcp", "stack"}
  /\ StackInit /\ (focus # "stack" => build = "library")
  /\ focus # "arp" => noarp /\ arpentries = 1

LinkNext ==
  /\ UNCHANGED focus
  /\ \/ focus = "sana" /\ SanaNext /\ UNCHANGED <<hvars, avars, dvars, stkvars>>
     \/ focus = "helper" /\ HelperNext /\ UNCHANGED <<sanaVars, avars, dvars, stkvars>>
     \/ focus = "arp" /\ ArpNext /\ UNCHANGED <<sanaVars, hvars, dvars, stkvars>>
     \/ focus = "dhcp" /\ DhcpNext /\ UNCHANGED <<sanaVars, hvars, avars, stkvars>>
     \/ focus = "stack" /\ StackNext /\ UNCHANGED <<sanaVars, hvars, avars, dvars>>
=============================================================================
