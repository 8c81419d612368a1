------------------------------- MODULE MCData -------------------------------
(* Memory and tables: socket buffers over mbufs, packet capture and its    *)
(* filter machine, socket options, tunables and routes.  The components    *)
(* share no variable, so every behaviour runs one of them, chosen at the   *)
(* start, and leaves the others in their initial state.                    *)
EXTENDS SockBuf, Bpf, BpfFilter, SockOpt, Tunables, Routes

VARIABLE focus

buffers == <<so, rcv, oob, eof, rd, in, urg, snd, wr, wrote, acked>>

\* BpfFilter: operands, and packets by the lengths of their mbufs
OpsDef == {-1, 0, 1, 2, 4}
ChainsDef == {<<3>>, <<1, 3>>, <<2, 0, 1>>}
\* SockOpt
ValueSet == {-1, 0, 5, 20}
\* Routes
KindDef == [i \in Ifs |-> IF i = "ppp0" THEN "ptp" ELSE "ether"]
\* Tunables: a small 68000, a middling machine, a large one
MachineSet == {[ram |-> 1, cpu020 |-> FALSE], [ram |-> 16, cpu020 |-> TRUE], [ram |-> 256, cpu020 |-> TRUE]}
Txt(n, d) == [neg |-> n, digits |-> d]
EnvSet == {("task.priority" :> Txt(TRUE, <<2>>)) @@ ("tcp.mssdflt" :> Txt(FALSE, <<2, 1, 4, 7, 4, 8, 3, 6, 4, 8>>)),
           ("task.controller.priority" :> Txt(FALSE, <<3, 0, 0>>)) @@ ("tcp.sendspace" :> Txt(FALSE, <<9>>))}
ConfigSet == {<<>>, [pri |-> 9, maxmem |-> 64], [snd |-> 65536, pri |-> 200, mcl |-> 4096]}
Device(o, b, m, w) == [opens |-> o, baud |-> b, mtu |-> m, wire |-> w]
DeviceSet == {Device(FALSE, 0, 0, "ether"), Device(TRUE, 10000000, 1500, "ether"),
              Device(TRUE, 0, 576, "slip"), Device(TRUE, 100000000, 0, "ether")}
Tags(s, r, i, b) == [ipreq |-> i, wreq |-> 0, snd |-> s, rcv |-> r, mss |-> r, speed |-> b]
TagSet == {Tags(0, 0, 0, 0), Tags(100000, 0, 0, 0), Tags(0, 200000, 70000, 0), Tags(0, 0, 0, 1000000000)}
SetVals == {-200, 3}

DataInit ==
  /\ focus \in {"mbuf", "sockbuf", "bpf", "filter", "options", "tunables", "routes"}
  /\ BpfInit /\ RoutesInit
  /\ SockBufInit /\ (focus # "sockbuf" => so = "stream")
  /\ SockOptInit /\ (focus # "options" => mfree = 0)
  /\ TunablesInit /\ (focus # "tunables" => machine.ram = 1 /\ "tcp.mssdflt" \in DOMAIN env)
  /\ BpfFilterInit /\ (focus # "filter" => pkt = <<<<0, 0, 0>>>>)

DataNext ==
  /\ UNCHANGED focus
  /\ \/ focus = "mbuf" /\ MbufNext /\ UNCHANGED <<buffers, bvars, fvars, optvars, tunvars, rvars>>
     \/ focus = "sockbuf" /\ SockBufNext /\ UNCHANGED <<bvars, fvars, optvars, tunvars, rvars>>
     \/ focus = "bpf" /\ BpfNext /\ UNCHANGED <<allsb, fvars, optvars, tunvars, rvars>>
     \/ focus = "filter" /\ BpfFilterNext /\ UNCHANGED <<allsb, bvars, optvars, tunvars, rvars>>
     \/ focus = "options" /\ SockOptNext /\ UNCHANGED <<allsb, bvars, fvars, tunvars, rvars>>
     \/ focus = "tunables" /\ TunablesNext /\ UNCHANGED <<allsb, bvars, fvars, optvars, rvars>>
     \/ focus = "routes" /\ RoutesNext /\ UNCHANGED <<allsb, bvars, fvars, optvars, tunvars>>

(* Every mbuf and cluster of the pool is free or held by exactly one chain  *)
(* with the references it counts, and the octets are those the calls        *)
(* promise: of the chains the stack edits, or of the socket buffers.        *)
BuffersSound == IF focus = "mbuf" THEN MbufSound ELSE SockBufSound
=============================================================================
