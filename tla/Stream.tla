------------------------------- MODULE Stream -------------------------------
(***************************************************************************)
(* What a TCP connection promises its two applications, without segments,  *)
(* windows, timers or a network: two byte streams, one in each direction.  *)
(* The bytes of a stream arrive in order, each once, and its end is told   *)
(* only after its last byte.  The n-th byte written has the value n.       *)
(***************************************************************************)
EXTENDS Naturals, Sequences, SequencesExt

CONSTANTS
  Ends,       \* the two ends of the connection
  Peer(_)     \* the other end

VARIABLES
  wrote,   \* wrote[e]: how many bytes the application of e has written
  shut,    \* shut[e]: e writes no more
  held,    \* held[e]: bytes that arrived at e and have not been read
  read,    \* read[e]: bytes the application of e has read
  eof,     \* eof[e]: a read at e reports the end of the stream
  gone     \* gone[e]: the application of e has left, or lost the connection

streamVars == <<wrote, shut, held, read, eof, gone>>

Written(e) == [i \in 1 .. wrote[e] |-> i]

StreamInit ==
  /\ wrote = [e \in Ends |-> 0] /\ held = [e \in Ends |-> <<>>] /\ read = held
  /\ shut = [e \in Ends |-> FALSE] /\ eof = shut /\ gone = shut

Write(e) ==
  /\ ~shut[e] /\ \E n \in 1 .. 2 : wrote' = [wrote EXCEPT ![e] = @ + n]
  /\ UNCHANGED <<shut, held, read, eof, gone>>

\* Bytes arrive, the end of the stream is reported, or both.
Arrive(e) ==
  /\ ~gone[e]
  /\ \E n \in Len(held[e]) .. wrote[Peer(e)] - Len(read[e]) :
       held' = [held EXCEPT ![e] = SubSeq(Written(Peer(e)), Len(read[e]) + 1, Len(read[e]) + n)]
  /\ eof' \in {eof, [eof EXCEPT ![e] = TRUE]}
  /\ eof'[e] => shut[Peer(e)] /\ read[e] \o held'[e] = Written(Peer(e))
  /\ shut' \in {shut, [shut EXCEPT ![e] = TRUE]}
  /\ UNCHANGED <<wrote, read, gone>>

Read(e) ==
  /\ \E n \in 1 .. Len(held[e]) :
       /\ read' = [read EXCEPT ![e] = @ \o SubSeq(held[e], 1, n)]
       /\ held' = [held EXCEPT ![e] = SubSeq(@, n + 1, Len(@))]
  /\ UNCHANGED <<wrote, shut, eof, gone>>

\* The application closes, or the connection fails: what arrived may still be
\* read, or is thrown away.
Leave(e) ==
  /\ shut' = [shut EXCEPT ![e] = TRUE] /\ gone' = [gone EXCEPT ![e] = TRUE]
  /\ eof' = [eof EXCEPT ![e] = FALSE]
  /\ held' \in {held, [held EXCEPT ![e] = <<>>]}
  /\ UNCHANGED <<wrote, read>>

StreamNext == \E e \in Ends : Write(e) \/ Arrive(e) \/ Read(e) \/ Leave(e)

StreamSpec == StreamInit /\ [][StreamNext]_streamVars
=============================================================================
