---------------------------- MODULE LinkInvariant ----------------------------
(***************************************************************************)
(* The inductive invariant of EthernetLink: why connections and user data  *)
(* agree, and why no block is in two places, whatever the clients do.      *)
(* EthernetLink_proofs proves it; the runs check it on small instances.    *)
(***************************************************************************)
EXTENDS EthernetLink

\* The marks of user data: what is in use was opened by a connection, and what
\* is free or has been stopped has nothing to read.
Marked(d) ==
    /\ d.state = {} \/ "CONNECTED" \in d.state
    /\ d.state = {} \/ "CLOSE" \in d.state => d.packets_in = <<>>
MarksOK == \A u \in Slots : Marked(data[u])

\* A connection that is not closed is somebody's.
Named(c) == c.tcp # "CLOSED" => c.peer \in Peers
PeersOK == \A i \in Slots : Named(conn[i])

\* While loop() reads, the blocks it has still to read are there: uIP appends
\* to the queue of a client and closes it, but takes nothing away.
ReadingOK ==
    pc = "read" /\ remaining > 0 =>
        client # NULL /\ remaining <= Len(data[client].packets_in)

\* What is answered has been asked by someone.
AskedOK ==
    /\ pc = "read" => remaining + Len(request) > 0
    /\ Answering => request # <<>>

LinkInv ==
    /\ TypeOK
    /\ OwnedData
    /\ HeldOnce
    /\ MarksOK
    /\ PeersOK
    /\ ReadingOK
    /\ AskedOK
=============================================================================
