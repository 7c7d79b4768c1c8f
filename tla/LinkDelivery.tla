---------------------------- MODULE LinkDelivery ----------------------------
(***************************************************************************)
(* What EthernetLink promises about the packets it carries, strengthened   *)
(* until every step keeps it: LinkInv says where the blocks are, this      *)
(* invariant whose they are, in which order, and that none is lost.        *)
(* EthernetDelivery_proofs proves it; the runs check it on small instances.*)
(***************************************************************************)
EXTENDS LinkInvariant

\* A peer connects once, so it has one connection, open or left.
PeersOnce ==
    \A i \in Slots :
        /\ conn[i].peer \in known \cup {Nobody}
        /\ \A j \in Slots : conn[i].peer = conn[j].peer /\ conn[i].peer # Nobody
               => i = j

\* The mark to open a window: while it is set the window is closed, and since
\* nothing is stored meanwhile the slot that was read stays free.
WindowOf(c, d) ==
    ~Shut(d) => /\ "RESTART" \in d.state =>
                       c.stopped /\ Len(d.packets_in) < UIP_SOCKET_NUMPACKETS
                /\ ~c.stopped => Len(d.packets_in) < UIP_SOCKET_NUMPACKETS

\* Without an abort only an established connection has user data.
OpenOK(u) ==
    Never({"aborted"}) =>
        \A i \in Refs(u) : conn[i].tcp = "ESTABLISHED" /\ WindowOf(conn[i], data[u])

\* User data without a connection has nothing to send.
Drained(d) == d.state = {} \/ "REMOTECLOSED" \in d.state => d.packets_out = <<>>
DrainedOK(u) == Never({"orphaned"}) => Drained(data[u])

\* What is unread is one peer's, the connection's if there is one.
Contents(q, b) == [j \in DOMAIN q |-> b[q[j]]]
Unread(u) == Contents(data[u].packets_in, block)
From(s, p) == \A j \in DOMAIN s : s[j].peer = p
Whose(u, p) == From(Unread(u), p) /\ \A i \in Refs(u) : conn[i].peer = p
OneSender(u) == Never({"aborted"}) => \E p \in Peers \cup {Nobody} : Whose(u, p)

\* It has no hole, with or without a connection; with one it ends with the
\* last segment that was acknowledged.
Run(s) == \A j \in DOMAIN s : s[j] = [s[1] EXCEPT !.n = @ + j - 1]
Ends(s, p, r) ==
    \A j \in DOMAIN s : s[j] = [peer |-> p, n |-> r + j - Len(s)]
InOrder(u) ==
    Never({"aborted", "refused"}) =>
        /\ Run(Unread(u))
        /\ \A i \in Refs(u) : Ends(Unread(u), conn[i].peer, received[conn[i].peer])

\* What is unsent answers the connection's peer.
OwnAnswer(u) ==
    Never({"aborted", "orphaned"}) =>
        \A i \in Refs(u), h \in Held(data[u].packets_out) :
            block[h].peer = conn[i].peer

UserOK(u) ==
    /\ OpenOK(u)
    /\ DrainedOK(u)
    /\ OneSender(u)
    /\ InOrder(u)
    /\ OwnAnswer(u)

\* loop() only points to user data that is in use and that it has not stopped.
ClientOK ==
    Never({"orphaned"}) /\ client # NULL =>
        data[client].state # {} /\ "CLOSE" \notin data[client].state

\* While a request is read and answered, loop()'s client is who sent it.
AskerOK ==
    /\ Never({"aborted", "orphaned"})
    /\ client # NULL /\ (pc = "read" \/ Answering) /\ request # <<>>
    => Whose(client, request[1].peer)

\* While loop() reads, what is unread goes on where the request ends.
GoesOnOK ==
    Never({"aborted", "refused"}) /\ pc = "read" /\ remaining > 0 =>
        Run(request \o Unread(client))

DeliveryInv ==
    /\ LinkInv
    /\ PeersOnce
    /\ \A u \in Slots : UserOK(u)
    /\ NoLeak
    /\ ClientOK
    /\ AskerOK
    /\ GoesOnOK
    /\ RequestWhole
=============================================================================
