---------------------------- MODULE EthernetLink ----------------------------
(***************************************************************************)
(* The network stack between the clients and loop(): uIP's connections,    *)
(* the user data UIPClient keeps for each, the pool of packet blocks, and  *)
(* what loop() does with a client.  The stack runs inside the calls loop() *)
(* makes (every one starts with a tick()), so its steps come between any   *)
(* two of loop()'s, and loop() holds a pointer to user data across them.   *)
(*                                                                         *)
(* A peer is a client's address and port; a client that comes back is      *)
(* another peer.  Segments that are lost, repeated or out of order never   *)
(* reach the user data (uIP takes only the one it expects next), so the    *)
(* network is: the next segment is accepted now, later, or never.          *)
(***************************************************************************)
EXTENDS Naturals, Sequences, FiniteSets

CONSTANTS
    Peers, Nobody,
    UIP_CONNS,              \* connections, and as many user data
    UIP_SOCKET_NUMPACKETS,  \* blocks each way in a user data
    PoolBlocks,             \* packets the memory pool holds, all of one size
    MaxSegments,            \* bound: segments a peer sends
    AnswerBlocks            \* packets an answer takes

ASSUME LinkAssumption ==
    /\ UIP_CONNS \in Nat \ {0}
    /\ UIP_SOCKET_NUMPACKETS \in Nat \ {0}
    /\ PoolBlocks \in Nat
    /\ MaxSegments \in Nat
    /\ AnswerBlocks \in Nat \ {0}
    /\ Nobody \notin Peers

VARIABLES
    conn,           \* uip_conns
    data,           \* UIPClient::all_data
    block,          \* what each block of the pool holds
    received,       \* segments uIP has acknowledged to each peer (rcv_nxt)
    known,          \* the peers that have connected
    pc,             \* where loop() is
    client,         \* etherClient->data
    remaining,      \* blocks readBytes() has still to read
    written,        \* blocks of the answer written
    request,        \* LocalBuffers::client_request_buffer
    happened        \* history: what has happened that the code has no answer to

stackVars == <<conn, data, block, received, known, happened>>
loopVars == <<pc, client, remaining, written, request>>
linkVars == <<stackVars, loopVars>>

NULL == 0
Slots == 1..UIP_CONNS
Handles == 1..PoolBlocks

\* A block holds the n-th segment of a peer, or (0) a part of its answer.
Packets == [peer : Peers, n : 0..MaxSegments]
Free == [peer |-> Nobody, n |-> 0]

TcpStates == {"CLOSED", "SYN_RCVD", "ESTABLISHED", "CLOSING"}
Flags == {"CONNECTED", "CLOSE", "REMOTECLOSED", "RESTART"}

\* len is what is outstanding: nothing, or data with or without a copy of it
\* on the wire.  CLOSING stands for all states in which appstate is NULL and
\* the connection only runs down.
Connections ==
    [tcp : TcpStates, peer : Peers \cup {Nobody}, stopped : BOOLEAN,
     len : {"none", "unsent", "sent"}, appstate : Slots \cup {NULL}]
Userdata ==
    [state : SUBSET Flags, sock : Slots, packets_in : Seq(Handles),
     packets_out : Seq(Handles)]

Held(q) == {q[j] : j \in DOMAIN q}

\* tcpstateflags == UIP_CLOSED: a stopped connection is not it.
IsClosed(c) == c.tcp = "CLOSED" /\ ~c.stopped
Outstanding(c) == c.len # "none"
InUse(d) == d.state # {}
Shut(d) == d.state \cap {"CLOSE", "REMOTECLOSED"} # {}

Least(S) == CHOOSE x \in S : \A y \in S : x <= y

-----------------------------------------------------------------------------
(* The pool *)

FreeHandles(b) == {h \in Handles : b[h] = Free}
CanAlloc(b) == FreeHandles(b) # {}
AllocBlock(b) == Least(FreeHandles(b))
FreeBlocks(b, H) == [h \in Handles |-> IF h \in H THEN Free ELSE b[h]]

-----------------------------------------------------------------------------
(* uipclient_appcall(), in its order, on the connection c, its user data d  *)
(* and the pool b                                                           *)

\* New data takes the first empty slot; the last one closes the window.
\* Without a block for it the packet is kept, but it is already
\* acknowledged: on the next tick it is an old one and is thrown away.
Room(d, b) == Len(d.packets_in) < UIP_SOCKET_NUMPACKETS /\ CanAlloc(b)

\* Seeded faults: the window closed one packet late; the packet put first.
StoreLateStop(m, packet) ==
    IF Shut(m.d) \/ ~Room(m.d, m.b) THEN m
    ELSE LET h == AllocBlock(m.b)
         IN  [c |-> [m.c EXCEPT !.stopped =
                         @ \/ Len(m.d.packets_in) = UIP_SOCKET_NUMPACKETS],
              d |-> [m.d EXCEPT !.packets_in = Append(@, h)],
              b |-> [m.b EXCEPT ![h] = packet]]
StoreFirst(m, packet) ==
    IF Shut(m.d) \/ ~Room(m.d, m.b) THEN m
    ELSE LET h == AllocBlock(m.b)
         IN  [c |-> [m.c EXCEPT !.stopped =
                         @ \/ Len(m.d.packets_in) + 1 = UIP_SOCKET_NUMPACKETS],
              d |-> [m.d EXCEPT !.packets_in = <<h>> \o @],
              b |-> [m.b EXCEPT ![h] = packet]]
Store(m, packet) ==
    IF Shut(m.d) THEN m
    ELSE IF Room(m.d, m.b)
    THEN LET h == AllocBlock(m.b)
         IN  [c |-> [m.c EXCEPT !.stopped =
                         @ \/ Len(m.d.packets_in) + 1 = UIP_SOCKET_NUMPACKETS],
              d |-> [m.d EXCEPT !.packets_in = Append(@, h)],
              b |-> [m.b EXCEPT ![h] = packet]]
    ELSE [m EXCEPT !.c.stopped = TRUE]

Restart(m) ==
    IF "RESTART" \in m.d.state
    THEN [m EXCEPT !.c.stopped = FALSE, !.d.state = @ \ {"RESTART"}]
    ELSE m

\* Seeded faults: the connection keeps the user data; the unsent blocks are
\* forgotten, not freed; the user data is not marked.
ClosedKeepsAppstate(m) ==
    [c |-> [m.c EXCEPT !.stopped = FALSE],
     d |-> [m.d EXCEPT !.packets_out = <<>>,
                       !.state = IF m.d.packets_in = <<>> THEN {}
                                 ELSE @ \cup {"REMOTECLOSED"}],
     b |-> FreeBlocks(m.b, Held(m.d.packets_out))]
ClosedForgets(m) ==
    [c |-> [m.c EXCEPT !.appstate = NULL, !.stopped = FALSE],
     d |-> [m.d EXCEPT !.packets_out = <<>>,
                       !.state = IF m.d.packets_in = <<>> THEN {}
                                 ELSE @ \cup {"REMOTECLOSED"}],
     b |-> m.b]
ClosedUnmarked(m) ==
    [c |-> [m.c EXCEPT !.appstate = NULL, !.stopped = FALSE],
     d |-> [m.d EXCEPT !.packets_out = <<>>,
                       !.state = IF m.d.packets_in = <<>> THEN {} ELSE @],
     b |-> FreeBlocks(m.b, Held(m.d.packets_out))]

\* What is unread is saved, what is unsent is dropped.
Closed(m) ==
    [c |-> [m.c EXCEPT !.appstate = NULL, !.stopped = FALSE],
     d |-> [m.d EXCEPT !.packets_out = <<>>,
                       !.state = IF m.d.packets_in = <<>> THEN {}
                                 ELSE @ \cup {"REMOTECLOSED"}],
     b |-> FreeBlocks(m.b, Held(m.d.packets_out))]

\* Seeded fault: the acknowledged block stays first in the queue.
AckedKeeps(m) == m
Acked(m) ==
    IF m.d.packets_out = <<>> THEN m
    ELSE [m EXCEPT !.d.packets_out = Tail(@),
                   !.b = FreeBlocks(@, {Head(m.d.packets_out)})]

\* The copy that goes out needs a block of its own for the moment.
Send(m) ==
    [m EXCEPT !.c.len = IF CanAlloc(m.b) THEN "sent"
                        ELSE IF @ = "none" THEN "unsent" ELSE @]

\* stop() has been called: close when everything is sent.
Finish(m) ==
    IF "CLOSE" \notin m.d.state THEN m
    ELSE IF m.d.packets_out = <<>>
    THEN [m EXCEPT !.d.state = {}, !.c.appstate = NULL,
                   !.c.tcp = IF @ = "ESTABLISHED" THEN "CLOSING" ELSE @,
                   !.c.stopped = @ /\ m.c.tcp # "ESTABLISHED"]
    ELSE [m EXCEPT !.c.stopped = TRUE]

Leaving(flags) == flags \cap {"CLOSE", "TIMEDOUT"} # {}

AppCall(m, flags, packet) ==
    LET stored  == IF "NEWDATA" \in flags THEN Store(m, packet) ELSE m
        open    == Restart(stored)
        acked   == IF "ACKDATA" \in flags THEN Acked(open) ELSE open
    IN  IF Leaving(flags) THEN Closed(open)
        ELSE IF flags \cap {"POLL", "REXMIT"} # {} /\ acked.d.packets_out # <<>>
        THEN Send(acked)
        ELSE Finish(acked)

\* What the code has no answer to: an abort; acknowledged data nobody keeps;
\* user data given back while loop() holds a pointer to it.
Happenings == {"aborted", "refused", "orphaned"}
Happening(u, d, flags) ==
    {h \in Happenings :
        \/ h = "aborted" /\ "ABORT" \in flags /\ u # NULL
        \/ h = "refused" /\ "NEWDATA" \in flags
                         /\ (u = NULL \/ ~(Shut(d) \/ Room(d, block)))
        \/ h = "orphaned" /\ Leaving(flags) /\ u # NULL /\ u = client
                          /\ d.packets_in = <<>>}

\* UIP_APPCALL() for connection i, whose record uIP has made c, with user
\* data u whose record is d.
Notify(i, c, u, d, flags, packet) ==
    LET m == AppCall([c |-> c, d |-> d, b |-> block], flags, packet)
    IN  /\ IF u = NULL
           THEN conn' = [conn EXCEPT ![i] = c] /\ UNCHANGED <<data, block>>
           ELSE /\ conn' = [conn EXCEPT ![i] = m.c]
                /\ data' = [data EXCEPT ![u] = m.d]
                /\ block' = m.b
        /\ happened' = happened \cup Happening(u, d, flags)

\* The user data of a connection, or any record if it has none.
DataOf(c) == data[IF c.appstate = NULL THEN 1 ELSE c.appstate]

FreshData(i) ==
    [state |-> {"CONNECTED"}, sock |-> i, packets_in |-> <<>>,
     packets_out |-> <<>>]

NextPacket(p) == [peer |-> p, n |-> received[p] + 1]

-----------------------------------------------------------------------------
(* uip_process() *)

\* A SYN takes the first closed connection.  Its appstate is left as it is.
Syn(p) ==
    /\ p \notin known
    /\ \E i \in Slots : IsClosed(conn[i])
    /\ known' = known \cup {p}
    /\ conn' = [conn EXCEPT ![Least({i \in Slots : IsClosed(conn[i])})] =
                    [@ EXCEPT !.tcp = "SYN_RCVD", !.peer = p, !.len = "sent"]]
    /\ UNCHANGED <<data, block, received, happened>>

\* The ACK of our SYNACK, with data or without.
Established(i, new) ==
    LET p    == conn[i].peer
        none == {u \in Slots : ~InUse(data[u])}
        u    == IF conn[i].appstate = NULL /\ none # {} THEN Least(none)
                ELSE conn[i].appstate
        d    == IF conn[i].appstate = NULL /\ none # {} THEN FreshData(i)
                ELSE DataOf(conn[i])
    IN  /\ conn[i].tcp = "SYN_RCVD"
        /\ new => received[p] < MaxSegments
        /\ Notify(i, [conn[i] EXCEPT !.tcp = "ESTABLISHED", !.len = "none",
                                     !.appstate = u],
                  u, d, IF new THEN {"CONNECTED", "NEWDATA"} ELSE {"CONNECTED"},
                  NextPacket(p))
        /\ received' = [received EXCEPT ![p] = IF new THEN @ + 1 ELSE @]
        /\ UNCHANGED known

\* A segment of an established connection: it acknowledges, carries data,
\* closes.  A stopped connection takes neither data nor FIN; a FIN is only
\* taken with nothing outstanding.
Segment(i, flags) ==
    LET p == conn[i].peer
        c == [conn[i] EXCEPT !.len = IF "ACKDATA" \in flags THEN "none" ELSE @]
    IN  /\ conn[i].tcp = "ESTABLISHED"
        /\ "ACKDATA" \in flags => conn[i].len = "sent"
        /\ flags \cap {"NEWDATA", "CLOSE"} # {} => ~conn[i].stopped
        /\ "NEWDATA" \in flags => received[p] < MaxSegments
        /\ "CLOSE" \in flags => ~Outstanding(c)
        /\ Notify(i, [c EXCEPT !.tcp = IF "CLOSE" \in flags THEN "CLOSING" ELSE @],
                  c.appstate, DataOf(c), flags, NextPacket(p))
        /\ received' = [received EXCEPT ![p] =
                            IF "NEWDATA" \in flags THEN @ + 1 ELSE @]
        /\ UNCHANGED known

\* A reset from the peer.  uipclient_appcall() has no branch for UIP_ABORT.
Reset(i) ==
    /\ conn[i].tcp # "CLOSED"
    /\ Notify(i, [conn[i] EXCEPT !.tcp = "CLOSED", !.stopped = FALSE],
              conn[i].appstate, DataOf(conn[i]), {"ABORT"}, Free)
    /\ UNCHANGED <<received, known>>

\* tick() polls a connection with nothing outstanding, retransmits for one
\* that has something outstanding, and gives up after UIP_MAXRTX times.
Poll(i) ==
    /\ conn[i].tcp = "ESTABLISHED"
    /\ ~Outstanding(conn[i])
    /\ Notify(i, conn[i], conn[i].appstate, DataOf(conn[i]), {"POLL"}, Free)
    /\ UNCHANGED <<received, known>>

Rexmit(i) ==
    /\ conn[i].tcp = "ESTABLISHED"
    /\ Outstanding(conn[i])
    /\ Notify(i, conn[i], conn[i].appstate, DataOf(conn[i]), {"REXMIT"}, Free)
    /\ UNCHANGED <<received, known>>

TimedOut(i) ==
    /\ ~IsClosed(conn[i])
    /\ conn[i].tcp # "CLOSING"
    /\ Outstanding(conn[i])
    /\ Notify(i, [conn[i] EXCEPT !.tcp = "CLOSED", !.stopped = FALSE],
              conn[i].appstate, DataOf(conn[i]), {"TIMEDOUT"}, Free)
    /\ UNCHANGED <<received, known>>

\* The end of FIN_WAIT, CLOSING, LAST_ACK or TIME_WAIT.
RunDown(i) ==
    /\ conn[i].tcp = "CLOSING"
    /\ conn' = [conn EXCEPT ![i].tcp = "CLOSED", ![i].len = "none"]
    /\ UNCHANGED <<data, block, received, known, happened>>

-----------------------------------------------------------------------------
(* loop() *)

Readable == {u \in Slots : data[u].packets_in # <<>>}

\* while (EthernetClient client = server.available())
Accept ==
    /\ pc = "idle"
    /\ Readable # {}
    /\ client' = Least(Readable)
    /\ pc' = "available"
    /\ UNCHANGED <<stackVars, remaining, written, request>>

NoClient == pc = "idle" /\ Readable = {} /\ UNCHANGED linkVars

Available == IF client = NULL THEN 0 ELSE Len(data[client].packets_in)

\* The inner while: there is something to read ...
HasData ==
    /\ pc = "available"
    /\ Available > 0
    /\ request' = <<>>
    /\ remaining' = Available
    /\ pc' = "read"
    /\ UNCHANGED <<stackVars, client, written>>

\* ... or too much, which is refused unread ...
TooLong ==
    /\ pc = "available"
    /\ Available > 0
    /\ request' = [j \in 1..Available |-> block[data[client].packets_in[j]]]
    /\ written' = 0
    /\ pc' = "refuse"
    /\ UNCHANGED <<stackVars, client, remaining>>

\* ... or nothing.
NoData ==
    /\ pc = "available"
    /\ Available = 0
    /\ pc' = "stop"
    /\ UNCHANGED <<stackVars, client, remaining, written, request>>

\* Seeded faults: the newest block is read first; the pointer is kept when the
\* user data is given back.
ReadNewest ==
    LET d == data[client]
        q == d.packets_in
        rest == SubSeq(q, 1, Len(q) - 1)
        over == rest = <<>> /\ "REMOTECLOSED" \in d.state
    IN  /\ pc = "read"
        /\ remaining > 0
        /\ remaining' = remaining - 1
        /\ request' = Append(request, block[q[Len(q)]])
        /\ block' = FreeBlocks(block, {q[Len(q)]})
        /\ data' = [data EXCEPT ![client] =
               [d EXCEPT !.packets_in = rest,
                         !.state = IF over THEN {}
                                   ELSE IF conn[d.sock].stopped /\ ~Shut(d)
                                   THEN @ \cup {"RESTART"} ELSE @]]
        /\ client' = IF over THEN NULL ELSE client
        /\ UNCHANGED <<conn, received, known, happened, pc, written>>
ReadKeepsClient ==
    LET d    == data[client]
        rest == Tail(d.packets_in)
        over == rest = <<>> /\ "REMOTECLOSED" \in d.state
    IN  /\ pc = "read"
        /\ remaining > 0
        /\ remaining' = remaining - 1
        /\ request' = Append(request, block[Head(d.packets_in)])
        /\ block' = FreeBlocks(block, {Head(d.packets_in)})
        /\ data' = [data EXCEPT ![client] =
               [d EXCEPT !.packets_in = rest, !.state = IF over THEN {} ELSE @]]
        /\ UNCHANGED <<conn, received, known, happened, pc, client, written>>

\* read() eats the first block.  A full window is opened again by the next
\* appcall; user data the peer has closed is given back with its last block.
Read ==
    LET d    == data[client]
        rest == Tail(d.packets_in)
        over == rest = <<>> /\ "REMOTECLOSED" \in d.state
    IN  /\ pc = "read"
        /\ remaining > 0
        /\ remaining' = remaining - 1
        /\ request' = Append(request, block[Head(d.packets_in)])
        /\ block' = FreeBlocks(block, {Head(d.packets_in)})
        /\ data' = [data EXCEPT ![client] =
               [d EXCEPT !.packets_in = rest,
                         !.state = IF over THEN {}
                                   ELSE IF conn[d.sock].stopped /\ ~Shut(d)
                                   THEN @ \cup {"RESTART"} ELSE @]]
        /\ client' = IF over THEN NULL ELSE client
        /\ UNCHANGED <<conn, received, known, happened, pc, written>>

Process ==
    /\ pc = "read"
    /\ remaining = 0
    /\ written' = 0
    /\ pc' \in {"answer", "refuse"}
    /\ UNCHANGED <<stackVars, client, remaining, request>>

Writable == client # NULL /\ ~Shut(data[client])
Answering == pc \in {"answer", "refuse"}

\* _write() returns at once for a client that is gone or was closed.
WriteDropped ==
    /\ Answering
    /\ written < AnswerBlocks
    /\ ~Writable
    /\ written' = AnswerBlocks
    /\ UNCHANGED <<stackVars, pc, client, remaining, request>>

\* Seeded fault: the slots are not counted.
WriteUncounted ==
    LET h == AllocBlock(block)
    IN  /\ Answering /\ written < AnswerBlocks /\ Writable /\ CanAlloc(block)
        /\ block' = [block EXCEPT ![h] = [peer |-> request[1].peer, n |-> 0]]
        /\ data' = [data EXCEPT ![client].packets_out = Append(@, h)]
        /\ written' = written + 1
        /\ UNCHANGED <<conn, received, known, happened, pc, client, remaining,
                       request>>

\* Otherwise it waits, ticking, for a slot and for a block.
Write ==
    LET h == AllocBlock(block)
    IN  /\ Answering
        /\ written < AnswerBlocks
        /\ Writable
        /\ Len(data[client].packets_out) < UIP_SOCKET_NUMPACKETS
        /\ CanAlloc(block)
        /\ block' = [block EXCEPT ![h] = [peer |-> request[1].peer, n |-> 0]]
        /\ data' = [data EXCEPT ![client].packets_out = Append(@, h)]
        /\ written' = written + 1
        /\ UNCHANGED <<conn, received, known, happened, pc, client, remaining,
                       request>>

\* goto repeat
WriteWaits ==
    /\ Answering
    /\ written < AnswerBlocks
    /\ Writable
    /\ Len(data[client].packets_out) = UIP_SOCKET_NUMPACKETS \/ ~CanAlloc(block)
    /\ UNCHANGED linkVars

\* Seeded fault: flush() frees the blocks and keeps their handles.
FlushKeeps ==
    /\ pc = "answer"
    /\ written = AnswerBlocks
    /\ pc' = "available"
    /\ IF client = NULL THEN UNCHANGED block
       ELSE block' = FreeBlocks(block, Held(data[client].packets_in))
    /\ UNCHANGED <<conn, data, received, known, happened, client, remaining,
                   written, request>>

\* After a success flush() drops what has arrived since, and the client is
\* asked for more.
Flush ==
    /\ pc = "answer"
    /\ written = AnswerBlocks
    /\ pc' = "available"
    /\ IF client = NULL THEN UNCHANGED <<data, block>>
       ELSE /\ block' = FreeBlocks(block, Held(data[client].packets_in))
            /\ data' = [data EXCEPT ![client].packets_in = <<>>]
    /\ UNCHANGED <<conn, received, known, happened, client, remaining, written,
                   request>>

\* After an error the client is given up.
GiveUp ==
    /\ pc = "refuse"
    /\ written = AnswerBlocks
    /\ pc' = "stop"
    /\ UNCHANGED <<stackVars, client, remaining, written, request>>

\* flush(); stop(); newLoop();
Stop ==
    /\ pc = "stop"
    /\ pc' = "idle"
    /\ client' = NULL
    /\ request' = <<>>
    /\ written' = 0
    /\ IF client = NULL \/ ~InUse(data[client]) THEN UNCHANGED <<data, block>>
       ELSE /\ block' = FreeBlocks(block, Held(data[client].packets_in))
            /\ data' = [data EXCEPT ![client] =
                   [data[client] EXCEPT !.packets_in = <<>>,
                             !.state = IF "REMOTECLOSED" \in @ THEN {}
                                       ELSE @ \cup {"CLOSE"}]]
    /\ UNCHANGED <<conn, received, known, happened, remaining>>

-----------------------------------------------------------------------------

Init ==
    /\ conn = [i \in Slots |-> [tcp |-> "CLOSED", peer |-> Nobody,
                   stopped |-> FALSE, len |-> "none", appstate |-> NULL]]
    /\ data = [u \in Slots |-> [state |-> {}, sock |-> 1, packets_in |-> <<>>,
                   packets_out |-> <<>>]]
    /\ block = [h \in Handles |-> Free]
    /\ received = [p \in Peers |-> 0]
    /\ known = {}
    /\ happened = {}
    /\ pc = "idle"
    /\ client = NULL
    /\ remaining = 0
    /\ written = 0
    /\ request = <<>>

SegmentFlags == (SUBSET {"ACKDATA", "NEWDATA", "CLOSE"}) \ {{}}

Network ==
    \/ \E p \in Peers : Syn(p)
    \/ \E i \in Slots : Reset(i)
    \/ \E i \in Slots, new \in BOOLEAN : Established(i, new)
    \/ \E i \in Slots, flags \in SegmentFlags : Segment(i, flags)

Timer == \E i \in Slots : Poll(i) \/ Rexmit(i) \/ TimedOut(i) \/ RunDown(i)

Loop ==
    \/ Accept \/ NoClient
    \/ HasData \/ TooLong \/ NoData
    \/ Read \/ Process
    \/ Write \/ WriteDropped \/ WriteWaits
    \/ Flush \/ GiveUp \/ Stop

Next ==
    \/ (Network \/ Timer) /\ UNCHANGED loopVars
    \/ Loop

Spec == Init /\ [][Next]_linkVars

\* loop() goes on whenever it can, and each of its calls ticks, so that every
\* timer that runs is served.  Nothing is assumed of the network.
FairSpec ==
    /\ Spec
    /\ WF_linkVars(Loop)
    /\ \A i \in Slots : /\ WF_linkVars(Poll(i) /\ UNCHANGED loopVars)
                        /\ WF_linkVars(Rexmit(i) /\ UNCHANGED loopVars)
                        /\ WF_linkVars(TimedOut(i) /\ UNCHANGED loopVars)
                        /\ WF_linkVars(RunDown(i) /\ UNCHANGED loopVars)

-----------------------------------------------------------------------------
(* Properties *)

\* The records are what the code takes them for; in particular no queue is
\* longer than its array.
TypeOK ==
    /\ conn \in [Slots -> Connections]
    /\ data \in [Slots -> Userdata]
    /\ \A u \in Slots : /\ Len(data[u].packets_in) <= UIP_SOCKET_NUMPACKETS
                        /\ Len(data[u].packets_out) <= UIP_SOCKET_NUMPACKETS
    /\ block \in [Handles -> Packets \cup {Free}]
    /\ received \in [Peers -> 0..MaxSegments]
    /\ known \subseteq Peers
    /\ happened \subseteq Happenings
    /\ pc \in {"idle", "available", "read", "answer", "refuse", "stop"}
    /\ client \in Slots \cup {NULL}
    /\ remaining \in Nat
    /\ written \in 0..AnswerBlocks
    /\ request \in Seq(Packets)

\* uip_conn->appstate and all_data[] agree, whatever the peers do and however
\* stale loop()'s pointer is: user data that is in use and not left behind by
\* its peer belongs to exactly one connection, the one its state names.
Refs(u) == {i \in Slots : conn[i].appstate = u}
OwnedData ==
    \A u \in Slots :
        LET s == data[u].state
        IN  /\ s # {} /\ "REMOTECLOSED" \notin s <=> Refs(u) # {}
            /\ \A i, j \in Refs(u) : i = j
            /\ \A i \in Refs(u) : data[u].sock = i

\* No block is in two places, and none that is queued has been freed, so that
\* the pool never gives a packet's memory to another packet.
Distinct(q) == \A j, k \in DOMAIN q : q[j] = q[k] => j = k
BlocksOf(u) == Held(data[u].packets_in) \cup Held(data[u].packets_out)
HeldOnce ==
    \A u \in Slots :
        /\ Distinct(data[u].packets_in)
        /\ Distinct(data[u].packets_out)
        /\ Held(data[u].packets_in) \cap Held(data[u].packets_out) = {}
        /\ \A h \in BlocksOf(u) : block[h] # Free
        /\ \A v \in Slots \ {u} : BlocksOf(u) \cap BlocksOf(v) = {}

Never(what) == happened \cap what = {}
Active == {i \in Slots : conn[i].appstate # NULL}

\* A block is only lost to the pool when user data is given back under
\* loop()'s pointer, and written to afterwards.
NoLeak ==
    Never({"orphaned"}) =>
        \A h \in Handles :
            block[h] # Free => \E u \in Slots : h \in BlocksOf(u)

\* What a connection has queued is its own peer's, in order, without a hole,
\* and up to the last segment that was acknowledged.  It takes an abort or a
\* used-up pool to break that.
NothingLost ==
    Never({"aborted", "refused"}) =>
        \A i \in Active :
            LET q == DataOf(conn[i]).packets_in
            IN  \A j \in DOMAIN q :
                    block[q[j]] = [peer |-> conn[i].peer,
                                   n |-> received[conn[i].peer] + j - Len(q)]

\* What loop() takes for a request is consecutive segments of one peer.
RequestWhole ==
    Never({"aborted", "refused"}) =>
        \A j \in DOMAIN request :
            request[j] = [request[1] EXCEPT !.n = @ + j - 1]

\* An answer is sent to the peer whose request it answers.
AnswersAsker ==
    Never({"aborted", "orphaned"}) =>
        \A i \in Active :
            LET q == DataOf(conn[i]).packets_out
            IN  \A j \in DOMAIN q : block[q[j]].peer = conn[i].peer

\* A connection whose window is open has a slot for the next packet.
WindowHolds ==
    Never({"aborted"}) =>
        \A i \in Active :
            LET d == DataOf(conn[i])
            IN  conn[i].tcp = "ESTABLISHED" /\ ~conn[i].stopped /\ ~Shut(d)
                => Len(d.packets_in) < UIP_SOCKET_NUMPACKETS

\* loop() gets out of _write() when no peer aborts: uipethernet-conf.h:24-27
\* says that it blocks until the connection is closed by timeout.
WriteReturns == [](Never({"aborted"})) => (Answering ~> ~Answering)


\* What loop() has stopped is closed, once its answer is out or timed out.
StoppedIsClosed ==
    [](Never({"aborted"})) =>
        \A u \in Slots : "CLOSE" \in data[u].state ~> "CLOSE" \notin data[u].state

\* uip.h:1346 says of an aborted connection that it has gone away: its slot
\* is there for another client.
AbortedIsGone ==
    \A i \in Slots : conn[i].tcp = "CLOSED" ~> conn[i].tcp # "CLOSED" \/ IsClosed(conn[i])
=============================================================================
