---------------------- MODULE EthernetDelivery_proofs ----------------------
(***************************************************************************)
(* DeliveryInv is an inductive invariant of EthernetLink: the steps of     *)
(* loop(), between those of the stack that LinkCarries_proofs deals with,  *)
(* and the theorems that follow.                                           *)
(***************************************************************************)
EXTENDS LinkCarries_proofs

-----------------------------------------------------------------------------
(* loop() *)

\* Whose user data it is, said of the next state.
LEMMA AskerNext ==
    ASSUME NEW k, NEW p, client' = k, request'[1].peer = p, Whose(k, p)'
    PROVE  Whose(client, request[1].peer)'
  BY DEF Whose, Unread, Refs

\* A step that moves no packet keeps everything said of packets.
LEMMA StillDelivers ==
    ASSUME DeliveryInv, UNCHANGED <<conn, data, block, received, known, happened>>
    PROVE  /\ PeersOnce' /\ (\A v \in Slots : UserOK(v)') /\ NoLeak'
           /\ \A v \in Slots : Unread(v)' = Unread(v)
           /\ \A v \in Slots, p \in Peers \cup {Nobody} : Whose(v, p) => Whose(v, p)'
<1>0. PeersOnce /\ (\A v \in Slots : UserOK(v)) /\ NoLeak
  BY DEF DeliveryInv
<1>1. \A v \in Slots : Untouched(v)
  BY DEF Untouched, Refs
<1>2. \A v \in Slots : UserOK(v)' /\ Unread(v)' = Unread(v) /\ BlocksOf(v)' = BlocksOf(v)
  BY <1>0, <1>1, UntouchedKeeps
<1>3. \A v \in Slots, p \in Peers \cup {Nobody} : Whose(v, p) => Whose(v, p)'
  BY <1>2 DEF Whose, Refs
<1>4. NoLeak' /\ PeersOnce'
  BY <1>0, <1>2 DEF NoLeak, Never, PeersOnce
<1> QED
  BY <1>2, <1>3, <1>4

\* The packets of a request are some peer's.
LEMMA RequestPeer ==
    ASSUME LinkInv, request # <<>>
    PROVE  request[1].peer \in Peers
<1>1. request \in Seq(Packets)
  BY DEF LinkInv, TypeOK
<1>2. request[1] \in Packets
  BY <1>1
<1> QED
  BY <1>2 DEF Packets

\* server.available() in loop() only picks user data that is in use.
LEMMA AcceptDelivers ==
    ASSUME DeliveryInv, LinkInv', Accept
    PROVE  DeliveryInv'
<1>1. UNCHANGED <<conn, data, block, received, known, happened>>
      /\ UNCHANGED <<remaining, written, request>>
      /\ pc' = "available" /\ client' = Least(Readable)
  BY DEF Accept, stackVars
<1>2. Least(Readable) \in Readable
  <2>1. Readable \in SUBSET Nat /\ Readable # {}
    BY DEF Accept, Readable, Slots
  <2> QED
    BY <2>1, LeastIn
<1>3. ClientOK'
  <2>1. PICK k \in Slots : k = client' /\ data[k].packets_in # <<>>
    BY <1>1, <1>2 DEF Readable
  <2>2. data[k].state # {} /\ "CLOSE" \notin data[k].state
    BY <2>1, Parts, OfOne DEF DeliveryInv, Marked
  <2> QED
    BY <1>1, <2>1, <2>2 DEF ClientOK
<1>4. AskerOK' /\ GoesOnOK' /\ RequestWhole'
  BY <1>1 DEF AskerOK, Answering, GoesOnOK, DeliveryInv, RequestWhole, Never
<1> QED
  BY <1>1, <1>3, <1>4, StillDelivers DEF DeliveryInv

\* The client that has something to read.
LEMMA AvailableIs ==
    ASSUME LinkInv, Available > 0
    PROVE  /\ client \in Slots
           /\ Available = Len(data[client].packets_in)
           /\ Available \in Nat
<1>1. client \in Slots /\ Available = Len(data[client].packets_in)
  BY DEF Available, LinkInv, TypeOK
<1> QED
  BY <1>1, Parts, OfOne

\* available() fixes how many blocks loop() will read, all of one peer.
LEMMA HasDataDelivers ==
    ASSUME DeliveryInv, LinkInv', HasData
    PROVE  DeliveryInv'
<1>0. LinkInv
  BY DEF DeliveryInv
<1>1. /\ UNCHANGED <<conn, data, block, received, known, happened>>
      /\ UNCHANGED client
      /\ request' = <<>>
  BY DEF HasData, stackVars
<1>2. PICK k \in Slots : k = client
  BY <1>0, AvailableIs DEF HasData
<1>3. ClientOK' /\ AskerOK' /\ RequestWhole'
  BY <1>1 DEF ClientOK, AskerOK, DeliveryInv, RequestWhole, Never
<1>4. GoesOnOK'
  <2>1. Unread(k) \in Seq(Packets) /\ <<>> \o Unread(k) = Unread(k)
    <3>1. Unread(k) \in Seq(Packets)
      BY <1>0, UnreadIs
    <3> QED
      BY <3>1
  <2>2. Unread(client)' = Unread(k)
    BY <1>1, <1>2 DEF Unread
  <2>3. Never({"aborted", "refused"}) => Run(Unread(k))
    BY DEF DeliveryInv, UserOK, InOrder
  <2> QED
    BY <1>1, <2>1, <2>2, <2>3 DEF GoesOnOK, Never
<1> QED
  BY <1>1, <1>3, <1>4, StillDelivers DEF DeliveryInv

\* A request that is too long for the buffer is not read.
LEMMA TooLongDelivers ==
    ASSUME DeliveryInv, LinkInv', TooLong
    PROVE  DeliveryInv'
<1>0. LinkInv
  BY DEF DeliveryInv
<1>1. /\ UNCHANGED <<conn, data, block, received, known, happened>>
      /\ UNCHANGED client
      /\ pc' = "refuse"
  BY DEF TooLong, stackVars
<1>2. PICK k \in Slots : k = client /\ Available = Len(data[k].packets_in)
  BY <1>0, AvailableIs DEF TooLong
<1>3. request' = Unread(k) /\ Unread(k) \in Seq(Packets) /\ Unread(k) # <<>>
  <2>1. data[k].packets_in \in Seq(Handles) /\ Available # 0
    BY <1>0, Parts, OfOne DEF TooLong
  <2>2. DOMAIN data[k].packets_in = 1..Available
    BY <1>2, <2>1
  <2>3. request' = Unread(k)
    BY <1>2, <2>2 DEF TooLong, Unread, Contents
  <2>4. Unread(k) \in Seq(Packets) /\ Len(Unread(k)) # 0
    BY <1>0, <1>2, <2>1, UnreadIs
  <2>5. Unread(k) # <<>>
    BY <2>4
  <2> QED
    BY <2>3, <2>4, <2>5
<1>4. ClientOK' /\ GoesOnOK'
  BY <1>1 DEF ClientOK, GoesOnOK, DeliveryInv, Never
<1>5. RequestWhole'
  <2>1. Never({"aborted", "refused"}) => Run(Unread(k))
    BY DEF DeliveryInv, UserOK, InOrder
  <2> QED
    BY <1>1, <1>3, <2>1 DEF RequestWhole, Run, Never
<1>6. AskerOK'
  <2> SUFFICES ASSUME Never({"aborted", "orphaned"})'
               PROVE  Whose(client, request[1].peer)'
    BY DEF AskerOK
  <2>1. Never({"aborted"})
    BY <1>1 DEF Never
  <2>2. PICK p \in Peers \cup {Nobody} : Whose(k, p)
    BY <2>1 DEF DeliveryInv, UserOK, OneSender
  <2>3. Whose(k, p)'
    BY <1>1, <2>2, StillDelivers
  <2>4. 1 \in DOMAIN Unread(k)
    BY <1>3
  <2>5. request'[1].peer = p
    BY <1>3, <2>2, <2>4 DEF Whose, From
  <2>6. client' = k
    BY <1>1, <1>2
  <2> QED
    BY <2>3, <2>5, <2>6, AskerNext
<1> QED
  BY <1>1, <1>4, <1>5, <1>6, StillDelivers DEF DeliveryInv

\* Steps that keep loop()'s client and request.
LEMMA LoopOnlyDelivers ==
    ASSUME DeliveryInv, LinkInv',
           UNCHANGED <<conn, data, block, received, known, happened>>,
           UNCHANGED <<client, request>>,
           pc' = "read" => pc = "read" /\ UNCHANGED remaining,
           Answering' => Answering \/ pc = "read"
    PROVE  DeliveryInv'
<1>1. ClientOK' /\ RequestWhole'
  BY DEF ClientOK, DeliveryInv, RequestWhole, Never
<1>2. GoesOnOK'
  BY DEF GoesOnOK, DeliveryInv, Never, Unread
<1>3. AskerOK'
  <2> SUFFICES ASSUME Never({"aborted", "orphaned"})', client # NULL,
                      pc = "read" \/ Answering, request # <<>>
               PROVE  Whose(client, request[1].peer)'
    BY DEF AskerOK, Answering
  <2>1. Whose(client, request[1].peer)
    BY DEF DeliveryInv, AskerOK, Never
  <2> QED
    BY <2>1 DEF Whose, Unread, Refs
<1> QED
  BY <1>1, <1>2, <1>3, StillDelivers DEF DeliveryInv

\* The steps of loop() that call nothing of the client keep the invariant.
LEMMA LoopOnlySteps ==
    ASSUME DeliveryInv, LinkInv',
           \/ NoData \/ Process \/ WriteDropped \/ GiveUp
           \/ UNCHANGED linkVars
    PROVE  DeliveryInv'
<1>1. CASE NoData
  BY <1>1, LoopOnlyDelivers DEF NoData, stackVars, Answering
<1>2. CASE Process
  BY <1>2, LoopOnlyDelivers DEF Process, stackVars, Answering
<1>3. CASE WriteDropped
  BY <1>3, LoopOnlyDelivers DEF WriteDropped, stackVars, Answering
<1>4. CASE GiveUp
  BY <1>4, LoopOnlyDelivers DEF GiveUp, stackVars, Answering
<1>5. CASE UNCHANGED linkVars
  BY <1>5, LoopOnlyDelivers DEF linkVars, loopVars, stackVars, Answering
<1> QED
  BY <1>1, <1>2, <1>3, <1>4, <1>5

-----------------------------------------------------------------------------
(* The steps of loop() that take blocks of its client, or give it some. *)

\* User data from which a step of loop() only takes, and whose window it only
\* opens, stays as the invariant wants it.
LEMMA TakesKeeps ==
    ASSUME LinkInv, NEW u \in Slots, UserOK(u),
           UNCHANGED <<conn, received, happened>>,
           \/ Unread(u)' = Unread(u)
           \/ Unread(u)' = Tail(Unread(u)) /\ Unread(u) # <<>>
           \/ Unread(u)' = <<>>,
           \A i \in Refs(u) :
               WindowOf(conn[i], data[u]) => WindowOf(conn[i], data'[u]),
           Never({"orphaned"}) => Drained(data'[u]),
           Never({"aborted", "orphaned"}) =>
               \A i \in Refs(u), h \in Held(data'[u].packets_out) :
                   block'[h].peer = conn[i].peer
    PROVE  /\ UserOK(u)'
           /\ \A p : Whose(u, p) => Whose(u, p)'
<1>0. Refs(u)' = Refs(u) /\ \A S : Never(S)' <=> Never(S)
  BY DEF Refs, Never
<1>1. Unread(u) \in Seq(Packets)
  BY UnreadIs
<1>2. \A p : From(Unread(u), p) => From(Unread(u)', p)
  BY <1>1, LinkAssumption, TailSegments, EmptySegments
<1>3. \A p : Whose(u, p) => Whose(u, p)'
  BY <1>0, <1>2 DEF Whose
<1>4. OpenOK(u)' /\ DrainedOK(u)' /\ OwnAnswer(u)'
  BY <1>0 DEF UserOK, OpenOK, DrainedOK, OwnAnswer
<1>5. OneSender(u)'
  BY <1>0, <1>3 DEF UserOK, OneSender
<1>6. InOrder(u)'
  <2> SUFFICES ASSUME Never({"aborted", "refused"})
               PROVE  /\ Run(Unread(u)')
                      /\ \A i \in Refs(u) : Ends(Unread(u)', conn[i].peer,
                                                 received[conn[i].peer])
    BY <1>0 DEF InOrder
  <2>1. Run(Unread(u)')
    <3>1. Run(Unread(u))
      BY DEF UserOK, InOrder
    <3>2. 0 \in Nat
      OBVIOUS
    <3> QED
      BY <1>1, <3>1, <3>2, TailSegments, EmptySegments
  <2>2. ASSUME NEW i \in Refs(u)
        PROVE  Ends(Unread(u)', conn[i].peer, received[conn[i].peer])
    <3>1. Ends(Unread(u), conn[i].peer, received[conn[i].peer])
      BY DEF UserOK, InOrder
    <3>2. conn[i].peer \in Peers
      <4>1. Never({"aborted"})
        BY NeverParts
      <4>2. conn[i].tcp = "ESTABLISHED" /\ i \in Slots
        BY <4>1 DEF UserOK, OpenOK, Refs
      <4> QED
        BY <4>2 DEF LinkInv, PeersOK, Named
    <3>3. received[conn[i].peer] \in Nat
      BY <3>2, LinkAssumption DEF LinkInv, TypeOK
    <3> QED
      BY <1>1, <3>1, <3>3, TailSegments, EmptySegments
  <2> QED
    BY <2>1, <2>2
<1> QED
  BY <1>3, <1>4, <1>5, <1>6 DEF UserOK

\* A step of loop() on one user data keeps what is said of all others.
LEMMA LoopTouches ==
    ASSUME DeliveryInv, NEW u \in Slots,
           UNCHANGED <<conn, received, known, happened>>,
           \A v \in Slots \ {u} : data'[v] = data[v],
           \A v \in Slots \ {u} : \A h \in BlocksOf(v) : block'[h] = block[h],
           UserOK(u)',
           \A h \in Handles : block'[h] # Free =>
               h \in BlocksOf(u)' \/ (h \notin BlocksOf(u) /\ block[h] # Free)
    PROVE  PeersOnce' /\ (\A v \in Slots : UserOK(v)') /\ NoLeak'
<1>1. \A v \in Slots \ {u} : Untouched(v)
  BY DEF Untouched, Refs
<1>2. (\A v \in Slots : UserOK(v)') /\ NoLeak'
  BY <1>1, OneUser DEF DeliveryInv
<1>3. PeersOnce'
  BY DEF DeliveryInv, PeersOnce
<1> QED
  BY <1>2, <1>3

\* The blocks of another user data are not u's.
LEMMA OthersBlocks ==
    ASSUME LinkInv, NEW u \in Slots, NEW v \in Slots \ {u}, NEW h \in BlocksOf(v)
    PROVE  h \in Handles /\ h \notin BlocksOf(u) /\ block[h] # Free
<1>1. BlocksOf(v) \cap BlocksOf(u) = {}
  BY DEF LinkInv, HeldOnce
<1> QED
  BY <1>1, Parts, OfOne

-----------------------------------------------------------------------------
(* read() *)

\* What UIPClient::read() does to a block: the head of the queue is freed, the
\* window marked to be opened, and user data that is read to its end given back.
LEMMA ReadDoes ==
    ASSUME LinkInv, Read, NEW u \in Slots, u = client
    PROVE  LET q    == data[u].packets_in
               over == Tail(q) = <<>> /\ "REMOTECLOSED" \in data[u].state
           IN  /\ q # <<>>
               /\ data'[u].packets_in = Tail(q)
               /\ data'[u].packets_out = data[u].packets_out
               /\ data'[u].state =
                      IF over THEN {}
                      ELSE IF conn[data[u].sock].stopped /\ ~Shut(data[u])
                      THEN data[u].state \cup {"RESTART"} ELSE data[u].state
               /\ \A v \in Slots \ {u} : data'[v] = data[v]
               /\ \A g \in Handles : block'[g] = IF g = Head(q) THEN Free
                                                 ELSE block[g]
               /\ remaining > 0
               /\ remaining' = remaining - 1
               /\ request' = Append(request, block[Head(q)])
               /\ client' = IF over THEN NULL ELSE u
               /\ pc = "read"
               /\ UNCHANGED <<conn, received, known, happened, pc, written>>
<1> DEFINE q    == data[u].packets_in
           over == Tail(q) = <<>> /\ "REMOTECLOSED" \in data[u].state
           d    == [data[u] EXCEPT !.packets_in = Tail(q),
                       !.state = IF over THEN {}
                                 ELSE IF conn[data[u].sock].stopped /\ ~Shut(data[u])
                                 THEN @ \cup {"RESTART"} ELSE @]
<1>1. data \in [Slots -> Userdata] /\ data[u] \in Userdata
  BY DEF LinkInv, TypeOK
<1>2. pc = "read" /\ remaining > 0
  BY DEF Read
<1>3. remaining \in Nat /\ remaining <= Len(q) /\ q \in Seq(Handles)
  BY <1>1, <1>2 DEF LinkInv, TypeOK, ReadingOK, Userdata
<1>4. q # <<>>
  BY <1>2, <1>3
<1>5. /\ remaining' = remaining - 1
      /\ request' = Append(request, block[Head(q)])
      /\ block' = FreeBlocks(block, {Head(q)})
      /\ data' = [data EXCEPT ![u] = d]
      /\ client' = IF over THEN NULL ELSE u
      /\ UNCHANGED <<conn, received, known, happened, pc, written>>
  BY DEF Read
<1>6. /\ d.packets_in = Tail(q)
      /\ d.packets_out = data[u].packets_out
      /\ d.state = IF over THEN {}
                   ELSE IF conn[data[u].sock].stopped /\ ~Shut(data[u])
                   THEN data[u].state \cup {"RESTART"} ELSE data[u].state
  BY <1>1 DEF Userdata
<1>7. \A g \in Handles : block'[g] = IF g = Head(q) THEN Free ELSE block[g]
  BY <1>5 DEF FreeBlocks
<1>8. data'[u] = d /\ \A v \in Slots \ {u} : data'[v] = data[v]
  <2> HIDE DEF d
  <2> QED
    BY <1>1, <1>5
<1> HIDE DEF d, over, q
<1>9. /\ data'[u].packets_in = Tail(q)
      /\ data'[u].packets_out = data[u].packets_out
      /\ data'[u].state = IF over THEN {}
                   ELSE IF conn[data[u].sock].stopped /\ ~Shut(data[u])
                   THEN data[u].state \cup {"RESTART"} ELSE data[u].state
      /\ \A v \in Slots \ {u} : data'[v] = data[v]
  BY <1>6, <1>8
<1> QED
  BY <1>2, <1>4, <1>5, <1>7, <1>9 DEF over, q

\* A queue holds what its first entry and its tail hold.
LEMMA HeldHeadTail ==
    ASSUME NEW q \in Seq(Handles), q # <<>>
    PROVE  \A h \in Held(q) : h = Head(q) \/ h \in Held(Tail(q))
<1>1. ASSUME NEW j \in DOMAIN q, j # 1
      PROVE  q[j] \in Held(Tail(q))
  <2>1. j - 1 \in DOMAIN Tail(q) /\ Tail(q)[j - 1] = q[j]
    BY <1>1
  <2> QED
    BY <2>1 DEF Held
<1> QED
  BY <1>1 DEF Held

\* UIPClient::read() keeps the invariant, and the request consecutive.
LEMMA ReadDelivers ==
    ASSUME DeliveryInv, LinkInv', Read
    PROVE  DeliveryInv'
<1>0. LinkInv /\ StackInv
  BY Parts DEF DeliveryInv
<1>1. PICK u \in Slots : u = client
  BY <1>0 DEF Read, LinkInv, ReadingOK, TypeOK
<1> DEFINE q    == data[u].packets_in
           o    == data[u].packets_out
           s    == Unread(u)
           over == Tail(q) = <<>> /\ "REMOTECLOSED" \in data[u].state
<1>2. /\ q # <<>>
      /\ data'[u].packets_in = Tail(q)
      /\ data'[u].packets_out = o
      /\ data'[u].state =
             IF over THEN {}
             ELSE IF conn[data[u].sock].stopped /\ ~Shut(data[u])
             THEN data[u].state \cup {"RESTART"} ELSE data[u].state
      /\ \A v \in Slots \ {u} : data'[v] = data[v]
      /\ \A g \in Handles : block'[g] = IF g = Head(q) THEN Free ELSE block[g]
      /\ remaining > 0
      /\ remaining' = remaining - 1
      /\ request' = Append(request, block[Head(q)])
      /\ client' = IF over THEN NULL ELSE u
      /\ pc = "read"
      /\ UNCHANGED <<conn, received, known, happened, pc, written>>
  BY <1>0, <1>1, ReadDoes
<1>3. /\ q \in Seq(Handles)
      /\ Tail(q) \in Seq(Handles)
      /\ Len(Tail(q)) = Len(q) - 1
      /\ Len(q) \in Nat /\ Len(q) <= UIP_SOCKET_NUMPACKETS
      /\ Held(Tail(q)) \subseteq Held(q)
      /\ Head(q) \in Held(q)
      /\ Head(q) \notin Held(Tail(q))
      /\ Head(q) \notin Held(o)
      /\ Held(q) \subseteq BlocksOf(u) /\ Held(o) \subseteq BlocksOf(u)
      /\ BlocksOf(u) = Held(q) \cup Held(o)
      /\ BlocksOf(u) \subseteq Handles
      /\ \A g \in BlocksOf(u) : block[g] \in Packets
      /\ Marked(data[u])
  <2>1. /\ q \in Seq(Handles)
        /\ Len(q) <= UIP_SOCKET_NUMPACKETS
        /\ Distinct(q)
        /\ Held(q) \cap Held(o) = {}
        /\ BlocksOf(u) \subseteq Handles
        /\ \A g \in BlocksOf(u) : block[g] \in Packets
        /\ Marked(data[u])
    BY <1>0, OfOne
  <2>2. BlocksOf(u) = Held(q) \cup Held(o)
    BY DEF BlocksOf
  <2>3. q # <<>>
    BY <1>2
  <2> HIDE DEF q, o
  <2>4. /\ Tail(q) \in Seq(Handles)
        /\ Len(Tail(q)) = Len(q) - 1
        /\ Head(q) \in Held(q)
        /\ Held(Tail(q)) \subseteq Held(q)
        /\ Head(q) \notin Held(Tail(q))
    BY <2>1, <2>3, HeldTail
  <2>5. Len(q) \in Nat
    BY <2>1
  <2> QED
    BY <2>1, <2>2, <2>4, <2>5
<1>4. /\ s \in Seq(Packets) /\ s # <<>>
      /\ Unread(u)' = Tail(s)
      /\ block[Head(q)] = Head(s)
  <2>1. s \in Seq(Packets) /\ s # <<>>
    BY <1>0, <1>2, UnreadIs
  <2>2. Contents(Tail(q), block) = Tail(s) /\ Head(s) = block[Head(q)]
    BY <1>2, <1>3, ContentsTail DEF Unread
  <2>3. \A h \in Held(Tail(q)) : block'[h] = block[h]
    BY <1>2, <1>3
  <2>4. Contents(Tail(q), block') = Contents(Tail(q), block)
    BY <2>3, ContentsSame
  <2>5. Unread(u)' = Contents(Tail(q), block')
    BY <1>2 DEF Unread
  <2> QED
    BY <2>1, <2>2, <2>4, <2>5
<1>5. UserOK(u)' /\ \A p : Whose(u, p) => Whose(u, p)'
  <2>1. UserOK(u)
    BY DEF DeliveryInv
  <2>2. \A i \in Refs(u) : WindowOf(conn[i], data[u]) => WindowOf(conn[i], data'[u])
    <3> SUFFICES ASSUME NEW i \in Refs(u), WindowOf(conn[i], data[u])
                 PROVE  WindowOf(conn[i], data'[u])
      OBVIOUS
    <3>1. data[u].sock = i /\ "REMOTECLOSED" \notin data[u].state
      BY <1>0, OwnedMeans DEF LinkInv, Refs
    <3>2. data'[u].state = IF conn[i].stopped /\ ~Shut(data[u])
                           THEN data[u].state \cup {"RESTART"} ELSE data[u].state
      BY <1>2, <3>1
    <3>3. Shut(data'[u]) <=> Shut(data[u])
      BY <3>2 DEF Shut
    <3>4. Len(data'[u].packets_in) < UIP_SOCKET_NUMPACKETS
      BY <1>2, <1>3, LinkAssumption
    <3> QED
      BY <3>2, <3>3, <3>4 DEF WindowOf
  <2>3. Never({"orphaned"}) => Drained(data'[u])
    <3>1. Never({"orphaned"}) => Drained(data[u])
      BY <2>1 DEF UserOK, DrainedOK
    <3>2. data[u].state # {}
      BY <1>2, <1>3 DEF Marked
    <3>3. data'[u].state = {} \/ "REMOTECLOSED" \in data'[u].state
              => "REMOTECLOSED" \in data[u].state
      BY <1>2, <3>2
    <3> QED
      BY <1>2, <3>1, <3>3 DEF Drained
  <2>4. Never({"aborted", "orphaned"}) =>
            \A i \in Refs(u), h \in Held(data'[u].packets_out) :
                block'[h].peer = conn[i].peer
    BY <1>2, <1>3, <2>1 DEF UserOK, OwnAnswer
  <2> HIDE DEF s, q, o, over
  <2>5. Unread(u)' = Tail(Unread(u)) /\ Unread(u) # <<>>
    BY <1>4 DEF s
  <2> QED
    BY <1>0, <1>2, <2>1, <2>2, <2>3, <2>4, <2>5, TakesKeeps
<1>6. PeersOnce' /\ (\A v \in Slots : UserOK(v)') /\ NoLeak'
  <2>1. \A v \in Slots \ {u} : \A h \in BlocksOf(v) : block'[h] = block[h]
    BY <1>0, <1>2, <1>3, OthersBlocks
  <2>2. ASSUME NEW h \in Handles, block'[h] # Free
        PROVE  h \in BlocksOf(u)' \/ (h \notin BlocksOf(u) /\ block[h] # Free)
    <3>1. h # Head(q) /\ block[h] # Free
      BY <1>2, <2>2
    <3>2. BlocksOf(u)' = Held(Tail(q)) \cup Held(o)
      BY <1>2 DEF BlocksOf
    <3>3. h \in Held(q) => h \in Held(Tail(q))
      BY <1>2, <1>3, <3>1, HeldHeadTail
    <3> QED
      BY <1>3, <3>1, <3>2, <3>3
  <2> QED
    BY <1>2, <1>5, <2>1, <2>2, LoopTouches
<1>7. ClientOK'
  <2>1. data[u].state # {} /\ "CLOSE" \notin data[u].state
    BY <1>2, <1>3 DEF Marked
  <2>2. client' # NULL => client' = u /\ data'[u].state # {}
                          /\ "CLOSE" \notin data'[u].state
    <3>1. CASE over
      BY <1>2, <3>1
    <3>2. CASE ~over
      <4>1. /\ data'[u].state \in {data[u].state, data[u].state \cup {"RESTART"}}
            /\ client' = u
        BY <1>2, <3>2
      <4> QED
        BY <2>1, <4>1
    <3> QED
      BY <3>1, <3>2
  <2> QED
    BY <2>2 DEF ClientOK
<1>8. request \in Seq(Packets) /\ Head(s) \in Packets
      /\ request' = Append(request, Head(s))
  BY <1>0, <1>2, <1>4 DEF LinkInv, TypeOK
<1>9. AskerOK'
  <2> SUFFICES ASSUME Never({"aborted", "orphaned"}), client' # NULL
               PROVE  Whose(client, request[1].peer)'
    BY <1>2 DEF AskerOK, Never
  <2>1. client' = u
    BY <1>2
  <2>2. CASE request = <<>>
    <3>1. request'[1] = s[1] /\ 1 \in DOMAIN s
      BY <1>4, <1>8, <2>2
    <3>2. Never({"aborted"})
      BY NeverParts
    <3>3. PICK p \in Peers \cup {Nobody} : Whose(u, p)
      BY <3>2 DEF DeliveryInv, UserOK, OneSender
    <3>4. request'[1].peer = p
      BY <3>1, <3>3 DEF Whose, From
    <3> HIDE DEF s
    <3> QED
      BY <1>5, <2>1, <3>3, <3>4, AskerNext
  <2>3. CASE request # <<>>
    <3>1. request'[1] = request[1]
      BY <1>8, <2>3
    <3>2. PICK p \in {request[1].peer} : Whose(u, p)
      BY <1>1, <1>2, <2>1, <2>3, NullNotSlot DEF DeliveryInv, AskerOK
    <3>3. request'[1].peer = p
      BY <3>1, <3>2
    <3> QED
      BY <1>5, <2>1, <3>2, <3>3, AskerNext
  <2> QED
    BY <2>2, <2>3
<1>10. Never({"aborted", "refused"}) => Run(request \o s)
  BY <1>1, <1>2 DEF DeliveryInv, GoesOnOK
<1>11. GoesOnOK'
  <2> SUFFICES ASSUME Never({"aborted", "refused"}), remaining' > 0
               PROVE  Run(request \o Unread(client))'
    BY <1>2 DEF GoesOnOK, Never
  <2>1. client' # NULL
    BY <1>2 DEF LinkInv, ReadingOK
  <2>2. client' = u
    BY <1>2, <2>1
  <2>3. Unread(client)' = Unread(u)'
    BY <2>2 DEF Unread
  <2>4. request' \o Unread(u)' = request \o s
    BY <1>4, <1>8, ReadsOn
  <2> QED
    BY <1>10, <2>3, <2>4
<1>12. RequestWhole'
  <2> SUFFICES ASSUME Never({"aborted", "refused"})
               PROVE  Run(request)'
    BY <1>2 DEF RequestWhole, Run, Never
  <2> QED
    BY <1>4, <1>8, <1>10, ReadsOn
<1> QED
  BY <1>6, <1>7, <1>9, <1>11, <1>12 DEF DeliveryInv

-----------------------------------------------------------------------------
(* write() *)

\* What UIPClient::_write() does when it finds a block: it is queued behind the
\* others, as an answer to the peer whose request loop() has read.
LEMMA WriteDoes ==
    ASSUME LinkInv, Write, NEW u \in Slots, u = client
    PROVE  /\ Answering /\ request # <<>>
           /\ ~Shut(data[u])
           /\ data'[u].packets_in = data[u].packets_in
           /\ data'[u].state = data[u].state
           /\ \A v \in Slots \ {u} : data'[v] = data[v]
           /\ UNCHANGED <<conn, received, known, happened, pc, client, remaining,
                          request>>
           /\ \E h \in Handles :
                  /\ block[h] = Free
                  /\ data'[u].packets_out = Append(data[u].packets_out, h)
                  /\ block'[h].peer = request[1].peer
                  /\ \A g \in Handles \ {h} : block'[g] = block[g]
<1> DEFINE h == AllocBlock(block)
           packet == [peer |-> request[1].peer, n |-> 0]
           d == [data[u] EXCEPT !.packets_out = Append(@, h)]
<1>1. data \in [Slots -> Userdata] /\ data[u] \in Userdata
      /\ block \in [Handles -> Packets \cup {Free}]
  BY DEF LinkInv, TypeOK
<1>2. h \in Handles /\ block[h] = Free
  BY AllocIn DEF Write
<1>3. /\ Answering
      /\ ~Shut(data[u])
      /\ block' = [block EXCEPT ![h] = packet]
      /\ data' = [data EXCEPT ![u] = d]
      /\ UNCHANGED <<conn, received, known, happened, pc, client, remaining,
                     request>>
  BY <1>1 DEF Write, Writable
<1>4. request # <<>>
  BY <1>3 DEF LinkInv, AskedOK
<1>5. /\ d.packets_in = data[u].packets_in
      /\ d.packets_out = Append(data[u].packets_out, h)
      /\ d.state = data[u].state
  BY <1>1 DEF Userdata
<1>6. packet.peer = request[1].peer
  OBVIOUS
<1> HIDE DEF d, h, packet
<1>7. /\ block'[h] = packet
      /\ \A g \in Handles \ {h} : block'[g] = block[g]
      /\ data'[u] = d
      /\ \A v \in Slots \ {u} : data'[v] = data[v]
  BY <1>1, <1>2, <1>3
<1>8. /\ data'[u].packets_in = data[u].packets_in
      /\ data'[u].state = data[u].state
      /\ data'[u].packets_out = Append(data[u].packets_out, h)
  BY <1>5, <1>7
<1>9. block'[h].peer = request[1].peer
  BY <1>6, <1>7
<1> QED
  BY <1>2, <1>3, <1>4, <1>7, <1>8, <1>9

\* UIPClient::_write() keeps the invariant: the answer is the asker's.
LEMMA WriteDelivers ==
    ASSUME DeliveryInv, LinkInv', Write
    PROVE  DeliveryInv'
<1>0. LinkInv /\ StackInv
  BY Parts DEF DeliveryInv
<1>1. PICK u \in Slots : u = client
  BY <1>0 DEF Write, Writable, LinkInv, TypeOK
<1> DEFINE o == data[u].packets_out
<1>2. /\ Answering /\ request # <<>>
      /\ ~Shut(data[u])
      /\ data'[u].packets_in = data[u].packets_in
      /\ data'[u].state = data[u].state
      /\ \A v \in Slots \ {u} : data'[v] = data[v]
      /\ UNCHANGED <<conn, received, known, happened, pc, client, remaining,
                     request>>
  BY <1>0, <1>1, WriteDoes
<1>3. PICK h \in Handles :
          /\ block[h] = Free
          /\ data'[u].packets_out = Append(o, h)
          /\ block'[h].peer = request[1].peer
          /\ \A g \in Handles \ {h} : block'[g] = block[g]
  BY <1>0, <1>1, WriteDoes
<1>4. /\ o \in Seq(Handles)
      /\ BlocksOf(u) = Held(data[u].packets_in) \cup Held(o)
      /\ h \notin BlocksOf(u)
      /\ BlocksOf(u) \subseteq Handles
      /\ Held(Append(o, h)) = Held(o) \cup {h}
  <2>1. o \in Seq(Handles) /\ h \notin BlocksOf(u) /\ BlocksOf(u) \subseteq Handles
    BY <1>0, <1>3, OfOne
  <2>2. BlocksOf(u) = Held(data[u].packets_in) \cup Held(o)
    BY DEF BlocksOf
  <2> QED
    BY <2>1, <2>2, HeldAppend
<1>5. Unread(u)' = Unread(u)
  <2>1. \A g \in Held(data[u].packets_in) : block'[g] = block[g]
    BY <1>3, <1>4
  <2> QED
    BY <1>2, <2>1, ContentsSame DEF Unread
<1>6. Never({"orphaned"}) => data[u].state # {}
  BY <1>1, NullNotSlot DEF DeliveryInv, ClientOK
<1>7. Never({"aborted", "orphaned"}) => Whose(u, request[1].peer)
  BY <1>1, <1>2, NullNotSlot DEF DeliveryInv, AskerOK
<1>8. UserOK(u)' /\ \A p : Whose(u, p) => Whose(u, p)'
  <2>1. UserOK(u)
    BY DEF DeliveryInv
  <2>2. \A i \in Refs(u) : WindowOf(conn[i], data[u]) => WindowOf(conn[i], data'[u])
    BY <1>2 DEF WindowOf, Shut
  <2>3. Never({"orphaned"}) => Drained(data'[u])
    BY <1>2, <1>6 DEF Drained, Shut
  <2>4. Never({"aborted", "orphaned"}) =>
            \A i \in Refs(u), g \in Held(data'[u].packets_out) :
                block'[g].peer = conn[i].peer
    <3> SUFFICES ASSUME Never({"aborted", "orphaned"}), NEW i \in Refs(u),
                        NEW g \in Held(o) \cup {h}
                 PROVE  block'[g].peer = conn[i].peer
      BY <1>3, <1>4
    <3>1. CASE g = h
      BY <1>3, <1>7, <3>1 DEF Whose
    <3>2. CASE g \in Held(o) /\ g # h
      BY <1>3, <1>4, <2>1, <3>2 DEF UserOK, OwnAnswer
    <3> QED
      BY <3>1, <3>2
  <2> QED
    BY <1>0, <1>2, <1>5, <2>1, <2>2, <2>3, <2>4, TakesKeeps
<1>9. PeersOnce' /\ (\A v \in Slots : UserOK(v)') /\ NoLeak'
  <2>1. \A v \in Slots \ {u} : \A g \in BlocksOf(v) : block'[g] = block[g]
    BY <1>0, <1>3, OthersBlocks
  <2>2. ASSUME NEW g \in Handles, block'[g] # Free
        PROVE  g \in BlocksOf(u)' \/ (g \notin BlocksOf(u) /\ block[g] # Free)
    <3>1. BlocksOf(u)' = BlocksOf(u) \cup {h}
      BY <1>2, <1>3, <1>4 DEF BlocksOf
    <3> QED
      BY <1>3, <2>2, <3>1
  <2> QED
    BY <1>2, <1>8, <2>1, <2>2, LoopTouches
<1>10. ClientOK'
  <2>1. data'[client].state = data[client].state
    BY <1>1, <1>2
  <2> QED
    BY <1>2, <2>1 DEF DeliveryInv, ClientOK, Never
<1>11. AskerOK'
  <2> SUFFICES ASSUME Never({"aborted", "orphaned"})
               PROVE  Whose(client, request[1].peer)'
    BY <1>2 DEF AskerOK, Never
  <2>1. PICK p \in {request[1].peer} : Whose(u, p)
    BY <1>7
  <2>2. client' = u /\ request'[1].peer = p
    BY <1>1, <1>2, <2>1
  <2> QED
    BY <1>8, <2>1, <2>2, AskerNext
<1>12. GoesOnOK' /\ RequestWhole'
  BY <1>2 DEF GoesOnOK, Answering, DeliveryInv, RequestWhole, Never
<1> QED
  BY <1>9, <1>10, <1>11, <1>12 DEF DeliveryInv

-----------------------------------------------------------------------------
(* flush() and stop() *)

\* The unread blocks of u are freed; stop() gives u back or marks it.
LEMMA FlushedDelivers ==
    ASSUME DeliveryInv, NEW u \in Slots,
           UNCHANGED <<conn, received, known, happened>>,
           block' = FreeBlocks(block, Held(data[u].packets_in)),
           data'[u].packets_in = <<>>,
           data'[u].packets_out = data[u].packets_out,
           \/ data'[u].state = data[u].state
           \/ data'[u].state = {} /\ "REMOTECLOSED" \in data[u].state
           \/ data'[u].state = data[u].state \cup {"CLOSE"} /\ data[u].state # {},
           \A v \in Slots \ {u} : data'[v] = data[v]
    PROVE  PeersOnce' /\ (\A v \in Slots : UserOK(v)') /\ NoLeak'
<1> DEFINE q == data[u].packets_in
           o == data[u].packets_out
<1>0. LinkInv /\ StackInv
  BY Parts DEF DeliveryInv
<1>1. /\ Held(q) \cap Held(o) = {}
      /\ BlocksOf(u) = Held(q) \cup Held(o)
      /\ BlocksOf(u) \subseteq Handles
  BY <1>0, OfOne DEF BlocksOf
<1>2. \A g \in Handles : block'[g] = IF g \in Held(q) THEN Free ELSE block[g]
  BY DEF FreeBlocks
<1>3. Unread(u)' = <<>>
  BY DEF Unread, Contents
<1>4. BlocksOf(u)' = Held(o)
  BY HeldEmpty DEF BlocksOf
<1>5. UserOK(u)'
  <2>1. UserOK(u)
    BY DEF DeliveryInv
  <2>2. \A i \in Refs(u) : WindowOf(conn[i], data[u]) => WindowOf(conn[i], data'[u])
    <3> SUFFICES ASSUME NEW i \in Refs(u), WindowOf(conn[i], data[u])
                 PROVE  WindowOf(conn[i], data'[u])
      OBVIOUS
    <3>1. "REMOTECLOSED" \notin data[u].state
      BY <1>0, OwnedMeans DEF LinkInv, Refs
    <3>2. Len(data'[u].packets_in) < UIP_SOCKET_NUMPACKETS
      BY LinkAssumption
    <3>3. data'[u].state = data[u].state \/ Shut(data'[u])
      BY <3>1 DEF Shut
    <3> QED
      BY <3>2, <3>3 DEF WindowOf, Shut
  <2>3. Never({"orphaned"}) => Drained(data'[u])
    <3>1. Never({"orphaned"}) => Drained(data[u])
      BY <2>1 DEF UserOK, DrainedOK
    <3>2. data'[u].state = {} \/ "REMOTECLOSED" \in data'[u].state
              => data[u].state = {} \/ "REMOTECLOSED" \in data[u].state
      OBVIOUS
    <3> QED
      BY <3>1, <3>2 DEF Drained
  <2>4. Never({"aborted", "orphaned"}) =>
            \A i \in Refs(u), g \in Held(data'[u].packets_out) :
                block'[g].peer = conn[i].peer
    BY <1>1, <1>2, <2>1 DEF UserOK, OwnAnswer
  <2> QED
    BY <1>0, <1>3, <2>1, <2>2, <2>3, <2>4, TakesKeeps
<1>6. \A v \in Slots \ {u} : \A g \in BlocksOf(v) : block'[g] = block[g]
  BY <1>0, <1>1, <1>2, OthersBlocks
<1>7. \A g \in Handles : block'[g] # Free =>
          g \in BlocksOf(u)' \/ (g \notin BlocksOf(u) /\ block[g] # Free)
  BY <1>1, <1>2, <1>4
<1> QED
  BY <1>5, <1>6, <1>7, LoopTouches

\* UIPClient::flush() keeps the invariant, though it frees what is unread.
LEMMA FlushDelivers ==
    ASSUME DeliveryInv, LinkInv', Flush
    PROVE  DeliveryInv'
<1>1. CASE client = NULL
  BY <1>1, LoopOnlyDelivers DEF Flush, Answering
<1>2. CASE client # NULL
  <2>1. data \in [Slots -> Userdata]
    BY DEF DeliveryInv, LinkInv, TypeOK
  <2>2. PICK u \in Slots : u = client
    BY <1>2 DEF DeliveryInv, LinkInv, TypeOK
  <2> DEFINE d == [data[u] EXCEPT !.packets_in = <<>>]
  <2>3. /\ data' = [data EXCEPT ![u] = d]
        /\ block' = FreeBlocks(block, Held(data[u].packets_in))
        /\ UNCHANGED <<conn, received, known, happened, client, request>>
        /\ pc' = "available"
    BY <1>2, <2>2 DEF Flush
  <2>4. /\ d.packets_in = <<>>
        /\ d.packets_out = data[u].packets_out
        /\ d.state = data[u].state
    BY <2>1 DEF Userdata
  <2> HIDE DEF d
  <2>5. data'[u] = d /\ \A v \in Slots \ {u} : data'[v] = data[v]
    BY <2>1, <2>3
  <2>6. PeersOnce' /\ (\A v \in Slots : UserOK(v)') /\ NoLeak'
    BY <2>3, <2>4, <2>5, FlushedDelivers
  <2>7. ClientOK'
    <3>1. data'[client].state = data[client].state
      BY <2>2, <2>4, <2>5
    <3> QED
      BY <2>3, <3>1 DEF DeliveryInv, ClientOK, Never
  <2>8. AskerOK' /\ GoesOnOK' /\ RequestWhole'
    BY <2>3 DEF AskerOK, Answering, GoesOnOK, DeliveryInv, RequestWhole, Never
  <2> QED
    BY <2>6, <2>7, <2>8 DEF DeliveryInv
<1> QED
  BY <1>1, <1>2

\* UIPClient::stop() keeps the invariant, though it frees what is unread.
LEMMA StopDelivers ==
    ASSUME DeliveryInv, LinkInv', Stop
    PROVE  DeliveryInv'
<1>1. /\ client' = NULL /\ request' = <<>> /\ pc' = "idle"
      /\ UNCHANGED <<conn, received, known, happened>>
  BY DEF Stop
<1>2. ClientOK' /\ AskerOK' /\ GoesOnOK' /\ RequestWhole'
  BY <1>1 DEF ClientOK, AskerOK, GoesOnOK, RequestWhole
<1>3. PeersOnce' /\ (\A v \in Slots : UserOK(v)') /\ NoLeak'
  <2>1. CASE client = NULL \/ ~InUse(data[client])
    BY <1>1, <2>1, StillDelivers DEF Stop
  <2>2. CASE ~(client = NULL \/ ~InUse(data[client]))
    <3>1. data \in [Slots -> Userdata]
      BY DEF DeliveryInv, LinkInv, TypeOK
    <3>2. PICK u \in Slots : u = client /\ data[u].state # {}
      BY <2>2 DEF DeliveryInv, LinkInv, TypeOK, InUse
    <3> DEFINE d == [data[u] EXCEPT !.packets_in = <<>>,
                         !.state = IF "REMOTECLOSED" \in @ THEN {}
                                   ELSE @ \cup {"CLOSE"}]
    <3>3. /\ data' = [data EXCEPT ![u] = d]
          /\ block' = FreeBlocks(block, Held(data[u].packets_in))
      BY <2>2, <3>2 DEF Stop
    <3>4. /\ d.packets_in = <<>>
          /\ d.packets_out = data[u].packets_out
          /\ \/ d.state = {} /\ "REMOTECLOSED" \in data[u].state
             \/ d.state = data[u].state \cup {"CLOSE"}
      BY <3>1 DEF Userdata
    <3> HIDE DEF d
    <3>5. data'[u] = d /\ \A v \in Slots \ {u} : data'[v] = data[v]
      BY <3>1, <3>3
    <3> QED
      BY <1>1, <3>2, <3>3, <3>4, <3>5, FlushedDelivers
  <2> QED
    BY <2>1, <2>2
<1> QED
  BY <1>2, <1>3 DEF DeliveryInv

-----------------------------------------------------------------------------
(* The theorems. *)

\* The invariant holds before the first packet.
LEMMA InitDelivers == Init => DeliveryInv
<1> SUFFICES ASSUME Init PROVE DeliveryInv
  OBVIOUS
<1>1. LinkInv
  BY InitLink
<1>2. /\ \A i \in Slots : conn[i].appstate = NULL /\ conn[i].peer = Nobody
      /\ \A u \in Slots : data[u].packets_in = <<>> /\ data[u].packets_out = <<>>
      /\ \A h \in Handles : block[h] = Free
      /\ pc = "idle" /\ client = NULL /\ request = <<>>
  BY DEF Init
<1>3. ASSUME NEW u \in Slots
      PROVE  UserOK(u)
  <2>1. Refs(u) = {}
    BY <1>2, NullNotSlot DEF Refs
  <2>2. Unread(u) = <<>>
    BY <1>2 DEF Unread, Contents
  <2>3. Run(Unread(u)) /\ Whose(u, Nobody)
    BY <2>1, <2>2 DEF Run, From, Whose
  <2> QED
    BY <1>2, <2>1, <2>3
       DEF UserOK, OpenOK, DrainedOK, Drained, OneSender, InOrder, OwnAnswer
<1>4. PeersOnce /\ NoLeak
  BY <1>2 DEF PeersOnce, NoLeak
<1>5. ClientOK /\ AskerOK /\ GoesOnOK /\ RequestWhole
  BY <1>2 DEF ClientOK, AskerOK, GoesOnOK, RequestWhole
<1> QED
  BY <1>1, <1>3, <1>4, <1>5 DEF DeliveryInv

\* Every step of the network, the timers and loop() keeps the invariant.
LEMMA NextDelivers ==
    ASSUME DeliveryInv, [Next]_linkVars
    PROVE  DeliveryInv'
<1>0. LinkInv'
  BY NextLink DEF DeliveryInv
<1>1. CASE Network /\ UNCHANGED loopVars
  BY <1>0, <1>1, SynDelivers, ResetDelivers, EstablishedDelivers, SegmentDelivers
     DEF Network
<1>2. CASE Timer /\ UNCHANGED loopVars
  BY <1>0, <1>2, ResetDelivers, RunDownDelivers DEF Timer
<1>3. CASE Loop
  BY <1>0, <1>3, AcceptDelivers, HasDataDelivers, TooLongDelivers, LoopOnlySteps,
     ReadDelivers, WriteDelivers, FlushDelivers, StopDelivers
     DEF Loop, NoClient, WriteWaits
<1>4. CASE UNCHANGED linkVars
  BY <1>0, <1>4, LoopOnlySteps
<1> QED
  BY <1>1, <1>2, <1>3, <1>4 DEF Next

\* The user data of a connection that has some.
LEMMA ActiveUser ==
    ASSUME DeliveryInv, NEW i \in Active
    PROVE  \E u \in Slots : /\ i \in Refs(u)
                            /\ DataOf(conn[i]) = data[u]
                            /\ UserOK(u)
<1>1. i \in Slots /\ conn[i].appstate \in Slots /\ conn[i].appstate # NULL
  BY DEF Active, DeliveryInv, LinkInv, TypeOK, Connections
<1> QED
  BY <1>1 DEF Refs, DataOf, DeliveryInv

\* Every packet of a connection is where it belongs, whatever the clients do
\* and however loop() runs between them.
THEOREM DeliveryInvCorrect == Spec => []DeliveryInv
  BY InitDelivers, NextDelivers, PTL DEF Spec

\* The pool loses no block, as long as user data is not given back under
\* loop()'s pointer: each block in use is in the queue of some user data.
THEOREM NoLeakCorrect == Spec => []NoLeak
<1>1. DeliveryInv => NoLeak
  BY DEF DeliveryInv
<1> QED
  BY <1>1, DeliveryInvCorrect, PTL

\* uip's acknowledgement keeps its word without an abort and with blocks left:
\* what was acknowledged and not yet read is queued, in order, without a hole.
THEOREM NothingLostCorrect == Spec => []NothingLost
<1>1. DeliveryInv => NothingLost
  <2> SUFFICES ASSUME DeliveryInv, Never({"aborted", "refused"}), NEW i \in Active,
                      NEW j \in DOMAIN DataOf(conn[i]).packets_in
               PROVE  LET q == DataOf(conn[i]).packets_in
                      IN  block[q[j]] = [peer |-> conn[i].peer,
                                         n |-> received[conn[i].peer] + j - Len(q)]
    BY DEF NothingLost
  <2>1. PICK u \in Slots : /\ i \in Refs(u)
                           /\ DataOf(conn[i]) = data[u]
                           /\ UserOK(u)
    BY ActiveUser
  <2>2. Ends(Unread(u), conn[i].peer, received[conn[i].peer])
    BY <2>1 DEF UserOK, InOrder
  <2>3. /\ Len(Unread(u)) = Len(data[u].packets_in)
        /\ DOMAIN Unread(u) = DOMAIN data[u].packets_in
        /\ Unread(u)[j] = block[data[u].packets_in[j]]
    BY <2>1, UnreadIs DEF DeliveryInv, Unread, Contents
  <2> QED
    BY <2>1, <2>2, <2>3 DEF Ends
<1> QED
  BY <1>1, DeliveryInvCorrect, PTL

\* readBytes() gives loop() consecutive segments of one client, although others
\* come and go while it reads.
THEOREM RequestWholeCorrect == Spec => []RequestWhole
<1>1. DeliveryInv => RequestWhole
  BY DEF DeliveryInv
<1> QED
  BY <1>1, DeliveryInvCorrect, PTL

\* What loop() writes goes to the client whose request it read.
THEOREM AnswersAskerCorrect == Spec => []AnswersAsker
<1>1. DeliveryInv => AnswersAsker
  <2> SUFFICES ASSUME DeliveryInv, Never({"aborted", "orphaned"}), NEW i \in Active,
                      NEW j \in DOMAIN DataOf(conn[i]).packets_out
               PROVE  block[DataOf(conn[i]).packets_out[j]].peer = conn[i].peer
    BY DEF AnswersAsker
  <2>1. PICK u \in Slots : /\ i \in Refs(u)
                           /\ DataOf(conn[i]) = data[u]
                           /\ UserOK(u)
    BY ActiveUser
  <2>2. data[u].packets_out[j] \in Held(data[u].packets_out)
    BY <2>1 DEF Held
  <2> QED
    BY <2>1, <2>2 DEF UserOK, OwnAnswer
<1> QED
  BY <1>1, DeliveryInvCorrect, PTL

\* A connection with an open window has a slot for the packet it lets in.
THEOREM WindowHoldsCorrect == Spec => []WindowHolds
<1>1. DeliveryInv => WindowHolds
  <2> SUFFICES ASSUME DeliveryInv, Never({"aborted"}), NEW i \in Active,
                      ~conn[i].stopped, ~Shut(DataOf(conn[i]))
               PROVE  Len(DataOf(conn[i]).packets_in) < UIP_SOCKET_NUMPACKETS
    BY DEF WindowHolds
  <2>1. PICK u \in Slots : /\ i \in Refs(u)
                           /\ DataOf(conn[i]) = data[u]
                           /\ UserOK(u)
    BY ActiveUser
  <2> QED
    BY <2>1 DEF UserOK, OpenOK, WindowOf
<1> QED
  BY <1>1, DeliveryInvCorrect, PTL
=============================================================================
