------------------------- MODULE EthernetLink_proofs -------------------------
(***************************************************************************)
(* LinkInv is an inductive invariant of EthernetLink, for every number of  *)
(* clients, connections, slots and blocks.                                 *)
(*                                                                         *)
(* uipclient_appcall() is a sequence of functions on one connection, its   *)
(* user data and the pool.  Each keeps that triple Fine and is Harmless:   *)
(* it takes free blocks only and frees its own.  Both compose, and leave   *)
(* the other user data alone (OthersKept).                                 *)
(***************************************************************************)
EXTENDS LinkInvariant, TLAPS, WellFoundedInduction

-----------------------------------------------------------------------------
(* The first of the free ones. *)

\* The least element of a set of numbers is in it.
LEMMA LeastIn ==
    ASSUME NEW S \in SUBSET Nat, S # {}
    PROVE  Least(S) \in S
<1>1. \E x \in S : \A y \in S : ~(<<y, x>> \in OpToRel(<, Nat))
  BY NatLessThanWellFounded, WFMin, Zenon
<1>2. PICK x \in S : \A y \in S : ~(<<y, x>> \in OpToRel(<, Nat))
  BY <1>1
<1>3. \A y \in Nat : y < x => <<y, x>> \in OpToRel(<, Nat)
  BY <1>2 DEF OpToRel
<1>4. \A y \in S : y \in Nat
  OBVIOUS
<1>5. \A y \in S : ~(y < x)
  BY <1>2, <1>3, <1>4, Zenon
<1>6. \A y \in S : x <= y
  BY <1>4, <1>5
<1> QED
  BY <1>6 DEF Least

-----------------------------------------------------------------------------
(* Queues of blocks. *)

\* A block that is queued is added to those the queue holds, once.
LEMMA HeldAppend ==
    ASSUME NEW q \in Seq(Handles), NEW h \in Handles
    PROVE  /\ Append(q, h) \in Seq(Handles)
           /\ Len(Append(q, h)) = Len(q) + 1
           /\ Held(Append(q, h)) = Held(q) \cup {h}
           /\ Distinct(q) /\ h \notin Held(q) => Distinct(Append(q, h))
<1> DEFINE a == Append(q, h)
<1>1. /\ a \in Seq(Handles)
      /\ Len(a) = Len(q) + 1
      /\ DOMAIN q = 1..Len(q)
      /\ DOMAIN a = 1..(Len(q) + 1)
      /\ \A j \in 1..Len(q) : a[j] = q[j]
      /\ a[Len(q) + 1] = h
  OBVIOUS
<1>2. Held(a) = Held(q) \cup {h}
  <2>1. \A x : x \in Held(a) => x \in Held(q) \cup {h}
    BY <1>1 DEF Held
  <2>2. \A x \in Held(q) : x \in Held(a)
    BY <1>1 DEF Held
  <2>3. h \in Held(a)
    BY <1>1 DEF Held
  <2> QED
    BY <2>1, <2>2, <2>3
<1>3. Distinct(q) /\ h \notin Held(q) => Distinct(a)
  BY <1>1 DEF Distinct, Held
<1> QED
  BY <1>1, <1>2, <1>3

\* A block taken from the front of a queue is no longer in it.
LEMMA HeldTail ==
    ASSUME NEW q \in Seq(Handles), q # <<>>
    PROVE  /\ Tail(q) \in Seq(Handles)
           /\ Len(Tail(q)) = Len(q) - 1
           /\ Head(q) \in Held(q)
           /\ Head(q) \in Handles
           /\ Held(Tail(q)) \subseteq Held(q)
           /\ Distinct(q) => Distinct(Tail(q)) /\ Head(q) \notin Held(Tail(q))
  BY DEF Held, Distinct

\* An empty queue holds nothing.
LEMMA HeldEmpty == Held(<<>>) = {} /\ Distinct(<<>>)
  BY DEF Held, Distinct

\* A queue holds handles.
LEMMA HeldHandles ==
    ASSUME NEW q \in Seq(Handles)
    PROVE  Held(q) \subseteq Handles
  BY DEF Held

-----------------------------------------------------------------------------
(* The pool. *)

\* A free block is not a packet.
LEMMA PacketNotFree == Free \notin Packets
  BY LinkAssumption DEF Free, Packets

\* The block allocBlock() gives out was free.
LEMMA AllocIn ==
    ASSUME NEW b, CanAlloc(b)
    PROVE  AllocBlock(b) \in Handles /\ b[AllocBlock(b)] = Free
<1>1. FreeHandles(b) \in SUBSET Nat /\ FreeHandles(b) # {}
  BY LinkAssumption DEF FreeHandles, CanAlloc, Handles
<1>2. AllocBlock(b) \in FreeHandles(b)
  BY <1>1, LeastIn DEF AllocBlock
<1> QED
  BY <1>2 DEF FreeHandles

\* Freed blocks are free, the others what they were.
LEMMA FreeBlocksType ==
    ASSUME NEW b \in [Handles -> Packets \cup {Free}], NEW H
    PROVE  FreeBlocks(b, H) \in [Handles -> Packets \cup {Free}]
  BY DEF FreeBlocks

-----------------------------------------------------------------------------
(* uipclient_appcall(), function by function.                              *)

Triples == [c : Connections, d : Userdata, b : [Handles -> Packets \cup {Free}]]

HeldBy(m) == Held(m.d.packets_in) \cup Held(m.d.packets_out)

\* The user data of the triple is what TypeOK, HeldOnce and MarksOK ask for.
Fine(m) ==
    /\ m \in Triples
    /\ Len(m.d.packets_in) <= UIP_SOCKET_NUMPACKETS
    /\ Len(m.d.packets_out) <= UIP_SOCKET_NUMPACKETS
    /\ Distinct(m.d.packets_in)
    /\ Distinct(m.d.packets_out)
    /\ Held(m.d.packets_in) \cap Held(m.d.packets_out) = {}
    /\ \A h \in HeldBy(m) : m.b[h] # Free
    /\ Marked(m.d)
    /\ Named(m.c)

\* The connection and the user data belong to each other, or no longer.
Attached(m) ==
    m.c.appstate # NULL /\ m.d.state # {} /\ "REMOTECLOSED" \notin m.d.state
Detached(m) ==
    m.c.appstate = NULL /\ (m.d.state = {} \/ "REMOTECLOSED" \in m.d.state)

\* From m to n no block of anyone else is touched, and nothing unread is lost.
Harmless(m, n) ==
    /\ \A h \in HeldBy(n) : h \in HeldBy(m) \/ m.b[h] = Free
    /\ \A h \in Handles \ HeldBy(m) : m.b[h] # Free => n.b[h] = m.b[h]
    /\ n.c.appstate \in {m.c.appstate, NULL}
    /\ n.d.sock = m.d.sock
    /\ Len(n.d.packets_in) >= Len(m.d.packets_in)

\* What user data holds are handles.
LEMMA HeldByHandles ==
    ASSUME NEW m \in Triples
    PROVE  HeldBy(m) \subseteq Handles
  BY HeldHandles DEF HeldBy, Triples, Userdata

\* Two harmless parts of uipclient_appcall() make one.
LEMMA HarmlessTrans ==
    ASSUME NEW m \in Triples, NEW n \in Triples, NEW o \in Triples,
           Harmless(m, n), Harmless(n, o)
    PROVE  Harmless(m, o)
<1>1. \A h \in HeldBy(o) : h \in HeldBy(m) \/ m.b[h] = Free
  BY HeldByHandles DEF Harmless
<1>2. \A h \in Handles \ HeldBy(m) : m.b[h] # Free => o.b[h] = m.b[h]
  BY DEF Harmless
<1>3. /\ o.c.appstate \in {m.c.appstate, NULL}
      /\ o.d.sock = m.d.sock
  BY DEF Harmless
<1>4. Len(o.d.packets_in) >= Len(m.d.packets_in)
  BY DEF Harmless, Triples, Userdata
<1> QED
  BY <1>1, <1>2, <1>3, <1>4 DEF Harmless

\* Doing nothing is harmless.
LEMMA HarmlessSelf ==
    ASSUME NEW m \in Triples
    PROVE  Harmless(m, m)
  BY DEF Harmless, Triples, Userdata


\* A step that leaves the queues and the pool alone.
LEMMA SameBlocks ==
    ASSUME NEW m, Fine(m), NEW n \in Triples,
           n.b = m.b,
           n.d.packets_in = m.d.packets_in, n.d.packets_out = m.d.packets_out,
           n.d.sock = m.d.sock, n.c.appstate \in {m.c.appstate, NULL},
           Marked(n.d), Named(n.c)
    PROVE  Fine(n) /\ Harmless(m, n)
<1>1. HeldBy(n) = HeldBy(m)
  BY DEF HeldBy
<1>2. Fine(n)
  BY <1>1 DEF Fine
<1>3. Len(n.d.packets_in) >= Len(m.d.packets_in)
  BY DEF Fine, Triples, Userdata
<1> QED
  BY <1>1, <1>2, <1>3 DEF Harmless

\* Storing a packet takes only a free block.
LEMMA StoreSound ==
    ASSUME NEW m, Fine(m), Attached(m), NEW packet \in Packets
    PROVE  LET n == Store(m, packet)
           IN  Fine(n) /\ Attached(n) /\ Harmless(m, n)
<1> DEFINE n == Store(m, packet)
           h == AllocBlock(m.b)
<1>0. m \in Triples
  BY DEF Fine
<1>1. CASE Shut(m.d)
  BY <1>0, <1>1, HarmlessSelf DEF Store
<1>2. CASE ~Shut(m.d) /\ ~Room(m.d, m.b)
  <2>1. n = [c |-> [m.c EXCEPT !.stopped = TRUE], d |-> m.d, b |-> m.b]
    BY <1>0, <1>2 DEF Store, Triples
  <2>2. n \in Triples /\ n.c.appstate = m.c.appstate /\ Named(n.c)
    <3> DEFINE c == [m.c EXCEPT !.stopped = TRUE]
    <3>1. c \in Connections /\ c.appstate = m.c.appstate /\ Named(c)
      BY <1>0 DEF Fine, Triples, Connections, Named
    <3>2. m.d \in Userdata /\ m.b \in [Handles -> Packets \cup {Free}]
      BY <1>0 DEF Triples
    <3>3. n = [c |-> c, d |-> m.d, b |-> m.b]
      BY <2>1
    <3> HIDE DEF c, n
    <3> QED
      BY <3>1, <3>2, <3>3 DEF Triples
  <2>3. Fine(n) /\ Harmless(m, n)
    BY <2>1, <2>2, SameBlocks DEF Fine
  <2> QED
    BY <2>1, <2>2, <2>3 DEF Attached
<1>3. CASE ~Shut(m.d) /\ Room(m.d, m.b)
  <2>1. /\ n.c = [m.c EXCEPT !.stopped =
                    @ \/ Len(m.d.packets_in) + 1 = UIP_SOCKET_NUMPACKETS]
        /\ n.d = [m.d EXCEPT !.packets_in = Append(@, h)]
        /\ n.b = [m.b EXCEPT ![h] = packet]
        /\ n = [c |-> n.c, d |-> n.d, b |-> n.b]
    BY <1>3 DEF Store
  <2>2. h \in Handles /\ m.b[h] = Free /\ packet # Free
    BY <1>3, AllocIn, PacketNotFree DEF Room
  <2>3. /\ m.c \in Connections
        /\ m.d \in Userdata
        /\ m.b \in [Handles -> Packets \cup {Free}]
        /\ m.d.packets_in \in Seq(Handles)
        /\ m.d.packets_out \in Seq(Handles)
    BY <1>0 DEF Triples, Userdata
  <2>4. h \notin HeldBy(m)
    BY <2>2 DEF Fine
  <2>5. /\ n.d.packets_in \in Seq(Handles)
        /\ Len(n.d.packets_in) = Len(m.d.packets_in) + 1
        /\ Held(n.d.packets_in) = Held(m.d.packets_in) \cup {h}
        /\ Distinct(n.d.packets_in)
        /\ n.d.packets_out = m.d.packets_out
        /\ n.d.state = m.d.state
        /\ n.d.sock = m.d.sock
    <3>1. /\ n.d.packets_in = Append(m.d.packets_in, h)
          /\ n.d.packets_out = m.d.packets_out
          /\ n.d.state = m.d.state
          /\ n.d.sock = m.d.sock
      BY <2>1, <2>3 DEF Userdata
    <3>2. Distinct(m.d.packets_in) /\ h \notin Held(m.d.packets_in)
      BY <2>4 DEF Fine, HeldBy
    <3> HIDE DEF n, h
    <3> QED
      BY <3>1, <3>2, <2>2, <2>3, HeldAppend
  <2>6. n \in Triples
    <3>1. n.c \in Connections
      BY <2>1, <2>3 DEF Connections
    <3>2. n.d \in Userdata
      BY <2>1, <2>3, <2>5 DEF Userdata
    <3>3. n.b \in [Handles -> Packets \cup {Free}]
      BY <2>1, <2>2, <2>3
    <3> QED
      BY <2>1, <3>1, <3>2, <3>3 DEF Triples
  <2>7. HeldBy(n) = HeldBy(m) \cup {h}
    BY <2>5 DEF HeldBy
  <2>8. \A g \in Handles : g # h => n.b[g] = m.b[g]
    BY <2>1, <2>3
  <2>9. n.b[h] # Free
    BY <2>1, <2>2, <2>3
  <2>10. Fine(n)
    <3>1. Len(n.d.packets_in) <= UIP_SOCKET_NUMPACKETS
      BY <1>3, <2>3, <2>5, LinkAssumption DEF Room
    <3>2. Held(n.d.packets_in) \cap Held(n.d.packets_out) = {}
      BY <2>4, <2>5 DEF Fine, HeldBy
    <3>3. \A g \in HeldBy(n) : n.b[g] # Free
      BY <1>0, <2>7, <2>8, <2>9, HeldByHandles DEF Fine
    <3>4. Marked(n.d)
      BY <1>3, <2>5 DEF Fine, Attached, Marked, Shut
    <3>5. Named(n.c)
      BY <2>1, <2>3 DEF Fine, Named, Connections
    <3> QED
      BY <2>5, <2>6, <3>1, <3>2, <3>3, <3>4, <3>5 DEF Fine
  <2>11. Attached(n)
    BY <2>1, <2>3, <2>5 DEF Attached, Connections
  <2>12. Harmless(m, n)
    BY <2>1, <2>2, <2>3, <2>5, <2>7, <2>8 DEF Harmless, Connections
  <2> QED
    BY <2>10, <2>11, <2>12
<1> QED
  BY <1>1, <1>2, <1>3

\* Opening the window is harmless.
LEMMA RestartSound ==
    ASSUME NEW m, Fine(m), Attached(m)
    PROVE  LET n == Restart(m)
           IN  Fine(n) /\ Attached(n) /\ Harmless(m, n)
<1> DEFINE n == Restart(m)
<1>0. m \in Triples
  BY DEF Fine
<1>1. CASE "RESTART" \notin m.d.state
  BY <1>0, <1>1, HarmlessSelf DEF Restart
<1>2. CASE "RESTART" \in m.d.state
  <2>1. n = [c |-> [m.c EXCEPT !.stopped = FALSE],
             d |-> [m.d EXCEPT !.state = @ \ {"RESTART"}], b |-> m.b]
    BY <1>0, <1>2 DEF Restart, Triples
  <2>2. /\ n \in Triples
        /\ n.c.appstate = m.c.appstate
        /\ Named(n.c)
        /\ n.d.state = m.d.state \ {"RESTART"}
        /\ n.d.packets_in = m.d.packets_in
        /\ n.d.packets_out = m.d.packets_out
        /\ n.d.sock = m.d.sock
    <3> DEFINE c == [m.c EXCEPT !.stopped = FALSE]
               d == [m.d EXCEPT !.state = @ \ {"RESTART"}]
    <3>1. c \in Connections /\ c.appstate = m.c.appstate /\ Named(c)
      BY <1>0 DEF Fine, Triples, Connections, Named
    <3>2. /\ d \in Userdata
          /\ d.state = m.d.state \ {"RESTART"}
          /\ d.packets_in = m.d.packets_in
          /\ d.packets_out = m.d.packets_out
          /\ d.sock = m.d.sock
      BY <1>0 DEF Triples, Userdata
    <3>3. m.b \in [Handles -> Packets \cup {Free}]
      BY <1>0 DEF Triples
    <3>4. n = [c |-> c, d |-> d, b |-> m.b]
      BY <2>1
    <3> HIDE DEF c, d, n
    <3> QED
      BY <3>1, <3>2, <3>3, <3>4 DEF Triples
  <2>3. "CONNECTED" \in n.d.state /\ Marked(n.d)
    BY <2>2 DEF Fine, Attached, Marked
  <2>4. Fine(n) /\ Harmless(m, n)
    BY <2>1, <2>2, <2>3, SameBlocks
  <2> QED
    BY <2>2, <2>3, <2>4 DEF Attached
<1> QED
  BY <1>1, <1>2

\* An acknowledgement frees only what was sent.
LEMMA AckedSound ==
    ASSUME NEW m, Fine(m), Attached(m)
    PROVE  LET n == Acked(m)
           IN  Fine(n) /\ Attached(n) /\ Harmless(m, n)
<1> DEFINE n == Acked(m)
           h == Head(m.d.packets_out)
<1>0. m \in Triples
  BY DEF Fine
<1>1. CASE m.d.packets_out = <<>>
  BY <1>0, <1>1, HarmlessSelf DEF Acked
<1>2. CASE m.d.packets_out # <<>>
  <2>1. /\ m.c \in Connections
        /\ m.d \in Userdata
        /\ m.b \in [Handles -> Packets \cup {Free}]
        /\ m.d.packets_in \in Seq(Handles)
        /\ m.d.packets_out \in Seq(Handles)
    BY <1>0 DEF Triples, Userdata
  <2>2. /\ n.c = m.c
        /\ n.d = [m.d EXCEPT !.packets_out = Tail(@)]
        /\ n.b = FreeBlocks(m.b, {h})
        /\ n = [c |-> n.c, d |-> n.d, b |-> n.b]
    BY <1>0, <1>2 DEF Acked, Triples
  <2>3. /\ n.d.packets_in = m.d.packets_in
        /\ n.d.packets_out = Tail(m.d.packets_out)
        /\ n.d.state = m.d.state
        /\ n.d.sock = m.d.sock
    BY <2>1, <2>2 DEF Userdata
  <2>4. /\ n.d.packets_out \in Seq(Handles)
        /\ Len(n.d.packets_out) = Len(m.d.packets_out) - 1
        /\ h \in Held(m.d.packets_out)
        /\ h \in Handles
        /\ Held(n.d.packets_out) \subseteq Held(m.d.packets_out)
        /\ Distinct(n.d.packets_out)
        /\ h \notin Held(n.d.packets_out)
    BY <1>2, <2>1, <2>3, HeldTail DEF Fine
  <2>5. n \in Triples
    <3>1. n.d \in Userdata
      BY <2>1, <2>2, <2>4, <2>3 DEF Userdata
    <3>2. n.b \in [Handles -> Packets \cup {Free}]
      BY <2>1, <2>2, FreeBlocksType
    <3> QED
      BY <2>1, <2>2, <3>1, <3>2 DEF Triples
  <2>6. HeldBy(n) \subseteq HeldBy(m) /\ h \notin HeldBy(n) /\ h \in HeldBy(m)
    BY <2>3, <2>4 DEF HeldBy, Fine
  <2>7. \A g \in Handles : g # h => n.b[g] = m.b[g]
    BY <2>2 DEF FreeBlocks
  <2>8. Fine(n)
    <3>1. /\ Len(n.d.packets_in) <= UIP_SOCKET_NUMPACKETS
          /\ Len(n.d.packets_out) <= UIP_SOCKET_NUMPACKETS
      BY <2>1, <2>3, <2>4, LinkAssumption DEF Fine
    <3>2. Held(n.d.packets_in) \cap Held(n.d.packets_out) = {}
      BY <2>3, <2>4 DEF Fine
    <3>3. \A g \in HeldBy(n) : n.b[g] # Free
      BY <2>5, <2>6, <2>7, HeldByHandles DEF Fine
    <3>4. Marked(n.d) /\ Distinct(n.d.packets_in) /\ Named(n.c)
      BY <2>2, <2>3 DEF Fine, Marked
    <3> QED
      BY <2>4, <2>5, <3>1, <3>2, <3>3, <3>4 DEF Fine
  <2>9. Attached(n)
    BY <2>2, <2>3 DEF Attached
  <2>10. Harmless(m, n)
    <3>1. Len(n.d.packets_in) >= Len(m.d.packets_in)
      BY <2>1, <2>3
    <3>2. \A g \in Handles \ HeldBy(m) : n.b[g] = m.b[g]
      BY <2>6, <2>7
    <3> HIDE DEF n
    <3> QED
      BY <2>2, <2>3, <2>6, <3>1, <3>2 DEF Harmless
  <2> QED
    BY <2>8, <2>9, <2>10
<1> QED
  BY <1>1, <1>2

\* Sending is harmless.
LEMMA SendSound ==
    ASSUME NEW m, Fine(m), Attached(m)
    PROVE  LET n == Send(m)
           IN  Fine(n) /\ Attached(n) /\ Harmless(m, n)
<1> DEFINE n == Send(m)
           l == IF CanAlloc(m.b) THEN "sent"
                ELSE IF m.c.len = "none" THEN "unsent" ELSE m.c.len
<1>1. m \in Triples
  BY DEF Fine
<1>2. n = [c |-> [m.c EXCEPT !.len = l], d |-> m.d, b |-> m.b]
  BY <1>1 DEF Send, Triples
<1>3. l \in {"none", "unsent", "sent"}
  BY <1>1 DEF Triples, Connections
<1> HIDE DEF l, n
<1>4. n \in Triples /\ n.c.appstate = m.c.appstate /\ Named(n.c)
  BY <1>1, <1>2, <1>3 DEF Fine, Triples, Connections, Named
<1>5. Fine(n) /\ Harmless(m, n)
  BY <1>2, <1>4, SameBlocks DEF Fine
<1> QED
  BY <1>2, <1>4, <1>5 DEF Attached, n

\* A close frees only what its user data has not sent.
LEMMA ClosedSound ==
    ASSUME NEW m, Fine(m), Attached(m)
    PROVE  LET n == Closed(m)
           IN  Fine(n) /\ Detached(n) /\ Harmless(m, n)
<1> DEFINE n == Closed(m)
<1>1. /\ m \in Triples
      /\ m.c \in Connections
      /\ m.d \in Userdata
      /\ m.b \in [Handles -> Packets \cup {Free}]
      /\ m.d.packets_in \in Seq(Handles)
      /\ m.d.packets_out \in Seq(Handles)
  BY DEF Fine, Triples, Userdata
<1>2. /\ n.c = [m.c EXCEPT !.appstate = NULL, !.stopped = FALSE]
      /\ n.d = [m.d EXCEPT !.packets_out = <<>>,
                  !.state = IF m.d.packets_in = <<>> THEN {}
                            ELSE @ \cup {"REMOTECLOSED"}]
      /\ n.b = FreeBlocks(m.b, Held(m.d.packets_out))
      /\ n = [c |-> n.c, d |-> n.d, b |-> n.b]
  BY DEF Closed
<1>3. /\ n.d.packets_in = m.d.packets_in
      /\ n.d.packets_out = <<>>
      /\ n.d.state = IF m.d.packets_in = <<>> THEN {}
                     ELSE m.d.state \cup {"REMOTECLOSED"}
      /\ n.d.sock = m.d.sock
      /\ n.c.appstate = NULL
  BY <1>1, <1>2 DEF Userdata, Connections
<1>4. n \in Triples
  <2>1. n.c \in Connections
    BY <1>1, <1>2 DEF Connections
  <2>2. n.d \in Userdata
    <3>1. n.d.state \in SUBSET Flags
      BY <1>1, <1>3 DEF Userdata, Flags
    <3>2. n.d = [m.d EXCEPT !.packets_out = <<>>, !.state = n.d.state]
      BY <1>2, <1>3
    <3>3. <<>> \in Seq(Handles)
      OBVIOUS
    <3> HIDE DEF n
    <3> QED
      BY <1>1, <3>1, <3>2, <3>3 DEF Userdata
  <2>3. n.b \in [Handles -> Packets \cup {Free}]
    BY <1>1, <1>2, FreeBlocksType
  <2> QED
    BY <1>2, <2>1, <2>2, <2>3 DEF Triples
<1>5. HeldBy(n) = Held(m.d.packets_in)
  BY <1>3, HeldEmpty DEF HeldBy
<1>6. \A g \in Handles \ Held(m.d.packets_out) : n.b[g] = m.b[g]
  BY <1>2 DEF FreeBlocks
<1>7. Fine(n)
  <2>1. Len(n.d.packets_in) <= UIP_SOCKET_NUMPACKETS
    BY <1>3 DEF Fine
  <2>2. Len(n.d.packets_out) <= UIP_SOCKET_NUMPACKETS
    BY <1>3, LinkAssumption
  <2>3. Held(n.d.packets_in) \cap Held(n.d.packets_out) = {}
    BY <1>3, HeldEmpty
  <2>4. Distinct(n.d.packets_in) /\ Distinct(n.d.packets_out)
    BY <1>3, HeldEmpty DEF Fine
  <2>5. \A g \in HeldBy(n) : n.b[g] # Free
    BY <1>1, <1>5, <1>6, HeldHandles DEF Fine, HeldBy
  <2>6. Marked(n.d)
    BY <1>3 DEF Fine, Attached, Marked
  <2>7. Named(n.c)
    BY <1>1, <1>2 DEF Fine, Named, Connections
  <2> QED
    BY <1>4, <2>1, <2>2, <2>3, <2>4, <2>5, <2>6, <2>7 DEF Fine
<1>8. Detached(n)
  BY <1>3 DEF Detached
<1>9. Harmless(m, n)
  BY <1>1, <1>3, <1>5, <1>6 DEF Harmless, HeldBy
<1> QED
  BY <1>7, <1>8, <1>9

\* Finishing a stopped connection frees only its own blocks.
LEMMA FinishSound ==
    ASSUME NEW m, Fine(m), Attached(m)
    PROVE  LET n == Finish(m)
           IN  Fine(n) /\ (Attached(n) \/ Detached(n)) /\ Harmless(m, n)
<1> DEFINE n == Finish(m)
<1>0. m \in Triples
  BY DEF Fine
<1>1. CASE "CLOSE" \notin m.d.state
  BY <1>0, <1>1, HarmlessSelf DEF Finish
<1>2. CASE "CLOSE" \in m.d.state /\ m.d.packets_out = <<>>
  <2>1. m.d.packets_in = <<>>
    BY <1>2 DEF Fine, Marked
  <2>2. /\ n.d.packets_in = <<>>
        /\ n.d.packets_out = <<>>
        /\ n.d.state = {}
        /\ n.d.sock = m.d.sock
        /\ n.c.appstate = NULL
        /\ Named(n.c)
        /\ n.b = m.b
    BY <1>0, <1>2, <2>1 DEF Finish, Fine, Named, Triples, Userdata, Connections
  <2>3. n \in Triples
    BY <1>0, <1>2 DEF Finish, Triples, Userdata, Connections, TcpStates
  <2>4. Fine(n)
    BY <2>2, <2>3, HeldEmpty, LinkAssumption DEF Fine, HeldBy, Marked
  <2>5. Harmless(m, n)
    BY <2>1, <2>2, HeldEmpty DEF Harmless, HeldBy
  <2> QED
    BY <2>2, <2>4, <2>5 DEF Detached
<1>3. CASE "CLOSE" \in m.d.state /\ m.d.packets_out # <<>>
  <2>1. n = [c |-> [m.c EXCEPT !.stopped = TRUE], d |-> m.d, b |-> m.b]
    BY <1>0, <1>3 DEF Finish, Triples
  <2>2. n \in Triples /\ n.c.appstate = m.c.appstate /\ Named(n.c)
    <3> DEFINE c == [m.c EXCEPT !.stopped = TRUE]
    <3>1. c \in Connections /\ c.appstate = m.c.appstate /\ Named(c)
      BY <1>0 DEF Fine, Triples, Connections, Named
    <3>2. m.d \in Userdata /\ m.b \in [Handles -> Packets \cup {Free}]
      BY <1>0 DEF Triples
    <3>3. n = [c |-> c, d |-> m.d, b |-> m.b]
      BY <2>1
    <3> HIDE DEF c, n
    <3> QED
      BY <3>1, <3>2, <3>3 DEF Triples
  <2>3. Fine(n) /\ Harmless(m, n)
    BY <2>1, <2>2, SameBlocks DEF Fine
  <2> QED
    BY <2>1, <2>2, <2>3 DEF Attached
<1> QED
  BY <1>1, <1>2, <1>3

\* uipclient_appcall() as a whole.
LEMMA AppCallSound ==
    ASSUME NEW m, Fine(m), Attached(m), NEW flags, NEW packet,
           "NEWDATA" \in flags => packet \in Packets
    PROVE  LET n == AppCall(m, flags, packet)
           IN  Fine(n) /\ (Attached(n) \/ Detached(n)) /\ Harmless(m, n)
<1> DEFINE stored == IF "NEWDATA" \in flags THEN Store(m, packet) ELSE m
           open   == Restart(stored)
           acked  == IF "ACKDATA" \in flags THEN Acked(open) ELSE open
           n      == AppCall(m, flags, packet)
<1>0. m \in Triples /\ Harmless(m, m)
  BY HarmlessSelf DEF Fine
<1>1. Fine(stored) /\ Attached(stored) /\ Harmless(m, stored)
  BY <1>0, StoreSound
<1>2. Fine(open) /\ Attached(open) /\ Harmless(stored, open)
  BY <1>1, RestartSound
<1>3. Fine(acked) /\ Attached(acked) /\ Harmless(open, acked)
  <2>1. open \in Triples
    BY <1>2 DEF Fine
  <2> QED
    BY <1>2, <2>1, AckedSound, HarmlessSelf
<1>4. Harmless(m, open)
  BY <1>0, <1>1, <1>2, HarmlessTrans DEF Fine
<1>5. Harmless(m, acked)
  BY <1>0, <1>2, <1>3, <1>4, HarmlessTrans DEF Fine
<1>6. \/ n = Closed(open)
      \/ n = Send(acked)
      \/ n = Finish(acked)
  BY DEF AppCall
<1> HIDE DEF open, acked, n
<1>7. CASE n = Closed(open)
  <2>1. Fine(n) /\ Detached(n) /\ Harmless(open, n)
    BY <1>2, <1>7, ClosedSound
  <2> QED
    BY <1>0, <1>2, <1>4, <2>1, HarmlessTrans DEF Fine, n
<1>8. CASE n = Send(acked)
  <2>1. Fine(n) /\ Attached(n) /\ Harmless(acked, n)
    BY <1>3, <1>8, SendSound
  <2> QED
    BY <1>0, <1>3, <1>5, <2>1, HarmlessTrans DEF Fine, n
<1>9. CASE n = Finish(acked)
  <2>1. Fine(n) /\ (Attached(n) \/ Detached(n)) /\ Harmless(acked, n)
    BY <1>3, <1>9, FinishSound
  <2> QED
    BY <1>0, <1>3, <1>5, <2>1, HarmlessTrans DEF Fine, n
<1> QED
  BY <1>6, <1>7, <1>8, <1>9 DEF n

-----------------------------------------------------------------------------
(* UIP_APPCALL() in the system. *)

\* LinkInv without what is loop()'s own.
StackInv ==
    /\ conn \in [Slots -> Connections]
    /\ data \in [Slots -> Userdata]
    /\ \A u \in Slots : /\ Len(data[u].packets_in) <= UIP_SOCKET_NUMPACKETS
                        /\ Len(data[u].packets_out) <= UIP_SOCKET_NUMPACKETS
    /\ block \in [Handles -> Packets \cup {Free}]
    /\ happened \subseteq Happenings
    /\ OwnedData
    /\ HeldOnce
    /\ MarksOK
    /\ PeersOK

\* Whoever has appstate u is the slot that u's user data names.
LEMMA OwnedMeans ==
    ASSUME OwnedData
    PROVE  /\ \A u \in Slots, i \in Slots :
                  conn[i].appstate = u =>
                      /\ data[u].state # {}
                      /\ "REMOTECLOSED" \notin data[u].state
                      /\ data[u].sock = i
           /\ \A u \in Slots :
                  data[u].state # {} /\ "REMOTECLOSED" \notin data[u].state =>
                      \E i \in Slots : conn[i].appstate = u
  BY DEF OwnedData, Refs

\* OwnedData of the next state, from its two halves.
LEMMA OwnedNext ==
    ASSUME \A u \in Slots, i \in Slots :
               conn'[i].appstate = u =>
                   /\ data'[u].state # {}
                   /\ "REMOTECLOSED" \notin data'[u].state
                   /\ data'[u].sock = i,
           \A u \in Slots :
               data'[u].state # {} /\ "REMOTECLOSED" \notin data'[u].state =>
                   \E i \in Slots : conn'[i].appstate = u
    PROVE  OwnedData'
<1> SUFFICES ASSUME NEW u \in Slots
             PROVE  /\ data'[u].state # {} /\ "REMOTECLOSED" \notin data'[u].state
                        <=> Refs(u)' # {}
                    /\ \A i, j \in Refs(u)' : i = j
                    /\ \A i \in Refs(u)' : data'[u].sock = i
  BY Zenon DEF OwnedData
<1>1. \A i \in Refs(u)' : i \in Slots /\ conn'[i].appstate = u
  BY DEF Refs
<1>2. \A i \in Refs(u)' : /\ data'[u].state # {}
                          /\ "REMOTECLOSED" \notin data'[u].state
                          /\ data'[u].sock = i
  BY <1>1
<1>3. data'[u].state # {} /\ "REMOTECLOSED" \notin data'[u].state
          => Refs(u)' # {}
  BY DEF Refs
<1> QED
  BY <1>2, <1>3

\* NULL is no user data.
LEMMA NullNotSlot == NULL \notin Slots
  BY LinkAssumption DEF NULL, Slots

\* The blocks of user data are handles.
LEMMA BlocksAreHandles ==
    ASSUME data \in [Slots -> Userdata], NEW v \in Slots
    PROVE  BlocksOf(v) \subseteq Handles
<1>1. data[v].packets_in \in Seq(Handles) /\ data[v].packets_out \in Seq(Handles)
  BY DEF Userdata
<1> QED
  BY <1>1, HeldHandles DEF BlocksOf

\* A change of one user data record that takes only its own and free blocks,
\* and frees only its own, leaves the blocks of the others alone.
LEMMA OthersKept ==
    ASSUME StackInv, NEW u \in Slots, NEW d,
           data' = [data EXCEPT ![u] = d],
           Distinct(d.packets_in), Distinct(d.packets_out),
           Held(d.packets_in) \cap Held(d.packets_out) = {},
           \A h \in Held(d.packets_in) \cup Held(d.packets_out) :
               block'[h] # Free /\ (h \in BlocksOf(u) \/ block[h] = Free),
           \A h \in Handles \ BlocksOf(u) :
               block[h] # Free => block'[h] = block[h]
    PROVE  HeldOnce'
<1>1. /\ data'[u] = d
      /\ \A v \in Slots \ {u} : data'[v] = data[v]
      /\ BlocksOf(u)' = Held(d.packets_in) \cup Held(d.packets_out)
      /\ \A v \in Slots \ {u} : BlocksOf(v)' = BlocksOf(v)
  BY DEF StackInv, BlocksOf
<1>2. \A v \in Slots \ {u} :
          /\ BlocksOf(v) \subseteq Handles
          /\ BlocksOf(v) \cap BlocksOf(u) = {}
          /\ \A h \in BlocksOf(v) : block[h] # Free
  BY BlocksAreHandles DEF StackInv, HeldOnce
<1>3. \A v \in Slots \ {u} :
          /\ BlocksOf(v) \cap BlocksOf(u)' = {}
          /\ \A h \in BlocksOf(v) : block'[h] # Free
  BY <1>1, <1>2
<1> SUFFICES ASSUME NEW w \in Slots
             PROVE  /\ Distinct(data'[w].packets_in)
                    /\ Distinct(data'[w].packets_out)
                    /\ Held(data'[w].packets_in) \cap
                           Held(data'[w].packets_out) = {}
                    /\ \A h \in BlocksOf(w)' : block'[h] # Free
                    /\ \A v \in Slots \ {w} :
                           BlocksOf(w)' \cap BlocksOf(v)' = {}
  BY DEF HeldOnce
<1>4. CASE w = u
  BY <1>1, <1>3, <1>4
<1>5. CASE w # u
  <2>1. /\ Distinct(data[w].packets_in)
        /\ Distinct(data[w].packets_out)
        /\ Held(data[w].packets_in) \cap Held(data[w].packets_out) = {}
        /\ \A v \in Slots \ {w} : BlocksOf(w) \cap BlocksOf(v) = {}
    BY DEF StackInv, HeldOnce
  <2>2. \A v \in Slots \ {w} : BlocksOf(w)' \cap BlocksOf(v)' = {}
    <3> SUFFICES ASSUME NEW v \in Slots \ {w}
                 PROVE  BlocksOf(w)' \cap BlocksOf(v)' = {}
      OBVIOUS
    <3>1. CASE v = u
      BY <1>1, <1>3, <1>5, <3>1
    <3>2. CASE v # u
      BY <1>1, <1>5, <2>1, <3>2
    <3> QED
      BY <3>1, <3>2
  <2> QED
    BY <1>1, <1>3, <1>5, <2>1, <2>2
<1> QED
  BY <1>4, <1>5

\* The user data UIP_APPCALL() is called with: the connection's own, or free
\* user data that the call has just claimed for it, or none.
Called(i, u, d) ==
    \/ u \in Slots /\ conn[i].appstate = u /\ d = data[u]
    \/ /\ u \in Slots /\ conn[i].appstate = NULL
       /\ data[u].state = {} /\ d = FreshData(i)
    \/ u = NULL /\ conn[i].appstate = NULL

\* The connection, user data and pool uipclient_appcall() is called with are sound.
LEMMA CalledFine ==
    ASSUME StackInv, NEW i \in Slots, NEW c \in Connections, Named(c),
           NEW u \in Slots, NEW d, c.appstate = u, Called(i, u, d)
    PROVE  LET m == [c |-> c, d |-> d, b |-> block]
           IN  /\ Fine(m)
               /\ Attached(m)
               /\ HeldBy(m) \in {BlocksOf(u), {}}
               /\ d.sock = i
               /\ Len(d.packets_in) >= Len(data[u].packets_in)
<1> DEFINE m == [c |-> c, d |-> d, b |-> block]
<1>0. /\ data[u] \in Userdata
      /\ block \in [Handles -> Packets \cup {Free}]
      /\ u # NULL
  BY NullNotSlot DEF StackInv
<1>1. CASE conn[i].appstate = u /\ d = data[u]
  <2>1. m \in Triples
    BY <1>0, <1>1 DEF Triples
  <2>2. HeldBy(m) = BlocksOf(u)
    BY <1>1 DEF HeldBy, BlocksOf
  <2>3. Fine(m)
    BY <1>1, <2>1, <2>2 DEF Fine, StackInv, HeldOnce, MarksOK
  <2>4. Attached(m) /\ d.sock = i
    BY <1>0, <1>1, OwnedMeans DEF StackInv, Attached
  <2>5. Len(d.packets_in) >= Len(data[u].packets_in)
    BY <1>0, <1>1 DEF Userdata
  <2> QED
    BY <2>2, <2>3, <2>4, <2>5
<1>2. CASE data[u].state = {} /\ d = FreshData(i)
  <2>1. /\ d.state = {"CONNECTED"}
        /\ d.sock = i
        /\ d.packets_in = <<>>
        /\ d.packets_out = <<>>
        /\ d \in Userdata
    BY <1>2 DEF FreshData, Userdata, Flags
  <2>2. data[u].packets_in = <<>>
    BY <1>2 DEF StackInv, MarksOK, Marked
  <2>3. m \in Triples
    BY <1>0, <2>1 DEF Triples
  <2>4. HeldBy(m) = {}
    BY <2>1, HeldEmpty DEF HeldBy
  <2>5. Fine(m)
    BY <2>1, <2>3, <2>4, HeldEmpty, LinkAssumption DEF Fine, Marked
  <2>6. Attached(m)
    BY <1>0, <2>1 DEF Attached
  <2> QED
    BY <2>1, <2>2, <2>4, <2>5, <2>6
<1> QED
  BY <1>0, <1>1, <1>2 DEF Called

\* Every notification keeps the stack's invariant and takes nothing unread.
LEMMA NotifySound ==
    ASSUME StackInv, NEW i \in Slots, NEW c \in Connections, Named(c),
           NEW u, NEW d, c.appstate = u, Called(i, u, d),
           NEW flags, NEW packet, "NEWDATA" \in flags => packet \in Packets,
           Notify(i, c, u, d, flags, packet)
    PROVE  /\ StackInv'
           /\ \A v \in Slots :
                  Len(data'[v].packets_in) >= Len(data[v].packets_in)
<1>0. happened' \subseteq Happenings
  BY DEF Notify, Happening, StackInv
<1>1. CASE u = NULL
  <2>1. /\ conn' = [conn EXCEPT ![i] = c]
        /\ UNCHANGED <<data, block>>
    BY <1>1 DEF Notify
  <2>2. \A j \in Slots : conn'[j].appstate = conn[j].appstate
    BY <1>1, <2>1, NullNotSlot DEF Called, StackInv
  <2>3. OwnedData' /\ HeldOnce' /\ MarksOK'
    <3>1. \A v \in Slots : Refs(v)' = Refs(v) /\ BlocksOf(v)' = BlocksOf(v)
      BY <2>1, <2>2 DEF Refs, BlocksOf
    <3>2. OwnedData'
      BY <2>1, <3>1 DEF StackInv, OwnedData
    <3>3. HeldOnce'
      BY <2>1, <3>1 DEF StackInv, HeldOnce
    <3>4. MarksOK'
      BY <2>1 DEF StackInv, MarksOK
    <3> QED
      BY <3>2, <3>3, <3>4
  <2>4. PeersOK' /\ conn' \in [Slots -> Connections]
    BY <2>1 DEF StackInv, PeersOK
  <2>5. \A v \in Slots : Len(data'[v].packets_in) >= Len(data[v].packets_in)
    BY <2>1 DEF StackInv, Userdata
  <2> QED
    BY <1>0, <2>1, <2>3, <2>4, <2>5 DEF StackInv
<1>2. CASE u \in Slots
  <2> DEFINE m == [c |-> c, d |-> d, b |-> block]
             n == AppCall(m, flags, packet)
  <2>1. /\ Fine(m)
        /\ Attached(m)
        /\ HeldBy(m) \in {BlocksOf(u), {}}
        /\ d.sock = i
        /\ Len(d.packets_in) >= Len(data[u].packets_in)
    BY <1>2, CalledFine
  <2>2. Fine(n) /\ (Attached(n) \/ Detached(n)) /\ Harmless(m, n)
    BY <2>1, AppCallSound
  <2>3. /\ conn' = [conn EXCEPT ![i] = n.c]
        /\ data' = [data EXCEPT ![u] = n.d]
        /\ block' = n.b
    BY <1>2, NullNotSlot DEF Notify
  <2>4. m.c = c /\ m.d = d /\ m.b = block
    OBVIOUS
  <2> HIDE DEF m, n
  <2>5. /\ n.c \in Connections
        /\ n.d \in Userdata
        /\ n.b \in [Handles -> Packets \cup {Free}]
        /\ Len(n.d.packets_in) <= UIP_SOCKET_NUMPACKETS
        /\ Len(n.d.packets_out) <= UIP_SOCKET_NUMPACKETS
        /\ Marked(n.d)
        /\ Named(n.c)
        /\ n.d.sock = i
    BY <2>1, <2>2, <2>4 DEF Fine, Triples, Harmless
  <2>6. HeldOnce'
    <3>1. /\ Distinct(n.d.packets_in)
          /\ Distinct(n.d.packets_out)
          /\ Held(n.d.packets_in) \cap Held(n.d.packets_out) = {}
          /\ \A h \in Held(n.d.packets_in) \cup Held(n.d.packets_out) :
                 block'[h] # Free
      BY <2>2, <2>3 DEF Fine, HeldBy
    <3>2. \A h \in Held(n.d.packets_in) \cup Held(n.d.packets_out) :
              h \in BlocksOf(u) \/ block[h] = Free
      BY <2>1, <2>2, <2>4 DEF Harmless, HeldBy
    <3>3. \A h \in Handles \ BlocksOf(u) : block[h] # Free => block'[h] = block[h]
      BY <2>1, <2>2, <2>3, <2>4 DEF Harmless
    <3> QED
      BY <1>2, <2>3, <3>1, <3>2, <3>3, OthersKept
  <2>7. /\ conn' \in [Slots -> Connections]
        /\ data' \in [Slots -> Userdata]
        /\ block' \in [Handles -> Packets \cup {Free}]
        /\ MarksOK'
        /\ PeersOK'
        /\ \A v \in Slots : /\ Len(data'[v].packets_in) <= UIP_SOCKET_NUMPACKETS
                            /\ Len(data'[v].packets_out) <= UIP_SOCKET_NUMPACKETS
    BY <2>3, <2>5 DEF StackInv, MarksOK, PeersOK
  <2>8. OwnedData'
    <3>1. /\ \A v \in Slots : data'[v] = IF v = u THEN n.d ELSE data[v]
          /\ \A j \in Slots : conn'[j] = IF j = i THEN n.c ELSE conn[j]
      BY <1>2, <2>3 DEF StackInv
    <3>2. n.c.appstate \in {u, NULL} /\ conn[i].appstate \in {u, NULL}
      BY <2>2, <2>4 DEF Harmless, Called
    <3>3. \A j \in Slots \ {i} : conn[j].appstate # u
      BY <1>2, NullNotSlot, OwnedMeans DEF Called, StackInv
    <3>4. u # NULL /\ \A v \in Slots : v # NULL
      BY <1>2, NullNotSlot
    <3>5. \/ n.c.appstate = u /\ n.d.state # {} /\ "REMOTECLOSED" \notin n.d.state
          \/ n.c.appstate = NULL /\ (n.d.state = {} \/ "REMOTECLOSED" \in n.d.state)
      BY <2>2, <3>2 DEF Attached, Detached
    <3>6. \A v \in Slots, j \in Slots :
              conn'[j].appstate = v =>
                  /\ data'[v].state # {}
                  /\ "REMOTECLOSED" \notin data'[v].state
                  /\ data'[v].sock = j
      <4> SUFFICES ASSUME NEW v \in Slots, NEW j \in Slots, conn'[j].appstate = v
                   PROVE  /\ data'[v].state # {}
                          /\ "REMOTECLOSED" \notin data'[v].state
                          /\ data'[v].sock = j
        OBVIOUS
      <4>1. CASE j = i
        BY <2>5, <3>1, <3>2, <3>4, <3>5, <4>1
      <4>2. CASE j # i
        BY <3>1, <3>3, <4>2, OwnedMeans DEF StackInv
      <4> QED
        BY <4>1, <4>2
    <3>7. \A v \in Slots :
              data'[v].state # {} /\ "REMOTECLOSED" \notin data'[v].state =>
                  \E j \in Slots : conn'[j].appstate = v
      <4> SUFFICES ASSUME NEW v \in Slots, data'[v].state # {},
                          "REMOTECLOSED" \notin data'[v].state
                   PROVE  \E j \in Slots : conn'[j].appstate = v
        OBVIOUS
      <4>1. CASE v = u
        BY <3>1, <3>5, <4>1
      <4>2. CASE v # u
        <5>1. PICK j \in Slots : conn[j].appstate = v
          BY <3>1, <4>2, OwnedMeans DEF StackInv
        <5>2. j # i
          BY <3>2, <3>4, <4>2, <5>1
        <5> QED
          BY <3>1, <5>1, <5>2
      <4> QED
        BY <4>1, <4>2
    <3> QED
      BY <3>6, <3>7, OwnedNext
  <2>9. \A v \in Slots : Len(data'[v].packets_in) >= Len(data[v].packets_in)
    <3>1. Len(n.d.packets_in) >= Len(data[u].packets_in)
      BY <1>2, <2>1, <2>2, <2>4, <2>5 DEF Harmless, Fine, Triples, Userdata, StackInv
    <3>2. \A v \in Slots : data[v].packets_in \in Seq(Handles)
      BY DEF StackInv, Userdata
    <3> QED
      BY <1>2, <2>3, <3>1, <3>2 DEF StackInv
  <2> QED
    BY <1>0, <2>6, <2>7, <2>8, <2>9 DEF StackInv
<1> QED
  BY <1>1, <1>2 DEF Called

-----------------------------------------------------------------------------
(* uip_process() *)

\* The stack's invariant is part of LinkInv.
LEMMA StackPart == LinkInv => StackInv
  BY DEF LinkInv, TypeOK, StackInv

\* The stack takes nothing from loop(): it only appends to what is unread.
LEMMA StackStep ==
    ASSUME LinkInv, StackInv', UNCHANGED loopVars,
           \A v \in Slots : Len(data'[v].packets_in) >= Len(data[v].packets_in),
           received' \in [Peers -> 0..MaxSegments], known' \subseteq Peers
    PROVE  LinkInv'
<1>1. UNCHANGED <<pc, client, remaining, written, request>>
  BY DEF loopVars
<1>2. TypeOK'
  BY <1>1 DEF LinkInv, TypeOK, StackInv
<1>3. ReadingOK'
  <2>1. ASSUME pc = "read", remaining > 0
        PROVE  client # NULL /\ remaining <= Len(data'[client].packets_in)
    <3>1. client # NULL /\ remaining <= Len(data[client].packets_in)
      BY <2>1 DEF LinkInv, ReadingOK
    <3>2. client \in Slots /\ remaining \in Nat
      BY <3>1 DEF LinkInv, TypeOK
    <3>3. data[client] \in Userdata /\ data'[client] \in Userdata
      BY <3>2 DEF LinkInv, TypeOK, StackInv
    <3>4. /\ Len(data[client].packets_in) \in Nat
          /\ Len(data'[client].packets_in) \in Nat
      BY <3>3 DEF Userdata
    <3>5. Len(data'[client].packets_in) >= Len(data[client].packets_in)
      BY <3>2
    <3> QED
      BY <3>1, <3>2, <3>4, <3>5
  <2> QED
    BY <1>1, <2>1 DEF ReadingOK
<1>4. AskedOK'
  BY <1>1 DEF LinkInv, AskedOK, Answering
<1> QED
  BY <1>2, <1>3, <1>4 DEF LinkInv, StackInv

\* The appcall of a connection with the user data it has.
LEMMA CalledOwn ==
    ASSUME StackInv, NEW i \in Slots
    PROVE  Called(i, conn[i].appstate, DataOf(conn[i]))
<1>1. conn[i].appstate \in Slots \cup {NULL}
  BY DEF StackInv, Connections
<1> QED
  BY <1>1, NullNotSlot DEF Called, DataOf

\* The next segment of a client is a packet.
LEMMA NextPacketType ==
    ASSUME LinkInv, NEW p \in Peers, received[p] < MaxSegments
    PROVE  NextPacket(p) \in Packets
<1>1. received[p] \in 0..MaxSegments
  BY DEF LinkInv, TypeOK
<1>2. received[p] + 1 \in 0..MaxSegments
  BY <1>1, LinkAssumption
<1> QED
  BY <1>2 DEF NextPacket, Packets

\* A connection request keeps the invariant.
LEMMA SynKeeps ==
    ASSUME LinkInv, NEW p \in Peers, Syn(p), UNCHANGED loopVars
    PROVE  LinkInv'
<1> DEFINE S == {i \in Slots : IsClosed(conn[i])}
           i == Least(S)
           c == [conn[i] EXCEPT !.tcp = "SYN_RCVD", !.peer = p, !.len = "sent"]
<1>0. StackInv
  BY StackPart
<1>1. i \in Slots
  <2>1. S \in SUBSET Nat /\ S # {}
    BY LinkAssumption DEF Syn, Slots
  <2> HIDE DEF S
  <2>2. i \in S
    BY <2>1, LeastIn
  <2> QED
    BY <2>2 DEF S
<1>2. conn' = [conn EXCEPT ![i] = c] /\ UNCHANGED <<data, block, received, happened>>
  BY DEF Syn
<1> HIDE DEF i
<1>3. c \in Connections /\ c.appstate = conn[i].appstate /\ Named(c)
  BY <1>0, <1>1 DEF StackInv, Connections, TcpStates, Named
<1> HIDE DEF c
<1>4. \A j \in Slots : conn'[j].appstate = conn[j].appstate
  BY <1>0, <1>1, <1>2, <1>3 DEF StackInv
<1>5. OwnedData'
  BY <1>0, <1>2, <1>4 DEF StackInv, OwnedData, Refs
<1>6. HeldOnce' /\ MarksOK'
  BY <1>0, <1>2 DEF StackInv, HeldOnce, BlocksOf, MarksOK
<1>7. conn' \in [Slots -> Connections] /\ PeersOK'
  BY <1>0, <1>1, <1>2, <1>3 DEF StackInv, PeersOK
<1>8. StackInv'
  BY <1>0, <1>2, <1>5, <1>6, <1>7 DEF StackInv
<1>9. \A v \in Slots : Len(data'[v].packets_in) >= Len(data[v].packets_in)
  BY <1>0, <1>2 DEF StackInv, Userdata
<1>10. received' \in [Peers -> 0..MaxSegments] /\ known' \subseteq Peers
  BY <1>2 DEF Syn, LinkInv, TypeOK
<1> QED
  BY <1>8, <1>9, <1>10, StackStep

\* The end of the handshake, with or without data, keeps the invariant.
LEMMA EstablishedKeeps ==
    ASSUME LinkInv, NEW i \in Slots, NEW new \in BOOLEAN, Established(i, new),
           UNCHANGED loopVars
    PROVE  LinkInv'
<1> DEFINE p    == conn[i].peer
           none == {u \in Slots : ~InUse(data[u])}
           u    == IF conn[i].appstate = NULL /\ none # {} THEN Least(none)
                   ELSE conn[i].appstate
           d    == IF conn[i].appstate = NULL /\ none # {} THEN FreshData(i)
                   ELSE DataOf(conn[i])
           c    == [conn[i] EXCEPT !.tcp = "ESTABLISHED", !.len = "none",
                                   !.appstate = u]
           flags == IF new THEN {"CONNECTED", "NEWDATA"} ELSE {"CONNECTED"}
<1>0. StackInv /\ conn[i] \in Connections
  BY StackPart DEF StackInv
<1>1. p \in Peers
  BY <1>0 DEF Established, StackInv, PeersOK, Named
<1>2. Called(i, u, d)
  <2>1. CASE conn[i].appstate = NULL /\ none # {}
    <3>1. none \in SUBSET Nat
      BY DEF Slots
    <3> HIDE DEF none
    <3>2. Least(none) \in none
      BY <2>1, <3>1, LeastIn
    <3>3. Least(none) \in Slots /\ data[Least(none)].state = {}
      BY <3>2 DEF none, InUse
    <3> QED
      BY <2>1, <3>3 DEF Called
  <2>2. CASE ~(conn[i].appstate = NULL /\ none # {})
    BY <1>0, <2>2, CalledOwn
  <2> QED
    BY <2>1, <2>2
<1>3. u \in Slots \cup {NULL}
  BY <1>2 DEF Called
<1>4. /\ Notify(i, c, u, d, flags, NextPacket(p))
      /\ new => received[p] < MaxSegments
      /\ received' = [received EXCEPT ![p] = IF new THEN @ + 1 ELSE @]
      /\ known' = known
  BY DEF Established
<1> HIDE DEF p, none, u, d
<1>5. c \in Connections /\ c.appstate = u /\ Named(c)
  BY <1>0, <1>1, <1>3 DEF Connections, TcpStates, Named, p
<1>6. "NEWDATA" \in flags => NextPacket(p) \in Packets
  BY <1>1, <1>4, NextPacketType
<1> HIDE DEF c, flags
<1>7. /\ StackInv'
      /\ \A v \in Slots : Len(data'[v].packets_in) >= Len(data[v].packets_in)
  BY <1>0, <1>2, <1>4, <1>5, <1>6, NotifySound
<1>8. received' \in [Peers -> 0..MaxSegments]
  BY <1>1, <1>4, LinkAssumption DEF LinkInv, TypeOK
<1>9. known' \subseteq Peers
  BY <1>4 DEF LinkInv, TypeOK
<1> QED
  BY <1>7, <1>8, <1>9, StackStep

\* A segment of an open connection keeps the invariant.
LEMMA SegmentKeeps ==
    ASSUME LinkInv, NEW i \in Slots, NEW flags \in SegmentFlags,
           Segment(i, flags), UNCHANGED loopVars
    PROVE  LinkInv'
<1> DEFINE p == conn[i].peer
           b == [conn[i] EXCEPT !.len = IF "ACKDATA" \in flags THEN "none" ELSE @]
           c == [b EXCEPT !.tcp = IF "CLOSE" \in flags THEN "CLOSING" ELSE @]
<1>0. StackInv /\ conn[i] \in Connections
  BY StackPart DEF StackInv
<1>1. p \in Peers
  BY <1>0 DEF Segment, StackInv, PeersOK, Named
<1>2. b \in Connections /\ b.appstate = conn[i].appstate /\ b.peer = p
  BY <1>0 DEF Connections
<1>3. DataOf(b) = DataOf(conn[i])
  BY <1>2 DEF DataOf
<1>4. /\ Notify(i, c, b.appstate, DataOf(b), flags, NextPacket(p))
      /\ "NEWDATA" \in flags => received[p] < MaxSegments
      /\ received' = [received EXCEPT ![p] =
                          IF "NEWDATA" \in flags THEN @ + 1 ELSE @]
      /\ known' = known
  BY DEF Segment
<1> HIDE DEF p, b
<1>5. c \in Connections /\ c.appstate = b.appstate /\ Named(c)
  BY <1>1, <1>2 DEF Connections, TcpStates, Named
<1>6. "NEWDATA" \in flags => NextPacket(p) \in Packets
  BY <1>1, <1>4, NextPacketType
<1>7. Called(i, b.appstate, DataOf(b))
  BY <1>0, <1>2, <1>3, CalledOwn
<1> HIDE DEF c
<1>8. /\ StackInv'
      /\ \A v \in Slots : Len(data'[v].packets_in) >= Len(data[v].packets_in)
  BY <1>0, <1>4, <1>5, <1>6, <1>7, NotifySound
<1>9. received' \in [Peers -> 0..MaxSegments]
  BY <1>1, <1>4, LinkAssumption DEF LinkInv, TypeOK
<1>10. known' \subseteq Peers
  BY <1>4 DEF LinkInv, TypeOK
<1> QED
  BY <1>8, <1>9, <1>10, StackStep

\* A notification without data, with a connection that keeps its appstate.
LEMMA NoDataKeeps ==
    ASSUME LinkInv, NEW i \in Slots, NEW c \in Connections, Named(c),
           c.appstate = conn[i].appstate, NEW flags, "NEWDATA" \notin flags,
           Notify(i, c, conn[i].appstate, DataOf(conn[i]), flags, Free),
           UNCHANGED <<received, known>>, UNCHANGED loopVars
    PROVE  LinkInv'
<1>1. StackInv /\ Called(i, conn[i].appstate, DataOf(conn[i]))
  BY StackPart, CalledOwn
<1>2. /\ StackInv'
      /\ \A v \in Slots : Len(data'[v].packets_in) >= Len(data[v].packets_in)
  BY <1>1, NotifySound
<1>3. received' \in [Peers -> 0..MaxSegments] /\ known' \subseteq Peers
  BY DEF LinkInv, TypeOK
<1> QED
  BY <1>2, <1>3, StackStep

\* Resets and timers keep the invariant.
LEMMA ResetKeeps ==
    ASSUME LinkInv, NEW i \in Slots,
           Reset(i) \/ Poll(i) \/ Rexmit(i) \/ TimedOut(i), UNCHANGED loopVars
    PROVE  LinkInv'
<1> DEFINE gone == [conn[i] EXCEPT !.tcp = "CLOSED", !.stopped = FALSE]
<1>1. conn[i] \in Connections /\ Named(conn[i])
  BY DEF LinkInv, TypeOK, PeersOK
<1>2. gone \in Connections /\ gone.appstate = conn[i].appstate /\ Named(gone)
  BY <1>1 DEF Connections, TcpStates, Named
<1>3. CASE Reset(i)
  BY <1>2, <1>3, NoDataKeeps DEF Reset
<1>4. CASE Poll(i)
  BY <1>1, <1>4, NoDataKeeps DEF Poll
<1>5. CASE Rexmit(i)
  BY <1>1, <1>5, NoDataKeeps DEF Rexmit
<1>6. CASE TimedOut(i)
  BY <1>2, <1>6, NoDataKeeps DEF TimedOut
<1> QED
  BY <1>3, <1>4, <1>5, <1>6

\* The states after ESTABLISHED keep the invariant.
LEMMA RunDownKeeps ==
    ASSUME LinkInv, NEW i \in Slots, RunDown(i), UNCHANGED loopVars
    PROVE  LinkInv'
<1> DEFINE c == [conn[i] EXCEPT !.tcp = "CLOSED", !.len = "none"]
<1>0. StackInv /\ conn[i] \in Connections
  BY StackPart DEF StackInv
<1>1. conn' = [conn EXCEPT ![i] = c]
      /\ UNCHANGED <<data, block, received, known, happened>>
  BY <1>0 DEF RunDown, StackInv
<1>2. c \in Connections /\ c.appstate = conn[i].appstate /\ Named(c)
  BY <1>0 DEF Connections, TcpStates, Named
<1> HIDE DEF c
<1>3. \A j \in Slots : conn'[j].appstate = conn[j].appstate
  BY <1>0, <1>1, <1>2 DEF StackInv
<1>4. OwnedData'
  BY <1>0, <1>1, <1>3 DEF StackInv, OwnedData, Refs
<1>5. HeldOnce' /\ MarksOK'
  BY <1>0, <1>1 DEF StackInv, HeldOnce, BlocksOf, MarksOK
<1>6. conn' \in [Slots -> Connections] /\ PeersOK'
  BY <1>0, <1>1, <1>2 DEF StackInv, PeersOK
<1>7. StackInv'
  BY <1>0, <1>1, <1>4, <1>5, <1>6 DEF StackInv
<1>8. \A v \in Slots : Len(data'[v].packets_in) >= Len(data[v].packets_in)
  BY <1>0, <1>1 DEF StackInv, Userdata
<1>9. received' \in [Peers -> 0..MaxSegments] /\ known' \subseteq Peers
  BY <1>1 DEF LinkInv, TypeOK
<1> QED
  BY <1>7, <1>8, <1>9, StackStep

-----------------------------------------------------------------------------
(* loop() *)

\* loop() changes the user data it points to, and nothing of a connection.
LEMMA LoopStep ==
    ASSUME StackInv, NEW u \in Slots, NEW d \in Userdata,
           UNCHANGED <<conn, happened>>,
           data' = [data EXCEPT ![u] = d],
           block' \in [Handles -> Packets \cup {Free}],
           Len(d.packets_in) <= UIP_SOCKET_NUMPACKETS,
           Len(d.packets_out) <= UIP_SOCKET_NUMPACKETS,
           Marked(d), d.sock = data[u].sock,
           d.state # {} /\ "REMOTECLOSED" \notin d.state <=>
               data[u].state # {} /\ "REMOTECLOSED" \notin data[u].state,
           Distinct(d.packets_in), Distinct(d.packets_out),
           Held(d.packets_in) \cap Held(d.packets_out) = {},
           \A h \in Held(d.packets_in) \cup Held(d.packets_out) :
               block'[h] # Free /\ (h \in BlocksOf(u) \/ block[h] = Free),
           \A h \in Handles \ BlocksOf(u) :
               block[h] # Free => block'[h] = block[h]
    PROVE  StackInv'
<1>1. HeldOnce'
  BY OthersKept
<1>2. \A v \in Slots : data'[v] = IF v = u THEN d ELSE data[v]
  BY DEF StackInv
<1>3. OwnedData'
  <2>1. \A v \in Slots :
            /\ data'[v].sock = data[v].sock
            /\ data'[v].state # {} /\ "REMOTECLOSED" \notin data'[v].state <=>
                   data[v].state # {} /\ "REMOTECLOSED" \notin data[v].state
    BY <1>2
  <2>2. /\ \A v \in Slots, i \in Slots :
               conn'[i].appstate = v =>
                   /\ data'[v].state # {}
                   /\ "REMOTECLOSED" \notin data'[v].state
                   /\ data'[v].sock = i
        /\ \A v \in Slots :
               data'[v].state # {} /\ "REMOTECLOSED" \notin data'[v].state =>
                   \E i \in Slots : conn'[i].appstate = v
    BY <2>1, OwnedMeans DEF StackInv
  <2> QED
    BY <2>2, OwnedNext
<1>4. /\ data' \in [Slots -> Userdata]
      /\ \A v \in Slots : /\ Len(data'[v].packets_in) <= UIP_SOCKET_NUMPACKETS
                          /\ Len(data'[v].packets_out) <= UIP_SOCKET_NUMPACKETS
      /\ MarksOK'
  BY <1>2 DEF StackInv, MarksOK
<1>5. /\ conn' \in [Slots -> Connections]
      /\ happened' \subseteq Happenings
      /\ PeersOK'
  BY DEF StackInv, PeersOK
<1> QED
  BY <1>1, <1>3, <1>4, <1>5 DEF StackInv

\* loop() leaves the stack alone.
LEMMA StackSame ==
    ASSUME StackInv, UNCHANGED <<conn, data, block, happened>>
    PROVE  StackInv'
<1>1. UNCHANGED <<conn, data, block, happened>>
  OBVIOUS
<1>2. OwnedData'
  BY <1>1 DEF StackInv, OwnedData, Refs
<1>3. HeldOnce'
  BY <1>1 DEF StackInv, HeldOnce, BlocksOf
<1>4. MarksOK' /\ PeersOK'
  BY <1>1 DEF StackInv, MarksOK, PeersOK
<1> QED
  BY <1>1, <1>2, <1>3, <1>4 DEF StackInv

\* loop()'s own part of LinkInv.
LoopInv ==
    /\ received \in [Peers -> 0..MaxSegments]
    /\ known \subseteq Peers
    /\ pc \in {"idle", "available", "read", "answer", "refuse", "stop"}
    /\ client \in Slots \cup {NULL}
    /\ remaining \in Nat
    /\ written \in 0..AnswerBlocks
    /\ request \in Seq(Packets)
    /\ ReadingOK
    /\ AskedOK

\* LinkInv is the stack's and loop()'s invariant.
LEMMA Parts == LinkInv <=> StackInv /\ LoopInv
  BY DEF LinkInv, TypeOK, StackInv, LoopInv

\* The facts about one record of user data that every step of loop() needs.
LEMMA OfOne ==
    ASSUME StackInv, NEW u \in Slots
    PROVE  /\ data[u] \in Userdata
           /\ data[u].packets_in \in Seq(Handles)
           /\ data[u].packets_out \in Seq(Handles)
           /\ data[u].state \in SUBSET Flags
           /\ Len(data[u].packets_in) <= UIP_SOCKET_NUMPACKETS
           /\ Len(data[u].packets_out) <= UIP_SOCKET_NUMPACKETS
           /\ Distinct(data[u].packets_in)
           /\ Distinct(data[u].packets_out)
           /\ Held(data[u].packets_in) \cap Held(data[u].packets_out) = {}
           /\ BlocksOf(u) \subseteq Handles
           /\ \A h \in BlocksOf(u) : block[h] \in Packets /\ block[h] # Free
           /\ Marked(data[u])
<1>1. BlocksOf(u) \subseteq Handles
  BY BlocksAreHandles DEF StackInv
<1>2. data[u] \in Userdata /\ block \in [Handles -> Packets \cup {Free}]
  BY DEF StackInv
<1>3. /\ data[u].packets_in \in Seq(Handles)
      /\ data[u].packets_out \in Seq(Handles)
      /\ data[u].state \in SUBSET Flags
  BY <1>2 DEF Userdata
<1>4. \A h \in BlocksOf(u) : block[h] \in Packets /\ block[h] # Free
  BY <1>1, <1>2 DEF StackInv, HeldOnce
<1> QED
  BY <1>1, <1>2, <1>3, <1>4 DEF StackInv, HeldOnce, MarksOK

\* server.available() in loop() keeps the invariant.
LEMMA AcceptKeeps ==
    ASSUME LinkInv, Accept
    PROVE  LinkInv'
<1>1. Least(Readable) \in Slots
  <2>1. Readable \in SUBSET Nat /\ Readable # {}
    BY DEF Accept, Readable, Slots
  <2> QED
    BY <2>1, LeastIn DEF Readable
<1>2. StackInv'
  BY Parts, StackSame DEF Accept, stackVars
<1>3. LoopInv'
  BY <1>1, Parts DEF Accept, stackVars, LoopInv, ReadingOK, AskedOK, Answering
<1> QED
  BY <1>2, <1>3 DEF LinkInv, TypeOK, StackInv, LoopInv

\* available() keeps the invariant: as many blocks are there as it says.
LEMMA HasDataKeeps ==
    ASSUME LinkInv, HasData
    PROVE  LinkInv'
<1>0. StackInv /\ LoopInv
  BY Parts
<1>1. client \in Slots /\ client # NULL /\ Available = Len(data[client].packets_in)
  BY <1>0 DEF HasData, Available, LoopInv
<1>2. Available \in Nat
  BY <1>0, <1>1, OfOne
<1>3. StackInv'
  BY <1>0, StackSame DEF HasData, stackVars
<1>4. LoopInv'
  BY <1>0, <1>1, <1>2
     DEF HasData, stackVars, LoopInv, ReadingOK, AskedOK, Answering
<1> QED
  BY <1>3, <1>4 DEF LinkInv, TypeOK, StackInv, LoopInv

\* Refusing a request that is too long keeps the invariant.
LEMMA TooLongKeeps ==
    ASSUME LinkInv, TooLong
    PROVE  LinkInv'
<1> DEFINE q == data[client].packets_in
           r == [j \in 1..Available |-> block[q[j]]]
<1>0. StackInv /\ LoopInv
  BY Parts
<1>1. client \in Slots /\ Available = Len(q)
  BY <1>0 DEF TooLong, Available, LoopInv
<1>2. Available \in Nat /\ q \in Seq(Handles)
  BY <1>0, <1>1, OfOne
<1>3. \A j \in 1..Available : block[q[j]] \in Packets
  <2>1. \A j \in 1..Available : q[j] \in BlocksOf(client)
    BY <1>1, <1>2 DEF BlocksOf, Held
  <2> QED
    BY <1>0, <1>1, <2>1, OfOne
<1> HIDE DEF q
<1>4. r \in Seq(Packets) /\ r # <<>>
  <2>1. r \in [1..Available -> Packets]
    BY <1>3
  <2>2. r \in Seq(Packets)
    BY <1>2, <2>1
  <2>3. 1 \in DOMAIN r
    BY <1>2 DEF TooLong
  <2>4. 1 \notin DOMAIN <<>>
    OBVIOUS
  <2> HIDE DEF r
  <2> QED
    BY <2>2, <2>3, <2>4
<1>5. StackInv'
  BY <1>0, StackSame DEF TooLong, stackVars
<1>6. request' = r
  BY DEF TooLong, q
<1> HIDE DEF r
<1>7. LoopInv'
  <2>1. /\ UNCHANGED <<received, known, client, remaining>>
        /\ pc' = "refuse"
        /\ written' = 0
    BY DEF TooLong, stackVars
  <2>2. written' \in 0..AnswerBlocks
    BY <2>1, LinkAssumption
  <2>3. ReadingOK' /\ AskedOK'
    BY <1>4, <1>6, <2>1 DEF ReadingOK, AskedOK, Answering
  <2> QED
    BY <1>0, <1>4, <1>6, <2>1, <2>2, <2>3 DEF LoopInv
<1> QED
  BY <1>5, <1>7 DEF LinkInv, TypeOK, StackInv, LoopInv

\* The steps of loop() that call nothing of the client keep the invariant.
LEMMA LoopOnlyKeeps ==
    ASSUME LinkInv, NoData \/ Process \/ WriteDropped \/ GiveUp
    PROVE  LinkInv'
<1>0. StackInv /\ LoopInv
  BY Parts
<1>1. StackInv'
  BY <1>0, StackSame DEF NoData, Process, WriteDropped, GiveUp, stackVars
<1>2. LoopInv'
  <2>1. CASE NoData
    BY <1>0, <2>1 DEF NoData, stackVars, LoopInv, ReadingOK, AskedOK, Answering
  <2>2. CASE Process
    <3>1. request # <<>>
      BY <1>0, <2>2 DEF Process, LoopInv, AskedOK
    <3> QED
      BY <1>0, <2>2, <3>1, LinkAssumption
         DEF Process, stackVars, LoopInv, ReadingOK, AskedOK, Answering
  <2>3. CASE WriteDropped
    BY <1>0, <2>3, LinkAssumption
       DEF WriteDropped, stackVars, LoopInv, ReadingOK, AskedOK, Answering
  <2>4. CASE GiveUp
    BY <1>0, <2>4 DEF GiveUp, stackVars, LoopInv, ReadingOK, AskedOK, Answering
  <2> QED
    BY <2>1, <2>2, <2>3, <2>4
<1> QED
  BY <1>1, <1>2 DEF LinkInv, TypeOK, StackInv, LoopInv

\* UIPClient::read() keeps the invariant.
LEMMA ReadKeeps ==
    ASSUME LinkInv, Read
    PROVE  LinkInv'
<1> DEFINE u    == client
           q    == data[u].packets_in
           s    == data[u].state
           rest == Tail(q)
           h    == Head(q)
           over == rest = <<>> /\ "REMOTECLOSED" \in s
           t    == IF over THEN {}
                   ELSE IF conn[data[u].sock].stopped /\ ~Shut(data[u])
                   THEN s \cup {"RESTART"} ELSE s
           d    == [data[u] EXCEPT !.packets_in = rest, !.state = t]
<1>0. StackInv /\ LoopInv
  BY Parts
<1>1. client \in Slots /\ remaining \in Nat /\ remaining > 0 /\ remaining <= Len(q)
  BY <1>0 DEF Read, LoopInv, ReadingOK
<1>2. /\ data[u] \in Userdata
      /\ q \in Seq(Handles)
      /\ s \in SUBSET Flags
      /\ Marked(data[u])
  BY <1>0, <1>1, OfOne
<1>3. q # <<>> /\ s # {} /\ "CLOSE" \notin s /\ "CONNECTED" \in s
  BY <1>1, <1>2 DEF Marked
<1>4. /\ rest \in Seq(Handles)
      /\ Len(rest) = Len(q) - 1
      /\ h \in Held(q)
      /\ h \in Handles
      /\ Held(rest) \subseteq Held(q)
      /\ Distinct(q) => Distinct(rest) /\ h \notin Held(rest)
  BY <1>2, <1>3, HeldTail
<1>5. /\ t \in SUBSET Flags
      /\ t = {} \/ "CONNECTED" \in t
      /\ t = {} => rest = <<>>
      /\ "CLOSE" \notin t
      /\ t # {} /\ "REMOTECLOSED" \notin t <=> s # {} /\ "REMOTECLOSED" \notin s
  BY <1>2, <1>3 DEF Flags
<1>6. /\ remaining' = remaining - 1
      /\ request' = Append(request, block[h])
      /\ block' = FreeBlocks(block, {h})
      /\ data' = [data EXCEPT ![u] = d]
      /\ client' = IF over THEN NULL ELSE client
      /\ UNCHANGED <<conn, received, known, happened, pc, written>>
  <2> DEFINE e == [data[client] EXCEPT !.packets_in = rest,
                      !.state = IF over THEN {}
                                ELSE IF conn[data[client].sock].stopped
                                            /\ ~Shut(data[client])
                                THEN @ \cup {"RESTART"} ELSE @]
  <2>1. data' = [data EXCEPT ![u] = e]
    BY DEF Read
  <2>2. e = d
    BY <1>2 DEF Userdata
  <2>3. data' = [data EXCEPT ![u] = d]
    <3> HIDE DEF d, e
    <3> QED
      BY <2>1, <2>2
  <2>4. /\ remaining' = remaining - 1
        /\ request' = Append(request, block[h])
        /\ block' = FreeBlocks(block, {h})
        /\ client' = IF over THEN NULL ELSE client
        /\ UNCHANGED <<conn, received, known, happened, pc, written>>
    BY DEF Read
  <2> HIDE DEF d, over, h
  <2> QED
    BY <2>3, <2>4
<1> HIDE DEF q, t, rest, h
<1>7. /\ d \in Userdata
      /\ d.packets_in = rest
      /\ d.packets_out = data[u].packets_out
      /\ d.state = t
      /\ d.sock = data[u].sock
  BY <1>2, <1>4, <1>5 DEF Userdata
<1>8. Marked(d)
  BY <1>5, <1>7 DEF Marked
<1> HIDE DEF d
<1>9. /\ Distinct(q)
      /\ Distinct(data[u].packets_out)
      /\ Held(q) \cap Held(data[u].packets_out) = {}
      /\ BlocksOf(u) = Held(q) \cup Held(data[u].packets_out)
      /\ BlocksOf(u) \subseteq Handles
      /\ \A g \in BlocksOf(u) : block[g] \in Packets /\ block[g] # Free
      /\ Len(q) <= UIP_SOCKET_NUMPACKETS
      /\ Len(data[u].packets_out) <= UIP_SOCKET_NUMPACKETS
  BY <1>0, <1>1, OfOne DEF BlocksOf, q
<1>10. \A g \in Handles : block'[g] = IF g = h THEN Free ELSE block[g]
  BY <1>6 DEF FreeBlocks
<1>11. StackInv'
  <2>1. block' \in [Handles -> Packets \cup {Free}]
    BY <1>0, <1>6, FreeBlocksType DEF StackInv
  <2>2. Len(rest) <= UIP_SOCKET_NUMPACKETS
    BY <1>2, <1>4, <1>9, LinkAssumption
  <2>3. \A g \in Held(d.packets_in) \cup Held(d.packets_out) :
            block'[g] # Free /\ (g \in BlocksOf(u) \/ block[g] = Free)
    BY <1>4, <1>7, <1>9, <1>10
  <2>4. \A g \in Handles \ BlocksOf(u) : block[g] # Free => block'[g] = block[g]
    BY <1>4, <1>9, <1>10
  <2>5. /\ Distinct(d.packets_in)
        /\ Distinct(d.packets_out)
        /\ Held(d.packets_in) \cap Held(d.packets_out) = {}
    BY <1>4, <1>7, <1>9
  <2>6. d.state # {} /\ "REMOTECLOSED" \notin d.state <=>
            data[u].state # {} /\ "REMOTECLOSED" \notin data[u].state
    BY <1>5, <1>7
  <2> QED
    BY <1>0, <1>1, <1>6, <1>7, <1>8, <1>9, <2>1, <2>2, <2>3, <2>4, <2>5, <2>6,
       LoopStep
<1>12. LoopInv'
  <2>1. block[h] \in Packets
    BY <1>4, <1>9
  <2>2. request' \in Seq(Packets) /\ Len(request') = Len(request) + 1
    BY <1>0, <1>6, <2>1 DEF LoopInv
  <2>3. remaining' \in Nat /\ client' \in Slots \cup {NULL}
    BY <1>1, <1>6
  <2>4. ReadingOK'
    <3>1. ASSUME remaining' > 0
          PROVE  client' # NULL /\ remaining' <= Len(data'[client'].packets_in)
      <4>1. Len(rest) >= 1 /\ remaining' <= Len(rest)
        BY <1>1, <1>2, <1>4, <1>6, <3>1
      <4>2. client' = client /\ client # NULL
        BY <1>1, <1>6, <4>1, NullNotSlot
      <4>3. data'[client'].packets_in = rest
        BY <1>0, <1>1, <1>6, <1>7, <4>2 DEF StackInv
      <4> QED
        BY <4>1, <4>2, <4>3
    <3> QED
      BY <3>1 DEF ReadingOK
  <2>5. AskedOK'
    <3>1. Len(request) \in Nat
      BY <1>0 DEF LoopInv
    <3>2. remaining' + Len(request') > 0
      BY <2>2, <2>3, <3>1
    <3>3. pc' = "read"
      BY <1>6 DEF Read
    <3> QED
      BY <3>2, <3>3 DEF AskedOK, Answering
  <2> QED
    BY <1>0, <1>6, <2>2, <2>3, <2>4, <2>5 DEF LoopInv
<1> QED
  BY <1>11, <1>12 DEF LinkInv, TypeOK, StackInv, LoopInv

\* UIPClient::_write() keeps the invariant.
LEMMA WriteKeeps ==
    ASSUME LinkInv, Write
    PROVE  LinkInv'
<1> DEFINE h == AllocBlock(block)
           u == client
           q == data[u].packets_out
           packet == [peer |-> request[1].peer, n |-> 0]
           d == [data[u] EXCEPT !.packets_out = Append(q, h)]
<1>0. StackInv /\ LoopInv
  BY Parts
<1>1. client \in Slots /\ h \in Handles /\ block[h] = Free
  BY <1>0, AllocIn DEF Write, Writable, LoopInv
<1>2. packet \in Packets /\ packet # Free
  <2>1. request \in Seq(Packets) /\ request # <<>>
    BY <1>0 DEF Write, LoopInv, AskedOK
  <2>2. request[1] \in Packets
    BY <2>1
  <2>3. request[1].peer \in Peers /\ 0 \in 0..MaxSegments
    BY <2>2, LinkAssumption DEF Packets
  <2>4. packet \in Packets
    BY <2>3 DEF Packets
  <2> QED
    BY <2>4, PacketNotFree
<1>3. /\ data[u] \in Userdata
      /\ data[u].packets_in \in Seq(Handles)
      /\ q \in Seq(Handles)
      /\ Distinct(data[u].packets_in)
      /\ Distinct(q)
      /\ Held(data[u].packets_in) \cap Held(q) = {}
      /\ BlocksOf(u) = Held(data[u].packets_in) \cup Held(q)
      /\ BlocksOf(u) \subseteq Handles
      /\ \A g \in BlocksOf(u) : block[g] # Free
      /\ Len(data[u].packets_in) <= UIP_SOCKET_NUMPACKETS
      /\ Marked(data[u])
  BY <1>0, <1>1, OfOne DEF BlocksOf
<1>4. /\ block' = [block EXCEPT ![h] = packet]
      /\ written' = written + 1
      /\ written < AnswerBlocks
      /\ Len(q) < UIP_SOCKET_NUMPACKETS
      /\ UNCHANGED <<conn, received, known, happened, pc, client, remaining,
                     request>>
  BY DEF Write
<1>5. data' = [data EXCEPT ![u] = d]
  BY <1>0, <1>1 DEF Write, StackInv
<1> HIDE DEF h, q, packet
<1>6. /\ Append(q, h) \in Seq(Handles)
      /\ Len(Append(q, h)) = Len(q) + 1
      /\ Held(Append(q, h)) = Held(q) \cup {h}
      /\ h \notin BlocksOf(u)
      /\ Distinct(Append(q, h))
  BY <1>1, <1>3, HeldAppend
<1>7. /\ d \in Userdata
      /\ d.packets_in = data[u].packets_in
      /\ d.packets_out = Append(q, h)
      /\ d.state = data[u].state
      /\ d.sock = data[u].sock
  BY <1>3, <1>6 DEF Userdata
<1> HIDE DEF d
<1>8. \A g \in Handles : block'[g] = IF g = h THEN packet ELSE block[g]
  BY <1>0, <1>1, <1>4 DEF StackInv
<1>9. StackInv'
  <2>1. block' \in [Handles -> Packets \cup {Free}]
    BY <1>0, <1>1, <1>2, <1>4 DEF StackInv
  <2>2. Len(d.packets_out) <= UIP_SOCKET_NUMPACKETS
    BY <1>3, <1>4, <1>6, <1>7, LinkAssumption
  <2>3. \A g \in Held(d.packets_in) \cup Held(d.packets_out) :
            block'[g] # Free /\ (g \in BlocksOf(u) \/ block[g] = Free)
    BY <1>1, <1>2, <1>3, <1>6, <1>7, <1>8
  <2>4. \A g \in Handles \ BlocksOf(u) : block[g] # Free => block'[g] = block[g]
    BY <1>1, <1>8
  <2>5. /\ Distinct(d.packets_in)
        /\ Distinct(d.packets_out)
        /\ Held(d.packets_in) \cap Held(d.packets_out) = {}
    BY <1>3, <1>6, <1>7
  <2>6. Marked(d)
    BY <1>3, <1>7 DEF Marked
  <2> QED
    BY <1>0, <1>1, <1>3, <1>4, <1>5, <1>7, <2>1, <2>2, <2>3, <2>4, <2>5, <2>6,
       LoopStep
<1>10. LoopInv'
  <2>1. pc # "read"
    BY DEF Write, Answering
  <2>2. written' \in 0..AnswerBlocks
    BY <1>0, <1>4, LinkAssumption DEF LoopInv
  <2> QED
    BY <1>0, <1>4, <2>1, <2>2 DEF LoopInv, ReadingOK, AskedOK, Answering
<1> QED
  BY <1>9, <1>10 DEF LinkInv, TypeOK, StackInv, LoopInv

\* flush(), and stop() after it: the unread blocks of u are freed.
LEMMA Flushed ==
    ASSUME StackInv, NEW u \in Slots, NEW s \in SUBSET Flags,
           s = {} \/ "CONNECTED" \in s,
           s # {} /\ "REMOTECLOSED" \notin s <=>
               data[u].state # {} /\ "REMOTECLOSED" \notin data[u].state,
           UNCHANGED <<conn, happened>>,
           block' = FreeBlocks(block, Held(data[u].packets_in)),
           data' = [data EXCEPT ![u] =
                       [@ EXCEPT !.packets_in = <<>>, !.state = s]]
    PROVE  StackInv'
<1> DEFINE d == [data[u] EXCEPT !.packets_in = <<>>, !.state = s]
           q == data[u].packets_in
           o == data[u].packets_out
<1>1. /\ data[u] \in Userdata
      /\ q \in Seq(Handles)
      /\ o \in Seq(Handles)
      /\ Distinct(o)
      /\ Held(q) \cap Held(o) = {}
      /\ BlocksOf(u) = Held(q) \cup Held(o)
      /\ BlocksOf(u) \subseteq Handles
      /\ \A g \in BlocksOf(u) : block[g] # Free
      /\ Len(o) <= UIP_SOCKET_NUMPACKETS
  BY OfOne DEF BlocksOf
<1>2. data' = [data EXCEPT ![u] = d]
  BY DEF StackInv
<1>3. /\ d \in Userdata
      /\ d.packets_in = <<>>
      /\ d.packets_out = o
      /\ d.state = s
      /\ d.sock = data[u].sock
  <2>1. <<>> \in Seq(Handles)
    OBVIOUS
  <2> QED
    BY <1>1, <2>1 DEF Userdata
<1>4. \A g \in Handles : block'[g] = IF g \in Held(q) THEN Free ELSE block[g]
  BY DEF FreeBlocks
<1>5. block' \in [Handles -> Packets \cup {Free}]
  BY FreeBlocksType DEF StackInv
<1> HIDE DEF d, q, o
<1>6. Held(d.packets_in) = {} /\ Distinct(d.packets_in)
  BY <1>3, HeldEmpty
<1>7. Marked(d)
  BY <1>3 DEF Marked
<1>8. Len(d.packets_in) <= UIP_SOCKET_NUMPACKETS
  BY <1>3, LinkAssumption
<1>9. \A g \in Held(d.packets_in) \cup Held(d.packets_out) :
          block'[g] # Free /\ (g \in BlocksOf(u) \/ block[g] = Free)
  BY <1>1, <1>3, <1>4, <1>6
<1>10. \A g \in Handles \ BlocksOf(u) : block[g] # Free => block'[g] = block[g]
  BY <1>1, <1>4
<1>11. /\ Distinct(d.packets_out)
       /\ Held(d.packets_in) \cap Held(d.packets_out) = {}
       /\ Len(d.packets_out) <= UIP_SOCKET_NUMPACKETS
  BY <1>1, <1>3, <1>6
<1>12. d.state # {} /\ "REMOTECLOSED" \notin d.state <=>
           data[u].state # {} /\ "REMOTECLOSED" \notin data[u].state
  BY <1>3
<1> QED
  BY <1>2, <1>3, <1>5, <1>6, <1>7, <1>8, <1>9, <1>10, <1>11, <1>12, LoopStep

\* UIPClient::flush() keeps the invariant.
LEMMA FlushKeepsInv ==
    ASSUME LinkInv, Flush
    PROVE  LinkInv'
<1>0. StackInv /\ LoopInv
  BY Parts
<1>1. CASE client = NULL
  <2>1. UNCHANGED <<conn, data, block, received, known, happened>>
    BY <1>1 DEF Flush
  <2> QED
    BY <1>0, <2>1, StackSame, Parts
       DEF Flush, stackVars, LinkInv, TypeOK, StackInv, LoopInv, ReadingOK,
           AskedOK, Answering
<1>2. CASE client # NULL
  <2>1. client \in Slots
    BY <1>0, <1>2 DEF LoopInv
  <2> DEFINE s == data[client].state
  <2>2. data[client] \in Userdata /\ s \in SUBSET Flags /\ Marked(data[client])
    BY <1>0, <2>1, OfOne
  <2>3. s = {} \/ "CONNECTED" \in s
    BY <2>2 DEF Marked
  <2>4. [data EXCEPT ![client].packets_in = <<>>] =
            [data EXCEPT ![client] = [@ EXCEPT !.packets_in = <<>>, !.state = s]]
    BY <2>2 DEF Userdata
  <2>5. /\ data' = [data EXCEPT ![client] =
                       [@ EXCEPT !.packets_in = <<>>, !.state = s]]
        /\ block' = FreeBlocks(block, Held(data[client].packets_in))
        /\ UNCHANGED <<conn, happened>>
    BY <1>2, <2>4 DEF Flush
  <2> HIDE DEF s
  <2>6. s # {} /\ "REMOTECLOSED" \notin s <=>
            data[client].state # {} /\ "REMOTECLOSED" \notin data[client].state
    BY DEF s
  <2>7. StackInv'
    BY <1>0, <2>1, <2>2, <2>3, <2>5, <2>6, Flushed
  <2>8. LoopInv'
    BY <1>0 DEF Flush, LoopInv, ReadingOK, AskedOK, Answering
  <2> QED
    BY <2>7, <2>8 DEF LinkInv, TypeOK, StackInv, LoopInv
<1> QED
  BY <1>1, <1>2

\* UIPClient::stop() keeps the invariant.
LEMMA StopKeeps ==
    ASSUME LinkInv, Stop
    PROVE  LinkInv'
<1>0. StackInv /\ LoopInv
  BY Parts
<1>1. StackInv'
  <2>1. CASE client = NULL \/ ~InUse(data[client])
    <3>1. UNCHANGED <<conn, data, block, happened>>
      BY <2>1 DEF Stop
    <3> QED
      BY <1>0, <3>1, StackSame
  <2>2. CASE ~(client = NULL \/ ~InUse(data[client]))
    <3> DEFINE s == data[client].state
               t == IF "REMOTECLOSED" \in s THEN {} ELSE s \cup {"CLOSE"}
    <3>1. client \in Slots /\ s # {}
      BY <1>0, <2>2 DEF LoopInv, InUse
    <3>2. data[client] \in Userdata /\ s \in SUBSET Flags /\ Marked(data[client])
      BY <1>0, <3>1, OfOne
    <3>3. /\ t \in SUBSET Flags
          /\ t = {} \/ "CONNECTED" \in t
          /\ t # {} /\ "REMOTECLOSED" \notin t <=>
                 s # {} /\ "REMOTECLOSED" \notin s
      BY <3>1, <3>2 DEF Marked, Flags
    <3>4. /\ data' = [data EXCEPT ![client] =
                         [@ EXCEPT !.packets_in = <<>>, !.state = t]]
          /\ block' = FreeBlocks(block, Held(data[client].packets_in))
          /\ UNCHANGED <<conn, happened>>
      <4> DEFINE d == [data[client] EXCEPT !.packets_in = <<>>, !.state = t]
                 e == [data[client] EXCEPT !.packets_in = <<>>,
                          !.state = IF "REMOTECLOSED" \in @ THEN {}
                                    ELSE @ \cup {"CLOSE"}]
      <4>1. data' = [data EXCEPT ![client] = e]
        BY <2>2 DEF Stop
      <4>2. e = d
        BY <3>2 DEF Userdata
      <4>3. data' = [data EXCEPT ![client] = d]
        <5> HIDE DEF d, e
        <5> QED
          BY <4>1, <4>2
      <4>4. /\ block' = FreeBlocks(block, Held(data[client].packets_in))
            /\ UNCHANGED <<conn, happened>>
        BY <2>2 DEF Stop
      <4> HIDE DEF t
      <4> QED
        BY <4>3, <4>4
    <3> HIDE DEF t
    <3> QED
      BY <1>0, <3>1, <3>3, <3>4, Flushed
  <2> QED
    BY <2>1, <2>2
<1>2. LoopInv'
  BY <1>0, LinkAssumption DEF Stop, LoopInv, ReadingOK, AskedOK, Answering
<1> QED
  BY <1>1, <1>2 DEF LinkInv, TypeOK, StackInv, LoopInv

-----------------------------------------------------------------------------
(* The theorems. *)

\* The invariant holds before the first packet.
LEMMA InitLink == Init => LinkInv
<1> SUFFICES ASSUME Init PROVE LinkInv
  OBVIOUS
<1>1. 1 \in Slots /\ NULL \notin Slots
  BY NullNotSlot, LinkAssumption DEF Slots
<1>2. /\ conn \in [Slots -> Connections]
      /\ \A i \in Slots : conn[i].appstate = NULL /\ conn[i].tcp = "CLOSED"
  BY DEF Init, Connections, TcpStates
<1>3. /\ data \in [Slots -> Userdata]
      /\ \A u \in Slots : /\ data[u].state = {}
                          /\ data[u].packets_in = <<>>
                          /\ data[u].packets_out = <<>>
  BY <1>1 DEF Init, Userdata
<1>4. TypeOK
  <2>1. \A u \in Slots : /\ Len(data[u].packets_in) <= UIP_SOCKET_NUMPACKETS
                         /\ Len(data[u].packets_out) <= UIP_SOCKET_NUMPACKETS
    BY <1>3, LinkAssumption
  <2>2. /\ block \in [Handles -> Packets \cup {Free}]
        /\ received \in [Peers -> 0..MaxSegments]
        /\ written \in 0..AnswerBlocks
    BY LinkAssumption DEF Init
  <2>3. request \in Seq(Packets)
    BY DEF Init
  <2> QED
    BY <1>2, <1>3, <2>1, <2>2, <2>3 DEF Init, TypeOK
<1>5. OwnedData
  BY <1>1, <1>2, <1>3 DEF OwnedData, Refs
<1>6. HeldOnce
  BY <1>3, HeldEmpty DEF HeldOnce, BlocksOf
<1>7. MarksOK /\ PeersOK
  BY <1>2, <1>3 DEF MarksOK, Marked, PeersOK, Named
<1>8. ReadingOK /\ AskedOK
  BY DEF Init, ReadingOK, AskedOK, Answering
<1> QED
  BY <1>4, <1>5, <1>6, <1>7, <1>8 DEF LinkInv

\* A stuttering step keeps the invariant.
LEMMA UnchangedKeeps ==
    ASSUME LinkInv, UNCHANGED linkVars
    PROVE  LinkInv'
<1>1. /\ UNCHANGED <<conn, data, block, received, known, happened>>
      /\ UNCHANGED <<pc, client, remaining, written, request>>
  BY DEF linkVars, stackVars, loopVars
<1>2. StackInv'
  BY <1>1, Parts, StackSame
<1>3. LoopInv'
  BY <1>1, Parts DEF LoopInv, ReadingOK, AskedOK, Answering
<1> QED
  BY <1>2, <1>3 DEF LinkInv, TypeOK, StackInv, LoopInv

\* Every step keeps the invariant.
LEMMA NextLink ==
    ASSUME LinkInv, [Next]_linkVars
    PROVE  LinkInv'
<1>1. CASE Network /\ UNCHANGED loopVars
  BY <1>1, SynKeeps, ResetKeeps, EstablishedKeeps, SegmentKeeps DEF Network
<1>2. CASE Timer /\ UNCHANGED loopVars
  BY <1>2, ResetKeeps, RunDownKeeps DEF Timer
<1>3. CASE Loop
  BY <1>3, AcceptKeeps, HasDataKeeps, TooLongKeeps, LoopOnlyKeeps, ReadKeeps,
     WriteKeeps, FlushKeepsInv, StopKeeps, UnchangedKeeps
     DEF Loop, NoClient, WriteWaits
<1>4. CASE UNCHANGED linkVars
  BY <1>4, UnchangedKeeps
<1> QED
  BY <1>1, <1>2, <1>3, <1>4 DEF Next

\* The invariant holds whatever the clients do, for every number of them, of
\* connections, of slots and of blocks.
THEOREM LinkInvCorrect == Spec => []LinkInv
  BY InitLink, NextLink, PTL DEF Spec

\* uip_conn and all_data[] keep the shapes the code relies on: no queue of
\* packets is ever longer than its array.
THEOREM LinkTypeCorrect == Spec => []TypeOK
<1>1. LinkInv => TypeOK
  BY DEF LinkInv
<1> QED
  BY <1>1, LinkInvCorrect, PTL

\* appstate and all_data[] agree: one connection for user data that is in use,
\* the one its state names, in spite of the pointer loop() holds.
THEOREM OwnedCorrect == Spec => []OwnedData
<1>1. LinkInv => OwnedData
  BY DEF LinkInv
<1> QED
  BY <1>1, LinkInvCorrect, PTL

\* No block of the pool is in two places, and none that is queued is free.
THEOREM HeldCorrect == Spec => []HeldOnce
<1>1. LinkInv => HeldOnce
  BY DEF LinkInv
<1> QED
  BY <1>1, LinkInvCorrect, PTL
=============================================================================
