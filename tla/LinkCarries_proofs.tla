------------------------ MODULE LinkCarries_proofs ------------------------
(***************************************************************************)
(* The stack keeps DeliveryInv: whose the blocks are, in which order, and  *)
(* that none is lost, as long as what the code has no answer to has not    *)
(* happened.                                                               *)
(*                                                                         *)
(* Of uipclient_appcall() only storing a packet adds to a queue: all other *)
(* functions trim (Trims), which composes.  Every step of uip_process()    *)
(* and of the timers is then one of two: the appcall of a connection with  *)
(* user data (Carried), or a step that leaves user data alone (Quiet).     *)
(***************************************************************************)
EXTENDS LinkDelivery, EthernetLink_proofs

-----------------------------------------------------------------------------
(* The segments in a queue of blocks: what a queue holds follows the queue    *)
(* (Contents), and what is one peer's (From), without a hole (Run) and up to  *)
(* the last segment acknowledged (Ends) stays so when a segment comes behind  *)
(* or the first is read.                                                      *)

\* A queue to which something was added is not empty.
LEMMA AppendNotEmpty ==
    ASSUME NEW S, NEW q \in Seq(S), NEW x \in S
    PROVE  Append(q, x) # <<>>
<1>1. Len(Append(q, x)) = Len(q) + 1 /\ Len(q) \in Nat
  OBVIOUS
<1>2. Len(<<>>) = 0
  OBVIOUS
<1> QED
  BY <1>1, <1>2

\* What a queue holds follows the queue.
LEMMA ContentsOf ==
    ASSUME NEW q \in Seq(Handles), NEW b, \A h \in Held(q) : b[h] \in Packets
    PROVE  /\ Contents(q, b) \in Seq(Packets)
           /\ Len(Contents(q, b)) = Len(q)
           /\ DOMAIN Contents(q, b) = DOMAIN q
           /\ DOMAIN q = 1..Len(q)
           /\ Contents(q, b) = <<>> <=> q = <<>>
<1> DEFINE s == Contents(q, b)
<1>1. DOMAIN s = DOMAIN q /\ DOMAIN q = 1..Len(q) /\ Len(q) \in Nat
  BY DEF Contents
<1>2. \A j \in DOMAIN q : s[j] \in Packets
  BY DEF Contents, Held
<1>3. s = [j \in 1..Len(q) |-> b[q[j]]]
  BY <1>1 DEF Contents
<1> HIDE DEF s
<1>4. s \in [1..Len(q) -> Packets]
  BY <1>1, <1>2, <1>3
<1>5. s \in Seq(Packets) /\ Len(s) = Len(q)
  BY <1>1, <1>4
<1>6. s = <<>> <=> q = <<>>
  BY <1>1, <1>5
<1> QED
  BY <1>1, <1>5, <1>6 DEF s

\* A queue holds what it held when none of its blocks was written.
LEMMA ContentsSame ==
    ASSUME NEW q, NEW b, NEW c, \A h \in Held(q) : c[h] = b[h]
    PROVE  Contents(q, c) = Contents(q, b)
  BY DEF Contents, Held

\* A block that is queued adds its packet behind the others.
LEMMA ContentsAppend ==
    ASSUME NEW q \in Seq(Handles), NEW h \in Handles, NEW b,
           \A g \in Held(q) : b[g] \in Packets, b[h] \in Packets
    PROVE  Contents(Append(q, h), b) = Append(Contents(q, b), b[h])
<1> DEFINE s == Contents(q, b)
           a == Append(q, h)
           t == Contents(a, b)
<1>1. s \in Seq(Packets) /\ Len(s) = Len(q) /\ Len(q) \in Nat
  BY ContentsOf
<1>2. \A j \in 1..Len(q) : s[j] = b[q[j]]
  BY <1>1 DEF Contents
<1>3. /\ a \in Seq(Handles)
      /\ Len(a) = Len(q) + 1
      /\ \A j \in 1..Len(q) : a[j] = q[j]
      /\ a[Len(q) + 1] = h
  OBVIOUS
<1>4. \A g \in Held(a) : b[g] \in Packets
  BY HeldAppend
<1>5. t \in Seq(Packets) /\ Len(t) = Len(q) + 1 /\ \A j \in 1..Len(a) : t[j] = b[a[j]]
  <2>1. t \in Seq(Packets) /\ Len(t) = Len(a)
    BY <1>3, <1>4, ContentsOf
  <2> QED
    BY <1>3, <2>1 DEF Contents
<1> HIDE DEF s, t, a
<1>6. /\ Append(s, b[h]) \in Seq(Packets)
      /\ Len(Append(s, b[h])) = Len(q) + 1
      /\ \A j \in 1..Len(q) : Append(s, b[h])[j] = s[j]
      /\ Append(s, b[h])[Len(q) + 1] = b[h]
  BY <1>1
<1>7. \A j \in 1..(Len(q) + 1) : t[j] = Append(s, b[h])[j]
  <2>1. \A j \in 1..(Len(q) + 1) : j \in 1..Len(q) \/ j = Len(q) + 1
    BY <1>1
  <2> QED
    BY <1>2, <1>3, <1>5, <1>6, <2>1
<1>8. t = Append(s, b[h])
  BY <1>5, <1>6, <1>7
<1> QED
  BY <1>8 DEF s, t, a

\* A block taken from the front takes the first packet away.
LEMMA ContentsTail ==
    ASSUME NEW q \in Seq(Handles), q # <<>>, NEW b,
           \A g \in Held(q) : b[g] \in Packets
    PROVE  /\ Contents(Tail(q), b) = Tail(Contents(q, b))
           /\ Head(Contents(q, b)) = b[Head(q)]
<1> DEFINE s == Contents(q, b)
           a == Tail(q)
           t == Contents(a, b)
<1>1. s \in Seq(Packets) /\ Len(s) = Len(q) /\ Len(q) \in Nat /\ s # <<>>
  BY ContentsOf
<1>2. \A j \in 1..Len(q) : s[j] = b[q[j]]
  BY <1>1 DEF Contents
<1>3. /\ a \in Seq(Handles)
      /\ Len(a) = Len(q) - 1
      /\ \A j \in 1..Len(a) : a[j] = q[j + 1]
      /\ Head(q) = q[1]
      /\ Len(q) # 0
  OBVIOUS
<1>4. \A g \in Held(a) : b[g] \in Packets
  BY HeldTail
<1>5. t \in Seq(Packets) /\ Len(t) = Len(q) - 1 /\ \A j \in 1..Len(a) : t[j] = b[a[j]]
  <2>1. t \in Seq(Packets) /\ Len(t) = Len(a)
    BY <1>3, <1>4, ContentsOf
  <2> QED
    BY <1>3, <2>1 DEF Contents
<1> HIDE DEF s, t, a
<1>6. /\ Tail(s) \in Seq(Packets)
      /\ Len(Tail(s)) = Len(q) - 1
      /\ \A j \in 1..(Len(q) - 1) : Tail(s)[j] = s[j + 1]
      /\ Head(s) = s[1]
  BY <1>1
<1>7. ASSUME NEW j \in 1..(Len(q) - 1)
      PROVE  t[j] = Tail(s)[j]
  <2>1. j + 1 \in 1..Len(q)
    BY <1>1
  <2>2. t[j] = b[q[j + 1]]
    BY <1>3, <1>5
  <2>3. Tail(s)[j] = s[j + 1]
    BY <1>6
  <2> QED
    BY <1>2, <2>1, <2>2, <2>3
<1>8. t = Tail(s)
  BY <1>5, <1>6, <1>7
<1>9. Head(s) = b[Head(q)]
  BY <1>1, <1>2, <1>3, <1>6
<1> QED
  BY <1>8, <1>9 DEF s, t, a

-----------------------------------------------------------------------------
\* No segments are of any peer, without a hole, and end anywhere.
LEMMA EmptySegments ==
    ASSUME NEW p, NEW r
    PROVE  From(<<>>, p) /\ Run(<<>>) /\ Ends(<<>>, p, r)
  BY DEF From, Run, Ends

\* The next segment of the same peer keeps the segments in order.
LEMMA AppendSegment ==
    ASSUME NEW s \in Seq(Packets), NEW p, NEW r \in Nat, NEW x \in Packets
    PROVE  /\ From(s, p) /\ x.peer = p => From(Append(s, x), p)
           /\ Ends(s, p, r) /\ x = [peer |-> p, n |-> r + 1]
                  => Ends(Append(s, x), p, r + 1)
<1> DEFINE a == Append(s, x)
<1>1. /\ DOMAIN a = 1..(Len(s) + 1)
      /\ Len(a) = Len(s) + 1
      /\ DOMAIN s = 1..Len(s)
      /\ Len(s) \in Nat
      /\ \A j \in 1..Len(s) : a[j] = s[j]
      /\ a[Len(s) + 1] = x
  OBVIOUS
<1>2. \A j \in 1..(Len(s) + 1) : j \in 1..Len(s) \/ j = Len(s) + 1
  BY <1>1
<1> HIDE DEF a
<1>3. From(s, p) /\ x.peer = p => From(a, p)
  BY <1>1, <1>2 DEF From
<1>4. ASSUME Ends(s, p, r), x = [peer |-> p, n |-> r + 1]
      PROVE  Ends(a, p, r + 1)
  <2>1. ASSUME NEW j \in 1..Len(s)
        PROVE  a[j] = [peer |-> p, n |-> (r + 1) + j - Len(a)]
    <3>1. a[j] = [peer |-> p, n |-> r + j - Len(s)]
      BY <1>1, <1>4, <2>1 DEF Ends
    <3>2. (r + 1) + j - Len(a) = r + j - Len(s)
      BY <1>1, <2>1
    <3> QED
      BY <3>1, <3>2
  <2>2. a[Len(s) + 1] = [peer |-> p, n |-> (r + 1) + (Len(s) + 1) - Len(a)]
    <3>1. (r + 1) + (Len(s) + 1) - Len(a) = r + 1
      BY <1>1
    <3> QED
      BY <1>1, <1>4, <3>1
  <2> QED
    BY <1>1, <1>2, <2>1, <2>2 DEF Ends
<1> QED
  BY <1>3, <1>4 DEF a

\* Segments without the first stay in order.
LEMMA TailSegments ==
    ASSUME NEW s \in Seq(Packets), s # <<>>, NEW p, NEW r \in Nat
    PROVE  /\ From(s, p) => From(Tail(s), p) /\ Head(s).peer = p
           /\ Ends(s, p, r) => Ends(Tail(s), p, r)
           /\ Run(s) => Run(Tail(s))
<1> DEFINE t == Tail(s)
<1>1. /\ DOMAIN t = 1..(Len(s) - 1)
      /\ Len(t) = Len(s) - 1
      /\ DOMAIN s = 1..Len(s)
      /\ Len(s) \in Nat \ {0}
      /\ \A j \in 1..(Len(s) - 1) : t[j] = s[j + 1]
      /\ Head(s) = s[1]
      /\ \A j \in 1..Len(s) : s[j] \in Packets
  OBVIOUS
<1>2. \A j \in 1..(Len(s) - 1) : j + 1 \in 1..Len(s)
  BY <1>1
<1> HIDE DEF t
<1>3. ASSUME From(s, p)
      PROVE  From(t, p) /\ Head(s).peer = p
  <2>1. \A j \in 1..Len(s) : s[j].peer = p
    BY <1>1, <1>3 DEF From
  <2>2. \A j \in 1..(Len(s) - 1) : t[j].peer = p
    BY <1>1, <1>2, <2>1
  <2>3. Head(s).peer = p
    BY <1>1, <2>1
  <2> QED
    BY <1>1, <2>2, <2>3 DEF From
<1>4. ASSUME Ends(s, p, r)
      PROVE  Ends(t, p, r)
  <2>1. ASSUME NEW j \in 1..(Len(s) - 1)
        PROVE  t[j] = [peer |-> p, n |-> r + j - Len(t)]
    <3>1. t[j] = [peer |-> p, n |-> r + (j + 1) - Len(s)]
      BY <1>1, <1>2, <1>4 DEF Ends
    <3>2. r + (j + 1) - Len(s) = r + j - Len(t)
      BY <1>1
    <3> QED
      BY <3>1, <3>2
  <2> QED
    BY <1>1, <2>1 DEF Ends
<1>5. ASSUME Run(s)
      PROVE  Run(t)
  <2>1. ASSUME NEW j \in 1..(Len(s) - 1)
        PROVE  t[j] = [t[1] EXCEPT !.n = @ + j - 1]
    <3>1. s[1] \in Packets
      BY <1>1
    <3>2. \A k \in 1..Len(s) :
              s[k] = [peer |-> s[1].peer, n |-> s[1].n + k - 1]
      BY <1>1, <1>5, <3>1 DEF Run, Packets
    <3>3. /\ t[1] = [peer |-> s[1].peer, n |-> s[1].n + 2 - 1]
          /\ t[j] = [peer |-> s[1].peer, n |-> s[1].n + (j + 1) - 1]
      <4>1. 1 \in 1..(Len(s) - 1) /\ 2 \in 1..Len(s) /\ 1 + 1 = 2
        BY <1>1
      <4>2. t[1] = s[2] /\ t[j] = s[j + 1]
        BY <1>1, <4>1
      <4> QED
        BY <1>2, <3>2, <4>1, <4>2
    <3>4. s[1].n \in Nat
      BY <3>1, LinkAssumption DEF Packets
    <3>5. (s[1].n + 2 - 1) + j - 1 = s[1].n + (j + 1) - 1
      BY <3>4
    <3> QED
      BY <3>3, <3>5
  <2> QED
    BY <1>1, <2>1 DEF Run
<1> QED
  BY <1>3, <1>4, <1>5 DEF t

\* Segments that end with the last acknowledged have no hole.
LEMMA EndsRun ==
    ASSUME NEW s \in Seq(Packets), NEW p, NEW r \in Nat, Ends(s, p, r)
    PROVE  Run(s)
<1>1. DOMAIN s = 1..Len(s) /\ Len(s) \in Nat
  OBVIOUS
<1>2. ASSUME NEW j \in 1..Len(s)
      PROVE  s[j] = [s[1] EXCEPT !.n = @ + j - 1]
  <2>1. /\ s[1] = [peer |-> p, n |-> r + 1 - Len(s)]
        /\ s[j] = [peer |-> p, n |-> r + j - Len(s)]
    <3>1. 1 \in 1..Len(s)
      BY <1>1
    <3> QED
      BY <1>1, <3>1 DEF Ends
  <2>2. (r + 1 - Len(s)) + j - 1 = r + j - Len(s)
    BY <1>1
  <2> QED
    BY <2>1, <2>2
<1> QED
  BY <1>1, <1>2 DEF Run

\* Reading moves a segment from what is unread to the request.
LEMMA ReadsOn ==
    ASSUME NEW r \in Seq(Packets), NEW s \in Seq(Packets), s # <<>>
    PROVE  /\ Append(r, Head(s)) \o Tail(s) = r \o s
           /\ Run(r \o s) => Run(Append(r, Head(s)))
<1> DEFINE a == Append(r, Head(s))
           c == r \o s
<1>1. /\ Len(r) \in Nat
      /\ Len(s) \in Nat \ {0}
      /\ Head(s) \in Packets
      /\ Head(s) = s[1]
  OBVIOUS
<1>2. /\ a \in Seq(Packets)
      /\ Len(a) = Len(r) + 1
      /\ DOMAIN a = 1..(Len(r) + 1)
      /\ \A j \in 1..Len(r) : a[j] = r[j]
      /\ a[Len(r) + 1] = s[1]
  BY <1>1
<1>3. /\ c \in Seq(Packets)
      /\ Len(c) = Len(r) + Len(s)
      /\ DOMAIN c = 1..(Len(r) + Len(s))
      /\ \A j \in 1..Len(r) : c[j] = r[j]
      /\ \A j \in 1..Len(s) : c[Len(r) + j] = s[j]
  BY <1>1
<1>4. a \o Tail(s) = c
  OBVIOUS
<1> HIDE DEF a, c
<1>5. \A j \in 1..(Len(r) + 1) : a[j] = c[j] /\ j \in DOMAIN c
  <2>1. \A j \in 1..(Len(r) + 1) : j \in 1..Len(r) \/ j = Len(r) + 1
    BY <1>1
  <2>2. 1 \in 1..Len(s)
    BY <1>1
  <2>3. a[Len(r) + 1] = c[Len(r) + 1]
    BY <1>2, <1>3, <2>2
  <2>4. \A j \in 1..(Len(r) + 1) : j \in 1..(Len(r) + Len(s))
    BY <1>1
  <2> QED
    BY <1>2, <1>3, <2>1, <2>3, <2>4
<1>6. 1 \in 1..(Len(r) + 1)
  BY <1>1
<1>7. Run(c) => Run(a)
  BY <1>2, <1>5, <1>6 DEF Run
<1> QED
  BY <1>4, <1>7 DEF a, c

\* What arrives while a request is read goes on with it.
LEMMA GoesFurther ==
    ASSUME NEW r \in Seq(Packets), NEW s \in Seq(Packets), s # <<>>,
           NEW x \in Packets, Run(r \o s), Run(Append(s, x))
    PROVE  Run(r \o Append(s, x))
<1> DEFINE a == Append(s, x)
           c == r \o s
           e == r \o a
           L == Len(r)
           M == Len(s)
<1>1. L \in Nat /\ M \in Nat \ {0}
  OBVIOUS
<1>2. /\ a \in Seq(Packets)
      /\ DOMAIN a = 1..(M + 1)
      /\ Len(a) = M + 1
      /\ \A j \in 1..M : a[j] = s[j]
  OBVIOUS
<1>3. /\ DOMAIN c = 1..(L + M)
      /\ \A j \in 1..L : c[j] = r[j]
      /\ \A j \in 1..M : c[L + j] = s[j]
      /\ \A j \in 1..(L + M) : c[j] \in Packets
  OBVIOUS
<1> HIDE DEF a
<1>4. /\ DOMAIN e = 1..(L + M + 1)
      /\ \A j \in 1..L : e[j] = r[j]
      /\ \A j \in 1..(M + 1) : e[L + j] = a[j]
  <2>1. DOMAIN e = 1..(L + M + 1)
    BY <1>2
  <2>2. \A j \in 1..L : e[j] = r[j]
    BY <1>2
  <2>3. \A j \in 1..(M + 1) : e[L + j] = a[j]
    BY <1>2
  <2> QED
    BY <2>1, <2>2, <2>3
<1>5. Run(c) /\ Run(a)
  BY DEF a
<1> HIDE DEF c, e, L, M
<1>6. \A j \in 1..(L + M) : e[j] = c[j]
  <2>1. ASSUME NEW j \in 1..(L + M), j \notin 1..L
        PROVE  e[j] = c[j]
    <3>1. j - L \in 1..M /\ j - L \in 1..(M + 1) /\ L + (j - L) = j
      BY <1>1, <2>1
    <3> QED
      BY <1>2, <1>3, <1>4, <3>1
  <2> QED
    BY <1>3, <1>4, <2>1
<1>7. c[1] \in Packets /\ 1 \in 1..(L + M) /\ e[1] = c[1]
  BY <1>1, <1>3, <1>6
<1>8. \A j \in 1..(L + M) : c[j] = [peer |-> c[1].peer, n |-> c[1].n + j - 1]
  BY <1>3, <1>5, <1>7 DEF Run, Packets
<1>9. e[L + M + 1] = [peer |-> c[1].peer, n |-> c[1].n + (L + M + 1) - 1]
  <2>1. e[L + M + 1] = a[M + 1]
    BY <1>1, <1>4
  <2>2. a[1] = c[L + 1]
    <3>1. 1 \in 1..M
      BY <1>1
    <3> QED
      BY <1>2, <1>3, <3>1
  <2>3. c[L + 1] = [peer |-> c[1].peer, n |-> c[1].n + (L + 1) - 1]
    BY <1>1, <1>8
  <2>4. a[M + 1] = [a[1] EXCEPT !.n = @ + (M + 1) - 1]
    <3>1. M + 1 \in 1..(M + 1)
      BY <1>1
    <3> QED
      BY <1>2, <1>5, <3>1 DEF Run
  <2>5. c[1].n \in Nat
    BY <1>7, LinkAssumption DEF Packets
  <2>6. (c[1].n + (L + 1) - 1) + (M + 1) - 1 = c[1].n + (L + M + 1) - 1
    BY <1>1, <2>5
  <2>7. a[M + 1] = [peer |-> c[1].peer,
                    n |-> (c[1].n + (L + 1) - 1) + (M + 1) - 1]
    BY <2>2, <2>3, <2>4
  <2> QED
    BY <2>1, <2>6, <2>7
<1>10. \A j \in 1..(L + M + 1) :
           e[j] = [peer |-> c[1].peer, n |-> c[1].n + j - 1]
  <2>1. \A j \in 1..(L + M + 1) : j \in 1..(L + M) \/ j = L + M + 1
    BY <1>1
  <2> QED
    BY <1>6, <1>8, <1>9, <2>1
<1>11. \A j \in 1..(L + M + 1) : e[j] = [e[1] EXCEPT !.n = @ + j - 1]
  <2>1. e[1] = c[1]
    BY <1>7
  <2>2. \A k \in Nat : [c[1] EXCEPT !.n = @ + k - 1] =
                           [peer |-> c[1].peer, n |-> c[1].n + k - 1]
    BY <1>7 DEF Packets
  <2>3. \A j \in 1..(L + M + 1) : j \in Nat
    BY <1>1
  <2> QED
    BY <1>10, <2>1, <2>2, <2>3
<1>12. Run(e)
  BY <1>4, <1>11 DEF Run
<1> QED
  BY <1>12 DEF e, a

-----------------------------------------------------------------------------
(* uipclient_appcall(), function by function: what it does to the queues.   *)

\* From m to n nothing is added to a queue, nothing unread is taken, and no
\* block is written or lost.
Trims(m, n) ==
    /\ n.c.peer = m.c.peer
    /\ n.c.appstate \in {m.c.appstate, NULL}
    /\ n.c.appstate # NULL => n.c.tcp = m.c.tcp
    /\ n.d.packets_in = m.d.packets_in
    /\ Held(n.d.packets_out) \subseteq Held(m.d.packets_out)
    /\ \A h \in Handles : n.b[h] # Free =>
           n.b[h] = m.b[h] /\ (h \in HeldBy(m) => h \in HeldBy(n))
    /\ "CLOSE" \in n.d.state => "CLOSE" \in m.d.state
    /\ n.c.appstate # NULL /\ WindowOf(m.c, m.d) => WindowOf(n.c, n.d)

\* Doing nothing trims.
LEMMA TrimsSelf ==
    ASSUME NEW m
    PROVE  Trims(m, m)
  BY DEF Trims

\* Two functions that trim, one after the other, trim.
LEMMA TrimsTrans ==
    ASSUME NEW m, NEW n, NEW o, Trims(m, n), Trims(n, o)
    PROVE  Trims(m, o)
<1>1. \A h \in Handles : o.b[h] # Free =>
          o.b[h] = m.b[h] /\ (h \in HeldBy(m) => h \in HeldBy(o))
  BY DEF Trims
<1>2. o.c.appstate # NULL => n.c.appstate # NULL
  BY DEF Trims
<1>3. o.c.appstate # NULL /\ WindowOf(m.c, m.d) => WindowOf(o.c, o.d)
  BY <1>2 DEF Trims
<1> QED
  BY <1>1, <1>2, <1>3 DEF Trims

\* Opening the window trims.
LEMMA RestartTrims ==
    ASSUME NEW m \in Triples
    PROVE  Trims(m, Restart(m))
<1> DEFINE n == Restart(m)
<1>1. CASE "RESTART" \notin m.d.state
  BY <1>1, TrimsSelf DEF Restart
<1>2. CASE "RESTART" \in m.d.state
  <2>1. /\ n.c.peer = m.c.peer
        /\ n.c.appstate = m.c.appstate
        /\ n.c.tcp = m.c.tcp
        /\ n.c.stopped = FALSE
        /\ n.d.packets_in = m.d.packets_in
        /\ n.d.packets_out = m.d.packets_out
        /\ n.d.state = m.d.state \ {"RESTART"}
        /\ n.b = m.b
    BY <1>2 DEF Restart, Triples, Connections, Userdata
  <2> HIDE DEF n
  <2>2. HeldBy(n) = HeldBy(m)
    BY <2>1 DEF HeldBy
  <2>3. WindowOf(m.c, m.d) => WindowOf(n.c, n.d)
    BY <1>2, <2>1 DEF WindowOf, Shut
  <2>4. Trims(m, n)
    BY <2>1, <2>2, <2>3 DEF Trims
  <2> QED
    BY <2>4 DEF n
<1> QED
  BY <1>1, <1>2

\* An acknowledgement only takes from what is unsent.
LEMMA AckedTrims ==
    ASSUME NEW m, Fine(m)
    PROVE  Trims(m, Acked(m))
<1> DEFINE n == Acked(m)
           q == m.d.packets_out
<1>1. CASE q = <<>>
  BY <1>1, TrimsSelf DEF Acked
<1>2. CASE q # <<>>
  <2>1. m \in Triples /\ q \in Seq(Handles)
    BY DEF Fine, Triples, Userdata
  <2>2. /\ n.c = m.c
        /\ n.d.packets_in = m.d.packets_in
        /\ n.d.packets_out = Tail(q)
        /\ n.d.state = m.d.state
        /\ n.b = FreeBlocks(m.b, {Head(q)})
    BY <1>2, <2>1 DEF Acked, Triples, Userdata
  <2>3. Held(q) \subseteq {Head(q)} \cup Held(Tail(q)) /\ Held(Tail(q)) \subseteq Held(q)
    <3>1. \A j \in DOMAIN q : j = 1 \/ (j - 1 \in DOMAIN Tail(q) /\ q[j] = Tail(q)[j - 1])
      BY <1>2, <2>1
    <3>2. q[1] = Head(q)
      OBVIOUS
    <3>3. \A j \in DOMAIN q : q[j] \in {Head(q)} \cup Held(Tail(q))
      BY <3>1, <3>2 DEF Held
    <3> QED
      BY <1>2, <2>1, <3>3, HeldTail DEF Held
  <2> HIDE DEF n
  <2>4. \A h \in Handles : n.b[h] # Free => n.b[h] = m.b[h] /\ h # Head(q)
    BY <2>2 DEF FreeBlocks
  <2>5. \A h \in HeldBy(m) : h # Head(q) => h \in HeldBy(n)
    BY <2>2, <2>3 DEF HeldBy
  <2>6. WindowOf(m.c, m.d) => WindowOf(n.c, n.d)
    BY <2>2 DEF WindowOf, Shut
  <2>7. Trims(m, n)
    BY <2>2, <2>3, <2>4, <2>5, <2>6 DEF Trims
  <2> QED
    BY <2>7 DEF n
<1> QED
  BY <1>1, <1>2

\* Sending leaves the user data as it is.
LEMMA SendTrims ==
    ASSUME NEW m \in Triples
    PROVE  Trims(m, Send(m)) /\ Send(m).d = m.d
<1> DEFINE n == Send(m)
<1>1. /\ n.c.peer = m.c.peer
      /\ n.c.appstate = m.c.appstate
      /\ n.c.tcp = m.c.tcp
      /\ n.c.stopped = m.c.stopped
      /\ n.d = m.d
      /\ n.b = m.b
  BY DEF Send, Triples, Connections
<1> HIDE DEF n
<1>2. HeldBy(n) = HeldBy(m)
  BY <1>1 DEF HeldBy
<1>3. WindowOf(m.c, m.d) => WindowOf(n.c, n.d)
  BY <1>1 DEF WindowOf, Shut
<1>4. Trims(m, n)
  BY <1>1, <1>2, <1>3 DEF Trims
<1> QED
  BY <1>1, <1>4 DEF n

\* What is closed has nothing left to send.
LEMMA ClosedTrims ==
    ASSUME NEW m, Fine(m)
    PROVE  LET n == Closed(m)
           IN  /\ Trims(m, n)
               /\ n.d.packets_out = <<>>
               /\ n.d.state = {} => m.d.packets_in = <<>>
               /\ n.c.appstate = NULL
<1> DEFINE n == Closed(m)
<1>1. m \in Triples
  BY DEF Fine
<1>2. /\ n.c.peer = m.c.peer
      /\ n.c.appstate = NULL
      /\ n.d.packets_in = m.d.packets_in
      /\ n.d.packets_out = <<>>
      /\ n.d.state = IF m.d.packets_in = <<>> THEN {}
                     ELSE m.d.state \cup {"REMOTECLOSED"}
      /\ n.b = FreeBlocks(m.b, Held(m.d.packets_out))
  BY <1>1 DEF Closed, Triples, Connections, Userdata
<1> HIDE DEF n
<1>3. \A h \in Handles : n.b[h] # Free =>
          n.b[h] = m.b[h] /\ h \notin Held(m.d.packets_out)
  BY <1>2 DEF FreeBlocks
<1>4. Trims(m, n)
  BY <1>2, <1>3, HeldEmpty DEF Trims, HeldBy
<1> QED
  BY <1>2, <1>4 DEF n

\* User data that is given back had nothing to send, and was to be closed.
LEMMA FinishTrims ==
    ASSUME NEW m, Fine(m)
    PROVE  LET n == Finish(m)
           IN  /\ Trims(m, n)
               /\ n.d = m.d \/ (/\ n.d.state = {}
                                /\ n.d.packets_out = <<>>
                                /\ "CLOSE" \in m.d.state)
<1> DEFINE n == Finish(m)
<1>0. m \in Triples
  BY DEF Fine
<1>1. CASE "CLOSE" \notin m.d.state
  BY <1>1, TrimsSelf DEF Finish
<1>2. CASE "CLOSE" \in m.d.state /\ m.d.packets_out = <<>>
  <2>1. /\ n.c.peer = m.c.peer
        /\ n.c.appstate = NULL
        /\ n.d.packets_in = m.d.packets_in
        /\ n.d.packets_out = <<>>
        /\ n.d.state = {}
        /\ n.b = m.b
    BY <1>0, <1>2 DEF Finish, Triples, Userdata, Connections
  <2> HIDE DEF n
  <2>2. HeldBy(n) = HeldBy(m)
    BY <1>2, <2>1 DEF HeldBy
  <2>3. Trims(m, n)
    BY <1>2, <2>1, <2>2 DEF Trims
  <2> QED
    BY <1>2, <2>1, <2>3 DEF n
<1>3. CASE "CLOSE" \in m.d.state /\ m.d.packets_out # <<>>
  <2>1. /\ n.c.peer = m.c.peer
        /\ n.c.appstate = m.c.appstate
        /\ n.c.tcp = m.c.tcp
        /\ n.d = m.d
        /\ n.b = m.b
    BY <1>0, <1>3 DEF Finish, Triples, Connections
  <2> HIDE DEF n
  <2>2. HeldBy(n) = HeldBy(m) /\ Shut(n.d)
    BY <1>3, <2>1 DEF HeldBy, Shut
  <2>3. Trims(m, n)
    BY <2>1, <2>2 DEF Trims, WindowOf
  <2> QED
    BY <2>1, <2>3 DEF n
<1> QED
  BY <1>1, <1>2, <1>3

\* A packet goes behind the others, into a free block, or nowhere.
LEMMA StoreAdds ==
    ASSUME NEW m, Fine(m), NEW packet
    PROVE  LET n == Store(m, packet)
           IN  /\ n.c.peer = m.c.peer
               /\ n.c.appstate = m.c.appstate
               /\ n.c.tcp = m.c.tcp
               /\ n.d.packets_out = m.d.packets_out
               /\ n.d.state = m.d.state
               /\ IF ~Shut(m.d) /\ Room(m.d, m.b)
                  THEN \E h \in Handles :
                           /\ m.b[h] = Free
                           /\ n.d.packets_in = Append(m.d.packets_in, h)
                           /\ n.b = [m.b EXCEPT ![h] = packet]
                  ELSE n.d.packets_in = m.d.packets_in /\ n.b = m.b
               /\ /\ WindowOf(m.c, m.d)
                  /\ ~Shut(m.d) => "RESTART" \notin m.d.state
                  => WindowOf(n.c, n.d)
<1> DEFINE n == Store(m, packet)
           h == AllocBlock(m.b)
<1>0. m \in Triples /\ m.d.packets_in \in Seq(Handles)
  BY DEF Fine, Triples, Userdata
<1>1. CASE Shut(m.d)
  BY <1>1 DEF Store, WindowOf
<1>2. CASE ~Shut(m.d) /\ ~Room(m.d, m.b)
  <2>1. /\ n.c.peer = m.c.peer
        /\ n.c.appstate = m.c.appstate
        /\ n.c.tcp = m.c.tcp
        /\ n.c.stopped
        /\ n.d = m.d
        /\ n.b = m.b
    BY <1>0, <1>2 DEF Store, Triples, Connections
  <2> HIDE DEF n
  <2>2. /\ WindowOf(m.c, m.d)
        /\ ~Shut(m.d) => "RESTART" \notin m.d.state
        => WindowOf(n.c, n.d)
    BY <2>1 DEF WindowOf
  <2> QED
    BY <1>2, <2>1, <2>2 DEF n
<1>3. CASE ~Shut(m.d) /\ Room(m.d, m.b)
  <2>1. /\ n.c.peer = m.c.peer
        /\ n.c.appstate = m.c.appstate
        /\ n.c.tcp = m.c.tcp
        /\ n.c.stopped = (m.c.stopped
                              \/ Len(m.d.packets_in) + 1 = UIP_SOCKET_NUMPACKETS)
        /\ n.d.packets_in = Append(m.d.packets_in, h)
        /\ n.d.packets_out = m.d.packets_out
        /\ n.d.state = m.d.state
        /\ n.b = [m.b EXCEPT ![h] = packet]
    BY <1>0, <1>3 DEF Store, Triples, Connections, Userdata
  <2>2. h \in Handles /\ m.b[h] = Free
    BY <1>3, AllocIn DEF Room
  <2> HIDE DEF n, h
  <2>3. Len(n.d.packets_in) = Len(m.d.packets_in) + 1 /\ Len(m.d.packets_in) \in Nat
    BY <1>0, <2>1, <2>2
  <2>4. /\ WindowOf(m.c, m.d)
        /\ ~Shut(m.d) => "RESTART" \notin m.d.state
        => WindowOf(n.c, n.d)
    <3>1. ASSUME WindowOf(m.c, m.d), "RESTART" \notin m.d.state, ~n.c.stopped
          PROVE  Len(n.d.packets_in) < UIP_SOCKET_NUMPACKETS
      <4>1. ~m.c.stopped /\ Len(m.d.packets_in) + 1 # UIP_SOCKET_NUMPACKETS
        BY <2>1, <3>1
      <4>2. Len(m.d.packets_in) < UIP_SOCKET_NUMPACKETS
        BY <1>3, <3>1, <4>1 DEF WindowOf
      <4> QED
        BY <2>3, <4>1, <4>2, LinkAssumption
    <3> QED
      BY <1>3, <2>1, <3>1 DEF WindowOf, Shut
  <2>5. \E g \in Handles :
            /\ m.b[g] = Free
            /\ n.d.packets_in = Append(m.d.packets_in, g)
            /\ n.b = [m.b EXCEPT ![g] = packet]
    BY <2>1, <2>2
  <2> QED
    BY <1>3, <2>1, <2>4, <2>5 DEF n
<1> QED
  BY <1>1, <1>2, <1>3

\* What uipclient_appcall() makes of a connection, its user data and the pool.
Carries(m, n, flags, packet) ==
    /\ n.c.peer = m.c.peer
    /\ n.c.appstate \in {m.c.appstate, NULL}
    /\ n.c.appstate # NULL => n.c.tcp = m.c.tcp /\ ~Leaving(flags)
    /\ Held(n.d.packets_out) \subseteq Held(m.d.packets_out)
    /\ IF "NEWDATA" \in flags /\ ~Shut(m.d) /\ Room(m.d, m.b)
       THEN \E h \in Handles : /\ m.b[h] = Free
                               /\ n.d.packets_in = Append(m.d.packets_in, h)
                               /\ n.b[h] = packet
       ELSE n.d.packets_in = m.d.packets_in
    /\ \A h \in HeldBy(n) : h \in HeldBy(m) => n.b[h] = m.b[h]
    /\ \A h \in Handles : n.b[h] # Free =>
           h \in HeldBy(n) \/ (h \notin HeldBy(m) /\ m.b[h] # Free)
    /\ Drained(n.d)
    /\ n.d.state = {} => \/ "CLOSE" \in m.d.state
                         \/ Leaving(flags) /\ m.d.packets_in = <<>>
    /\ "CLOSE" \in n.d.state => "CLOSE" \in m.d.state
    /\ /\ n.c.appstate # NULL
       /\ WindowOf(m.c, m.d)
       /\ "NEWDATA" \in flags /\ ~Shut(m.d) => "RESTART" \notin m.d.state
       => WindowOf(n.c, n.d)

\* Storing, and then trimming.
LEMMA StoreThenTrim ==
    ASSUME NEW m, Fine(m), NEW s, Fine(s), NEW n, Fine(n), NEW flags, NEW packet,
           s = IF "NEWDATA" \in flags THEN Store(m, packet) ELSE m,
           Trims(s, n), Drained(n.d),
           n.c.appstate # NULL => ~Leaving(flags),
           n.d.state = {} => \/ "CLOSE" \in s.d.state
                             \/ Leaving(flags) /\ s.d.packets_in = <<>>
    PROVE  Carries(m, n, flags, packet)
<1> DEFINE stores == "NEWDATA" \in flags /\ ~Shut(m.d) /\ Room(m.d, m.b)
<1>0. /\ m \in Triples /\ s \in Triples /\ n \in Triples
      /\ m.b \in [Handles -> Packets \cup {Free}]
      /\ m.d.packets_in \in Seq(Handles)
      /\ HeldBy(n) \subseteq Handles
      /\ HeldBy(m) \subseteq Handles
      /\ \A h \in HeldBy(n) : n.b[h] # Free
      /\ \A h \in HeldBy(m) : m.b[h] # Free
  BY HeldByHandles DEF Fine, Triples, Userdata
<1>1. /\ s.c.peer = m.c.peer
      /\ s.c.appstate = m.c.appstate
      /\ s.c.tcp = m.c.tcp
      /\ s.d.packets_out = m.d.packets_out
      /\ s.d.state = m.d.state
  BY StoreAdds
<1>2. ~stores => s.d.packets_in = m.d.packets_in /\ s.b = m.b
  BY StoreAdds
<1>3. stores => \E h \in Handles : /\ m.b[h] = Free
                                   /\ s.d.packets_in = Append(m.d.packets_in, h)
                                   /\ s.b = [m.b EXCEPT ![h] = packet]
  BY StoreAdds
<1>4. /\ WindowOf(m.c, m.d)
      /\ "NEWDATA" \in flags /\ ~Shut(m.d) => "RESTART" \notin m.d.state
      => WindowOf(s.c, s.d)
  BY StoreAdds
<1>5. \A h \in HeldBy(n) : n.b[h] = s.b[h]
  BY <1>0 DEF Trims
<1>6. s.d.packets_in = <<>> => m.d.packets_in = <<>>
  <2>1. ASSUME NEW h \in Handles PROVE Append(m.d.packets_in, h) # <<>>
    BY <1>0, AppendNotEmpty
  <2>2. CASE stores
    <3>1. PICK h \in Handles : s.d.packets_in = Append(m.d.packets_in, h)
      BY <1>3, <2>2
    <3> QED
      BY <2>1, <3>1
  <2>3. CASE ~stores
    BY <1>2, <2>3
  <2> QED
    BY <2>2, <2>3
<1>7. /\ IF stores
         THEN \E h \in Handles : /\ m.b[h] = Free
                                 /\ n.d.packets_in = Append(m.d.packets_in, h)
                                 /\ n.b[h] = packet
         ELSE n.d.packets_in = m.d.packets_in
      /\ \A h \in HeldBy(n) : h \in HeldBy(m) => n.b[h] = m.b[h]
      /\ \A h \in Handles : n.b[h] # Free =>
             h \in HeldBy(n) \/ (h \notin HeldBy(m) /\ m.b[h] # Free)
  <2>1. CASE ~stores
    <3>1. HeldBy(s) = HeldBy(m)
      BY <1>1, <1>2, <2>1 DEF HeldBy
    <3>2. n.d.packets_in = m.d.packets_in
      BY <1>2, <2>1 DEF Trims
    <3>3. \A h \in HeldBy(n) : h \in HeldBy(m) => n.b[h] = m.b[h]
      BY <1>2, <1>5, <2>1
    <3>4. \A h \in Handles : n.b[h] # Free =>
              h \in HeldBy(n) \/ (h \notin HeldBy(m) /\ m.b[h] # Free)
      BY <1>2, <2>1, <3>1 DEF Trims
    <3> QED
      BY <2>1, <3>2, <3>3, <3>4
  <2>2. CASE stores
    <3>1. PICK h \in Handles : /\ m.b[h] = Free
                               /\ s.d.packets_in = Append(m.d.packets_in, h)
                               /\ s.b = [m.b EXCEPT ![h] = packet]
      BY <1>3, <2>2
    <3> HIDE DEF stores
    <3>2. /\ Held(s.d.packets_in) = Held(m.d.packets_in) \cup {h}
          /\ HeldBy(s) = HeldBy(m) \cup {h}
      <4>1. Held(Append(m.d.packets_in, h)) = Held(m.d.packets_in) \cup {h}
        BY <1>0, HeldAppend
      <4> QED
        BY <1>1, <3>1, <4>1 DEF HeldBy
    <3>3. n.d.packets_in = Append(m.d.packets_in, h)
      BY <3>1 DEF Trims
    <3>4. h \in HeldBy(n)
      BY <3>2 DEF HeldBy, Trims
    <3>5. n.b[h] = packet
      BY <1>0, <1>5, <3>1, <3>4
    <3>6. \A g \in Handles : g # h => s.b[g] = m.b[g]
      BY <1>0, <3>1
    <3>7. \A g \in HeldBy(n) : g \in HeldBy(m) => n.b[g] = m.b[g]
      BY <1>0, <1>5, <3>1, <3>6
    <3>8. \A g \in Handles : n.b[g] # Free =>
              g \in HeldBy(n) \/ (g \notin HeldBy(m) /\ m.b[g] # Free)
      BY <3>2, <3>4, <3>6 DEF Trims
    <3> QED
      BY <2>2, <3>1, <3>3, <3>5, <3>7, <3>8
  <2> QED
    BY <2>1, <2>2
<1>8. /\ n.c.appstate # NULL
      /\ WindowOf(m.c, m.d)
      /\ "NEWDATA" \in flags /\ ~Shut(m.d) => "RESTART" \notin m.d.state
      => WindowOf(n.c, n.d)
  BY <1>4 DEF Trims
<1>9. /\ n.c.peer = m.c.peer
      /\ n.c.appstate \in {m.c.appstate, NULL}
      /\ n.c.appstate # NULL => n.c.tcp = m.c.tcp /\ ~Leaving(flags)
      /\ Held(n.d.packets_out) \subseteq Held(m.d.packets_out)
      /\ "CLOSE" \in n.d.state => "CLOSE" \in m.d.state
      /\ n.d.state = {} => \/ "CLOSE" \in m.d.state
                           \/ Leaving(flags) /\ m.d.packets_in = <<>>
  BY <1>1, <1>6 DEF Trims
<1> QED
  BY <1>7, <1>8, <1>9 DEF Carries

\* All of uipclient_appcall(): it stores the packet it was given, or none, and
\* beyond that only trims.
LEMMA AppCallCarries ==
    ASSUME NEW m, Fine(m), Attached(m), NEW flags, NEW packet,
           "NEWDATA" \in flags => packet \in Packets
    PROVE  Carries(m, AppCall(m, flags, packet), flags, packet)
<1> DEFINE stored == IF "NEWDATA" \in flags THEN Store(m, packet) ELSE m
           open   == Restart(stored)
           acked  == IF "ACKDATA" \in flags THEN Acked(open) ELSE open
           n      == AppCall(m, flags, packet)
<1>1. Fine(stored) /\ Attached(stored)
  BY StoreSound
<1>2. Fine(open) /\ Attached(open) /\ Trims(stored, open)
  BY <1>1, RestartSound, RestartTrims DEF Fine
<1>3. Fine(acked) /\ Attached(acked) /\ Trims(open, acked)
  BY <1>2, AckedSound, AckedTrims, TrimsSelf
<1>4. Trims(stored, acked)
  BY <1>2, <1>3, TrimsTrans
<1>5. Drained(acked.d) /\ acked.d.state # {}
  BY <1>3 DEF Attached, Drained
<1>6. CASE Leaving(flags)
  <2>1. n = Closed(open)
    BY <1>6 DEF AppCall
  <2> HIDE DEF open, n, acked
  <2>2. Fine(n)
    BY <1>2, <2>1, ClosedSound
  <2>3. /\ Trims(open, n)
        /\ n.d.packets_out = <<>>
        /\ n.d.state = {} => open.d.packets_in = <<>>
        /\ n.c.appstate = NULL
    BY <1>2, <2>1, ClosedTrims
  <2>4. Trims(stored, n) /\ Drained(n.d) /\ open.d.packets_in = stored.d.packets_in
    BY <1>2, <2>3, TrimsTrans DEF Drained, Trims
  <2>5. Carries(m, n, flags, packet)
    BY <1>1, <1>6, <2>2, <2>3, <2>4, StoreThenTrim
  <2> QED
    BY <2>5 DEF n
<1>7. CASE ~Leaving(flags) /\ n = Send(acked)
  <2> HIDE DEF open, n, acked
  <2>1. Fine(n)
    BY <1>3, <1>7, SendSound
  <2>2. Trims(acked, n) /\ n.d = acked.d
    BY <1>3, <1>7, SendTrims DEF Fine
  <2>3. Trims(stored, n)
    BY <1>4, <2>2, TrimsTrans
  <2>4. Carries(m, n, flags, packet)
    BY <1>1, <1>5, <1>7, <2>1, <2>2, <2>3, StoreThenTrim
  <2> QED
    BY <2>4 DEF n
<1>8. CASE ~Leaving(flags) /\ n = Finish(acked)
  <2> HIDE DEF open, n, acked
  <2>1. Fine(n)
    BY <1>3, <1>8, FinishSound
  <2>2. /\ Trims(acked, n)
        /\ n.d = acked.d \/ (/\ n.d.state = {}
                             /\ n.d.packets_out = <<>>
                             /\ "CLOSE" \in acked.d.state)
    BY <1>3, <1>8, FinishTrims
  <2>3. Trims(stored, n) /\ Drained(n.d)
    BY <1>4, <1>5, <2>2, TrimsTrans DEF Drained
  <2>4. n.d.state = {} => "CLOSE" \in stored.d.state
    <3>1. "CLOSE" \in acked.d.state => "CLOSE" \in stored.d.state
      BY <1>4 DEF Trims
    <3> HIDE DEF stored
    <3> QED
      BY <1>5, <2>2, <3>1
  <2>5. ~Leaving(flags)
    BY <1>8
  <2>6. n.d.state = {} => \/ "CLOSE" \in stored.d.state
                          \/ Leaving(flags) /\ stored.d.packets_in = <<>>
    BY <2>4
  <2>7. n.c.appstate # NULL => ~Leaving(flags)
    BY <2>5
  <2>8. stored = IF "NEWDATA" \in flags THEN Store(m, packet) ELSE m
    OBVIOUS
  <2> HIDE DEF stored
  <2>9. Carries(m, n, flags, packet)
    BY <1>1, <2>1, <2>3, <2>6, <2>7, <2>8, StoreThenTrim
  <2> QED
    BY <2>9 DEF n
<1> QED
  BY <1>6, <1>7, <1>8 DEF AppCall

-----------------------------------------------------------------------------
(* One user data record of the system. *)

\* What has happened stays so.
LEMMA NeverBefore ==
    ASSUME happened \subseteq happened', NEW S, Never(S)'
    PROVE  Never(S)
  BY DEF Never

\* What excludes more happenings excludes less.
LEMMA NeverParts ==
    ASSUME NEW S, NEW T, S \subseteq T, Never(T)
    PROVE  Never(S)
  BY DEF Never

\* The same of the next state.
LEMMA NeverPartsNext ==
    ASSUME NEW S, NEW T, S \subseteq T, Never(T)'
    PROVE  Never(S)'
  BY DEF Never

\* What is unread are packets, as many as are queued.
LEMMA UnreadIs ==
    ASSUME LinkInv, NEW u \in Slots
    PROVE  /\ Unread(u) \in Seq(Packets)
           /\ Len(Unread(u)) = Len(data[u].packets_in)
           /\ Unread(u) = <<>> <=> data[u].packets_in = <<>>
<1>1. /\ data[u].packets_in \in Seq(Handles)
      /\ \A h \in BlocksOf(u) : block[h] \in Packets
  BY Parts, OfOne
<1>2. \A h \in Held(data[u].packets_in) : block[h] \in Packets
  BY <1>1 DEF BlocksOf
<1> QED
  BY <1>1, <1>2, ContentsOf DEF Unread

\* A step that leaves v's record, blocks and connection alone.
Untouched(v) ==
    /\ data'[v] = data[v]
    /\ \A h \in BlocksOf(v) : block'[h] = block[h]
    /\ Never({"aborted"})' => \A j \in Refs(v)' : conn'[j] = conn[j]
    /\ Never({"aborted", "refused"})' =>
           \A j \in Refs(v)' : received'[conn[j].peer] = received[conn[j].peer]

\* User data a step does not touch stays as the invariant wants it.
LEMMA UntouchedKeeps ==
    ASSUME NEW v \in Slots, UserOK(v), happened \subseteq happened', Untouched(v)
    PROVE  /\ UserOK(v)'
           /\ BlocksOf(v)' = BlocksOf(v)
           /\ Unread(v)' = Unread(v)
           /\ Never({"aborted"})' =>
                  \A p : Whose(v, p) => Whose(v, p)'
<1>1. BlocksOf(v)' = BlocksOf(v)
  BY DEF BlocksOf, Untouched
<1>2. Unread(v)' = Unread(v)
  <2>1. \A h \in Held(data[v].packets_in) : block'[h] = block[h]
    BY DEF Untouched, BlocksOf
  <2> QED
    BY <2>1, ContentsSame DEF Untouched, Unread
<1>3. Never({"aborted"})' => \A j \in Refs(v)' : j \in Refs(v) /\ conn'[j] = conn[j]
  BY DEF Untouched, Refs
<1>4. Never({"aborted"})' => \A p : Whose(v, p) => Whose(v, p)'
  BY <1>2, <1>3 DEF Whose
<1>5. OpenOK(v)'
  BY <1>3, NeverBefore DEF UserOK, OpenOK, Untouched
<1>6. DrainedOK(v)'
  BY NeverBefore DEF UserOK, DrainedOK, Untouched
<1>7. OneSender(v)'
  BY <1>4, NeverBefore DEF UserOK, OneSender
<1>8. InOrder(v)'
  <2> SUFFICES ASSUME Never({"aborted", "refused"})'
               PROVE  /\ Run(Unread(v)')
                      /\ \A i \in Refs(v)' : Ends(Unread(v)', conn'[i].peer,
                                                  received'[conn'[i].peer])
    BY DEF InOrder
  <2>1. Never({"aborted", "refused"}) /\ Never({"aborted"})'
    BY NeverBefore, NeverPartsNext
  <2>2. \A i \in Refs(v) : Ends(Unread(v), conn[i].peer, received[conn[i].peer])
    BY <2>1 DEF UserOK, InOrder
  <2>3. Run(Unread(v)')
    BY <1>2, <2>1 DEF UserOK, InOrder
  <2>4. ASSUME NEW i \in Refs(v)'
        PROVE  Ends(Unread(v)', conn'[i].peer, received'[conn'[i].peer])
    <3>1. i \in Refs(v) /\ conn'[i] = conn[i]
      BY <1>3, <2>1
    <3>2. received'[conn[i].peer] = received[conn[i].peer]
      BY DEF Untouched
    <3> QED
      BY <1>2, <2>2, <3>1, <3>2
  <2> QED
    BY <2>3, <2>4
<1>9. OwnAnswer(v)'
  <2> SUFFICES ASSUME Never({"aborted", "orphaned"})',
                      NEW i \in Refs(v)', NEW h \in Held(data'[v].packets_out)
               PROVE  block'[h].peer = conn'[i].peer
    BY DEF OwnAnswer
  <2>1. Never({"aborted", "orphaned"}) /\ Never({"aborted"})'
    BY NeverBefore, NeverPartsNext
  <2>2. i \in Refs(v) /\ conn'[i] = conn[i]
    BY <1>3, <2>1
  <2>3. h \in Held(data[v].packets_out) /\ block'[h] = block[h]
    BY DEF Untouched, BlocksOf
  <2> QED
    BY <2>1, <2>2, <2>3 DEF UserOK, OwnAnswer
<1> QED
  BY <1>1, <1>2, <1>4, <1>5, <1>6, <1>7, <1>8, <1>9 DEF UserOK

\* A step that touches only one record of user data, and loses no block of it.
LEMMA OneUser ==
    ASSUME NEW u \in Slots, happened \subseteq happened', NoLeak,
           \A v \in Slots : UserOK(v),
           \A v \in Slots \ {u} : Untouched(v),
           UserOK(u)',
           Never({"orphaned"})' =>
               \A h \in Handles : block'[h] # Free =>
                   h \in BlocksOf(u)' \/ (h \notin BlocksOf(u) /\ block[h] # Free)
    PROVE  (\A v \in Slots : UserOK(v)') /\ NoLeak'
<1>1. \A v \in Slots \ {u} : UserOK(v)' /\ BlocksOf(v)' = BlocksOf(v)
  BY UntouchedKeeps
<1>2. \A v \in Slots : UserOK(v)'
  BY <1>1
<1>3. ASSUME Never({"orphaned"})', NEW h \in Handles, block'[h] # Free
      PROVE  \E v \in Slots : h \in BlocksOf(v)'
  <2>1. CASE h \in BlocksOf(u)'
    BY <2>1
  <2>2. CASE h \notin BlocksOf(u) /\ block[h] # Free
    <3>1. PICK v \in Slots : h \in BlocksOf(v)
      BY <1>3, <2>2, NeverBefore DEF NoLeak
    <3> QED
      BY <1>1, <2>2, <3>1
  <2> QED
    BY <1>3, <2>1, <2>2
<1> QED
  BY <1>2, <1>3 DEF NoLeak

-----------------------------------------------------------------------------
(* UIP_APPCALL() in the system. *)

\* The step of a connection i that calls uipclient_appcall() with user data.
Carried(i, c, u, d, flags, packet) ==
    /\ Called(i, u, d)
    /\ c \in Connections /\ Named(c)
    /\ c.appstate = u /\ c.peer = conn[i].peer
    /\ Notify(i, c, u, d, flags, packet)
    /\ "NEWDATA" \in flags =>
           /\ c.peer \in Peers
           /\ packet = NextPacket(c.peer)
           /\ packet \in Packets
    /\ \A p \in Peers : received'[p] = IF "NEWDATA" \in flags /\ p = c.peer
                                       THEN received[p] + 1 ELSE received[p]
    /\ UNCHANGED <<known, loopVars>>
    /\ Never({"aborted"})' =>
           \/ Leaving(flags)
           \/ /\ c.tcp = "ESTABLISHED"
              /\ WindowOf(c, d)
              /\ "NEWDATA" \in flags /\ ~Shut(d) => "RESTART" \notin d.state

\* What it does to the queues, in terms of the variables.
Moved(i, c, u, d, flags, packet) ==
    /\ \A j \in Slots \ {i} : conn'[j] = conn[j]
    /\ \A v \in Slots \ {u} : data'[v] = data[v]
    /\ \A v \in Slots \ {u} : \A h \in BlocksOf(v) : block'[h] = block[h]
    /\ \A h \in BlocksOf(u) \cap BlocksOf(u)' : block'[h] = block[h]
    /\ Carries([c |-> c, d |-> d, b |-> block],
               [c |-> conn'[i], d |-> data'[u], b |-> block'], flags, packet)

\* What a notification does, seen in the unread of its user data.
LEMMA CarriedMoves ==
    ASSUME LinkInv, NEW i \in Slots, NEW u \in Slots, NEW c, NEW d, NEW flags,
           NEW packet, Carried(i, c, u, d, flags, packet)
    PROVE  Moved(i, c, u, d, flags, packet)
<1> DEFINE m == [c |-> c, d |-> d, b |-> block]
           n == AppCall(m, flags, packet)
           o == [c |-> conn'[i], d |-> data'[u], b |-> block']
<1>0. StackInv
  BY Parts
<1>1. /\ Fine(m)
      /\ Attached(m)
      /\ HeldBy(m) \in {BlocksOf(u), {}}
  BY <1>0, CalledFine DEF Carried
<1>2. "NEWDATA" \in flags => packet \in Packets
  BY DEF Carried
<1>3. Fine(n) /\ Harmless(m, n) /\ Carries(m, n, flags, packet)
  BY <1>1, <1>2, AppCallSound, AppCallCarries
<1>4. /\ conn' = [conn EXCEPT ![i] = n.c]
      /\ data' = [data EXCEPT ![u] = n.d]
      /\ block' = n.b
  BY NullNotSlot DEF Carried, Notify
<1>5. m.b = block
  OBVIOUS
<1> HIDE DEF m, n
<1>6. /\ conn'[i] = n.c
      /\ data'[u] = n.d
      /\ \A j \in Slots \ {i} : conn'[j] = conn[j]
      /\ \A v \in Slots \ {u} : data'[v] = data[v]
  BY <1>0, <1>4 DEF StackInv
<1>7. o.c = n.c /\ o.d = n.d /\ o.b = n.b
  BY <1>4, <1>6
<1> HIDE DEF o
<1>8. Carries(m, o, flags, packet)
  BY <1>3, <1>7 DEF Carries, HeldBy
<1>9. \A v \in Slots \ {u} : \A h \in BlocksOf(v) : block'[h] = block[h]
  <2> SUFFICES ASSUME NEW v \in Slots \ {u}, NEW h \in BlocksOf(v)
               PROVE  block'[h] = block[h]
    OBVIOUS
  <2>1. h \in Handles /\ block[h] # Free
    BY <1>0, OfOne
  <2>2. h \notin HeldBy(m)
    <3>1. BlocksOf(v) \cap BlocksOf(u) = {}
      BY <1>0 DEF StackInv, HeldOnce
    <3> QED
      BY <1>1, <3>1
  <2> QED
    BY <1>3, <1>4, <1>5, <2>1, <2>2 DEF Harmless
<1>10. \A h \in BlocksOf(u) \cap BlocksOf(u)' : block'[h] = block[h]
  <2> SUFFICES ASSUME NEW h \in BlocksOf(u), h \in BlocksOf(u)'
               PROVE  block'[h] = block[h]
    OBVIOUS
  <2>1. h \in HeldBy(n) /\ h \in Handles /\ block[h] # Free /\ n.b[h] # Free
    <3>1. h \in HeldBy(n)
      BY <1>6 DEF BlocksOf, HeldBy
    <3> QED
      BY <1>0, <1>3, <3>1, OfOne DEF Fine
  <2>2. CASE h \in HeldBy(m)
    BY <1>3, <1>4, <1>5, <2>1, <2>2 DEF Carries
  <2>3. CASE h \notin HeldBy(m)
    BY <1>3, <1>4, <1>5, <2>1, <2>3 DEF Harmless
  <2> QED
    BY <2>2, <2>3
<1> QED
  BY <1>6, <1>8, <1>9, <1>10 DEF Moved, m, o

\* Free user data that the call claims has nothing unread.
LEMMA ClaimedEmpty ==
    ASSUME LinkInv, NEW i \in Slots, NEW u \in Slots, NEW d, Called(i, u, d)
    PROVE  /\ d.packets_in = data[u].packets_in
           /\ \/ conn[i].appstate = u /\ d = data[u]
              \/ /\ data[u].state = {} /\ d = FreshData(i)
                 /\ conn[i].appstate = NULL
                 /\ Unread(u) = <<>>
                 /\ d.packets_out = <<>>
<1>1. CASE conn[i].appstate = u /\ d = data[u]
  BY <1>1
<1>2. CASE conn[i].appstate = NULL /\ data[u].state = {} /\ d = FreshData(i)
  <2>1. data[u].packets_in = <<>> /\ d.packets_in = <<>> /\ d.packets_out = <<>>
    BY <1>2, Parts, OfOne DEF Marked, FreshData
  <2> QED
    BY <1>2, <2>1, UnreadIs
<1> QED
  BY <1>1, <1>2, NullNotSlot DEF Called

\* What is unread grows by the packet, or not at all.
LEMMA CarriedUnread ==
    ASSUME LinkInv, LinkInv', NEW i \in Slots, NEW u \in Slots, NEW c, NEW d,
           NEW flags, NEW packet, Carried(i, c, u, d, flags, packet)
    PROVE  IF "NEWDATA" \in flags /\ ~Shut(d) /\ Room(d, block)
           THEN Unread(u)' = Append(Unread(u), packet)
           ELSE Unread(u)' = Unread(u)
<1> DEFINE q == data[u].packets_in
           r == data'[u].packets_in
<1>1. Moved(i, c, u, d, flags, packet)
  BY CarriedMoves
<1>2. d.packets_in = q
  BY ClaimedEmpty DEF Carried
<1>3. q \in Seq(Handles) /\ \A g \in BlocksOf(u) : block[g] \in Packets
  BY Parts, OfOne
<1>4. \A g \in Held(q) : g \in Held(r) => block'[g] = block[g]
  BY <1>1 DEF Moved, BlocksOf
<1>5. CASE "NEWDATA" \in flags /\ ~Shut(d) /\ Room(d, block)
  <2>1. PICK h \in Handles : r = Append(q, h) /\ block'[h] = packet
    BY <1>1, <1>2, <1>5 DEF Moved, Carries
  <2>2. packet \in Packets
    BY <1>5 DEF Carried
  <2>3. Held(r) = Held(q) \cup {h}
    BY <1>3, <2>1, HeldAppend
  <2>4. \A g \in Held(q) : block'[g] = block[g] /\ block'[g] \in Packets
    BY <1>3, <1>4, <2>3 DEF BlocksOf
  <2> HIDE DEF q, r
  <2>5. Contents(r, block') = Append(Contents(q, block'), packet)
    BY <1>3, <2>1, <2>2, <2>4, ContentsAppend
  <2>6. Contents(q, block') = Contents(q, block)
    BY <2>4, ContentsSame
  <2> QED
    BY <1>5, <2>5, <2>6 DEF Unread, q, r
<1>6. CASE ~("NEWDATA" \in flags /\ ~Shut(d) /\ Room(d, block))
  <2>1. r = q
    BY <1>1, <1>2, <1>6 DEF Moved, Carries
  <2>2. Contents(q, block') = Contents(q, block)
    BY <1>4, <2>1, ContentsSame
  <2>3. Unread(u)' = Unread(u)
    BY <2>1, <2>2 DEF Unread
  <2> QED
    BY <1>6, <2>3
<1> QED
  BY <1>5, <1>6

\* A notification only adds to what has happened.
LEMMA NotifyHappens ==
    ASSUME NEW i, NEW c, NEW u, NEW d, NEW flags, NEW packet,
           Notify(i, c, u, d, flags, packet)
    PROVE  /\ happened \subseteq happened'
           /\ Happening(u, d, flags) \subseteq happened'
  BY DEF Notify

\* The connections of the user data, before and after.
LEMMA CarriedRefs ==
    ASSUME LinkInv, NEW i \in Slots, NEW u \in Slots, NEW c, NEW d, NEW flags,
           NEW packet, Carried(i, c, u, d, flags, packet)
    PROVE  /\ \A j \in Refs(u)' : j = i
           /\ \A v \in Slots \ {u} : \A j \in Refs(v)' : j # i
           /\ conn'[i].peer = c.peer /\ conn[i].peer = c.peer
           /\ i \in Refs(u)' => ~Leaving(flags) /\ conn'[i].tcp = c.tcp
<1>1. Moved(i, c, u, d, flags, packet) /\ OwnedData /\ u # NULL
  BY CarriedMoves, NullNotSlot DEF LinkInv
<1>2. /\ conn'[i].appstate \in {c.appstate, NULL}
      /\ conn'[i].peer = c.peer
      /\ conn'[i].appstate # NULL => conn'[i].tcp = c.tcp /\ ~Leaving(flags)
  BY <1>1 DEF Moved, Carries
<1>3. c.appstate = u /\ c.peer = conn[i].peer /\ Called(i, u, d)
  BY DEF Carried
<1>4. \A j \in Slots \ {i} : conn[j].appstate # u
  BY <1>1, <1>3, OwnedMeans, NullNotSlot DEF Called
<1>5. \A j \in Refs(u)' : j = i
  BY <1>1, <1>4 DEF Refs, Moved
<1>6. \A v \in Slots \ {u} : \A j \in Refs(v)' : j # i
  BY <1>2, <1>3, NullNotSlot DEF Refs
<1>7. i \in Refs(u)' => conn'[i].appstate # NULL
  BY <1>1 DEF Refs
<1> QED
  BY <1>2, <1>3, <1>5, <1>6, <1>7

\* What is unread before is the peer's.
LEMMA CarriedBefore ==
    ASSUME LinkInv, NEW i \in Slots, NEW u \in Slots, NEW d, Called(i, u, d),
           UserOK(u)
    PROVE  /\ Never({"aborted"}) => From(Unread(u), conn[i].peer)
           /\ Never({"aborted", "refused"}) =>
                  Run(Unread(u))
                  /\ Ends(Unread(u), conn[i].peer, received[conn[i].peer])
           /\ Shut(d) => Unread(u) = <<>>
<1>1. CASE conn[i].appstate = u /\ d = data[u]
  <2>1. i \in Refs(u)
    BY <1>1 DEF Refs
  <2>2. Never({"aborted"}) => From(Unread(u), conn[i].peer)
    BY <2>1 DEF UserOK, OneSender, Whose
  <2>3. Never({"aborted", "refused"}) =>
            Run(Unread(u))
            /\ Ends(Unread(u), conn[i].peer, received[conn[i].peer])
    BY <2>1 DEF UserOK, InOrder
  <2>4. Shut(d) => data[u].packets_in = <<>>
    BY <1>1, Parts, OfOne, OwnedMeans DEF Shut, Marked, StackInv
  <2> QED
    BY <2>2, <2>3, <2>4, UnreadIs
<1>2. CASE Unread(u) = <<>>
  BY <1>2, EmptySegments
<1> QED
  BY <1>1, <1>2, ClaimedEmpty

\* ... and so is what is unread after.
LEMMA CarriedAfter ==
    ASSUME LinkInv, LinkInv', NEW i \in Slots, NEW u \in Slots, NEW c, NEW d,
           NEW flags, NEW packet, Carried(i, c, u, d, flags, packet), UserOK(u)
    PROVE  /\ Never({"aborted"})' => From(Unread(u)', c.peer)
           /\ Never({"aborted", "refused"})' =>
                  /\ Run(Unread(u)')
                  /\ c.peer \in Peers =>
                         Ends(Unread(u)', c.peer, received'[c.peer])
<1> DEFINE p == c.peer
           r == received[p]
           stores == "NEWDATA" \in flags /\ ~Shut(d) /\ Room(d, block)
<1>0. /\ Unread(u) \in Seq(Packets)
      /\ IF stores THEN Unread(u)' = Append(Unread(u), packet)
         ELSE Unread(u)' = Unread(u)
  BY UnreadIs, CarriedUnread
<1>1. /\ Called(i, u, d)
      /\ p = conn[i].peer
      /\ \A q \in Peers : received'[q] = IF "NEWDATA" \in flags /\ q = p
                                         THEN received[q] + 1 ELSE received[q]
      /\ happened \subseteq happened'
      /\ Happening(u, d, flags) \subseteq happened'
  BY NotifyHappens DEF Carried
<1>2. "NEWDATA" \in flags => /\ p \in Peers
                             /\ packet = [peer |-> p, n |-> r + 1]
                             /\ packet \in Packets
  BY DEF Carried, NextPacket
<1>3. p \in Peers => r \in Nat
  BY LinkAssumption DEF LinkInv, TypeOK
<1>4. /\ Never({"aborted"})' => From(Unread(u), p)
      /\ Never({"aborted", "refused"})' => Run(Unread(u)) /\ Ends(Unread(u), p, r)
      /\ Shut(d) => Unread(u) = <<>>
  BY <1>1, CarriedBefore, NeverBefore
<1> HIDE DEF r, p
<1>5. CASE stores
  <2>1. p \in Peers /\ r \in Nat /\ packet \in Packets /\ packet.peer = p
    BY <1>2, <1>3, <1>5
  <2>2. Never({"aborted"})' => From(Unread(u)', p)
    BY <1>0, <1>4, <1>5, <2>1, AppendSegment
  <2>3. ASSUME Never({"aborted", "refused"})'
        PROVE  Run(Unread(u)') /\ Ends(Unread(u)', p, received'[p])
    <3>1. Ends(Append(Unread(u), packet), p, r + 1)
      BY <1>0, <1>2, <1>4, <1>5, <2>1, <2>3, AppendSegment
    <3>2. received'[p] = r + 1
      BY <1>1, <1>5, <2>1 DEF r
    <3>3. Append(Unread(u), packet) \in Seq(Packets) /\ r + 1 \in Nat
      BY <1>0, <2>1
    <3>4. Run(Append(Unread(u), packet))
      BY <3>1, <3>3, EndsRun
    <3> QED
      BY <1>0, <1>5, <3>1, <3>2, <3>4
  <2> QED
    BY <2>2, <2>3 DEF p
<1>6. CASE ~stores /\ "NEWDATA" \notin flags
  <2>1. p \in Peers => received'[p] = r
    BY <1>1, <1>6 DEF r
  <2> QED
    BY <1>0, <1>4, <1>6, <2>1 DEF p
<1>7. CASE ~stores /\ "NEWDATA" \in flags
  <2>1. CASE Shut(d)
    <3>1. Unread(u)' = <<>>
      BY <1>0, <1>4, <1>7, <2>1
    <3> QED
      BY <3>1, EmptySegments
  <2>2. CASE ~Shut(d)
    <3>1. "refused" \in Happening(u, d, flags)
      BY <1>7, <2>2 DEF Happening, Happenings
    <3>2. ~Never({"aborted", "refused"})'
      BY <1>1, <3>1 DEF Never
    <3> QED
      BY <1>0, <1>4, <1>7, <3>2 DEF p
  <2> QED
    BY <2>1, <2>2
<1> QED
  BY <1>5, <1>6, <1>7

\* A notification keeps what is said of its own user data.
LEMMA CarriedUser ==
    ASSUME LinkInv, LinkInv', NEW i \in Slots, NEW u \in Slots, NEW c, NEW d,
           NEW flags, NEW packet, Carried(i, c, u, d, flags, packet), UserOK(u)
    PROVE  /\ UserOK(u)'
           /\ Never({"aborted"})' => Whose(u, c.peer)'
<1>0. /\ Moved(i, c, u, d, flags, packet)
      /\ Called(i, u, d)
      /\ Named(c)
      /\ happened \subseteq happened'
      /\ c.peer = conn[i].peer
  BY CarriedMoves, NotifyHappens DEF Carried
<1>1. /\ \A j \in Refs(u)' : j = i
      /\ conn'[i].peer = c.peer
      /\ i \in Refs(u)' => ~Leaving(flags) /\ conn'[i].tcp = c.tcp
  BY CarriedRefs
<1>2. ASSUME Never({"aborted"})', i \in Refs(u)'
      PROVE  /\ conn'[i].tcp = "ESTABLISHED"
             /\ WindowOf(conn'[i], data'[u])
             /\ c.peer \in Peers
  <2>1. /\ c.tcp = "ESTABLISHED"
        /\ WindowOf(c, d)
        /\ "NEWDATA" \in flags /\ ~Shut(d) => "RESTART" \notin d.state
    BY <1>1, <1>2 DEF Carried
  <2>2. conn'[i].appstate # NULL
    BY <1>2, NullNotSlot DEF Refs
  <2> QED
    BY <1>0, <1>1, <1>2, <2>1, <2>2 DEF Moved, Carries, Named
<1>3. OpenOK(u)'
  BY <1>1, <1>2 DEF OpenOK
<1>4. DrainedOK(u)'
  BY <1>0 DEF Moved, Carries, DrainedOK
<1>5. Never({"aborted"})' => Whose(u, c.peer)'
  BY <1>1, CarriedAfter DEF Whose
<1>6. OneSender(u)'
  <2>1. c.peer \in Peers \cup {Nobody}
    BY DEF Carried, Connections
  <2> QED
    BY <1>5, <2>1 DEF OneSender
<1>7. InOrder(u)'
  <2> SUFFICES ASSUME Never({"aborted", "refused"})'
               PROVE  /\ Run(Unread(u)')
                      /\ \A j \in Refs(u)' : Ends(Unread(u)', conn'[j].peer,
                                                  received'[conn'[j].peer])
    BY DEF InOrder
  <2>1. Never({"aborted"})'
    BY NeverPartsNext
  <2> QED
    BY <1>1, <1>2, <2>1, CarriedAfter
<1>8. OwnAnswer(u)'
  <2> SUFFICES ASSUME Never({"aborted", "orphaned"})',
                      NEW j \in Refs(u)', NEW h \in Held(data'[u].packets_out)
               PROVE  block'[h].peer = conn'[j].peer
    BY DEF OwnAnswer
  <2>1. h \in Held(d.packets_out)
    BY <1>0 DEF Moved, Carries
  <2>2. d.packets_out # <<>>
    BY <2>1, HeldEmpty
  <2>3. conn[i].appstate = u /\ d = data[u]
    BY <1>0, <2>2, ClaimedEmpty
  <2>4. block[h].peer = conn[i].peer
    BY <1>0, <2>1, <2>3, NeverBefore DEF UserOK, OwnAnswer, Refs
  <2>5. block'[h] = block[h]
    BY <1>0, <2>1, <2>3 DEF Moved, BlocksOf
  <2> QED
    BY <1>0, <1>1, <2>4, <2>5
<1> QED
  BY <1>3, <1>4, <1>5, <1>6, <1>7, <1>8 DEF UserOK

\* The rest of the system, as the appcall leaves it.
LEMMA CarriedOthers ==
    ASSUME DeliveryInv, LinkInv', NEW i \in Slots, NEW u \in Slots, NEW c, NEW d,
           NEW flags, NEW packet, Carried(i, c, u, d, flags, packet)
    PROVE  /\ \A v \in Slots \ {u} : Untouched(v)
           /\ (\A v \in Slots : UserOK(v)') /\ NoLeak'
           /\ PeersOnce'
<1>0. /\ LinkInv /\ PeersOnce /\ NoLeak
      /\ \A v \in Slots : UserOK(v)
  BY DEF DeliveryInv
<1>1. /\ Moved(i, c, u, d, flags, packet)
      /\ Called(i, u, d)
      /\ happened \subseteq happened'
      /\ c.peer = conn[i].peer
      /\ conn'[i].peer = c.peer
      /\ \A p \in Peers : p # c.peer => received'[p] = received[p]
      /\ known' = known
  BY <1>0, CarriedMoves, CarriedRefs, NotifyHappens DEF Carried
<1>2. ASSUME NEW v \in Slots \ {u}
      PROVE  Untouched(v)
  <2>1. ASSUME NEW j \in Refs(v)'
        PROVE  j \in Slots \ {i} /\ conn'[j] = conn[j] /\ j \in Refs(v)
    <3>1. j \in Slots \ {i}
      BY <1>0, CarriedRefs DEF Refs
    <3> QED
      BY <1>1, <3>1 DEF Moved, Refs
  <2>2. ASSUME Never({"aborted", "refused"})', NEW j \in Refs(v)'
        PROVE  received'[conn[j].peer] = received[conn[j].peer]
    <3>1. j \in Slots \ {i} /\ j \in Refs(v)
      BY <2>1
    <3>2. Never({"aborted"})
      BY <1>1, <2>2, NeverBefore, NeverParts
    <3>3. conn[j].tcp = "ESTABLISHED"
      BY <1>0, <3>1, <3>2 DEF UserOK, OpenOK
    <3>4. conn[j].peer \in Peers /\ conn[j].peer # Nobody
      BY <1>0, <3>1, <3>3, LinkAssumption DEF LinkInv, PeersOK, Named
    <3>5. conn[j].peer # conn[i].peer
      BY <1>0, <3>1, <3>4 DEF PeersOnce
    <3> QED
      BY <1>1, <3>4, <3>5
  <2> QED
    BY <1>1, <2>1, <2>2 DEF Moved, Untouched
<1>3. UserOK(u)'
  BY <1>0, CarriedUser
<1>4. ASSUME Never({"orphaned"})', NEW h \in Handles, block'[h] # Free
      PROVE  h \in BlocksOf(u)' \/ (h \notin BlocksOf(u) /\ block[h] # Free)
  <2> DEFINE m == [c |-> c, d |-> d, b |-> block]
             n == [c |-> conn'[i], d |-> data'[u], b |-> block']
  <2>1. HeldBy(n) = BlocksOf(u)'
    BY DEF HeldBy, BlocksOf
  <2>2. h \in HeldBy(n) \/ (h \notin HeldBy(m) /\ block[h] # Free)
    BY <1>1, <1>4 DEF Moved, Carries
  <2>3. BlocksOf(u) \subseteq HeldBy(m)
    <3>1. CASE d = data[u]
      BY <3>1 DEF HeldBy, BlocksOf
    <3>2. CASE data[u].state = {} /\ Unread(u) = <<>>
      <4>1. data[u].packets_in = <<>>
        BY <1>0, <3>2, UnreadIs
      <4>2. data[u].packets_out = <<>>
        BY <1>0, <1>1, <1>4, <3>2, NeverBefore DEF UserOK, DrainedOK, Drained
      <4> QED
        BY <4>1, <4>2, HeldEmpty DEF BlocksOf
    <3> QED
      BY <1>0, <1>1, <3>1, <3>2, ClaimedEmpty
  <2> HIDE DEF m, n
  <2> QED
    BY <2>1, <2>2, <2>3
<1>5. (\A v \in Slots : UserOK(v)') /\ NoLeak'
  BY <1>0, <1>1, <1>2, <1>3, <1>4, OneUser
<1>6. PeersOnce'
  <2>1. \A j \in Slots : conn'[j].peer = conn[j].peer
    BY <1>1 DEF Moved
  <2> QED
    BY <1>0, <1>1, <2>1 DEF PeersOnce
<1> QED
  BY <1>2, <1>5, <1>6

\* Every notification keeps the invariant, whatever it is about.
LEMMA CarriedKeeps ==
    ASSUME DeliveryInv, LinkInv', NEW i \in Slots, NEW u \in Slots, NEW c, NEW d,
           NEW flags, NEW packet, Carried(i, c, u, d, flags, packet)
    PROVE  DeliveryInv'
<1>0. /\ LinkInv
      /\ \A v \in Slots : UserOK(v)
      /\ ClientOK /\ AskerOK /\ GoesOnOK /\ RequestWhole
  BY DEF DeliveryInv
<1>1. /\ Moved(i, c, u, d, flags, packet)
      /\ Called(i, u, d)
      /\ happened \subseteq happened'
      /\ Happening(u, d, flags) \subseteq happened'
      /\ c.peer = conn[i].peer
      /\ UNCHANGED <<pc, client, remaining, written, request>>
  BY <1>0, CarriedMoves, NotifyHappens DEF Carried, loopVars
<1>2. /\ \A v \in Slots \ {u} : Untouched(v)
      /\ (\A v \in Slots : UserOK(v)') /\ NoLeak' /\ PeersOnce'
  BY CarriedOthers
<1>3. \A v \in Slots \ {u} :
          /\ Unread(v)' = Unread(v)
          /\ Never({"aborted"})' => \A p : Whose(v, p) => Whose(v, p)'
  BY <1>0, <1>1, <1>2, UntouchedKeeps
<1>4. client \in Slots \cup {NULL} /\ NULL \notin Slots
  BY <1>0, NullNotSlot DEF LinkInv, TypeOK
<1>5. ClientOK'
  <2> SUFFICES ASSUME Never({"orphaned"})', client # NULL
               PROVE  /\ data'[client].state # {}
                      /\ "CLOSE" \notin data'[client].state
    BY <1>1 DEF ClientOK
  <2>1. data[client].state # {} /\ "CLOSE" \notin data[client].state
    BY <1>0, <1>1, NeverBefore DEF ClientOK
  <2>2. CASE client # u
    BY <1>1, <1>4, <2>1, <2>2 DEF Moved
  <2>3. CASE client = u
    <3>1. d = data[u]
      BY <1>0, <1>1, <2>1, <2>3, ClaimedEmpty
    <3>2. "CLOSE" \notin data'[u].state
      BY <1>1, <2>1, <2>3, <3>1 DEF Moved, Carries
    <3>3. ASSUME data'[u].state = {}
          PROVE  FALSE
      <4>1. Leaving(flags) /\ d.packets_in = <<>>
        BY <1>1, <2>1, <2>3, <3>1, <3>3 DEF Moved, Carries
      <4>2. "orphaned" \in Happening(u, d, flags)
        BY <1>4, <2>3, <4>1 DEF Happening, Happenings
      <4> QED
        BY <1>1, <4>2 DEF Never
    <3> QED
      BY <2>3, <3>2, <3>3
  <2> QED
    BY <2>2, <2>3
<1>6. AskerOK'
  <2> SUFFICES ASSUME Never({"aborted", "orphaned"})', client # NULL,
                      pc = "read" \/ Answering, request # <<>>
               PROVE  Whose(client, request[1].peer)'
    BY <1>1 DEF AskerOK, Answering
  <2>1. PICK k \in Slots, p \in Peers \cup {Nobody, request[1].peer} :
            k = client /\ p = request[1].peer
    BY <1>4
  <2>2. /\ Never({"aborted", "orphaned"}) /\ Never({"aborted"})'
        /\ Never({"orphaned"})
    BY <1>1, NeverBefore, NeverParts, NeverPartsNext
  <2>3. Whose(k, p)
    BY <1>0, <2>1, <2>2 DEF AskerOK
  <2>4. Whose(k, p)'
    <3>1. CASE k # u
      BY <1>3, <2>2, <2>3, <3>1
    <3>2. CASE k = u
      <4>1. data[u].state # {}
        BY <1>0, <2>1, <2>2, <3>2 DEF ClientOK
      <4>2. i \in Refs(u)
        BY <1>0, <1>1, <4>1, ClaimedEmpty DEF Refs
      <4>3. p = c.peer
        BY <1>1, <2>3, <3>2, <4>2 DEF Whose
      <4>4. From(Unread(u)', c.peer) /\ \A j \in Refs(u)' : conn'[j].peer = c.peer
        BY <1>0, <2>2, CarriedUser DEF Whose
      <4> QED
        BY <3>2, <4>3, <4>4 DEF Whose
    <3> QED
      BY <3>1, <3>2
  <2>5. client' = k /\ request'[1].peer = p
    BY <1>1, <2>1
  <2>6. Whose(client, request[1].peer)'
        <=> From(Contents(data'[client'].packets_in, block'), request'[1].peer)
            /\ \A j \in Refs(client)' : conn'[j].peer = request'[1].peer
    BY DEF Whose, Unread
  <2>7. Refs(client)' = Refs(k)'
    BY <2>5 DEF Refs
  <2>8. /\ From(Contents(data'[k].packets_in, block'), p)
         /\ \A j \in Refs(k)' : conn'[j].peer = p
    BY <2>4 DEF Whose, Unread
  <2> QED
    BY <2>5, <2>6, <2>7, <2>8
<1>7. GoesOnOK'
  <2> SUFFICES ASSUME Never({"aborted", "refused"})', pc = "read", remaining > 0
               PROVE  Run(request \o Unread(client)')
    BY <1>1 DEF GoesOnOK
  <2>1. Run(request \o Unread(client))
    BY <1>0, <1>1, NeverBefore DEF GoesOnOK
  <2>2. client \in Slots /\ remaining <= Len(data[client].packets_in) /\ remaining \in Nat
    BY <1>0, <1>4 DEF LinkInv, ReadingOK, TypeOK
  <2>3. PICK k \in Slots : k = client
    BY <2>2
  <2>4. /\ Unread(k) \in Seq(Packets)
        /\ Unread(k) # <<>>
        /\ request \in Seq(Packets)
    <3>1. Len(Unread(k)) # 0 /\ Unread(k) \in Seq(Packets)
      <4>1. remaining <= Len(data[k].packets_in)
        BY <2>2, <2>3
      <4>2. data[k].packets_in \in Seq(Handles)
        BY <1>0, Parts, OfOne
      <4>3. Len(data[k].packets_in) # 0
        BY <2>2, <4>1, <4>2
      <4> QED
        BY <1>0, <4>3, UnreadIs
    <3>2. Unread(k) # <<>>
      BY <3>1
    <3> QED
      BY <1>0, <3>1, <3>2 DEF LinkInv, TypeOK
  <2>5. Run(request \o Unread(k))
    BY <2>1, <2>3
  <2>6. Run(request \o Unread(k)')
    <3>1. CASE Unread(k)' = Unread(k)
      BY <2>5, <3>1
    <3>2. CASE k = u /\ Unread(u)' = Append(Unread(u), packet) /\ packet \in Packets
      <4>1. Run(Append(Unread(u), packet))
        BY <1>0, <3>2, CarriedAfter
      <4> QED
        BY <2>4, <2>5, <3>2, <4>1, GoesFurther
    <3>3. CASE k = u
      <4>1. "NEWDATA" \in flags => packet \in Packets
        BY DEF Carried
      <4> QED
        BY <1>0, <3>1, <3>2, <3>3, <4>1, CarriedUnread
    <3> QED
      BY <1>3, <3>1, <3>3
  <2>7. Unread(client)' = Unread(k)'
    BY <1>1, <2>3 DEF Unread
  <2> QED
    BY <2>6, <2>7
<1>8. RequestWhole'
  BY <1>0, <1>1, NeverBefore DEF RequestWhole
<1> QED
  BY <1>2, <1>5, <1>6, <1>7, <1>8 DEF DeliveryInv

\* A step that moves only connection i, and that only between records: no user
\* data is its, unless it was aborted, and no segment is taken that is refused.
Quiet(i, c) ==
    /\ conn' = [conn EXCEPT ![i] = c]
    /\ c.appstate = conn[i].appstate
    /\ UNCHANGED <<data, block, loopVars>>
    /\ happened \subseteq happened'
    /\ Never({"aborted"})' => conn[i].appstate = NULL
    /\ Never({"aborted", "refused"})' => UNCHANGED received
    /\ \/ c.peer = conn[i].peer /\ UNCHANGED known
       \/ c.peer \in Peers \ known /\ known' = known \cup {c.peer}

\* A step of the stack that touches no user data keeps the invariant.
LEMMA QuietKeeps ==
    ASSUME DeliveryInv, LinkInv', NEW i \in Slots, NEW c, Quiet(i, c)
    PROVE  DeliveryInv'
<1>0. /\ LinkInv /\ PeersOnce /\ NoLeak
      /\ \A v \in Slots : UserOK(v)
      /\ ClientOK /\ AskerOK /\ GoesOnOK /\ RequestWhole
  BY DEF DeliveryInv
<1>1. /\ UNCHANGED <<data, block>>
      /\ UNCHANGED <<pc, client, remaining, written, request>>
      /\ happened \subseteq happened'
      /\ conn'[i] = c
      /\ \A j \in Slots \ {i} : conn'[j] = conn[j]
  BY <1>0 DEF Quiet, loopVars, LinkInv, TypeOK
<1>2. ASSUME NEW v \in Slots
      PROVE  Untouched(v)
  <2>1. ASSUME Never({"aborted"})', NEW j \in Refs(v)'
        PROVE  conn'[j] = conn[j]
    <3>1. j # i
      BY <1>1, <2>1, NullNotSlot DEF Refs, Quiet
    <3> QED
      BY <1>1, <3>1 DEF Refs
  <2>2. ASSUME Never({"aborted", "refused"})', NEW j \in Refs(v)'
        PROVE  received'[conn[j].peer] = received[conn[j].peer]
    BY <2>2 DEF Quiet
  <2> QED
    BY <1>1, <2>1, <2>2 DEF Untouched
<1>3. \A v \in Slots :
          /\ UserOK(v)'
          /\ BlocksOf(v)' = BlocksOf(v)
          /\ Unread(v)' = Unread(v)
          /\ Never({"aborted"})' => \A p : Whose(v, p) => Whose(v, p)'
  BY <1>0, <1>1, <1>2, UntouchedKeeps
<1>4. NoLeak'
  BY <1>0, <1>1, <1>3, NeverBefore DEF NoLeak
<1>5. PeersOnce'
  <2>1. CASE c.peer = conn[i].peer /\ UNCHANGED known
    BY <1>0, <1>1, <2>1 DEF PeersOnce
  <2>2. CASE c.peer \in Peers \ known /\ known' = known \cup {c.peer}
    <3>1. c.peer # Nobody
      BY <2>2, LinkAssumption
    <3>2. \A j \in Slots \ {i} : conn'[j].peer # c.peer
      BY <1>0, <1>1, <2>2, <3>1 DEF PeersOnce
    <3> QED
      BY <1>0, <1>1, <2>2, <3>2 DEF PeersOnce
  <2> QED
    BY <2>1, <2>2 DEF Quiet
<1>6. ClientOK' /\ RequestWhole'
  BY <1>0, <1>1, NeverBefore DEF ClientOK, RequestWhole
<1>7. AskerOK'
  <2> SUFFICES ASSUME Never({"aborted", "orphaned"})', client # NULL,
                      pc = "read" \/ Answering, request # <<>>
               PROVE  Whose(client, request[1].peer)'
    BY <1>1 DEF AskerOK, Answering
  <2>1. client \in Slots
    BY <1>0 DEF LinkInv, TypeOK
  <2>2. Whose(client, request[1].peer) /\ Never({"aborted"})'
    BY <1>0, <1>1, NeverBefore, NeverPartsNext DEF AskerOK
  <2>3. PICK k \in Slots, p \in {request[1].peer} : k = client /\ p = request[1].peer
    BY <2>1
  <2>4. From(Unread(k), p) /\ \A j \in Refs(k) : conn[j].peer = p
    BY <2>2, <2>3 DEF Whose
  <2>5. Whose(k, p)'
    BY <1>3, <2>2, <2>4 DEF Whose
  <2>6. client' = k /\ request'[1].peer = p
    BY <1>1, <2>3
  <2> QED
    BY <2>5, <2>6 DEF Whose, Unread, Refs
<1>8. GoesOnOK'
  <2>1. Unread(client)' = Unread(client)
    BY <1>1 DEF Unread
  <2> QED
    BY <1>0, <1>1, <2>1, NeverBefore DEF GoesOnOK
<1> QED
  BY <1>3, <1>4, <1>5, <1>6, <1>7, <1>8 DEF DeliveryInv

\* UIP_APPCALL(), with user data or without.
LEMMA NotifiedKeeps ==
    ASSUME DeliveryInv, LinkInv', NEW i \in Slots, NEW u, NEW d,
           NEW c \in Connections, Named(c), c.appstate = u, c.peer = conn[i].peer,
           NEW flags, NEW packet, Called(i, u, d),
           Notify(i, c, u, d, flags, packet),
           "NEWDATA" \in flags => /\ c.peer \in Peers
                                  /\ packet = NextPacket(c.peer)
                                  /\ packet \in Packets,
           \A p \in Peers : received'[p] = IF "NEWDATA" \in flags /\ p = c.peer
                                           THEN received[p] + 1 ELSE received[p],
           UNCHANGED <<known, loopVars>>,
           u \in Slots /\ Never({"aborted"})' =>
               \/ Leaving(flags)
               \/ /\ c.tcp = "ESTABLISHED"
                  /\ WindowOf(c, d)
                  /\ "NEWDATA" \in flags /\ ~Shut(d) => "RESTART" \notin d.state
    PROVE  DeliveryInv'
<1>1. CASE u \in Slots
  <2>1. Carried(i, c, u, d, flags, packet)
    BY <1>1 DEF Carried
  <2> QED
    BY <1>1, <2>1, CarriedKeeps
<1>2. CASE u = NULL
  <2>1. /\ conn' = [conn EXCEPT ![i] = c]
        /\ UNCHANGED <<data, block>>
        /\ conn[i].appstate = NULL
        /\ happened \subseteq happened'
        /\ Happening(u, d, flags) \subseteq happened'
    BY <1>2, NullNotSlot, NotifyHappens DEF Notify, Called
  <2>2. "NEWDATA" \in flags => ~Never({"aborted", "refused"})'
    <3>1. "NEWDATA" \in flags => "refused" \in Happening(u, d, flags)
      BY <1>2 DEF Happening, Happenings
    <3> QED
      BY <2>1, <3>1 DEF Never
  <2>3. "NEWDATA" \notin flags => UNCHANGED received
    <3>1. received \in [Peers -> 0..MaxSegments] /\ received' \in [Peers -> 0..MaxSegments]
      BY DEF DeliveryInv, LinkInv, TypeOK
    <3> QED
      BY <3>1
  <2>4. Quiet(i, c)
    BY <1>2, <2>1, <2>2, <2>3 DEF Quiet
  <2> QED
    BY <2>4, QuietKeeps
<1> QED
  BY <1>1, <1>2 DEF Called

-----------------------------------------------------------------------------
(* uip_process() and the timers *)

\* The connection of user data as the invariant has it.
LEMMA OpenConnection ==
    ASSUME DeliveryInv, NEW i \in Slots, conn[i].appstate \in Slots,
           Never({"aborted"})
    PROVE  /\ conn[i].tcp = "ESTABLISHED"
           /\ WindowOf(conn[i], DataOf(conn[i]))
<1>1. OpenOK(conn[i].appstate) /\ i \in Refs(conn[i].appstate)
  BY DEF DeliveryInv, UserOK, Refs
<1> QED
  BY <1>1, NullNotSlot DEF OpenOK, DataOf

\* A connection request keeps the invariant: its peer is a new one.
LEMMA SynDelivers ==
    ASSUME DeliveryInv, LinkInv', NEW p \in Peers, Syn(p), UNCHANGED loopVars
    PROVE  DeliveryInv'
<1> DEFINE S == {i \in Slots : IsClosed(conn[i])}
           i == Least(S)
           c == [conn[i] EXCEPT !.tcp = "SYN_RCVD", !.peer = p, !.len = "sent"]
<1>1. i \in S
  <2>1. S \in SUBSET Nat /\ S # {}
    BY LinkAssumption DEF Syn, Slots
  <2> HIDE DEF S
  <2> QED
    BY <2>1, LeastIn
<1>2. /\ conn' = [conn EXCEPT ![i] = c]
      /\ UNCHANGED <<data, block, received, happened>>
      /\ p \notin known /\ known' = known \cup {p}
  BY DEF Syn
<1>3. i \in Slots /\ conn[i].tcp = "CLOSED"
  BY <1>1 DEF IsClosed
<1> HIDE DEF i
<1>4. conn[i] \in Connections
  BY <1>3 DEF DeliveryInv, LinkInv, TypeOK
<1>5. c.appstate = conn[i].appstate /\ c.peer = p
  BY <1>4 DEF Connections
<1> HIDE DEF c
<1>6. Never({"aborted"})' => conn[i].appstate = NULL
  <2>1. Never({"aborted"})' => Never({"aborted"})
    BY <1>2 DEF Never
  <2>2. conn[i].appstate \in Slots \cup {NULL}
    BY <1>4 DEF Connections
  <2> QED
    BY <1>3, <2>1, <2>2, OpenConnection
<1>7. Quiet(i, c)
  BY <1>2, <1>5, <1>6 DEF Quiet
<1> QED
  BY <1>3, <1>7, QuietKeeps

\* The states after ESTABLISHED keep the invariant.
LEMMA RunDownDelivers ==
    ASSUME DeliveryInv, LinkInv', NEW i \in Slots, RunDown(i), UNCHANGED loopVars
    PROVE  DeliveryInv'
<1> DEFINE c == [conn[i] EXCEPT !.tcp = "CLOSED", !.len = "none"]
<1>1. conn[i] \in Connections /\ conn \in [Slots -> Connections]
  BY DEF DeliveryInv, LinkInv, TypeOK
<1>2. /\ conn' = [conn EXCEPT ![i] = c]
      /\ UNCHANGED <<data, block, received, known, happened>>
      /\ conn[i].tcp = "CLOSING"
  BY <1>1 DEF RunDown
<1>3. c.appstate = conn[i].appstate /\ c.peer = conn[i].peer
  BY <1>1 DEF Connections
<1> HIDE DEF c
<1>4. Never({"aborted"})' => conn[i].appstate = NULL
  <2>1. Never({"aborted"})' => Never({"aborted"})
    BY <1>2 DEF Never
  <2>2. conn[i].appstate \in Slots \cup {NULL}
    BY <1>1 DEF Connections
  <2> QED
    BY <1>2, <2>1, <2>2, OpenConnection
<1>5. Quiet(i, c)
  BY <1>2, <1>3, <1>4 DEF Quiet
<1> QED
  BY <1>5, QuietKeeps

\* The end of the handshake, with or without data, keeps the invariant.
LEMMA EstablishedDelivers ==
    ASSUME DeliveryInv, LinkInv', NEW i \in Slots, NEW new \in BOOLEAN,
           Established(i, new), UNCHANGED loopVars
    PROVE  DeliveryInv'
<1> DEFINE p    == conn[i].peer
           none == {u \in Slots : ~InUse(data[u])}
           u    == IF conn[i].appstate = NULL /\ none # {} THEN Least(none)
                   ELSE conn[i].appstate
           d    == IF conn[i].appstate = NULL /\ none # {} THEN FreshData(i)
                   ELSE DataOf(conn[i])
           c    == [conn[i] EXCEPT !.tcp = "ESTABLISHED", !.len = "none",
                                   !.appstate = u]
           flags == IF new THEN {"CONNECTED", "NEWDATA"} ELSE {"CONNECTED"}
<1>0. LinkInv /\ StackInv /\ conn[i] \in Connections /\ conn[i].tcp = "SYN_RCVD"
  BY Parts DEF DeliveryInv, StackInv, Established
<1>1. p \in Peers
  BY <1>0 DEF StackInv, PeersOK, Named
<1>2. Called(i, u, d)
  <2>1. CASE conn[i].appstate = NULL /\ none # {}
    <3>1. none \in SUBSET Nat
      BY DEF Slots
    <3> HIDE DEF none
    <3>2. Least(none) \in none
      BY <2>1, <3>1, LeastIn
    <3>3. Least(none) \in Slots /\ data[Least(none)].state = {}
      BY <3>2 DEF none, InUse
    <3> QED
      BY <2>1, <3>3 DEF Called
  <2>2. CASE ~(conn[i].appstate = NULL /\ none # {})
    BY <1>0, <2>2, CalledOwn
  <2> QED
    BY <2>1, <2>2
<1>3. u \in Slots \cup {NULL}
  BY <1>2 DEF Called
<1>4. /\ Notify(i, c, u, d, flags, NextPacket(p))
      /\ new => received[p] < MaxSegments
      /\ received' = [received EXCEPT ![p] = IF new THEN @ + 1 ELSE @]
      /\ known' = known
  BY DEF Established
<1>5. u \in Slots /\ Never({"aborted"})' => d = FreshData(i)
  <2>1. ASSUME u \in Slots, Never({"aborted"})', d # FreshData(i)
        PROVE  FALSE
    <3>1. conn[i].appstate \in Slots
      BY <1>2, <2>1, NullNotSlot DEF Called
    <3>2. Never({"aborted"})
      BY <1>4, <2>1, NotifyHappens, NeverBefore
    <3> QED
      BY <1>0, <3>1, <3>2, OpenConnection
  <2> QED
    BY <2>1
<1> HIDE DEF p, none, u, d
<1>6. /\ c \in Connections /\ c.appstate = u /\ Named(c)
      /\ c.peer = p /\ c.tcp = "ESTABLISHED"
  BY <1>0, <1>1, <1>3 DEF Connections, TcpStates, Named, p
<1>7. "NEWDATA" \in flags => /\ NextPacket(p) \in Packets
                             /\ new
  BY <1>0, <1>1, <1>4, NextPacketType
<1>8. \A q \in Peers : received'[q] = IF "NEWDATA" \in flags /\ q = p
                                      THEN received[q] + 1 ELSE received[q]
  BY <1>0, <1>1, <1>4 DEF LinkInv, TypeOK
<1> HIDE DEF c, flags
<1>9. u \in Slots /\ Never({"aborted"})' =>
          /\ WindowOf(c, d)
          /\ "RESTART" \notin d.state
  <2>1. 0 < UIP_SOCKET_NUMPACKETS /\ Len(<<>>) = 0
    BY LinkAssumption
  <2>2. WindowOf(c, FreshData(i)) /\ "RESTART" \notin FreshData(i).state
    BY <2>1 DEF WindowOf, FreshData
  <2> QED
    BY <1>5, <2>2
<1>10. c.peer = conn[i].peer
  BY <1>6 DEF p
<1>11. UNCHANGED <<known, loopVars>>
  BY <1>4
<1>12. /\ "NEWDATA" \in flags => /\ c.peer \in Peers
                                 /\ NextPacket(p) = NextPacket(c.peer)
                                 /\ NextPacket(p) \in Packets
       /\ \A q \in Peers : received'[q] = IF "NEWDATA" \in flags /\ q = c.peer
                                          THEN received[q] + 1 ELSE received[q]
  BY <1>1, <1>6, <1>7, <1>8
<1> DEFINE packet == NextPacket(p)
<1>13. /\ Notify(i, c, u, d, flags, packet)
       /\ "NEWDATA" \in flags => /\ c.peer \in Peers
                                 /\ packet = NextPacket(c.peer)
                                 /\ packet \in Packets
  BY <1>4, <1>12
<1> HIDE DEF packet
<1>14. u \in Slots /\ Never({"aborted"})' =>
           \/ Leaving(flags)
           \/ /\ c.tcp = "ESTABLISHED"
              /\ WindowOf(c, d)
              /\ "NEWDATA" \in flags /\ ~Shut(d) => "RESTART" \notin d.state
  BY <1>6, <1>9
<1>15. /\ c \in Connections /\ Named(c) /\ c.appstate = u
       /\ \A q \in Peers : received'[q] = IF "NEWDATA" \in flags /\ q = c.peer
                                          THEN received[q] + 1 ELSE received[q]
  BY <1>6, <1>12
<1> QED
  BY <1>2, <1>10, <1>11, <1>13, <1>14, <1>15, NotifiedKeeps

\* A segment of an open connection keeps the invariant: it goes on where the
\* ones before it end.
LEMMA SegmentDelivers ==
    ASSUME DeliveryInv, LinkInv', NEW i \in Slots, NEW flags \in SegmentFlags,
           Segment(i, flags), UNCHANGED loopVars
    PROVE  DeliveryInv'
<1> DEFINE p == conn[i].peer
           b == [conn[i] EXCEPT !.len = IF "ACKDATA" \in flags THEN "none" ELSE @]
           c == [b EXCEPT !.tcp = IF "CLOSE" \in flags THEN "CLOSING" ELSE @]
           d == DataOf(b)
<1>0. /\ LinkInv /\ StackInv /\ conn[i] \in Connections
      /\ conn[i].tcp = "ESTABLISHED"
      /\ "NEWDATA" \in flags => ~conn[i].stopped
  BY Parts DEF DeliveryInv, StackInv, Segment
<1>1. p \in Peers
  BY <1>0 DEF StackInv, PeersOK, Named
<1>2. /\ b \in Connections
      /\ b.appstate = conn[i].appstate
      /\ b.peer = p
      /\ b.tcp = "ESTABLISHED"
      /\ b.stopped = conn[i].stopped
  BY <1>0 DEF Connections
<1>3. d = DataOf(conn[i])
  BY <1>2 DEF DataOf
<1>4. /\ Notify(i, c, b.appstate, d, flags, NextPacket(p))
      /\ "NEWDATA" \in flags => received[p] < MaxSegments
      /\ received' = [received EXCEPT ![p] =
                          IF "NEWDATA" \in flags THEN @ + 1 ELSE @]
      /\ known' = known
  BY DEF Segment
<1> HIDE DEF p, b, d
<1>5. /\ c \in Connections /\ c.appstate = b.appstate /\ Named(c)
      /\ c.peer = p /\ c.stopped = conn[i].stopped
      /\ "CLOSE" \notin flags => c.tcp = "ESTABLISHED"
  BY <1>1, <1>2 DEF Connections, TcpStates, Named
<1>6. Called(i, b.appstate, d)
  BY <1>0, <1>2, <1>3, CalledOwn
<1> HIDE DEF c
<1>7. b.appstate \in Slots /\ Never({"aborted"})' =>
          \/ Leaving(flags)
          \/ /\ c.tcp = "ESTABLISHED"
             /\ WindowOf(c, d)
             /\ "NEWDATA" \in flags /\ ~Shut(d) => "RESTART" \notin d.state
  <2> SUFFICES ASSUME b.appstate \in Slots, Never({"aborted"})', ~Leaving(flags)
               PROVE  /\ c.tcp = "ESTABLISHED"
                      /\ WindowOf(c, d)
                      /\ "NEWDATA" \in flags /\ ~Shut(d) => "RESTART" \notin d.state
    OBVIOUS
  <2>1. Never({"aborted"})
    BY <1>4, NotifyHappens, NeverBefore
  <2>2. WindowOf(conn[i], d)
    BY <1>2, <1>3, <2>1, OpenConnection
  <2>3. WindowOf(c, d)
    BY <1>5, <2>2 DEF WindowOf
  <2>4. "NEWDATA" \in flags /\ ~Shut(d) => "RESTART" \notin d.state
    BY <1>0, <2>2 DEF WindowOf
  <2>5. c.tcp = "ESTABLISHED"
    BY <1>5 DEF Leaving
  <2> QED
    BY <2>3, <2>4, <2>5
<1>8. \A q \in Peers : received'[q] = IF "NEWDATA" \in flags /\ q = c.peer
                                      THEN received[q] + 1 ELSE received[q]
  BY <1>0, <1>1, <1>4, <1>5 DEF LinkInv, TypeOK
<1>9. "NEWDATA" \in flags => /\ c.peer \in Peers
                             /\ NextPacket(p) = NextPacket(c.peer)
                             /\ NextPacket(p) \in Packets
  BY <1>0, <1>1, <1>4, <1>5, NextPacketType
<1>10. c.peer = conn[i].peer
  BY <1>5 DEF p
<1>11. UNCHANGED <<known, loopVars>>
  BY <1>4
<1> DEFINE packet == NextPacket(p)
           u == b.appstate
<1>12. /\ Notify(i, c, u, d, flags, packet)
       /\ "NEWDATA" \in flags => /\ c.peer \in Peers
                                 /\ packet = NextPacket(c.peer)
                                 /\ packet \in Packets
  BY <1>4, <1>9
<1>13. c \in Connections /\ Named(c) /\ c.appstate = u /\ Called(i, u, d)
  BY <1>5, <1>6
<1>14. u \in Slots /\ Never({"aborted"})' =>
           \/ Leaving(flags)
           \/ /\ c.tcp = "ESTABLISHED"
              /\ WindowOf(c, d)
              /\ "NEWDATA" \in flags /\ ~Shut(d) => "RESTART" \notin d.state
  BY <1>7
<1> HIDE DEF packet, u
<1> QED
  BY <1>8, <1>10, <1>11, <1>12, <1>13, <1>14, NotifiedKeeps

\* A notification without data.
LEMMA NoDataDelivers ==
    ASSUME DeliveryInv, LinkInv', NEW i \in Slots, NEW c \in Connections, Named(c),
           c.appstate = conn[i].appstate, c.peer = conn[i].peer,
           NEW flags, "NEWDATA" \notin flags,
           \/ Leaving(flags) \/ "ABORT" \in flags
           \/ c = conn[i],
           Notify(i, c, conn[i].appstate, DataOf(conn[i]), flags, Free),
           UNCHANGED <<received, known>>, UNCHANGED loopVars
    PROVE  DeliveryInv'
<1>1. Called(i, conn[i].appstate, DataOf(conn[i]))
  BY Parts, CalledOwn DEF DeliveryInv
<1>2. ASSUME conn[i].appstate \in Slots, Never({"aborted"})', ~Leaving(flags)
      PROVE  c.tcp = "ESTABLISHED" /\ WindowOf(c, DataOf(conn[i]))
  <2>1. Never({"aborted"})
    BY <1>2, NotifyHappens, NeverBefore
  <2>2. "ABORT" \notin flags
    <3>1. ASSUME "ABORT" \in flags
          PROVE  FALSE
      <4>1. "aborted" \in Happening(conn[i].appstate, DataOf(conn[i]), flags)
        BY <1>2, <3>1, NullNotSlot DEF Happening, Happenings
      <4>2. "aborted" \in happened'
        BY <4>1, NotifyHappens
      <4> QED
        BY <1>2, <4>2 DEF Never
    <3> QED
      BY <3>1
  <2> QED
    BY <1>2, <2>1, <2>2, OpenConnection
<1>3. UNCHANGED <<known, loopVars>>
  OBVIOUS
<1> QED
  BY <1>1, <1>2, <1>3, NotifiedKeeps

\* Resets and timers keep the invariant.
LEMMA ResetDelivers ==
    ASSUME DeliveryInv, LinkInv', NEW i \in Slots,
           Reset(i) \/ Poll(i) \/ Rexmit(i) \/ TimedOut(i), UNCHANGED loopVars
    PROVE  DeliveryInv'
<1> DEFINE gone == [conn[i] EXCEPT !.tcp = "CLOSED", !.stopped = FALSE]
<1>1. conn[i] \in Connections /\ Named(conn[i])
  BY DEF DeliveryInv, LinkInv, TypeOK, PeersOK
<1>2. /\ gone \in Connections /\ Named(gone)
      /\ gone.appstate = conn[i].appstate /\ gone.peer = conn[i].peer
  BY <1>1 DEF Connections, TcpStates, Named
<1> HIDE DEF gone
<1>3. CASE Reset(i)
  <2>1. Notify(i, gone, conn[i].appstate, DataOf(conn[i]), {"ABORT"}, Free)
        /\ UNCHANGED <<received, known>>
    BY <1>3 DEF Reset, gone
  <2> QED
    BY <1>2, <2>1, NoDataDelivers
<1>4. CASE Poll(i)
  <2>1. Notify(i, conn[i], conn[i].appstate, DataOf(conn[i]), {"POLL"}, Free)
        /\ UNCHANGED <<received, known>>
    BY <1>4 DEF Poll
  <2> QED
    BY <1>1, <2>1, NoDataDelivers
<1>5. CASE Rexmit(i)
  <2>1. Notify(i, conn[i], conn[i].appstate, DataOf(conn[i]), {"REXMIT"}, Free)
        /\ UNCHANGED <<received, known>>
    BY <1>5 DEF Rexmit
  <2> QED
    BY <1>1, <2>1, NoDataDelivers
<1>6. CASE TimedOut(i)
  <2>1. Notify(i, gone, conn[i].appstate, DataOf(conn[i]), {"TIMEDOUT"}, Free)
        /\ UNCHANGED <<received, known>>
    BY <1>6 DEF TimedOut, gone
  <2>2. Leaving({"TIMEDOUT"})
    BY DEF Leaving
  <2> QED
    BY <1>2, <2>1, <2>2, NoDataDelivers
<1> QED
  BY <1>3, <1>4, <1>5, <1>6
=============================================================================
