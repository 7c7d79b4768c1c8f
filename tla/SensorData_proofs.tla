------------------------- MODULE SensorData_proofs -------------------------
(***************************************************************************)
(* SectionRight for every set of lengths: where dtostrf() writes, what %s  *)
(* finds of it, and why only the two readings of the sensor itself count.  *)
(***************************************************************************)
EXTENDS SensorData, SequenceTheorems, TLAPS

-----------------------------------------------------------------------------
(* C strings *)

\* The end of a string is the first NUL, or the byte behind both buffers.
LEMMA StringIs ==
    ASSUME NEW c, NEW kind \in Kinds, first \in Kinds, NEW n \in 0..Behind,
           BufferOf(kind) + n <= Behind,
           \A j \in 1..n : c[BufferOf(kind) + j - 1] # NUL,
           c[BufferOf(kind) + n] = NUL \/ BufferOf(kind) + n = Behind
    PROVE  LET at == BufferOf(kind)
               m  == IF c[at + n] = NUL THEN n ELSE n + 1
           IN  /\ Len(String(c, kind)) = m
               /\ DOMAIN String(c, kind) = 1..m
               /\ \A j \in 1..m : String(c, kind)[j] = c[at + j - 1]
               /\ String(c, kind) \in Seq({c[a] : a \in 1..Behind})
<1> DEFINE at  == BufferOf(kind)
           m   == IF c[at + n] = NUL THEN n ELSE n + 1
           IsEnd(a) == /\ c[a] = NUL \/ a = Behind
                       /\ \A b \in at..(a - 1) : c[b] # NUL
           end == CHOOSE a \in at..Behind : IsEnd(a)
           all == [a \in 1..Behind |-> c[a]]
           S   == {c[a] : a \in 1..Behind}
           last == IF c[end] = NUL THEN end - 1 ELSE end
<1>1. at \in {1, 7} /\ Behind = 13
  BY DEF BufferOf, SIZE, Behind
<1>2. \A b \in at..(at + n - 1) : c[b] # NUL
  <2> SUFFICES ASSUME NEW b \in at..(at + n - 1) PROVE c[b] # NUL
    OBVIOUS
  <2>1. b - at + 1 \in 1..n /\ at + (b - at + 1) - 1 = b
    BY <1>1
  <2> HIDE DEF at
  <2> QED
    BY <2>1 DEF at
<1>3. at + n \in at..Behind /\ IsEnd(at + n)
  BY <1>1, <1>2
<1>4. \A a \in at..Behind : IsEnd(a) => a = at + n
  BY <1>1, <1>2
<1> HIDE DEF IsEnd
<1>5. end = at + n
  BY <1>3, <1>4
<1>6. String(c, kind) = SubSeq(all, at, last)
  BY DEF String, IsEnd
<1>7. last = at + m - 1 /\ last \in (at - 1)..Behind /\ m \in 0..Behind
  <2>1. at + n <= Behind
    OBVIOUS
  <2> HIDE DEF at, end
  <2>2. CASE c[at + n] = NUL
    BY <1>1, <1>5, <2>1, <2>2
  <2>3. CASE c[at + n] # NUL
    <3>1. at + n = Behind
      BY <2>3 DEF at
    <3> QED
      BY <1>1, <1>5, <2>1, <2>3, <3>1
  <2> QED
    BY <2>2, <2>3
<1>8. \A a \in at..last : all[a] = c[a] /\ c[a] \in S
  BY <1>1, <1>7
<1> HIDE DEF at, m, end, last, all, S
<1>9. /\ SubSeq(all, at, last) \in Seq(S)
      /\ Len(SubSeq(all, at, last)) = IF at <= last THEN last - at + 1 ELSE 0
      /\ \A j \in 1..(last - at + 1) : SubSeq(all, at, last)[j] = all[at + j - 1]
  BY <1>1, <1>7, <1>8, SubSeqProperties
<1>10. last - at + 1 = m /\ (IF at <= last THEN last - at + 1 ELSE 0) = m
  BY <1>1, <1>7
<1>11. \A j \in 1..m : at + j - 1 \in at..last
  BY <1>1, <1>7
<1>12. /\ String(c, kind) \in Seq(S)
       /\ Len(String(c, kind)) = m
       /\ \A j \in 1..m : String(c, kind)[j] = c[at + j - 1]
  BY <1>6, <1>8, <1>9, <1>10, <1>11
<1>13. DOMAIN String(c, kind) = 1..m
  BY <1>12
<1> QED
  BY <1>12, <1>13 DEF at, m, S
\* A text has as many characters as its reading, none of them a NUL.
LEMMA TextIs ==
    ASSUME NEW kind, NEW s, NEW n \in Nat
    PROVE  /\ DOMAIN Text(kind, s, n) = 1..n
           /\ Len(Text(kind, s, n)) = n
           /\ \A j \in 1..n : /\ Text(kind, s, n)[j] = <<kind, s, command, j>>
                              /\ Text(kind, s, n)[j] # NUL
<1> DEFINE x == Text(kind, s, n)
           S == {<<kind, s, command, j>> : j \in 1..n}
<1>1. x \in [1..n -> S]
  BY DEF Text
<1>2. x \in Seq(S) /\ Len(x) = n
  <2> HIDE DEF x, S
  <2> QED
    BY <1>1
<1>3. \A j \in 1..n : x[j] = <<kind, s, command, j>>
  BY DEF Text
<1>4. \A j \in 1..n : <<kind, s, command, j>> # NUL
  BY DEF NUL
<1> QED
  BY <1>1, <1>2, <1>3, <1>4

\* A text and its NUL in the buffer of its kind is what %s finds.
LEMMA StringRight ==
    ASSUME NEW c, NEW kind \in Kinds, first \in Kinds, NEW s, NEW n \in 1..(SIZE - 1),
           \A j \in 1..n : c[BufferOf(kind) + j - 1] = Text(kind, s, n)[j],
           c[BufferOf(kind) + n] = NUL
    PROVE  String(c, kind) = Text(kind, s, n)
<1> DEFINE x == Text(kind, s, n)
           y == String(c, kind)
<1>1. n \in 0..Behind /\ BufferOf(kind) + n <= Behind
  BY DEF Behind, SIZE, BufferOf
<1>2. \A j \in 1..n : x[j] # NUL
  BY TextIs DEF SIZE
<1>3. \A j \in 1..n : c[BufferOf(kind) + j - 1] # NUL
  BY <1>2
<1>4. /\ DOMAIN y = 1..n
      /\ \A j \in 1..n : y[j] = x[j]
      /\ y \in Seq({c[a] : a \in 1..Behind})
  BY <1>1, <1>3, StringIs
<1>5. x = [j \in 1..n |-> x[j]]
  BY DEF Text
<1>6. y = [j \in 1..n |-> y[j]]
  BY <1>4
<1> HIDE DEF x, y
<1> QED
  BY <1>4, <1>5, <1>6 DEF x, y
-----------------------------------------------------------------------------
(* getSensor1() .. getSensor4() *)

\* From c to d a text of n characters and its NUL are written at at.
Writes(c, d, at, text, n) ==
    /\ DOMAIN d = 1..Behind
    /\ \A a \in 1..Behind :
           d[a] = IF at <= a /\ a < at + n THEN text[a - at + 1]
                  ELSE IF a = at + n THEN NUL ELSE c[a]

\* dtostrf() writes the text and its terminator, and nothing else.
LEMMA DtostrfWrites ==
    ASSUME NEW c, DOMAIN c = 1..Behind, NEW kind, BufferOf(kind) \in Nat,
           NEW text, Len(text) \in Nat
    PROVE  Writes(c, Dtostrf(c, kind, text), BufferOf(kind), text, Len(text))
<1> DEFINE at == BufferOf(kind)
           n  == Len(text)
           d  == [a \in DOMAIN c |->
                      IF a \in at..(at + n - 1) THEN text[a - at + 1]
                      ELSE IF a = at + n THEN NUL ELSE c[a]]
<1>1. Dtostrf(c, kind, text) = d
  BY DEF Dtostrf
<1>2. DOMAIN d = 1..Behind
  OBVIOUS
<1>3. Behind = 13
  BY DEF Behind, SIZE
<1> HIDE DEF at, n
<1>4. at \in Nat /\ n \in Nat
  BY DEF at, n
<1>5. ASSUME NEW a \in 1..Behind
      PROVE  d[a] = IF at <= a /\ a < at + n THEN text[a - at + 1]
                    ELSE IF a = at + n THEN NUL ELSE c[a]
  <2>1. a \in at..(at + n - 1) <=> at <= a /\ a < at + n
    BY <1>3, <1>4
  <2> QED
    BY <1>2, <2>1
<1> HIDE DEF d
<1> QED
  BY <1>1, <1>2, <1>5 DEF at, n, Writes

\* The cells when both readings have been written: where the texts of x
\* characters in the first buffer and of y in the second are, and their ends.
\* The end of a text of six is the cell behind its buffer.
LEMMA CellsAre ==
    ASSUME DataTypeOK, NEW s, NEW h \in 1..SIZE, NEW t \in 1..SIZE
    PROVE  LET c  == Written(s, h, t)
               hb == BufferOf("humidity")
               tb == BufferOf("temperature")
           IN  /\ DOMAIN c = 1..Behind
               /\ \A j \in 1..t : c[tb + j - 1] = Text("temperature", s, t)[j]
               /\ c[tb + t] = NUL
               /\ \/ first = "humidity" \/ t < SIZE
                  => \A j \in 1..h : c[hb + j - 1] = Text("humidity", s, h)[j]
               /\ first = "temperature" \/ h < SIZE => c[hb + h] = NUL
               /\ h < SIZE /\ t < SIZE => c[Behind] = Other
<1> DEFINE x == Text("humidity", s, h)
           y == Text("temperature", s, t)
           hb == BufferOf("humidity")
           tb == BufferOf("temperature")
           own == [cells EXCEPT ![Behind] = Other]
           b == Dtostrf(own, "humidity", x)
           c == Dtostrf(b, "temperature", y)
<1>1. /\ SIZE = 6 /\ Behind = 13
      /\ \/ first = "humidity" /\ hb = 1 /\ tb = 7
         \/ first = "temperature" /\ hb = 7 /\ tb = 1
  BY DEF DataTypeOK, Kinds, BufferOf, SIZE, Behind
<1>2. Len(x) = h /\ Len(y) = t
  BY <1>1, TextIs
<1>3. DOMAIN own = 1..Behind /\ own[Behind] = Other
  BY <1>1 DEF DataTypeOK
<1>4. hb \in Nat /\ tb \in Nat /\ h \in Nat /\ t \in Nat
  BY <1>1
<1> HIDE DEF x, y, own
<1>5. Writes(own, b, hb, x, h)
  <2>1. Len(x) \in Nat /\ BufferOf("humidity") \in Nat
    BY <1>2, <1>4
  <2>2. Writes(own, b, BufferOf("humidity"), x, Len(x))
    BY <1>3, <2>1, DtostrfWrites
  <2> QED
    BY <1>2, <2>2
<1>6. Writes(b, c, tb, y, t)
  <2>1. Len(y) \in Nat /\ BufferOf("temperature") \in Nat
    BY <1>2, <1>4
  <2>2. DOMAIN b = 1..Behind
    BY <1>5 DEF Writes
  <2> HIDE DEF b
  <2>3. Writes(b, c, BufferOf("temperature"), y, Len(y))
    BY <2>1, <2>2, DtostrfWrites
  <2> QED
    BY <1>2, <2>3
<1> HIDE DEF b
<1> HIDE DEF c, hb, tb
<1>7. \A j \in 1..t : c[tb + j - 1] = y[j]
  BY <1>1, <1>6 DEF Writes
<1>8. c[tb + t] = NUL
  BY <1>1, <1>6 DEF Writes
<1>9. ASSUME first = "humidity" \/ t < SIZE, NEW j \in 1..h
      PROVE  c[hb + j - 1] = x[j]
  <2>1. c[hb + j - 1] = b[hb + j - 1] /\ hb + j - 1 \in 1..Behind
    BY <1>1, <1>6, <1>9 DEF Writes
  <2> QED
    BY <1>1, <1>5, <2>1 DEF Writes
<1>10. first = "temperature" \/ h < SIZE => c[hb + h] = NUL
  BY <1>1, <1>5, <1>6 DEF Writes
<1>11. h < SIZE /\ t < SIZE => c[Behind] = Other
  BY <1>1, <1>3, <1>5, <1>6 DEF Writes
<1>12. DOMAIN c = 1..Behind
  BY <1>6 DEF Writes
<1> QED
  BY <1>7, <1>8, <1>9, <1>10, <1>11, <1>12 DEF c, b, own, x, y, hb, tb, Written
\* What %s finds for both readings is right, and the byte behind untouched,
\* exactly when both fit.
LEMMA SectionOf ==
    ASSUME DataTypeOK, NEW s, NEW h \in 1..SIZE, NEW t \in 1..SIZE,
           NEW d, d \in {Written(s, h, t), [Written(s, h, t) EXCEPT ![Behind] = Other]}
    PROVE  /\ String(d, "humidity") = Text("humidity", s, h)
           /\ String(d, "temperature") = Text("temperature", s, t)
           /\ Written(s, h, t)[Behind] = Other
           <=> h < SIZE /\ t < SIZE
<1> DEFINE c  == Written(s, h, t)
           x  == Text("humidity", s, h)
           y  == Text("temperature", s, t)
           hb == BufferOf("humidity")
           tb == BufferOf("temperature")
<1>1. /\ SIZE = 6 /\ Behind = 13 /\ first \in Kinds
      /\ "humidity" \in Kinds /\ "temperature" \in Kinds
      /\ \/ first = "humidity" /\ hb = 1 /\ tb = 7
         \/ first = "temperature" /\ hb = 7 /\ tb = 1
  BY DEF DataTypeOK, Kinds, BufferOf, SIZE, Behind
<1>2. /\ DOMAIN c = 1..Behind
      /\ \A j \in 1..t : c[tb + j - 1] = y[j]
      /\ c[tb + t] = NUL
      /\ first = "humidity" \/ t < SIZE => \A j \in 1..h : c[hb + j - 1] = x[j]
      /\ first = "temperature" \/ h < SIZE => c[hb + h] = NUL
      /\ h < SIZE /\ t < SIZE => c[Behind] = Other
  BY CellsAre
<1>3. \A a \in 1..12 : d[a] = c[a]
  <2> HIDE DEF c
  <2>1. d \in {c, [c EXCEPT ![Behind] = Other]}
    BY DEF c
  <2> QED
    BY <1>1, <1>2, <2>1
<1>4. NUL # Other
  BY DEF NUL, Other
<1>5. /\ Len(x) = h /\ Len(y) = t
      /\ \A j \in 1..h : x[j] # NUL
      /\ \A j \in 1..t : y[j] # NUL
  BY <1>1, TextIs
<1> SUFFICES /\ String(d, "humidity") = x
             /\ String(d, "temperature") = y
             /\ c[Behind] = Other
             <=> h < SIZE /\ t < SIZE
  OBVIOUS
<1> HIDE DEF c, x, y
<1>6. CASE h < SIZE /\ t < SIZE
  <2>1. h \in 1..(SIZE - 1) /\ t \in 1..(SIZE - 1)
    BY <1>1, <1>6
  <2>2. \A j \in 1..h : d[hb + j - 1] = x[j]
    <3> HIDE DEF hb, tb
    <3> QED
      BY <1>1, <1>2, <1>3, <1>6
  <2>3. d[hb + h] = NUL /\ d[tb + t] = NUL
    <3> HIDE DEF hb, tb
    <3> QED
      BY <1>1, <1>2, <1>3, <1>6
  <2>4. \A j \in 1..t : d[tb + j - 1] = y[j]
    <3> HIDE DEF hb, tb
    <3> QED
      BY <1>1, <1>2, <1>3, <1>6
  <2>5. String(d, "humidity") = x
    BY <1>1, <2>1, <2>2, <2>3, StringRight DEF x
  <2>6. String(d, "temperature") = y
    BY <1>1, <2>1, <2>3, <2>4, StringRight DEF y
  <2> QED
    BY <1>2, <1>6, <2>5, <2>6
\* The text in the second buffer ends behind it.
<1>7. CASE \/ first = "humidity" /\ t = SIZE
           \/ first = "temperature" /\ h = SIZE
  <2>1. c[Behind] = NUL
    <3> HIDE DEF hb, tb
    <3> QED
      BY <1>1, <1>2, <1>7
  <2> QED
    BY <1>4, <1>7, <2>1
\* The NUL of the first buffer has been overwritten.
<1>8. CASE first = "humidity" /\ h = SIZE /\ t < SIZE
  <2> DEFINE n == SIZE + t
  <2>1. n \in 0..Behind /\ hb + n <= Behind /\ d[hb + n] = NUL
    <3> HIDE DEF hb, tb
    <3> QED
      BY <1>1, <1>2, <1>3, <1>8
  <2>2. \A j \in 1..n : d[hb + j - 1] # NUL
    <3> SUFFICES ASSUME NEW j \in 1..n PROVE d[hb + j - 1] # NUL
      OBVIOUS
    <3>1. CASE j <= SIZE
      <4> HIDE DEF hb, tb
      <4> QED
        BY <1>1, <1>2, <1>3, <1>5, <1>8, <3>1
    <3>2. CASE j > SIZE
      <4> HIDE DEF hb, tb
      <4>1. j - SIZE \in 1..t /\ hb + j - 1 = tb + (j - SIZE) - 1 /\ hb + j - 1 \in 1..12
        BY <1>1, <1>8, <3>2
      <4>2. d[hb + j - 1] = y[j - SIZE]
        BY <1>2, <1>3, <4>1
      <4> QED
        BY <1>5, <4>1, <4>2
    <3> QED
      BY <1>1, <3>1, <3>2
  <2>3. Len(String(d, "humidity")) = n
    <3> HIDE DEF n
    <3> QED
      BY <1>1, <2>1, <2>2, StringIs
  <2>4. Len(String(d, "humidity")) # Len(x)
    <3>1. n # h
      BY <1>1, <1>8
    <3> HIDE DEF n
    <3> QED
      BY <1>5, <2>3, <3>1
  <2> QED
    BY <1>8, <2>4
\* The other's NUL is the first character of this.
<1>9. CASE first = "temperature" /\ t = SIZE /\ h < SIZE
  <2>1. hb + 0 <= Behind /\ d[hb + 0] = NUL /\ 0 \in 0..Behind
    <3> HIDE DEF hb, tb
    <3> QED
      BY <1>1, <1>2, <1>3, <1>9
  <2>2. \A j \in 1..0 : d[hb + j - 1] # NUL
    OBVIOUS
  <2>3. Len(String(d, "humidity")) = 0
    BY <1>1, <2>1, <2>2, StringIs
  <2>4. Len(String(d, "humidity")) # Len(x)
    BY <1>5, <2>3
  <2> QED
    BY <1>9, <2>4
<1> QED
  BY <1>1, <1>6, <1>7, <1>8, <1>9
-----------------------------------------------------------------------------
(* The invariant *)

\* Reading a sensor keeps the invariant, whatever the buffers held.
LEMMA GetSensorKeeps ==
    ASSUME SensorInv, NEW s \in Sensors, NEW h \in Lengths(s), NEW t \in Lengths(s),
           GetSensor(s, h, t)
    PROVE  SensorInv'
<1> DEFINE c == Written(s, h, t)
<1>1. /\ h \in 1..SIZE /\ t \in 1..SIZE
      /\ DataTypeOK /\ SectionRight
      /\ Sensors = 1..4
      /\ Kinds = {"humidity", "temperature"}
  BY SensorAssumption DEF SensorInv, SIZE, Kinds
<1>2. /\ sensor = s /\ sensor' = s + 1
      /\ cells' \in {c, [c EXCEPT ![Behind] = Other]}
      /\ reading' = [reading EXCEPT ![s] = [humidity |-> h, temperature |-> t]]
      /\ section' = [section EXCEPT ![s] = Section(cells')]
      /\ spilled' = IF c[Behind] # Other THEN spilled \cup {s} ELSE spilled
      /\ UNCHANGED <<first, command>>
  BY DEF GetSensor
<1>3. DOMAIN cells' = 1..Behind
  <2>1. DOMAIN c = 1..Behind
    BY <1>1, CellsAre
  <2> HIDE DEF c
  <2> QED
    BY <1>2, <2>1
<1> HIDE DEF c
<1>4. DataTypeOK'
  <2>1. DOMAIN reading' = Sensors /\ DOMAIN section' = Sensors
    BY <1>1, <1>2 DEF DataTypeOK
  <2>2. spilled' \subseteq Sensors /\ sensor' \in 1..5
    BY <1>1, <1>2 DEF DataTypeOK
  <2> QED
    BY <1>1, <1>2, <1>3, <2>1, <2>2 DEF DataTypeOK
<1>5. \A r \in spilled' : r < sensor'
  <2> SUFFICES ASSUME NEW r \in spilled' PROVE r < sensor'
    OBVIOUS
  <2>1. r \in spilled \/ r = s
    BY <1>2
  <2>2. r \in spilled => r \in 1..4 /\ r < sensor
    BY <1>1 DEF SensorInv, DataTypeOK
  <2> QED
    BY <1>1, <1>2, <2>1, <2>2
<1>6. /\ reading'[s] = [humidity |-> h, temperature |-> t]
      /\ section'[s] = Section(cells')
      /\ \A r \in Sensors \ {s} : reading'[r] = reading[r] /\ section'[r] = section[r]
      /\ s \in spilled' <=> c[Behind] # Other
      /\ \A r \in Sensors \ {s} : r \in spilled' <=> r \in spilled
  BY <1>1, <1>2 DEF SensorInv, DataTypeOK
<1>7. /\ String(cells', "humidity") = Text("humidity", s, h)
      /\ String(cells', "temperature") = Text("temperature", s, t)
      /\ c[Behind] = Other
      <=> h < SIZE /\ t < SIZE
  <2>1. PICK d \in {Written(s, h, t), [Written(s, h, t) EXCEPT ![Behind] = Other]} :
            d = cells'
    BY <1>2 DEF c
  <2>2. /\ String(d, "humidity") = Text("humidity", s, h)
        /\ String(d, "temperature") = Text("temperature", s, t)
        /\ Written(s, h, t)[Behind] = Other
        <=> h < SIZE /\ t < SIZE
    BY <1>1, SectionOf
  <2> QED
    BY <2>1, <2>2 DEF c
<1>8. Fits(s)' <=> h < SIZE /\ t < SIZE
  BY <1>1, <1>6 DEF Fits
<1>9. Right(s)' <=> /\ String(cells', "humidity") = Text("humidity", s, h)
                    /\ String(cells', "temperature") = Text("temperature", s, t)
  <2>1. reading'[s]["humidity"] = h /\ reading'[s]["temperature"] = t
    BY <1>6
  <2>2. Right(s)' <=> [kind \in Kinds |-> String(cells', kind)] =
                          [kind \in Kinds |-> Text(kind, s, reading'[s][kind])]
    <3>1. section'[s] = [kind \in Kinds |-> String(cells', kind)]
      BY <1>6 DEF Section
    <3> QED
      <4>1. Right(s)' <=> section'[s] =
                [kind \in Kinds |-> [j \in 1..reading'[s][kind] |->
                                         <<kind, s, command', j>>]]
        BY DEF Right, Text
      <4>2. [kind \in Kinds |-> Text(kind, s, reading'[s][kind])] =
                [kind \in Kinds |-> [j \in 1..reading'[s][kind] |->
                                         <<kind, s, command, j>>]]
        BY DEF Text
      <4>3. \A kind \in Kinds :
                [j \in 1..reading'[s][kind] |-> <<kind, s, command', j>>] =
                [j \in 1..reading'[s][kind] |-> <<kind, s, command, j>>]
        BY <1>2
      <4> QED
        BY <3>1, <4>1, <4>2, <4>3
  <2>3. \A k \in Kinds : k = "humidity" \/ k = "temperature"
    BY <1>1
  <2>4. Right(s)' <=> \A kind \in Kinds : String(cells', kind) =
                                          Text(kind, s, reading'[s][kind])
    BY <2>2
  <2> QED
    BY <1>1, <2>1, <2>3, <2>4
<1>10. ASSUME NEW r \in Sensors, r < sensor'
       PROVE  Right(r)' /\ r \notin spilled' <=> Fits(r)'
  <2>1. CASE r = s
    BY <1>6, <1>7, <1>8, <1>9, <2>1
  <2>2. CASE r # s
    <3>1. r < sensor
      BY <1>1, <1>2, <1>10, <2>2
    <3>2. (Right(r)' <=> Right(r)) /\ (Fits(r)' <=> Fits(r))
      BY <1>2, <1>6, <2>2 DEF Right, Fits, Text
    <3> QED
      BY <1>1, <1>6, <2>2, <3>1, <3>2 DEF SectionRight
  <2> QED
    BY <2>1, <2>2
<1> QED
  BY <1>4, <1>5, <1>10 DEF SensorInv, SectionRight

\* The next command keeps the invariant, emptied or not.
LEMMA NextCommandKeeps ==
    ASSUME SensorInv, NextCommand
    PROVE  SensorInv'
<1>1. DOMAIN cells' = 1..Behind
  BY DEF NextCommand, SensorInv, DataTypeOK, Behind, SIZE
<1>2. DataTypeOK'
  BY <1>1 DEF NextCommand, SensorInv, DataTypeOK, Nothing, NoText
<1> QED
  BY <1>2, SensorAssumption DEF NextCommand, SensorInv, SectionRight

\* The inductive invariant holds for any lengths of readings up to six.
THEOREM SensorInvCorrect == DataSpec => []SensorInv
<1>1. DataInit => SensorInv
  BY SensorAssumption
     DEF DataInit, SensorInv, DataTypeOK, SectionRight, Behind, SIZE, Nothing, NoText
<1>2. SensorInv /\ [DataNext]_dataVars => SensorInv'
  <2> SUFFICES ASSUME SensorInv, [DataNext]_dataVars PROVE SensorInv'
    OBVIOUS
  <2>1. CASE DataNext
    BY <2>1, GetSensorKeeps, NextCommandKeeps DEF DataNext
  <2>2. CASE UNCHANGED dataVars
    BY <2>2 DEF dataVars, SensorInv, DataTypeOK, SectionRight, Right, Fits, Text
  <2> QED
    BY <2>1, <2>2
<1> QED
  BY <1>1, <1>2, PTL DEF DataSpec

\* The text of a sensor is what it was read, and no other variable is written,
\* exactly when its own two readings fit their buffers: whatever the sensors and
\* the commands before it left there.
THEOREM SectionRightCorrect == DataSpec => []SectionRight
<1>1. SensorInv => SectionRight
  BY DEF SensorInv
<1> QED
  BY <1>1, SensorInvCorrect, PTL
=============================================================================
