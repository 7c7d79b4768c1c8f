----------------------------- MODULE SensorData -----------------------------
(***************************************************************************)
(* get_data() of CommandsHandler: four sensors share two six-byte buffers  *)
(* for their readings and one buffer for their text.  dtostrf() takes as   *)
(* many bytes as the number needs, and its terminator: in C that is        *)
(* undefined beyond the sixth; on the chip the byte behind is overwritten. *)
(***************************************************************************)
EXTENDS Naturals, Sequences

CONSTANTS
    Sensors,        \* 1..4, in the order of get_data()
    Lengths(_)      \* the characters a reading of each sensor may take

ASSUME SensorAssumption ==
    /\ Sensors = 1..4
    /\ \A s \in Sensors : Lengths(s) \subseteq 1..6

VARIABLES
    cells,      \* float2char_buffer1, float2char_buffer2, and the byte behind
    first,      \* the kind of reading whose buffer the linker put first
    sensor,     \* the next sensor get_data() reads
    reading,    \* characters of the readings of this command
    section,    \* sensor1_data .. sensor4_data
    spilled,    \* history: sensors that wrote the byte behind
    command     \* history: tells a command's readings from the one's before

dataVars == <<cells, first, sensor, reading, section, spilled, command>>

Kinds == {"humidity", "temperature"}
SIZE == 6
Behind == 2 * SIZE + 1
NUL == <<"NUL">>
Other == <<"other">>    \* what another variable holds

\* Seeded fault: both readings go to one buffer.
BufferOfBoth(kind) == 1
BufferOf(kind) == IF kind = first THEN 1 ELSE 1 + SIZE

\* The characters of a reading.
Text(kind, s, n) == [j \in 1..n |-> <<kind, s, command, j>>]

\* dtostrf(value, width, 2, buffer)
Dtostrf(c, kind, text) ==
    LET at == BufferOf(kind)
    IN  [a \in DOMAIN c |-> IF a \in at..(at + Len(text) - 1) THEN text[a - at + 1]
                            ELSE IF a = at + Len(text) THEN NUL ELSE c[a]]

\* The humidity of a sensor is written first.  The byte behind is not theirs.
Written(s, h, t) ==
    LET own == [cells EXCEPT ![Behind] = Other]
    IN  Dtostrf(Dtostrf(own, "humidity", Text("humidity", s, h)),
                "temperature", Text("temperature", s, t))

\* What %s finds: the characters up to the next NUL, at the latest the one
\* behind both buffers.
String(c, kind) ==
    LET at  == BufferOf(kind)
        end == CHOOSE a \in at..Behind :
                   /\ c[a] = NUL \/ a = Behind
                   /\ \A b \in at..(a - 1) : c[b] # NUL
    IN  SubSeq([a \in 1..Behind |-> c[a]], at, IF c[end] = NUL THEN end - 1 ELSE end)

Section(c) == [kind \in Kinds |-> String(c, kind)]

\* Seeded fault: the sections are not copied, all are string_cpy_buffer.
GetSensorUncopied(s, h, t) ==
    LET c == Written(s, h, t)
    IN  /\ sensor = s
        /\ cells' = c
        /\ reading' = [reading EXCEPT ![s] = [humidity |-> h, temperature |-> t]]
        /\ section' = [r \in Sensors |-> IF r <= s THEN Section(c) ELSE section[r]]
        /\ spilled' = IF c[Behind] # Other THEN spilled \cup {s} ELSE spilled
        /\ sensor' = s + 1
        /\ UNCHANGED <<first, command>>

\* getSensor1() .. getSensor4() with the memmove() behind each: humidity, then
\* temperature, then the text.  When string_cpy_buffer is what follows the
\* buffers, its first character is written before they are read.
GetSensor(s, h, t) ==
    LET c == Written(s, h, t)
    IN  /\ sensor = s
        /\ cells' \in {c, [c EXCEPT ![Behind] = Other]}
        /\ reading' = [reading EXCEPT ![s] = [humidity |-> h, temperature |-> t]]
        /\ section' = [section EXCEPT ![s] = Section(cells')]
        /\ spilled' = IF c[Behind] # Other THEN spilled \cup {s} ELSE spilled
        /\ sensor' = s + 1
        /\ UNCHANGED <<first, command>>

Nothing == [s \in Sensors |-> [humidity |-> 0, temperature |-> 0]]
NoText == [s \in Sensors |-> [kind \in Kinds |-> <<>>]]

\* sendFullStatusData(), and the next GET_DATA: of the same connection, or
\* behind newLoop(), which empties the buffers.
NextCommand ==
    /\ sensor = 5
    /\ sensor' = 1
    /\ reading' = Nothing
    /\ section' = NoText
    /\ spilled' = {}
    /\ command' = 1 - command
    /\ cells' \in {cells, [cells EXCEPT ![1] = NUL, ![1 + SIZE] = NUL]}
    /\ UNCHANGED first

DataInit ==
    /\ cells = [a \in 1..Behind |-> IF a = Behind THEN Other ELSE NUL]
    /\ first \in Kinds
    /\ sensor = 1
    /\ reading = Nothing
    /\ section = NoText
    /\ spilled = {}
    /\ command = 0

DataNext ==
    \/ \E s \in Sensors : \E h, t \in Lengths(s) : GetSensor(s, h, t)
    \/ NextCommand

DataSpec == DataInit /\ [][DataNext]_dataVars

-----------------------------------------------------------------------------
(* Properties *)

Fits(s) == \A kind \in Kinds : reading[s][kind] < SIZE
Right(s) == section[s] = [kind \in Kinds |-> Text(kind, s, reading[s][kind])]

\* The text of a sensor says what it was read, and no other variable is
\* written, exactly when its own two readings have less than six characters:
\* what other sensors and earlier commands left in the shared buffers, however
\* long it was, does not matter; a reading of six, as the 100.00 of a BME280 in
\* saturated air or a temperature below -9.99, always does.
SectionRight ==
    \A s \in Sensors :
        s < sensor => (Right(s) /\ s \notin spilled <=> Fits(s))

DataTypeOK ==
    /\ DOMAIN cells = 1..Behind
    /\ first \in Kinds
    /\ sensor \in 1..5
    /\ DOMAIN reading = Sensors
    /\ DOMAIN section = Sensors
    /\ spilled \subseteq Sensors
    /\ command \in 0..1

\* The inductive invariant: nothing is said of the cells, which hold what any
\* earlier sensor and command left there.
SensorInv ==
    /\ DataTypeOK
    /\ \A s \in spilled : s < sensor
    /\ SectionRight
=============================================================================
