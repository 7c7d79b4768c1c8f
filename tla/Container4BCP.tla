---------------------------- MODULE Container4BCP ----------------------------
(***************************************************************************)
(* _4BCPContainer: the pool of map elements and the pool of values that    *)
(* are allocated once, before setup(), and handed out again for every      *)
(* connection, and map4BCP, the list of the devices of a command.          *)
(*                                                                         *)
(* malloc leaves the pools uninitialised and the handler dereferences      *)
(* pointers it got from address 0: Junk is such a pointer.  Reading        *)
(* through it gives any value; writing through it is the end of what can   *)
(* be said of the program (the "undefined" point of the thread).           *)
(***************************************************************************)
EXTENDS FourBCP

CONSTANTS
    MaxElements,    \* element4BCP_1 .. element4BCP_20
    NumValues,      \* the values setStructElementValue knows: 6 of value_1..20
    MaxDevices      \* entries of map4BCP.elements: 5 * sizeof(int *) = 10

ASSUME PoolAssumption ==
    /\ MaxElements \in Nat \ {0}
    /\ NumValues \in Nat \ {0}
    /\ MaxDevices \in Nat \ {0}
    /\ 2 * MaxDevices >= MaxElements

Junk     == 0
Elements == 1..MaxElements
Values   == 1..NumValues

\* The argument positions set_actuator reads.
STATE_ARG    == 0
DURATION_ARG == 1

VARIABLES
    pc,                 \* where the single thread is
    map4BCP_size,       \* map4BCP.size
    map4BCP_elements,   \* map4BCP.elements
    key,                \* element -> its key word
    value,              \* element -> its value pointer
    nested_elements,    \* element -> its first two nested elements
    bool_value,         \* value -> its bool_value field
    uint32_value,       \* value -> its uint32_value field
    written             \* history: the fields written since the last newLoop()

poolVars == <<map4BCP_elements, key, value, nested_elements, bool_value,
              uint32_value, written>>
containerVars == <<map4BCP_size, poolVars>>

BoolValues == {"on", "off", "junk"}
WordValues == Words \cup {"junk"}

\* What the history remembers: a nested pointer or a value field.
WrittenFields == ({"nested"} \X Elements \X {STATE_ARG, DURATION_ARG})
                 \cup ({"bool", "uint32"} \X Values \X {0})

ContainerTypeOK ==
    /\ map4BCP_size \in 0..MaxDevices
    /\ map4BCP_elements \in [0..(MaxDevices - 1) -> Elements \cup {Junk}]
    /\ key \in [Elements -> WordValues]
    /\ value \in [Elements -> Values \cup {Junk}]
    /\ nested_elements \in [Elements ->
                              [{STATE_ARG, DURATION_ARG} -> Elements \cup {Junk}]]
    /\ bool_value \in [Values -> BoolValues]
    /\ uint32_value \in [Values -> WordValues]
    /\ written \in SUBSET WrittenFields

ContainerInit ==
    /\ map4BCP_size = 0
    /\ map4BCP_elements = [i \in 0..(MaxDevices - 1) |-> Junk]
    /\ key = [e \in Elements |-> "junk"]
    /\ value = [e \in Elements |-> Junk]
    /\ nested_elements = [e \in Elements |-> [p \in {STATE_ARG, DURATION_ARG} |-> Junk]]
    /\ bool_value = [v \in Values |-> "junk"]
    /\ uint32_value = [v \in Values |-> "junk"]
    /\ written = {}

-----------------------------------------------------------------------------
(* Reading the arguments of a device, through pointers that may be junk.   *)

\* The value the argument at position p of device d points to.
ArgumentValue(d, p) ==
    IF d = Junk \/ nested_elements[d][p] = Junk
    THEN Junk ELSE value[nested_elements[d][p]]

\* The states and durations a read of d's arguments can give.
StatesOf(d) ==
    LET v == ArgumentValue(d, STATE_ARG)
    IN  IF v = Junk \/ bool_value[v] = "junk"
        THEN {"on", "off"} ELSE {bool_value[v]}

DurationsOf(d) ==
    LET v == ArgumentValue(d, DURATION_ARG)
    IN  IF v = Junk \/ uint32_value[v] = "junk"
        THEN {"zero", "other"} ELSE {uint32_value[v]}

\* A device can answer to the key it was given, a junk one to any.
KeysOf(d) == IF d = Junk \/ key[d] = "junk" THEN Words ELSE {key[d]}

-----------------------------------------------------------------------------
(* History: the arguments of device d that this connection has sent.       *)

StateSent(d) ==
    /\ d # Junk
    /\ <<"nested", d, STATE_ARG>> \in written
    /\ <<"bool", ArgumentValue(d, STATE_ARG), 0>> \in written

DurationSent(d) ==
    /\ d # Junk
    /\ <<"nested", d, DURATION_ARG>> \in written
    /\ <<"uint32", ArgumentValue(d, DURATION_ARG), 0>> \in written
=============================================================================
