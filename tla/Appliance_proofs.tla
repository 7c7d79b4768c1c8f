--------------------------- MODULE Appliance_proofs ---------------------------
(***************************************************************************)
(* Inv is an inductive invariant of Appliance, for every pool size, every  *)
(* set of requests and every number of requests on a connection; the       *)
(* safety properties of Appliance follow from it.                          *)
(*                                                                         *)
(* The proof goes conjunct by conjunct of Inv: one lemma for what a step   *)
(* does to each, over the four parts of Next.  Type correctness needs the  *)
(* counting conjuncts (a device is written at an index the counters keep   *)
(* inside the array), and these need each other.                           *)
(***************************************************************************)
EXTENDS ApplianceInvariant, TLAPS

-----------------------------------------------------------------------------
(* Bytes and words. *)

\* next() returns a byte, past the end of the buffer too.
LEMMA ByteAtType ==
    ASSUME NEW buf \in Seq(Bytes), NEW p \in 0..Len(buf), NEW k \in Nat \ {0}
    PROVE  ByteAt(buf, p, k) \in Bytes
  BY DEF ByteAt, Bytes

\* buffer_position never leaves the buffer.
LEMMA SkipType ==
    ASSUME NEW buf \in Seq(Bytes), NEW p \in 0..Len(buf), NEW n \in Nat
    PROVE  Skip(buf, p, n) \in 0..Len(buf)
  BY DEF Skip

\* assemble_uint32_Byte() puts some word together from any four bytes.
LEMMA WordAtType ==
    ASSUME NEW buf, NEW p
    PROVE  WordAt(buf, p) \in Words
  BY DEF WordAt, Words

\* A fixmap header is for 1 to 15 entries.
LEMMA MapEntries ==
    ASSUME NEW b \in Bytes, IsMap(b)
    PROVE  b[2] \in 1..15
  BY DEF Bytes, IsMap, Types, Words, NUL, FIXINT

\* setElementValue() takes a number of bytes whatever the type.
LEMMA PayloadLengthType ==
    ASSUME NEW t
    PROVE  PayloadLength(t) \in Nat
  BY DEF PayloadLength

\* No key that is sent is mistaken for one that malloc left.
LEMMA NoJunkWord == "junk" \notin Words
  BY WordsAssumption DEF Words

\* The three above, at the handler's position.
LEMMA BufferTypes ==
    ASSUME TypeOK
    PROVE  /\ Byte(1) \in Bytes
           /\ \A k \in Nat : Word(k) \in Words
           /\ \A n \in Nat : Consume(n) => buffer_position' \in 0..Len(request)
<1>1. Byte(1) \in Bytes
  BY ByteAtType DEF TypeOK, HandlerTypeOK, Byte
<1>2. \A k \in Nat : Word(k) \in Words
  BY WordAtType DEF Word
<1>3. \A n \in Nat : Consume(n) => buffer_position' \in 0..Len(request)
  BY SkipType DEF TypeOK, HandlerTypeOK, Consume
<1> QED
  BY <1>1, <1>2, <1>3

-----------------------------------------------------------------------------
(* What is kept, and what the pools hand out. *)

\* A step that leaves the container alone keeps its types.
LEMMA ContainerKept ==
    ASSUME ContainerTypeOK, UNCHANGED containerVars
    PROVE  ContainerTypeOK'
  BY Zenon DEF ContainerTypeOK, containerVars, poolVars

\* A step that leaves the command alone keeps its types.
LEMMA CommandKept ==
    ASSUME CommandTypeOK, UNCHANGED <<command_executing, commandVars>>
    PROVE  CommandTypeOK'
  BY DEF CommandTypeOK, commandVars

\* A step that leaves the parser alone keeps its types.
LEMMA HandlerKept ==
    ASSUME HandlerTypeOK, UNCHANGED <<status, parseVars>>
    PROVE  HandlerTypeOK'
  BY DEF HandlerTypeOK, parseVars, counterVars, bufferVars

\* A key takes the next element of the pool, while there is one.
LEMMA TakeElementType ==
    ASSUME TypeOK, ~NoElementLeft
    PROVE  /\ NextElement \in Elements \cup {Junk}
           /\ TakeElement => /\ total_element4BCP' \in 0..MaxElements
                             /\ key' \in [Elements -> WordValues]
<1>1. total_element4BCP \in 0..MaxElements /\ key \in [Elements -> WordValues]
  BY DEF TypeOK, HandlerTypeOK, ContainerTypeOK
<1>2. NextElement \in Elements \cup {Junk}
  BY <1>1, PoolAssumption DEF NextElement, NoElementLeft, Elements, Junk
<1>3. ASSUME TakeElement PROVE total_element4BCP' \in 0..MaxElements
  BY <1>1, <1>3, PoolAssumption DEF TakeElement, NoElementLeft
<1>4. Word(2) \in WordValues
  BY WordAtType DEF Word, WordValues
<1>5. ASSUME TakeElement PROVE key' \in [Elements -> WordValues]
  BY <1>1, <1>4, <1>5 DEF TakeElement
<1> QED
  BY <1>2, <1>3, <1>5

\* So does an argument, with the next value of its pool while there is one.
LEMMA NextArgumentType ==
    ASSUME TypeOK, ArgumentKeyFound
    PROVE  /\ total_element4BCP + 1 \in Elements
           /\ NextValue \in Values \cup {Junk}
           /\ (IF NextValue = Junk THEN total_elementValue4BCP
               ELSE total_elementValue4BCP + 1) \in 0..NumValues
<1>1. /\ total_element4BCP \in 0..MaxElements
      /\ total_elementValue4BCP \in 0..NumValues
  BY DEF TypeOK, HandlerTypeOK
<1>2. total_element4BCP + 1 \in Elements
  BY <1>1, PoolAssumption DEF ArgumentKeyFound, Elements
<1>3. CASE total_elementValue4BCP < NumValues
  BY <1>1, <1>2, <1>3, PoolAssumption DEF NextValue, Values, Junk
<1>4. CASE ~(total_elementValue4BCP < NumValues)
  BY <1>1, <1>2, <1>4, PoolAssumption DEF NextValue, Junk
<1> QED
  BY <1>3, <1>4

\* An element that has a key keeps one, and the element taken gets one.
LEMMA KeysStay ==
    ASSUME TypeOK, TakeElement, ~NoElementLeft
    PROVE  /\ \A e \in Elements : key[e] # "junk" => key'[e] # "junk"
           /\ NextElement # Junk => key'[NextElement] # "junk"
<1>1. key \in [Elements -> WordValues]
  BY DEF TypeOK, ContainerTypeOK
<1>2. Word(2) # "junk"
  BY WordAtType, NoJunkWord DEF Word
<1>3. NextElement # Junk => KeyFound /\ NextElement \in Elements
  BY TakeElementType DEF NextElement
<1> QED
  BY <1>1, <1>2, <1>3 DEF TakeElement

\* map4BCP.elements is written at one index only.
LEMMA StoreElementType ==
    ASSUME TypeOK, ~NoElementLeft, NEW i \in 0..(MaxDevices - 1), StoreElement(i)
    PROVE  /\ map4BCP_elements' \in [0..(MaxDevices - 1) -> Elements \cup {Junk}]
           /\ map4BCP_elements'[i] = NextElement
           /\ \A j \in 0..(MaxDevices - 1) :
                  j # i => map4BCP_elements'[j] = map4BCP_elements[j]
<1>1. map4BCP_elements \in [0..(MaxDevices - 1) -> Elements \cup {Junk}]
  BY DEF TypeOK, ContainerTypeOK
<1> QED
  BY <1>1, TakeElementType DEF StoreElement

\* map4BCP_elements holds an element or what malloc left, up to its end.
LEMMA ElementType ==
    ASSUME TypeOK, NEW i \in Nat, i < MaxDevices
    PROVE  map4BCP_elements[i] \in Elements \cup {Junk}
  BY PoolAssumption DEF TypeOK, ContainerTypeOK

\* A device the connection sent is an element, not what malloc left.
LEMMA SentElement ==
    ASSUME TypeOK, NEW i \in Nat, i < MaxDevices, DeviceSent(map4BCP_elements[i])
    PROVE  map4BCP_elements[i] \in Elements
  BY ElementType DEF DeviceSent

\* When its last argument has been read, the device is one the connection sent.
LEMMA DeviceDone ==
    ASSUME Inv, AtNextKey
    PROVE  /\ DeviceSent(Device)
           /\ element4BCP_number \in 0..(MaxDevices - 1)
           /\ Device \in Elements
           /\ map4BCP_size = element4BCP_number + 1
           /\ 2 * element4BCP_number + 2 <= total_element4BCP
<1>1. status = "SETTING_ARGS" /\ nested_element4BCP \in Nat \ {0}
  BY DEF Inv, AtNextKey, StatusAtPoint, ArgumentsCounted, TypeOK, HandlerTypeOK
<1>2. /\ element4BCP_number \in 0..(MaxDevices - 1)
      /\ map4BCP_size = element4BCP_number + 1
  BY <1>1, PoolAssumption DEF Inv, AtNextKey, DevicesCounted, DeviceOpen, Sound,
     TypeOK, HandlerTypeOK
<1>3. Device # Junk /\ <<"nested", Device, STATE_ARG>> \in written
  BY <1>1 DEF Inv, AtNextKey, ArgumentsCounted
<1>4. Device \in Elements
  BY <1>2, <1>3 DEF Inv, TypeOK, ContainerTypeOK, Device
<1>5. key[Device] # "junk"
  BY <1>1, <1>3 DEF Inv, AtNextKey, DevicesSent, Sound, DeviceOpen
<1>6. 2 * element4BCP_number + 2 <= total_element4BCP
  BY <1>1, <1>3 DEF Inv, AtNextKey, ElementsTaken, DeviceOpen, TypeOK,
     HandlerTypeOK
<1> QED
  BY <1>2, <1>3, <1>4, <1>5, <1>6 DEF DeviceSent

-----------------------------------------------------------------------------
(* Type correctness *)

\* assembleMap() keeps the indices and pointers of the container in range.
LEMMA TypeAssembleContainer ==
    ASSUME Inv, AssembleNext
    PROVE  ContainerTypeOK'
<1>1. TypeOK /\ ContainerTypeOK
  BY DEF Inv, TypeOK
<1>2. CASE UNCHANGED containerVars
  BY <1>1, <1>2, ContainerKept
<1>3. CASE AssembleFirst
  <2>1. element4BCP_number \in 0..(MaxDevices - 1)
    BY <1>1, <1>3, PoolAssumption DEF AssembleFirst, TypeOK, HandlerTypeOK
  <2>2. map4BCP_size' \in 0..MaxDevices
    BY <1>3, <2>1, PoolAssumption DEF AssembleFirst, SizeAfterFirst, Inv,
       DevicesCounted, Sound, DeviceOpen
  <2>3. map4BCP_elements' \in [0..(MaxDevices - 1) -> Elements \cup {Junk}]
    BY <1>1, <1>3, <2>1, StoreElementType DEF AssembleFirst
  <2>4. key' \in [Elements -> WordValues]
    BY <1>1, <1>3, TakeElementType DEF AssembleFirst
  <2> QED
    BY <1>1, <1>3, <2>2, <2>3, <2>4, Zenon DEF AssembleFirst, ContainerTypeOK
<1>4. CASE AssembleArgument
  <2>1. /\ total_element4BCP + 1 \in Elements
        /\ NextValue \in Values \cup {Junk}
    BY <1>1, <1>4, NextArgumentType DEF AssembleArgument
  <2>2. \A k \in Nat : Word(k) \in WordValues
    BY <1>1, BufferTypes DEF WordValues
  <2>3. key' \in [Elements -> WordValues]
    BY <1>1, <1>4, <2>2 DEF AssembleArgument, ContainerTypeOK
  <2>4. value' \in [Elements -> Values \cup {Junk}]
    BY <1>1, <1>4, <2>1 DEF AssembleArgument, ContainerTypeOK
  <2>5. nested_elements' \in [Elements ->
                                [{STATE_ARG, DURATION_ARG} -> Elements \cup {Junk}]]
    BY <1>1, <1>4, <2>1 DEF AssembleArgument, ContainerTypeOK
  <2>6. bool_value' \in [Values -> BoolValues]
    BY <1>1, <1>4 DEF AssembleArgument, ContainerTypeOK, SetElementValue, BoolValues
  <2>7. uint32_value' \in [Values -> WordValues]
    BY <1>1, <1>4, <2>2 DEF AssembleArgument, ContainerTypeOK, SetElementValue
  <2>8. Device \in Elements
    <3>1. element4BCP_number \in 0..(MaxDevices - 1)
      BY <1>1, <1>4, PoolAssumption DEF AssembleArgument, Inv, StatusAtPoint,
         DevicesCounted, DeviceOpen, TypeOK, HandlerTypeOK
    <3> QED
      BY <1>1, <1>4, <3>1 DEF AssembleArgument, ArgumentUndefined, ContainerTypeOK,
         Device
  <2>9. ArgumentWrites \in SUBSET WrittenFields
    <3>1. ArgumentType[1] \in {"nil", "false", "true", "uint32"}
            => NextValue \in Values
      BY <1>4, <2>1 DEF AssembleArgument, ArgumentUndefined, WritesValue, Types
    <3> QED
      BY <2>8, <3>1 DEF ArgumentWrites, WrittenFields
  <2>10. written' \in SUBSET WrittenFields
    BY <1>1, <1>4, <2>9 DEF AssembleArgument, ContainerTypeOK
  <2> QED
    BY <1>1, <1>4, <2>3, <2>4, <2>5, <2>6, <2>7, <2>10, Zenon
    DEF AssembleArgument, ContainerTypeOK
<1>5. CASE AssembleExecuteFlag \/ AssembleExecuteFlagRefused
  <2>1. key' \in [Elements -> WordValues]
    BY <1>1, <1>5, TakeElementType DEF AssembleExecuteFlag,
       AssembleExecuteFlagRefused, DeviceComplete
  <2> QED
    BY <1>1, <1>5, <2>1, Zenon DEF AssembleExecuteFlag,
       AssembleExecuteFlagRefused, ContainerTypeOK
<1>6. CASE AssembleNextDevice
  <2>1. element4BCP_number + 1 \in 0..(MaxDevices - 1)
    BY <1>1, <1>6, PoolAssumption DEF AssembleNextDevice, TypeOK, HandlerTypeOK
  <2>2. map4BCP_size' \in 0..MaxDevices
    BY <1>6, <2>1, DeviceDone, PoolAssumption DEF AssembleNextDevice
  <2>3. map4BCP_elements' \in [0..(MaxDevices - 1) -> Elements \cup {Junk}]
    BY <1>1, <1>6, <2>1, StoreElementType DEF AssembleNextDevice
  <2>4. key' \in [Elements -> WordValues]
    BY <1>1, <1>6, TakeElementType DEF AssembleNextDevice, DeviceComplete
  <2> QED
    BY <1>1, <1>6, <2>2, <2>3, <2>4, Zenon DEF AssembleNextDevice, ContainerTypeOK
<1>7. AssembleReady \/ AssembleSpins \/ AssembleHeader \/ AssembleArguments
      \/ AssembleHeaderRefused \/ AssembleFirstUndefined
      \/ AssembleArgumentsRefused \/ AssembleArgumentUndefined
      \/ AssembleArgumentRefused \/ AssembleNextDeviceUndefined
        => UNCHANGED containerVars
  BY Zenon DEF AssembleReady, AssembleSpins, AssembleHeader, AssembleArguments,
     AssembleHeaderRefused, AssembleFirstUndefined, AssembleArgumentsRefused,
     AssembleArgumentUndefined, AssembleArgumentRefused,
     AssembleNextDeviceUndefined, Undefined, RefuseAfter
<1> QED
  BY <1>2, <1>3, <1>4, <1>5, <1>6, <1>7 DEF AssembleNext

\* assembleMap() keeps the parser's own counters in range.
LEMMA TypeAssembleHandler ==
    ASSUME Inv, AssembleNext
    PROVE  HandlerTypeOK'
<1>1. TypeOK /\ HandlerTypeOK
  BY DEF Inv, TypeOK
<1>2. \A n \in Nat : Consume(n) => buffer_position' \in 0..Len(request)
  BY <1>1, BufferTypes
<1>3. CASE UNCHANGED <<status, parseVars>>
  BY <1>1, <1>3, HandlerKept
<1>4. CASE AssembleHeader \/ AssembleHeaderRefused \/ AssembleArgumentsRefused
           \/ AssembleArgumentRefused
  BY <1>1, <1>2, <1>4 DEF AssembleHeader, AssembleHeaderRefused,
     AssembleArgumentsRefused, AssembleArgumentRefused, RefuseAfter, Refuse,
     HandlerTypeOK, Statuses, counterVars
<1>5. CASE AssembleArguments
  <2>1. map_size' \in 0..15
    BY <1>1, <1>5, BufferTypes, MapEntries DEF AssembleArguments
  <2> QED
    BY <1>1, <1>2, <1>5, <2>1 DEF AssembleArguments, HandlerTypeOK
<1>6. CASE AssembleFirst
  <2>1. total_element4BCP' \in 0..MaxElements
    BY <1>1, <1>6, TakeElementType DEF AssembleFirst
  <2>2. KeyLength \in Nat
    BY DEF KeyLength
  <2> QED
    BY <1>1, <1>2, <1>6, <2>1, <2>2 DEF AssembleFirst, HandlerTypeOK,
       StatusAfterFirst, Statuses
<1>7. CASE AssembleArgument
  <2>1. /\ total_element4BCP' \in 0..MaxElements
        /\ nested_element4BCP' \in 0..MaxElements
    <3>1. nested_element4BCP <= total_element4BCP
      BY DEF Inv, ElementsTaken
    <3>2. /\ total_element4BCP + 1 \in 0..MaxElements
          /\ nested_element4BCP \in Nat
      BY <1>1, <1>7, NextArgumentType DEF AssembleArgument, Elements, HandlerTypeOK
    <3>3. nested_element4BCP + 1 \in 0..MaxElements
      BY <1>1, <3>1, <3>2, PoolAssumption DEF HandlerTypeOK
    <3> QED
      BY <1>7, <3>2, <3>3 DEF AssembleArgument
  <2>2. total_elementValue4BCP' \in 0..NumValues
    BY <1>1, <1>7, NextArgumentType DEF AssembleArgument
  <2>3. map_size' \in 0..15
    BY <1>1, <1>7 DEF AssembleArgument, HandlerTypeOK
  <2>4. buffer_position' \in 0..Len(request)
    BY <1>2, <1>7, PayloadLengthType DEF AssembleArgument
  <2> QED
    BY <1>1, <1>7, <2>1, <2>2, <2>3, <2>4 DEF AssembleArgument, HandlerTypeOK
<1>8. CASE AssembleExecuteFlag \/ AssembleExecuteFlagRefused \/ AssembleNextDevice
  <2>1. total_element4BCP' \in 0..MaxElements
    BY <1>1, <1>8, TakeElementType DEF AssembleExecuteFlag,
       AssembleExecuteFlagRefused, AssembleNextDevice, DeviceComplete
  <2>2. element4BCP_number' \in 0..MaxDevices /\ nested_element4BCP' = 0
    BY <1>8, DeviceDone, PoolAssumption DEF AssembleExecuteFlag,
       AssembleExecuteFlagRefused, AssembleNextDevice, DeviceComplete
  <2>3. KeyLength \in Nat /\ AfterKey \in Nat
    BY DEF KeyLength, AfterKey
  <2>4. buffer_position' \in 0..Len(request)
    BY <1>2, <1>8, <2>3 DEF AssembleExecuteFlag, AssembleExecuteFlagRefused,
       AssembleNextDevice
  <2>5. status' \in Statuses /\ armed' \in BOOLEAN
    BY <1>1, <1>8 DEF AssembleExecuteFlag, AssembleExecuteFlagRefused,
       AssembleNextDevice, Refuse, Statuses, HandlerTypeOK
  <2>6. UNCHANGED <<no_args, request, total_elementValue4BCP, map_size>>
    BY <1>8 DEF AssembleExecuteFlag, AssembleExecuteFlagRefused,
       AssembleNextDevice
  <2>7. nested_element4BCP' \in 0..MaxElements
    BY <2>2, PoolAssumption
  <2> QED
    BY <1>1, <2>1, <2>2, <2>4, <2>5, <2>6, <2>7, Zenon DEF HandlerTypeOK
<1>9. AssembleReady \/ AssembleSpins \/ AssembleFirstUndefined
      \/ AssembleArgumentUndefined \/ AssembleNextDeviceUndefined
        => UNCHANGED <<status, parseVars>>
  BY Zenon DEF AssembleReady, AssembleSpins, AssembleFirstUndefined,
     AssembleArgumentUndefined, AssembleNextDeviceUndefined, Undefined
<1> QED
  BY <1>3, <1>4, <1>5, <1>6, <1>7, <1>8, <1>9 DEF AssembleNext

\* assembleMap() keeps every type.
LEMMA TypeAssemble ==
    ASSUME Inv, AssembleNext, UNCHANGED served
    PROVE  TypeOK'
<1> USE DEF AssembleNext, AssembleReady, AssembleSpins, AssembleHeader,
    AssembleHeaderRefused, AssembleFirst, AssembleFirstUndefined,
    AssembleArguments, AssembleArgumentsRefused, AssembleArgument,
    AssembleArgumentUndefined, AssembleArgumentRefused, AssembleExecuteFlag,
    AssembleExecuteFlagRefused, AssembleNextDevice,
    AssembleNextDeviceUndefined, AtNextKey, Undefined, RefuseAfter, Refuse,
    parseVars
<1>1. UNCHANGED commandVars
  OBVIOUS
<1>2. command_executing' \in Words
  BY BufferTypes DEF Inv, TypeOK, CommandTypeOK
<1>3. CommandTypeOK'
  BY <1>1, <1>2 DEF Inv, TypeOK, CommandTypeOK, commandVars
<1>4. pc' \in Points
  BY DEF Points, Inv, TypeOK
<1> QED
  BY <1>3, <1>4, TypeAssembleContainer, TypeAssembleHandler DEF Inv, TypeOK

\* processStream() keeps every type.
LEMMA TypeStream ==
    ASSUME Inv, StreamNext, UNCHANGED served
    PROVE  TypeOK'
<1>1. TypeOK /\ ContainerTypeOK /\ CommandTypeOK /\ HandlerTypeOK
  BY DEF Inv, TypeOK
<1> USE DEF StreamNext, StreamArray, StreamMap, StreamMalformed, StreamDone,
    ProcessMap, ProcessMapRefused, Dispatch, Executed, AtProcessMap,
    RefuseAfter, Refuse, parseVars
<1>2. UNCHANGED containerVars
  OBVIOUS
<1>3. pc' \in Points
  BY DEF Points
<1>4. HandlerTypeOK'
  BY <1>1, BufferTypes DEF HandlerTypeOK, Statuses, counterVars, bufferVars
<1>5. CommandTypeOK'
  <2>1. AssembleCommand => devices_element_list' \in
                             [0..(MaxDevices - 1) -> Elements \cup {Junk}]
    BY <1>1 DEF AssembleCommand, CommandTypeOK, ContainerTypeOK
  <2> QED
    BY <1>1, <2>1, PoolAssumption DEF InitCommand, CommandTypeOK, commandVars
<1> QED
  BY <1>1, <1>2, <1>3, <1>4, <1>5, ContainerKept DEF TypeOK

\* What set_actuator() reads as a state is one.
LEMMA StatesOfType ==
    ASSUME ContainerTypeOK, NEW d \in Elements \cup {Junk}
    PROVE  StatesOf(d) \subseteq {"on", "off"}
<1>1. ArgumentValue(d, STATE_ARG) \in Values \cup {Junk}
  BY DEF ArgumentValue, ContainerTypeOK, Junk
<1> QED
  BY <1>1 DEF StatesOf, ContainerTypeOK, BoolValues

\* initCommand(), assembleCommand() and execute() keep every type.
LEMMA TypeCommands ==
    ASSUME Inv, CommandsNext, UNCHANGED <<status, parseVars, containerVars, served>>
    PROVE  TypeOK'
<1>1. TypeOK /\ ContainerTypeOK /\ CommandTypeOK /\ HandlerTypeOK
  BY DEF Inv, TypeOK
<1>2. CommandTypeOK' /\ pc' \in Points
  <2>1. CASE SetActuator
    <3>1. total_devices_executed \in 0..(MaxDevices - 1)
      BY <1>1, <2>1, PoolAssumption DEF SetActuator, CommandTypeOK, ContainerTypeOK
    <3>2. NextDevice \in Elements \cup {Junk}
      BY <1>1, <3>1 DEF NextDevice, CommandTypeOK
    <3>3. pin' \in [Actuators -> {"on", "off"}]
      BY <1>1, <2>1, <3>2, StatesOfType DEF SetActuator, CommandTypeOK
    <3> QED
      BY <1>1, <2>1, <3>1, <3>3, PoolAssumption DEF SetActuator, CommandTypeOK,
         TypeOK, parseVars
  <2>2. CASE GetData \/ UnknownCommand \/ SetActuatorRefused \/ SetActuatorDone
    BY <1>1, <2>2 DEF GetData, UnknownCommand, SetActuatorRefused,
       SetActuatorDone, Return, CommandTypeOK, Results, Points, parseVars
  <2> QED
    BY <2>1, <2>2 DEF CommandsNext
<1> QED
  BY <1>1, <1>2, ContainerKept, HandlerKept DEF TypeOK

\* loop() around the parser keeps every type.
LEMMA TypeLoop ==
    ASSUME Inv, LoopNext
    PROVE  TypeOK'
<1>1. TypeOK /\ ContainerTypeOK /\ CommandTypeOK /\ HandlerTypeOK
  BY DEF Inv, TypeOK
<1>2. CASE Connect \/ NoMoreData \/ Wild
           \/ \E r \in Requests : ReceiveTooLong(r)
  <2>1. UNCHANGED <<status, parseVars, containerVars, commandVars>>
    BY <1>2 DEF Connect, NoMoreData, Wild, ReceiveTooLong, vars
  <2>2. pc' \in Points /\ served' \in 0..MaxServed
    BY <1>1, <1>2, ApplianceAssumption DEF Connect, NoMoreData, Wild,
       ReceiveTooLong, vars, TypeOK, Points
  <2> QED
    BY <1>1, <2>1, <2>2, ContainerKept, CommandKept, HandlerKept
    DEF TypeOK, parseVars
<1>3. CASE \E r \in Requests : Receive(r)
  <2>1. PICK r \in Requests : Receive(r)
    BY <1>3
  <2>2. HandlerTypeOK'
    <3>1. r \in Seq(Bytes) /\ 0 \in 0..Len(r)
      BY ApplianceAssumption
    <3>2. status' \in Statuses
      BY <2>1 DEF Receive, InitStream, Statuses
    <3> QED
      BY <1>1, <2>1, <3>1, <3>2, Zenon DEF Receive, InitStream, HandlerTypeOK,
         counterVars
  <2>3. CommandTypeOK'
    BY <1>1, <2>1 DEF Receive, InitStream, CommandTypeOK, Results
  <2>4. pc' \in Points /\ served' \in 0..MaxServed
    BY <1>1, <2>1, ApplianceAssumption DEF Receive, InitStream, TypeOK, Points
  <2> QED
    BY <1>1, <2>1, <2>2, <2>3, <2>4, ContainerKept DEF Receive, TypeOK
<1>4. CASE Close
  <2>1. HandlerTypeOK'
    <3>1. <<>> \in Seq(Bytes) /\ 0 \in 0..Len(<<>>)
      OBVIOUS
    <3>2. 0 \in 0..MaxDevices /\ 0 \in 0..MaxElements /\ 0 \in 0..NumValues
      BY PoolAssumption
    <3>3. status' \in Statuses /\ no_args' \in BOOLEAN /\ armed' \in BOOLEAN
      BY <1>4 DEF Close, HandlerReset, Statuses
    <3> QED
      BY <1>1, <1>4, <3>1, <3>2, <3>3, Zenon DEF Close, HandlerReset, HandlerTypeOK
  <2>2. CommandTypeOK'
    BY <1>1, <1>4, PoolAssumption DEF Close, CommandsReset, CommandTypeOK, Results
  <2>3. map4BCP_size' \in 0..MaxDevices /\ written' \in SUBSET WrittenFields
    BY <1>4, PoolAssumption DEF Close, HandlerReset
  <2>4. ContainerTypeOK'
    BY <1>1, <1>4, <2>3, Zenon DEF Close, HandlerReset, ContainerTypeOK
  <2>5. pc' \in Points /\ served' \in 0..MaxServed
    BY <1>4, ApplianceAssumption DEF Close, Points
  <2> QED
    BY <2>1, <2>2, <2>4, <2>5 DEF TypeOK
<1> QED
  BY <1>2, <1>3, <1>4 DEF LoopNext

\* Every step keeps every type.
LEMMA TypeStep ==
    ASSUME Inv, Next
    PROVE  TypeOK'
  BY TypeAssemble, TypeStream, TypeCommands, TypeLoop DEF Next

-----------------------------------------------------------------------------
(* One lemma for each of the other conjuncts. *)

\* Every step leads to a status that is possible where the thread then is.
LEMMA StatusStep ==
    ASSUME Inv, Next
    PROVE  StatusAtPoint'
<1> USE DEF Inv, StatusAtPoint
<1>1. CASE StreamNext
  BY <1>1, SMTT(30) DEF ProcessMapAccepts, StreamHasMore,
      StreamNext, StreamArray, StreamMap, StreamMalformed, StreamDone,
      ProcessMap, ProcessMapRefused, Dispatch, Executed, AtProcessMap,
      RefuseAfter, Refuse, parseVars, bufferVars, counterVars, containerVars,
      poolVars
<1>2. CASE AssembleNext
  BY <1>2, SMTT(30) DEF StatusAfterFirst,
      AssembleNext, AssembleReady, AssembleSpins, AssembleHeader,
      AssembleHeaderRefused, AssembleFirst, AssembleFirstUndefined,
      AssembleArguments, AssembleArgumentsRefused, AssembleArgument,
      AssembleArgumentUndefined, AssembleArgumentRefused,
      AssembleExecuteFlag, AssembleExecuteFlagRefused, AssembleNextDevice,
      AssembleNextDeviceUndefined, AtNextKey, Undefined, RefuseAfter,
      Refuse, parseVars, bufferVars, counterVars, containerVars, poolVars,
      commandVars
<1>3. CASE CommandsNext /\ UNCHANGED <<status, parseVars, containerVars, served>>
  BY <1>3 DEF CommandsNext, GetData, UnknownCommand, SetActuator,
      SetActuatorRefused, SetActuatorDone, Return, parseVars, bufferVars,
      counterVars, containerVars, poolVars
<1>4. CASE LoopNext
  BY <1>4 DEF LoopNext, Connect, Receive, ReceiveTooLong, NoMoreData, Close, Wild,
      InitStream, HandlerReset, CommandsReset, vars, parseVars, bufferVars,
      counterVars, containerVars, poolVars, commandVars
<1> QED
  BY <1>1, <1>2, <1>3, <1>4 DEF Next

\* Every step keeps the relation of the two counters of devices.
LEMMA CountedStep ==
    ASSUME Inv, Next
    PROVE  DevicesCounted'
<1> USE DEF Inv, StatusAtPoint, DevicesCounted, DeviceOpen, Sound
<1>1. CASE StreamNext
  BY <1>1, SMTT(30) DEF StreamNext, StreamArray, StreamMap, StreamMalformed, StreamDone,
      ProcessMap, ProcessMapRefused, Dispatch, Executed, AtProcessMap,
      RefuseAfter, Refuse, parseVars, bufferVars, counterVars, containerVars,
      poolVars
<1>2. CASE AssembleNext
  <2>1. CASE AssembleReady \/ AssembleSpins \/ AssembleHeader \/ AssembleArguments
             \/ AssembleArgument
    BY <2>1 DEF AssembleReady, AssembleSpins, AssembleHeader, AssembleArguments,
       AssembleArgument, parseVars, counterVars, containerVars, poolVars
  <2>2. CASE AssembleFirst
    BY <2>2 DEF AssembleFirst, StatusAfterFirst, SizeAfterFirst
  <2>3. CASE AssembleExecuteFlag
    BY <2>3 DEF AssembleExecuteFlag, DeviceComplete, AtNextKey
  <2>4. CASE AssembleNextDevice
    <3>1. element4BCP_number \in 0..MaxDevices
      BY DEF TypeOK, HandlerTypeOK
    <3> QED
      BY <2>4, <3>1, PoolAssumption DEF AssembleNextDevice, DeviceComplete, AtNextKey
  <2>5. CASE pc' \in {"close", "undefined"}
    BY <2>5
  <2> QED
    BY <1>2, <2>1, <2>2, <2>3, <2>4, <2>5 DEF AssembleNext,
       AssembleHeaderRefused, AssembleFirstUndefined, AssembleArgumentsRefused,
       AssembleArgumentUndefined, AssembleArgumentRefused,
       AssembleExecuteFlagRefused, AssembleNextDeviceUndefined, Undefined,
       RefuseAfter, Refuse
<1>3. CASE CommandsNext /\ UNCHANGED <<status, parseVars, containerVars, served>>
  BY <1>3 DEF CommandsNext, GetData, UnknownCommand, SetActuator,
      SetActuatorRefused, SetActuatorDone, Return, parseVars, bufferVars,
      counterVars, containerVars, poolVars
<1>4. CASE LoopNext
  BY <1>4 DEF LoopNext, Connect, Receive, ReceiveTooLong, NoMoreData, Close, Wild,
      InitStream, HandlerReset, CommandsReset, vars, parseVars, bufferVars,
      counterVars, containerVars, poolVars, commandVars
<1> QED
  BY <1>1, <1>2, <1>3, <1>4 DEF Next

\* A device that is complete has taken its key and at least one argument.
LEMMA TakenStep ==
    ASSUME Inv, Next
    PROVE  ElementsTaken'
<1> USE DEF Inv, ElementsTaken, StatusAtPoint, DeviceOpen, Device
<1>1. CASE StreamNext
  BY <1>1, SMTT(30) DEF StreamNext, StreamArray, StreamMap, StreamMalformed, StreamDone,
      ProcessMap, ProcessMapRefused, Dispatch, Executed, AtProcessMap,
      RefuseAfter, Refuse, parseVars, bufferVars, counterVars, containerVars,
      poolVars
<1>2. CASE AssembleNext
  <2>1. CASE AssembleFirst
    <3>1. element4BCP_number \in 0..(MaxDevices - 1)
      BY <2>1, PoolAssumption DEF AssembleFirst, TypeOK, HandlerTypeOK
    <3>2. Device' = NextElement
      BY <2>1, <3>1, StoreElementType DEF AssembleFirst
    <3> QED
      BY <2>1, <3>2 DEF AssembleFirst, TakeElement, NextElement, ArgumentsCounted,
         Sound, TypeOK, HandlerTypeOK
  <2>2. CASE AssembleArgument
    BY <2>2 DEF AssembleArgument, TypeOK, HandlerTypeOK
  <2>3. CASE AssembleExecuteFlag \/ AssembleExecuteFlagRefused
    BY <2>3, DeviceDone DEF AssembleExecuteFlag, AssembleExecuteFlagRefused,
       Refuse, DeviceComplete, TakeElement, TypeOK, HandlerTypeOK
  <2>4. CASE AssembleNextDevice
    <3>1. element4BCP_number + 1 \in 0..(MaxDevices - 1)
      BY <2>4, PoolAssumption DEF AssembleNextDevice, TypeOK, HandlerTypeOK
    <3>2. Device' = NextElement
      BY <2>4, <3>1, StoreElementType DEF AssembleNextDevice, DeviceComplete
    <3> QED
      BY <2>4, <3>2, DeviceDone DEF AssembleNextDevice, DeviceComplete,
         TakeElement, NextElement, TypeOK, HandlerTypeOK
  <2> QED
    BY <1>2, <2>1, <2>2, <2>3, <2>4, SMTT(30) DEF AssembleNext,
       AssembleReady, AssembleSpins, AssembleHeader,
       AssembleHeaderRefused, AssembleFirstUndefined, AssembleArguments,
       AssembleArgumentsRefused, AssembleArgumentUndefined, AssembleArgumentRefused,
       AssembleExecuteFlagRefused, AssembleNextDeviceUndefined, Undefined,
       RefuseAfter, Refuse, parseVars, counterVars, containerVars, poolVars
<1>3. CASE CommandsNext /\ UNCHANGED <<status, parseVars, containerVars, served>>
  BY <1>3 DEF CommandsNext, GetData, UnknownCommand, SetActuator,
      SetActuatorRefused, SetActuatorDone, Return, parseVars, bufferVars,
      counterVars, containerVars, poolVars
<1>4. CASE LoopNext
  BY <1>4 DEF LoopNext, Connect, Receive, ReceiveTooLong, NoMoreData, Close, Wild,
      InitStream, HandlerReset, CommandsReset, vars, parseVars, bufferVars,
      counterVars, containerVars, poolVars, commandVars
<1> QED
  BY <1>1, <1>2, <1>3, <1>4 DEF Next

\* Every step keeps the count of the arguments of an open device.
LEMMA ArgumentsStep ==
    ASSUME Inv, Next
    PROVE  ArgumentsCounted'
<1> USE DEF Inv, ArgumentsCounted, Sound, Device
<1>1. CASE StreamNext
  BY <1>1, SMTT(30) DEF StatusAtPoint,
      StreamNext, StreamArray, StreamMap, StreamMalformed, StreamDone,
      ProcessMap, ProcessMapRefused, Dispatch, Executed, AtProcessMap,
      RefuseAfter, Refuse, parseVars, bufferVars, counterVars, containerVars,
      poolVars
<1>2. CASE AssembleNext
  <2>1. CASE AssembleReady \/ AssembleSpins \/ AssembleHeader \/ AssembleFirst
    BY <2>1 DEF AssembleReady, AssembleSpins, AssembleHeader, AssembleFirst,
       parseVars, counterVars, containerVars, poolVars
  <2>2. CASE AssembleArguments
    <3>1. map_size' \in 1..15
      BY <2>2, BufferTypes, MapEntries DEF AssembleArguments
    <3>2. pc = "assemble" /\ pc' = "nested"
      BY <2>2 DEF AssembleArguments
    <3>3. nested_element4BCP = 0
      BY <3>2
    <3>4. nested_element4BCP' = nested_element4BCP
      BY <2>2 DEF AssembleArguments
    <3>5. nested_element4BCP' = 0
      BY <3>3, <3>4, Zenon
    <3>6. /\ \A m \in 1..15 : 0 + m >= 1
          /\ ~(0 > 0)
      OBVIOUS
    <3>7. nested_element4BCP' + map_size' >= 1 /\ ~(nested_element4BCP' > 0)
      BY <3>1, <3>5, <3>6, Zenon
    <3> QED
      BY <3>2, <3>7, Zenon
  <2>3. CASE AssembleArgument
    <3>1. nested_element4BCP \in Nat /\ map_size \in 0..15 /\ pc = "nested"
      BY <2>3 DEF AssembleArgument, TypeOK, HandlerTypeOK
    <3>2. /\ nested_element4BCP' = nested_element4BCP + 1
          /\ map_size' = map_size - 1
          /\ pc' = pc
          /\ Device' = Device
          /\ Device # Junk
      BY <2>3 DEF AssembleArgument, ArgumentUndefined
    <3>3. nested_element4BCP' + map_size' >= 1
      BY <3>1, <3>2
    <3>4. written' = written \cup ArgumentWrites
      BY <2>3 DEF AssembleArgument
    <3>5. nested_element4BCP = 0 => <<"nested", Device, STATE_ARG>> \in ArgumentWrites
      BY DEF ArgumentWrites, STATE_ARG, DURATION_ARG
    <3>6. nested_element4BCP # 0 => <<"nested", Device, STATE_ARG>> \in written
      BY <3>1
    <3>7. <<"nested", Device, STATE_ARG>> \in written'
      BY <3>4, <3>5, <3>6
    <3>8. Device' # Junk /\ <<"nested", Device', STATE_ARG>> \in written'
      BY <3>2, <3>7
    <3> QED
      BY <3>1, <3>2, <3>3, <3>8, Zenon
  <2>4. CASE AssembleExecuteFlag \/ AssembleNextDevice
    BY <2>4 DEF AssembleExecuteFlag, AssembleNextDevice, DeviceComplete
  <2>5. CASE pc' \in {"close", "undefined"}
    BY <2>5
  <2> QED
    BY <1>2, <2>1, <2>2, <2>3, <2>4, <2>5 DEF AssembleNext,
       AssembleReady, AssembleSpins, AssembleHeader,
       AssembleHeaderRefused, AssembleFirstUndefined, AssembleArguments,
       AssembleArgumentsRefused, AssembleArgumentUndefined, AssembleArgumentRefused,
       AssembleExecuteFlagRefused, AssembleNextDeviceUndefined, Undefined,
       RefuseAfter, Refuse
<1>3. CASE CommandsNext /\ UNCHANGED <<status, parseVars, containerVars, served>>
  BY <1>3 DEF CommandsNext, GetData, UnknownCommand, SetActuator,
      SetActuatorRefused, SetActuatorDone, Return, parseVars, bufferVars,
      counterVars, containerVars, poolVars
<1>4. CASE LoopNext
  BY <1>4 DEF LoopNext, Connect, Receive, ReceiveTooLong, NoMoreData, Close, Wild,
      InitStream, HandlerReset, CommandsReset, vars, parseVars, bufferVars,
      counterVars, containerVars, poolVars, commandVars
<1> QED
  BY <1>1, <1>2, <1>3, <1>4 DEF Next

\* No step runs a command before its request is finished.
LEMMA NotYetRunStep ==
    ASSUME Inv, Next
    PROVE  NotYetRun'
<1> USE DEF Inv, StatusAtPoint, NotYetRun
<1>1. CASE StreamNext
  BY <1>1, SMTT(30) DEF ProcessMapAccepts, commandVars,
      StreamNext, StreamArray, StreamMap, StreamMalformed, StreamDone,
      ProcessMap, ProcessMapRefused, Dispatch, Executed, AtProcessMap,
      RefuseAfter, Refuse, parseVars, bufferVars, counterVars, containerVars,
      poolVars
<1>2. CASE AssembleNext
  BY <1>2, SMTT(30) DEF AssembleNext, AssembleReady, AssembleSpins, AssembleHeader,
      AssembleHeaderRefused, AssembleFirst, AssembleFirstUndefined,
      AssembleArguments, AssembleArgumentsRefused, AssembleArgument,
      AssembleArgumentUndefined, AssembleArgumentRefused,
      AssembleExecuteFlag, AssembleExecuteFlagRefused, AssembleNextDevice,
      AssembleNextDeviceUndefined, AtNextKey, Undefined, RefuseAfter,
      Refuse, parseVars, bufferVars, counterVars, containerVars, poolVars,
      commandVars
<1>3. CASE CommandsNext /\ UNCHANGED <<status, parseVars, containerVars, served>>
  BY <1>3 DEF CommandsNext, GetData, UnknownCommand, SetActuator,
      SetActuatorRefused, SetActuatorDone, Return, parseVars, bufferVars,
      counterVars, containerVars, poolVars
<1>4. CASE LoopNext
  BY <1>4 DEF LoopNext, Connect, Receive, ReceiveTooLong, NoMoreData, Close, Wild,
      InitStream, HandlerReset, CommandsReset, vars, parseVars, bufferVars,
      counterVars, containerVars, poolVars, commandVars
<1> QED
  BY <1>1, <1>2, <1>3, <1>4 DEF Next

\* The pools run out together with the room for devices.
LEMMA WildStep ==
    ASSUME Inv, Next
    PROVE  WildOnlyWhenSpent'
<1> USE DEF Inv, WildOnlyWhenSpent, Device
<1>1. CASE StreamNext
  BY <1>1 DEF StreamNext, StreamArray, StreamMap, StreamMalformed, StreamDone,
      ProcessMap, ProcessMapRefused, Dispatch, Executed, AtProcessMap,
      RefuseAfter, Refuse, parseVars, bufferVars, counterVars, containerVars,
      poolVars
<1>2. CASE AssembleNext
  <2>1. CASE AssembleFirstUndefined
    BY <2>1, PoolAssumption DEF AssembleFirstUndefined, Undefined, NoElementLeft,
       ElementsTaken, TypeOK, HandlerTypeOK, parseVars, counterVars
  <2>2. CASE AssembleArgumentUndefined
    BY <2>2, PoolAssumption DEF AssembleArgumentUndefined, Undefined,
       ArgumentUndefined, NextValue, Junk, TypeOK, HandlerTypeOK, parseVars,
       counterVars, containerVars, poolVars
  <2>3. CASE AssembleNextDeviceUndefined
    BY <2>3, DeviceDone, PoolAssumption DEF AssembleNextDeviceUndefined,
       Undefined, NoElementLeft, TypeOK, HandlerTypeOK, parseVars, counterVars
  <2>4. CASE pc' # "undefined"
    BY <2>4
  <2> QED
    BY <1>2, <2>1, <2>2, <2>3, <2>4 DEF AssembleNext, AssembleReady, AssembleSpins, AssembleHeader,
      AssembleHeaderRefused, AssembleFirst, AssembleFirstUndefined,
      AssembleArguments, AssembleArgumentsRefused, AssembleArgument,
      AssembleArgumentUndefined, AssembleArgumentRefused,
      AssembleExecuteFlag, AssembleExecuteFlagRefused, AssembleNextDevice,
      AssembleNextDeviceUndefined, AtNextKey, Undefined, RefuseAfter,
      Refuse, parseVars, bufferVars, counterVars, containerVars, poolVars,
      commandVars
<1>3. CASE CommandsNext /\ UNCHANGED <<status, parseVars, containerVars, served>>
  BY <1>3 DEF CommandsNext, GetData, UnknownCommand, SetActuator,
      SetActuatorRefused, SetActuatorDone, Return, parseVars, bufferVars,
      counterVars, containerVars, poolVars
<1>4. CASE LoopNext
  BY <1>4 DEF LoopNext, Connect, Receive, ReceiveTooLong, NoMoreData, Close, Wild,
      InitStream, HandlerReset, CommandsReset, vars, parseVars, bufferVars,
      counterVars, containerVars, poolVars, commandVars
<1> QED
  BY <1>1, <1>2, <1>3, <1>4 DEF Next

\* Every step that lists a device lists one this connection sent.
LEMMA SentStep ==
    ASSUME Inv, Next
    PROVE  DevicesSent'
<1> USE DEF Inv, DevicesSent, DeviceSent, Sound, Device, DeviceOpen
<1>1. CASE StreamNext
  BY <1>1, SMTT(30) DEF StatusAtPoint,
      StreamNext, StreamArray, StreamMap, StreamMalformed, StreamDone,
      ProcessMap, ProcessMapRefused, Dispatch, Executed, AtProcessMap,
      RefuseAfter, Refuse, parseVars, bufferVars, counterVars, containerVars,
      poolVars
<1>2. CASE AssembleNext
  <2>1. CASE AssembleReady \/ AssembleSpins \/ AssembleHeader \/ AssembleArguments
    BY <2>1 DEF AssembleReady, AssembleSpins, AssembleHeader, AssembleArguments,
       parseVars, counterVars, containerVars, poolVars
  <2>2. CASE AssembleFirst
    <3>1. element4BCP_number \in 0..(MaxDevices - 1)
      BY <2>2, PoolAssumption DEF AssembleFirst, TypeOK, HandlerTypeOK
    <3>2. Device' = NextElement
      BY <2>2, <3>1, StoreElementType DEF AssembleFirst
    <3>3. ASSUME NEW i \in 0..(element4BCP_number - 1)
          PROVE  DeviceSent(map4BCP_elements[i])'
      <4>1. i \in 0..(MaxDevices - 1) /\ i # element4BCP_number
        BY <3>1, PoolAssumption
      <4>2. DeviceSent(map4BCP_elements[i])
        BY <2>2 DEF AssembleFirst
      <4>3. i \in Nat /\ i < MaxDevices
        BY <4>1, PoolAssumption
      <4>4. map4BCP_elements[i] \in Elements
        BY <4>2, <4>3, SentElement
      <4>5. map4BCP_elements'[i] = map4BCP_elements[i]
        BY <2>2, <3>1, <4>1, StoreElementType DEF AssembleFirst
      <4> QED
        BY <2>2, <4>2, <4>4, <4>5, KeysStay DEF AssembleFirst
    <3> QED
      BY <2>2, <3>2, <3>3, KeysStay DEF AssembleFirst
  <2>3. CASE AssembleArgument
    <3>1. \A e \in Elements : key[e] # "junk" => key'[e] # "junk"
      <4>1. key \in [Elements -> WordValues] /\ Word(2) # "junk"
        BY BufferTypes, NoJunkWord DEF TypeOK, ContainerTypeOK
      <4> QED
        BY <2>3, <4>1 DEF AssembleArgument
    <3>2. element4BCP_number \in 0..(MaxDevices - 1)
      <4>1. element4BCP_number \in 0..MaxDevices
        BY DEF TypeOK, HandlerTypeOK
      <4>2. element4BCP_number < MaxDevices
        BY <2>3 DEF AssembleArgument, StatusAtPoint, DevicesCounted
      <4> QED
        BY <4>1, <4>2, PoolAssumption
    <3>3. \A i \in 0..element4BCP_number :
              map4BCP_elements[i] \in Elements \cup {Junk}
      BY <3>2, ElementType, PoolAssumption
    <3> QED
      BY <2>3, <3>1, <3>2, <3>3 DEF AssembleArgument, StatusAtPoint
  <2>4. CASE AssembleExecuteFlag
    <3>1. ASSUME NEW i \in 0..element4BCP_number
          PROVE  DeviceSent(map4BCP_elements[i])'
      <4>1. DeviceSent(map4BCP_elements[i])
        BY <2>4, DeviceDone DEF AssembleExecuteFlag, AtNextKey
      <4>2. i \in Nat /\ i < MaxDevices
        BY <2>4, DeviceDone, PoolAssumption DEF AssembleExecuteFlag
      <4>3. map4BCP_elements[i] \in Elements
        BY <4>1, <4>2, SentElement
      <4> QED
        BY <2>4, <4>1, <4>3, KeysStay DEF AssembleExecuteFlag, DeviceComplete
    <3>2. /\ element4BCP_number \in Nat
          /\ element4BCP_number' = element4BCP_number + 1
          /\ pc' = "stream"
      BY <2>4, DeviceDone DEF AssembleExecuteFlag, DeviceComplete
    <3> QED
      BY <3>1, <3>2
  <2>5. CASE AssembleNextDevice
    <3>1. element4BCP_number + 1 \in 0..(MaxDevices - 1)
      BY <2>5, PoolAssumption DEF AssembleNextDevice, TypeOK, HandlerTypeOK
    <3>2. Device' = NextElement
      BY <2>5, <3>1, StoreElementType DEF AssembleNextDevice, DeviceComplete
    <3>3. ASSUME NEW i \in 0..element4BCP_number
          PROVE  DeviceSent(map4BCP_elements[i])'
      <4>1. DeviceSent(map4BCP_elements[i])
        BY <2>5, DeviceDone DEF AssembleNextDevice, AtNextKey
      <4>2. i \in 0..(MaxDevices - 1) /\ i # element4BCP_number + 1
        BY <2>5, DeviceDone, PoolAssumption DEF AssembleNextDevice
      <4>3. map4BCP_elements[i] \in Elements
        BY <4>1, <4>2, SentElement, PoolAssumption
      <4>4. map4BCP_elements'[i] = map4BCP_elements[i]
        BY <2>5, <3>1, <4>2, StoreElementType DEF AssembleNextDevice
      <4> QED
        BY <2>5, <4>1, <4>3, <4>4, KeysStay DEF AssembleNextDevice, DeviceComplete
    <3> QED
      BY <2>5, <3>2, <3>3, KeysStay, DeviceDone DEF AssembleNextDevice,
         DeviceComplete
  <2>6. CASE pc' \in {"close", "undefined"}
    BY <2>6
  <2> QED
    BY <1>2, <2>1, <2>2, <2>3, <2>4, <2>5, <2>6 DEF AssembleNext,
       AssembleReady, AssembleSpins, AssembleHeader,
       AssembleHeaderRefused, AssembleFirstUndefined, AssembleArguments,
       AssembleArgumentsRefused, AssembleArgumentUndefined, AssembleArgumentRefused,
       AssembleExecuteFlagRefused, AssembleNextDeviceUndefined, Undefined,
       RefuseAfter, Refuse
<1>3. CASE CommandsNext /\ UNCHANGED <<status, parseVars, containerVars, served>>
  BY <1>3 DEF CommandsNext, GetData, UnknownCommand, SetActuator,
      SetActuatorRefused, SetActuatorDone, Return, parseVars, bufferVars,
      counterVars, containerVars, poolVars
<1>4. CASE LoopNext
  <2>1. CASE Close
    BY <2>1 DEF Close, HandlerReset
  <2>2. CASE LoopNext /\ ~Close
    BY <2>2 DEF LoopNext, Connect, Receive, ReceiveTooLong, NoMoreData, Wild,
       InitStream, vars, parseVars, counterVars, containerVars, poolVars
  <2> QED
    BY <1>4, <2>1, <2>2
<1> QED
  BY <1>1, <1>2, <1>3, <1>4 DEF Next

\* assembleCommand() lists every device before a command runs.
LEMMA ListedStep ==
    ASSUME Inv, Next
    PROVE  DevicesListed'
<1> USE DEF Inv, DevicesListed, Sound
<1>1. CASE StreamNext
  <2>1. CASE Dispatch
    <3>1. ~no_args => \A i \in 0..(element4BCP_number - 1) :
                          devices_element_list'[i] = map4BCP_elements[i]
      BY <2>1, PoolAssumption DEF Dispatch, AssembleCommand, StatusAtPoint,
         DevicesCounted, DeviceOpen, TypeOK, HandlerTypeOK, CommandTypeOK
    <3>2. no_args => \A i \in 0..(element4BCP_number - 1) :
                         devices_element_list'[i] = map4BCP_elements[i]
      BY <2>1 DEF Dispatch
    <3> QED
      BY <2>1, <3>1, <3>2 DEF Dispatch, parseVars, counterVars, containerVars,
         poolVars
  <2>2. CASE StreamArray \/ StreamMap \/ StreamMalformed \/ StreamDone
             \/ ProcessMap \/ ProcessMapRefused \/ Executed
    BY <2>2 DEF StreamArray, StreamMap, StreamMalformed, StreamDone, ProcessMap,
       ProcessMapRefused, Executed, AtProcessMap, StreamHasMore, RefuseAfter,
       Refuse, StatusAtPoint, parseVars, counterVars, containerVars, poolVars,
       commandVars
  <2> QED
    BY <1>1, <2>1, <2>2 DEF StreamNext
<1>2. CASE AssembleNext
  <2>1. CASE AssembleReady \/ AssembleSpins \/ AssembleHeader \/ AssembleArguments
    BY <2>1 DEF AssembleReady, AssembleSpins, AssembleHeader, AssembleArguments,
       parseVars, counterVars, containerVars, poolVars, commandVars
  <2>2. CASE AssembleFirst
    BY <2>2 DEF AssembleFirst, StoreElement, commandVars, TypeOK, HandlerTypeOK,
       ContainerTypeOK
  <2>3. CASE AssembleArgument
    BY <2>3 DEF AssembleArgument, commandVars
  <2>4. CASE AssembleExecuteFlag \/ AssembleNextDevice
    BY <2>4 DEF AssembleExecuteFlag, AssembleNextDevice, StatusAtPoint, AtNextKey
  <2>5. CASE pc' \in {"close", "undefined"}
    BY <2>5
  <2> QED
    BY <1>2, <2>1, <2>2, <2>3, <2>4, <2>5 DEF AssembleNext,
       AssembleReady, AssembleSpins, AssembleHeader,
       AssembleHeaderRefused, AssembleFirstUndefined, AssembleArguments,
       AssembleArgumentsRefused, AssembleArgumentUndefined, AssembleArgumentRefused,
       AssembleExecuteFlagRefused, AssembleNextDeviceUndefined, Undefined,
       RefuseAfter, Refuse
<1>3. CASE CommandsNext /\ UNCHANGED <<status, parseVars, containerVars, served>>
  BY <1>3 DEF CommandsNext, GetData, UnknownCommand, SetActuator,
      SetActuatorRefused, SetActuatorDone, Return, parseVars, bufferVars,
      counterVars, containerVars, poolVars
<1>4. CASE LoopNext
  BY <1>4 DEF StatusAtPoint,
      LoopNext, Connect, Receive, ReceiveTooLong, NoMoreData, Close, Wild,
      InitStream, HandlerReset, CommandsReset, vars, parseVars, bufferVars,
      counterVars, containerVars, poolVars, commandVars
<1> QED
  BY <1>1, <1>2, <1>3, <1>4 DEF Next

\* Only the EXECUTE_FLAG makes a request with arguments ready.
LEMMA ArmedStep ==
    ASSUME Inv, Next
    PROVE  ArmedToRun'
<1> USE DEF Inv, StatusAtPoint, ArmedToRun
<1>1. CASE StreamNext
  BY <1>1, SMTT(30) DEF ProcessMapAccepts, AtProcessMap,
      StreamNext, StreamArray, StreamMap, StreamMalformed, StreamDone,
      ProcessMap, ProcessMapRefused, Dispatch, Executed, RefuseAfter, Refuse,
      parseVars
<1>2. CASE AssembleNext
  BY <1>2, SMTT(30) DEF AssembleNext, AssembleReady, AssembleSpins, AssembleHeader,
      AssembleHeaderRefused, AssembleFirst, StatusAfterFirst,
      AssembleFirstUndefined, AssembleArguments, AssembleArgumentsRefused,
      AssembleArgument, AssembleArgumentUndefined, AssembleArgumentRefused,
      AssembleExecuteFlag, AssembleExecuteFlagRefused, AssembleNextDevice,
      AssembleNextDeviceUndefined, AtNextKey, Undefined, RefuseAfter, Refuse,
      parseVars
<1>3. CASE CommandsNext /\ UNCHANGED <<status, parseVars, containerVars, served>>
  BY <1>3 DEF CommandsNext, GetData, UnknownCommand, SetActuator,
      SetActuatorRefused, SetActuatorDone, Return, parseVars
<1>4. CASE LoopNext
  BY <1>4 DEF LoopNext, Connect, Receive, ReceiveTooLong, NoMoreData, Close,
      Wild, InitStream, HandlerReset, CommandsReset, vars, parseVars
<1> QED
  BY <1>1, <1>2, <1>3, <1>4 DEF Next

-----------------------------------------------------------------------------
(* The invariant *)

\* The invariant holds after setup().
LEMMA InvInit ==
    ASSUME Init
    PROVE  Inv
<1>1. ContainerTypeOK
  <2>1. /\ 0 \in 0..MaxDevices
        /\ [i \in 0..(MaxDevices - 1) |-> Junk] \in
               [0..(MaxDevices - 1) -> Elements \cup {Junk}]
        /\ {} \in SUBSET WrittenFields
    BY PoolAssumption
  <2>2. "junk" \in WordValues /\ "junk" \in BoolValues
    BY DEF WordValues, BoolValues
  <2> QED
    BY <2>1, <2>2 DEF Init, ContainerInit, ContainerTypeOK
<1>2. CommandTypeOK
  BY PoolAssumption DEF Init, CommandInit, CommandTypeOK, Words, Results
<1>3. HandlerTypeOK
  <2>1. <<>> \in Seq(Bytes) /\ 0 \in 0..Len(<<>>)
    OBVIOUS
  <2>2. /\ 0 \in 0..MaxDevices
        /\ 0 \in 0..MaxElements
        /\ 0 \in 0..NumValues
        /\ 0 \in 0..15
    BY PoolAssumption
  <2>3. "IDLE" \in Statuses /\ FALSE \in BOOLEAN
    BY DEF Statuses
  <2> QED
    BY <2>1, <2>2, <2>3, Zenon DEF Init, HandlerInit, HandlerTypeOK
<1>4. TypeOK
  BY <1>1, <1>2, <1>3, ApplianceAssumption DEF Init, TypeOK, Points
<1> QED
  BY <1>4, PoolAssumption DEF Init, ContainerInit, CommandInit, HandlerInit, Inv,
     StatusAtPoint, DevicesCounted, ElementsTaken, ArgumentsCounted, NotYetRun,
     DevicesSent, DevicesListed, WildOnlyWhenSpent, ArmedToRun, DeviceOpen, Sound

\* A stuttering step keeps the invariant.
LEMMA InvStutter ==
    ASSUME Inv, UNCHANGED vars
    PROVE  Inv'
<1>1. TypeOK'
  BY ContainerKept, CommandKept, HandlerKept DEF Inv, TypeOK, vars, parseVars
<1> USE DEF vars, parseVars, bufferVars, counterVars, containerVars, poolVars,
           commandVars
<1>2. StatusAtPoint' /\ NotYetRun' /\ ArmedToRun'
  BY DEF Inv, StatusAtPoint, NotYetRun, ArmedToRun
<1>3. DevicesCounted' /\ ElementsTaken' /\ ArgumentsCounted'
  BY Zenon DEF Inv, DevicesCounted, ElementsTaken, ArgumentsCounted, DeviceOpen,
     Sound, Device
<1>4. DevicesSent' /\ DevicesListed' /\ WildOnlyWhenSpent'
  BY Zenon DEF Inv, DevicesSent, DeviceSent, DevicesListed, WildOnlyWhenSpent,
     DeviceOpen, Sound, Device
<1> QED
  BY <1>1, <1>2, <1>3, <1>4 DEF Inv

\* Inv holds of every state the firmware reaches.
THEOREM InvCorrect == Spec => []Inv
<1>1. Init => Inv
  BY InvInit
<1>2. Inv /\ [Next]_vars => Inv'
  <2>1. Inv /\ Next => Inv'
    BY TypeStep, StatusStep, CountedStep, TakenStep, ArgumentsStep, NotYetRunStep,
       SentStep, ListedStep, WildStep, ArmedStep DEF Inv
  <2> QED
    BY <2>1, InvStutter
<1> QED
  BY <1>1, <1>2, PTL DEF Spec

-----------------------------------------------------------------------------
(* What follows from it *)

\* Every counter stays inside its pool and every pointer is one of the pool's
\* or junk: assembleMap() writes inside map4BCP.elements, and execute() walks no
\* further than its last entry.
THEOREM TypeCorrect == Spec => []TypeOK
<1>1. Inv => TypeOK
  BY DEF Inv
<1> QED
  BY <1>1, InvCorrect, PTL

\* map4BCP.size and element4BCP_number agree whenever a command can run, through
\* any number of requests on a connection.
THEOREM CountersCorrect == Spec => []CountersAgree
<1>1. Inv => CountersAgree
  BY DEF Inv, DevicesCounted, Sound, CountersAgree, Parsing
<1> QED
  BY <1>1, InvCorrect, PTL

\* map4BCP.elements is full only when the pool of elements is spent.
THEOREM ArrayCorrect == Spec => []ArrayOutlivesPool
<1>1. Inv => ArrayOutlivesPool
  BY PoolAssumption DEF Inv, ElementsTaken, TypeOK, HandlerTypeOK,
     ArrayOutlivesPool
<1> QED
  BY <1>1, InvCorrect, PTL

\* A wild write needs a spent pool or a device without an element.
THEOREM WildCorrect == Spec => []WildOnlyWhenSpent
<1>1. Inv => WildOnlyWhenSpent
  BY DEF Inv
<1> QED
  BY <1>1, InvCorrect, PTL

\* execute() only runs devices that its own connection has sent.
THEOREM ExecutedCorrect == Spec => []ExecutedDevicesSent
<1>1. ASSUME Inv, pc = "execute", NEW i \in 0..(map4BCP_size - 1)
      PROVE  DeviceSent(devices_element_list[i])
  <2>1. status = "EXECUTING" /\ Sound /\ ~DeviceOpen
    BY <1>1 DEF Inv, StatusAtPoint, Sound, DeviceOpen
  <2>2. map4BCP_size = element4BCP_number
    BY <1>1, <2>1 DEF Inv, DevicesCounted
  <2>3. devices_element_list[i] = map4BCP_elements[i]
    BY <1>1, <2>1, <2>2 DEF Inv, DevicesListed
  <2>4. DeviceSent(map4BCP_elements[i])
    BY <1>1, <2>1, <2>2 DEF Inv, DevicesSent
  <2> QED
    BY <2>3, <2>4
<1>2. Inv => ExecutedDevicesSent
  BY <1>1 DEF ExecutedDevicesSent, DeviceSent
<1> QED
  BY <1>2, InvCorrect, PTL

\* A request runs its command at most once, whatever follows it in the buffer.
THEOREM OnceCorrect == Spec => ExecutesOnce
<1>1. Inv /\ [Next]_vars => [pc' = "dispatch" /\ pc # "dispatch" => result = "none"]_vars
  <2> SUFFICES ASSUME Inv, Next, pc' = "dispatch", pc # "dispatch"
               PROVE  result = "none"
    OBVIOUS
  <2>1. ProcessMap
    BY DEF Next, LoopNext, Connect, Receive, ReceiveTooLong, NoMoreData, Close,
       Wild, InitStream, vars, StreamNext, StreamArray, StreamMap,
       StreamMalformed, StreamDone, ProcessMapRefused, Dispatch, Executed,
       AssembleNext, AssembleReady, AssembleSpins, AssembleHeader,
       AssembleHeaderRefused, AssembleFirst, AssembleFirstUndefined,
       AssembleArguments, AssembleArgumentsRefused, AssembleArgument,
       AssembleArgumentUndefined, AssembleArgumentRefused, AssembleExecuteFlag,
       AssembleExecuteFlagRefused, AssembleNextDevice,
       AssembleNextDeviceUndefined, Undefined, RefuseAfter, Refuse,
       CommandsNext, GetData, UnknownCommand, SetActuator, SetActuatorRefused,
       SetActuatorDone, Return
  <2>2. pc = "stream" /\ status # "FINISHED"
    BY <2>1 DEF ProcessMap, AtProcessMap, ProcessMapAccepts
  <2> QED
    BY <2>2 DEF Inv, NotYetRun
<1> QED
  BY <1>1, InvCorrect, PTL DEF Spec, ExecutesOnce

-----------------------------------------------------------------------------
(* Who moves an actuator *)

\* A pin moves in the middle of a SET_ACTUATOR, and nowhere else.
LEMMA PinsMove ==
    ASSUME Inv, Next, pin' # pin
    PROVE  SetActuator /\ status = "EXECUTING"
<1>1. SetActuator
  BY DEF Next, LoopNext, Connect, Receive, ReceiveTooLong, NoMoreData, Close,
     Wild, CommandsReset, vars, commandVars, StreamNext, StreamArray, StreamMap,
     StreamMalformed, StreamDone, ProcessMap, ProcessMapRefused, Dispatch,
     Executed, AssembleNext, AssembleReady, AssembleSpins, AssembleHeader,
     AssembleHeaderRefused, AssembleFirst, AssembleFirstUndefined,
     AssembleArguments, AssembleArgumentsRefused, AssembleArgument,
     AssembleArgumentUndefined, AssembleArgumentRefused, AssembleExecuteFlag,
     AssembleExecuteFlagRefused, AssembleNextDevice,
     AssembleNextDeviceUndefined, Undefined, RefuseAfter, CommandsNext, GetData,
     UnknownCommand, SetActuatorRefused, SetActuatorDone
<1> QED
  BY <1>1 DEF SetActuator, Inv, StatusAtPoint

\* Whatever requests a connection brings, a pin moves only after the request's
\* EXECUTE_FLAG => true, or after a GET_DATA of the connection.
THEOREM UnarmedCorrect == Spec => UnarmedNeedsGetData
<1>1. Inv /\ [Next]_vars => [pin' # pin => armed \/ no_args]_vars
  BY PinsMove DEF Inv, ArmedToRun
<1> QED
  BY <1>1, InvCorrect, PTL DEF Spec, UnarmedNeedsGetData

\* newLoop() clears no_args, so the first request of a connection finds it
\* clear, and sets it in a header that says GET_DATA.
LEMMA NoArgsStep ==
    ASSUME Inv, NoArgsIsGetData, Next, MaxServed <= 1
    PROVE  NoArgsIsGetData'
<1> USE DEF Inv, StatusAtPoint, NoArgsIsGetData
<1>1. CASE StreamNext /\ UNCHANGED served
  BY <1>1, SMTT(30) DEF ProcessMapAccepts, AtProcessMap,
      StreamNext, StreamArray, StreamMap, StreamMalformed, StreamDone,
      ProcessMap, ProcessMapRefused, Dispatch, Executed, RefuseAfter, Refuse,
      parseVars
<1>2. CASE AssembleNext /\ UNCHANGED served
  <2>1. CASE AssembleHeader
    BY <1>2, <2>1 DEF AssembleHeader, TypeOK, HandlerTypeOK
  <2>2. CASE AssembleNext /\ ~AssembleHeader
    BY <1>2, <2>2, SMTT(30) DEF AssembleNext, AssembleReady, AssembleSpins,
       AssembleHeaderRefused, AssembleFirst, StatusAfterFirst,
       AssembleFirstUndefined, AssembleArguments, AssembleArgumentsRefused,
       AssembleArgument, AssembleArgumentUndefined, AssembleArgumentRefused,
       AssembleExecuteFlag, AssembleExecuteFlagRefused, AssembleNextDevice,
       AssembleNextDeviceUndefined, AtNextKey, Undefined, RefuseAfter, Refuse,
       parseVars
  <2> QED
    BY <1>2, <2>1, <2>2
<1>3. CASE CommandsNext /\ UNCHANGED <<status, parseVars, containerVars, served>>
  BY <1>3 DEF CommandsNext, GetData, UnknownCommand, SetActuator,
      SetActuatorRefused, SetActuatorDone, Return, parseVars
<1>4. CASE LoopNext
  BY <1>4, ApplianceAssumption DEF LoopNext, Connect, Receive, ReceiveTooLong,
      NoMoreData, Close, Wild, InitStream, HandlerReset, CommandsReset, vars,
      parseVars, TypeOK
<1> QED
  BY <1>1, <1>2, <1>3, <1>4 DEF Next

\* With one request on a connection, that request is the first since newLoop(),
\* and no_args says that it is a GET_DATA.
THEOREM NoArgsCorrect == ASSUME MaxServed <= 1 PROVE Spec => []NoArgsIsGetData
<1>1. Init => NoArgsIsGetData
  BY DEF Init, HandlerInit, NoArgsIsGetData
<1>2. Inv /\ NoArgsIsGetData /\ [Next]_vars => NoArgsIsGetData'
  <2>1. Inv /\ NoArgsIsGetData /\ Next => NoArgsIsGetData'
    BY NoArgsStep
  <2>2. NoArgsIsGetData /\ UNCHANGED vars => NoArgsIsGetData'
    BY DEF NoArgsIsGetData, vars, parseVars
  <2> QED
    BY <2>1, <2>2
<1> QED
  BY <1>1, <1>2, InvCorrect, PTL DEF Spec

\* With one request on a connection, a pin moves only after the EXECUTE_FLAG =>
\* true of that request.
THEOREM PinsCorrect == ASSUME MaxServed <= 1 PROVE Spec => PinsNeedExecuteFlag
<1>1. Inv /\ NoArgsIsGetData /\ [Next]_vars => [pin' # pin => armed]_vars
  BY PinsMove DEF Inv, ArmedToRun, NoArgsIsGetData, SetActuator
<1>2. Spec => []NoArgsIsGetData
  BY NoArgsCorrect
<1> QED
  BY <1>1, <1>2, InvCorrect, PTL DEF Spec, PinsNeedExecuteFlag

-----------------------------------------------------------------------------
(* What an actuator is driven by *)

\* The position moves by what is taken, or to the end of the buffer.
LEMMA PositionMoves ==
    ASSUME TypeOK, NEW n \in Nat, Consume(n)
    PROVE  /\ Len(request) \in Nat
           /\ buffer_position \in 0..Len(request)
           /\ buffer_position' = IF buffer_position + n <= Len(request)
                                 THEN buffer_position + n ELSE Len(request)
  BY DEF TypeOK, HandlerTypeOK, Consume, Skip

\* A byte other than NUL is in the buffer.
LEMMA ByteInBuffer ==
    ASSUME TypeOK, NEW k \in Nat \ {0}, Byte(k) # NUL
    PROVE  /\ buffer_position \in Nat
           /\ Len(request) \in Nat
           /\ buffer_position + k <= Len(request)
           /\ Byte(k) = request[buffer_position + k]
           /\ ~BufferSpent
  BY DEF TypeOK, HandlerTypeOK, Byte, ByteAt, BufferSpent

\* What a device has been sent stays while its arguments are left alone.
LEMMA CompleteStays ==
    ASSUME TypeOK, UNCHANGED <<nested_elements, value, written>>,
           total_element4BCP' \in Nat, total_element4BCP <= total_element4BCP'
    PROVE  \A d : Complete(d) => Complete(d)'
<1>1. total_element4BCP \in Nat
  BY PoolAssumption DEF TypeOK, HandlerTypeOK
<1>2. \A m : m \in 1..total_element4BCP => m \in 1..total_element4BCP'
  BY <1>1
<1> QED
  BY <1>2 DEF Complete, Sent

\* An element taken for a key does not disturb it.
LEMMA TakeElementStays ==
    ASSUME TypeOK, TakeElement, ~NoElementLeft,
           UNCHANGED <<nested_elements, value, written>>
    PROVE  \A d : Complete(d) => Complete(d)'
<1>1. /\ total_element4BCP' \in Nat
      /\ total_element4BCP <= total_element4BCP'
  BY PoolAssumption DEF TypeOK, HandlerTypeOK, TakeElement
<1> QED
  BY <1>1, CompleteStays

\* An argument takes an element and a value of its own, and is stored at its own
\* position of its own device.
LEMMA ArgumentStays ==
    ASSUME TypeOK, AssembleArgument, NEW d, NEW p \in {STATE_ARG, DURATION_ARG},
           NEW f, Sent(d, p, f), d # Device \/ p # nested_element4BCP
    PROVE  Sent(d, p, f)'
<1>1. /\ total_element4BCP \in 0..MaxElements
      /\ total_element4BCP + 1 \in Elements
      /\ nested_elements \in [Elements ->
                                [{STATE_ARG, DURATION_ARG} -> Elements \cup {Junk}]]
      /\ value \in [Elements -> Values \cup {Junk}]
  BY NextArgumentType DEF AssembleArgument, TypeOK, HandlerTypeOK, ContainerTypeOK
<1> PICK e : e = nested_elements[d][p]
  OBVIOUS
<1>2. /\ d \in Elements
      /\ e \in Elements
      /\ e # total_element4BCP + 1
  BY <1>1, PoolAssumption DEF Sent, Elements
<1>3. nested_elements'[d][p] = e
  <2>1. CASE nested_element4BCP \in {STATE_ARG, DURATION_ARG}
    <3>1. nested_elements' = [nested_elements EXCEPT
                                ![Device][nested_element4BCP] = total_element4BCP + 1]
      BY <2>1 DEF AssembleArgument
    <3>2. CASE d # Device
      BY <1>1, <1>2, <3>1, <3>2
    <3>3. CASE d = Device /\ p # nested_element4BCP
      BY <1>1, <1>2, <3>1, <3>3
    <3> QED
      BY <3>2, <3>3
  <2>2. CASE nested_element4BCP \notin {STATE_ARG, DURATION_ARG}
    BY <2>2 DEF AssembleArgument
  <2> QED
    BY <2>1, <2>2
<1>4. value'[e] = value[e]
  BY <1>1, <1>2 DEF AssembleArgument
<1>5. written \subseteq written' /\ total_element4BCP' = total_element4BCP + 1
  BY DEF AssembleArgument
<1>6. d \in 1..total_element4BCP' /\ e \in 1..total_element4BCP'
  BY <1>1, <1>5 DEF Sent
<1> QED
  BY <1>3, <1>4, <1>5, <1>6 DEF Sent

\* A state or a duration is sent, when its type is right.
LEMMA ArgumentIsSent ==
    ASSUME TypeOK, AssembleArgument, NEW d \in 1..total_element4BCP, d = Device,
           NEW p \in {STATE_ARG, DURATION_ARG}, p = nested_element4BCP,
           NEW f, \/ f = "bool" /\ ArgumentType[1] \in {"nil", "false", "true"}
                  \/ f = "uint32" /\ ArgumentType[1] = "uint32"
    PROVE  Sent(d, p, f)'
<1>1. /\ total_element4BCP \in 0..MaxElements
      /\ total_element4BCP + 1 \in Elements
      /\ nested_elements \in [Elements ->
                                [{STATE_ARG, DURATION_ARG} -> Elements \cup {Junk}]]
      /\ value \in [Elements -> Values \cup {Junk}]
  BY NextArgumentType DEF AssembleArgument, TypeOK, HandlerTypeOK, ContainerTypeOK
<1> PICK e : e = total_element4BCP + 1
  OBVIOUS
<1>2. d \in Elements
  BY <1>1, PoolAssumption DEF Elements
<1>3. nested_elements'[d][p] = e
  <2>1. nested_elements' = [nested_elements EXCEPT ![d][p] = e]
    BY DEF AssembleArgument
  <2> QED
    BY <1>1, <1>2, <2>1
<1>4. value'[e] = NextValue
  BY <1>1 DEF AssembleArgument
<1>5. /\ <<"nested", d, p>> \in ArgumentWrites
      /\ <<f, NextValue, 0>> \in ArgumentWrites
  BY DEF ArgumentWrites
<1>6. ArgumentWrites \subseteq written' /\ total_element4BCP' = total_element4BCP + 1
  BY DEF AssembleArgument
<1>7. d \in 1..total_element4BCP' /\ e \in 1..total_element4BCP'
  BY <1>1, <1>6
<1> QED
  BY <1>3, <1>4, <1>5, <1>6, <1>7 DEF Sent

\* The request stays in the buffer until it is answered.
LEMMA RequestReadStep ==
    ASSUME Inv, RequestRead, Next
    PROVE  RequestRead'
<1> USE DEF RequestRead, Parsing
<1>2. CASE StreamNext
  <2>1. CASE StreamMap
    <3>1. request \in Requests /\ Consume(1)
      BY <2>1 DEF StreamMap
    <3>2. Len(request) >= 1
      BY <3>1, ApplianceAssumption
    <3>3. buffer_position' >= 1
      BY <3>1, <3>2, PositionMoves DEF Inv
    <3> QED
      BY <2>1, <3>1, <3>3 DEF StreamMap
  <2>2. CASE StreamNext /\ ~StreamMap
    BY <2>2 DEF StreamNext, StreamArray, StreamMalformed, StreamDone, ProcessMap,
       ProcessMapRefused, AtProcessMap, Dispatch, Executed, RefuseAfter, Refuse,
       parseVars, bufferVars
  <2> QED
    BY <1>2, <2>1, <2>2
<1>3. CASE AssembleNext
  <2>1. CASE pc' \in {"close", "undefined"}
    BY <2>1
  <2>2. CASE AssembleReady \/ AssembleSpins
    BY <2>2 DEF AssembleReady, AssembleSpins, parseVars, bufferVars
  <2>3. ASSUME NEW n \in Nat, Consume(n), request' = request,
               pc \in {"assemble", "nested"}
        PROVE  RequestRead'
    <3>1. buffer_position' >= 1
      BY <2>3, PositionMoves DEF Inv
    <3> QED
      BY <2>3, <3>1
  <2>4. PayloadLength(ArgumentType) \in Nat
    BY PayloadLengthType
  <2>5. KeyLength \in Nat /\ AfterKey \in Nat /\ 6 + PayloadLength(ArgumentType) \in Nat
    BY <2>4 DEF KeyLength, AfterKey
  <2> HIDE DEF RequestRead
  <2>6. CASE AssembleHeader \/ AssembleFirst \/ AssembleArguments \/ AssembleArgument
             \/ AssembleExecuteFlag \/ AssembleNextDevice
    BY <2>3, <2>5, <2>6 DEF AssembleHeader, AssembleFirst, AssembleArguments,
       AssembleArgument, AssembleExecuteFlag, AssembleNextDevice, AtNextKey
  <2> QED
    BY <1>3, <2>1, <2>2, <2>6 DEF AssembleNext, AssembleHeaderRefused,
       AssembleFirstUndefined, AssembleArgumentsRefused, AssembleArgumentUndefined,
       AssembleArgumentRefused, AssembleExecuteFlagRefused,
       AssembleNextDeviceUndefined, Undefined, RefuseAfter, Refuse
<1>4. CASE CommandsNext /\ UNCHANGED <<status, parseVars, containerVars, served>>
  BY <1>4 DEF CommandsNext, GetData, UnknownCommand, SetActuator,
      SetActuatorRefused, SetActuatorDone, Return, parseVars, bufferVars
<1>5. CASE LoopNext
  BY <1>5 DEF LoopNext, Connect, Receive, ReceiveTooLong, NoMoreData, Close, Wild,
      InitStream, vars, parseVars, bufferVars
<1> QED
  BY <1>2, <1>3, <1>4, <1>5 DEF Next

\* Away from the devices, what they have been sent stays.
LEMMA DevicesAlone ==
    ASSUME Inv, DevicesComplete, pc' # "nested",
           UNCHANGED <<map4BCP_elements, nested_elements, value, written,
                       element4BCP_number, total_element4BCP>>,
           Sound' => /\ Sound
                     /\ status # "SETTING_ARGS"
                     /\ status' # "SETTING_ARGS"
    PROVE  DeviceApart' /\ ArgumentsRead' /\ DevicesComplete'
<1>1. DeviceApart' /\ ArgumentsRead'
  BY DEF DeviceApart, DeviceOpen, Sound, ArgumentsRead
<1>2. total_element4BCP \in Nat
  BY PoolAssumption DEF Inv, TypeOK, HandlerTypeOK
<1>3. ASSUME Sound', NEW i \in 0..(element4BCP_number - 1)
      PROVE  Complete(map4BCP_elements[i])'
  <2> PICK d : d = map4BCP_elements[i]
    OBVIOUS
  <2>1. Complete(d)
    BY <1>3 DEF DevicesComplete
  <2>2. Complete(d)'
    BY <1>2, <2>1, CompleteStays DEF Inv
  <2> QED
    BY <2>2 DEF Complete, Sent
<1> QED
  BY <1>1, <1>3 DEF DevicesComplete

\* A map of arguments has a state and a duration to come.
LEMMA ArgumentsExpected ==
    ASSUME Inv, ArgumentsCarried, AssembleArguments,
           \A r \in Requests : CarriesArguments(r)
    PROVE  DeviceApart' /\ ArgumentsRead' /\ DevicesComplete'
<1>1. IsMap(Byte(1)) /\ Byte(1) # NUL
  BY DEF AssembleArguments, IsMap, NUL
<1> PICK p : p = buffer_position + 1
  OBVIOUS
<1>2. /\ p \in 2..Len(request)
      /\ Byte(1) = request[p]
      /\ ~BufferSpent
  BY <1>1, ByteInBuffer DEF Inv, ArgumentsCarried, RequestRead, AssembleArguments
<1>3. CarriesArguments(request)
  BY DEF ArgumentsCarried, RequestRead, Parsing, AssembleArguments
<1>4. /\ request[p][2] >= 2
      /\ p + 6 <= Len(request) => request[p + 6][1] \in {"nil", "false", "true"}
      /\ p + 12 <= Len(request) => request[p + 12] = UINT32
  BY <1>1, <1>2, <1>3 DEF CarriesArguments
<1>5. buffer_position' = p
  BY <1>2, PositionMoves DEF Inv, AssembleArguments
<1>6. nested_element4BCP = 0
  BY DEF Inv, ArgumentsCounted, Sound, AssembleArguments
<1>7. map_size' = request[p][2] /\ map_size' \in 1..15
  BY <1>1, <1>2, BufferTypes, MapEntries DEF Inv, AssembleArguments
<1>8. ArgumentsRead'
  BY <1>4, <1>5, <1>6, <1>7 DEF ArgumentsRead, AheadIs, AssembleArguments, UINT32
<1>9. DeviceApart'
  BY DEF ArgumentsCarried, DeviceApart, DeviceOpen, Device, AssembleArguments,
     containerVars, poolVars
<1>10. ASSUME NEW i \in 0..(element4BCP_number - 1)
       PROVE  Complete(map4BCP_elements[i])'
  BY <1>2 DEF ArgumentsCarried, DevicesComplete, Sound, Complete, Sent,
     AssembleArguments, containerVars, poolVars
<1> QED
  BY <1>8, <1>9, <1>10 DEF DevicesComplete, AssembleArguments

\* Reading an argument: a state, then a duration, then whatever else.
LEMMA ArgumentCarried ==
    ASSUME Inv, ArgumentsCarried, AssembleArgument
    PROVE  DeviceApart' /\ ArgumentsRead' /\ DevicesComplete'
<1> PICK d : d = Device
  OBVIOUS
<1> PICK k : k = nested_element4BCP
  OBVIOUS
<1> PICK n : n = 6 + PayloadLength(ArgumentType)
  OBVIOUS
<1>1. TypeOK /\ pc = "nested" /\ status = "SETTING_ARGS" /\ DeviceOpen
  BY DEF Inv, StatusAtPoint, AssembleArgument, DeviceOpen
<1>2. /\ UNCHANGED <<pc, status, request, map4BCP_elements, element4BCP_number>>
      /\ nested_element4BCP' = k + 1
      /\ map_size' = map_size - 1
      /\ total_element4BCP' = total_element4BCP + 1
      /\ Consume(n)
  BY DEF AssembleArgument
<1>3. /\ k \in Nat
      /\ map_size \in Nat
      /\ total_element4BCP \in Nat
      /\ element4BCP_number \in 0..MaxDevices
  BY <1>1, PoolAssumption DEF TypeOK, HandlerTypeOK
<1>4. ~BufferSpent /\ buffer_position \in Nat
  BY <1>1, ByteInBuffer DEF AssembleArgument, ArgumentKeyFound, UINT32, NUL
<1>5. d \in 1..total_element4BCP
  <2>1. d # Junk
    BY DEF AssembleArgument, ArgumentUndefined
  <2>2. element4BCP_number < MaxDevices
    BY <1>1 DEF Inv, DevicesCounted
  <2>3. d \in Elements
    BY <1>1, <1>3, <2>1, <2>2, ElementType DEF Device
  <2> QED
    BY <1>1, <1>3, <2>1, <2>3, PoolAssumption DEF ArgumentsCarried, DeviceApart,
       Elements
<1>6. Device' = d
  BY <1>2 DEF Device
<1>7. DeviceApart'
  <2>1. Device <= total_element4BCP
    BY <1>5
  <2>2. \A i \in 0..(element4BCP_number - 1) : map4BCP_elements[i] # d
    BY <1>1, <1>5 DEF ArgumentsCarried, DeviceApart, Junk
  <2> QED
    BY <1>2, <1>3, <1>5, <1>6, <2>2 DEF DeviceApart
<1>8. DevicesComplete'
  <2>1. ASSUME NEW i \in 0..(element4BCP_number - 1)
        PROVE  Complete(map4BCP_elements[i])'
    <3> PICK c : c = map4BCP_elements[i]
      OBVIOUS
    <3>1. Complete(c)
      BY <1>1, <1>4 DEF ArgumentsCarried, DevicesComplete, Sound
    <3>2. c # Device
      BY <1>1, <1>5 DEF ArgumentsCarried, DeviceApart, Junk
    <3>3. Complete(c)'
      BY <1>1, <3>1, <3>2, ArgumentStays DEF Complete
    <3>4. map4BCP_elements'[i] = c
      BY <1>2
    <3> QED
      BY <3>3, <3>4 DEF Complete, Sent
  <2> QED
    BY <1>2, <2>1 DEF DevicesComplete
<1>9. /\ Len(request) \in Nat
      /\ buffer_position + n > Len(request) => BufferSpent'
      /\ buffer_position + n <= Len(request) =>
             buffer_position' = buffer_position + n
  <2>1. n \in Nat
    BY PayloadLengthType
  <2> QED
    BY <1>1, <1>2, <1>4, <2>1, PositionMoves DEF BufferSpent
<1>10. ASSUME buffer_position + 6 <= Len(request)
       PROVE  /\ Byte(6) = request[buffer_position + 6]
              /\ Byte(6)[1] \in Types => ArgumentType = Byte(6)
  BY <1>10 DEF Byte, ByteAt, ArgumentType, TypeOf, CheckDataType
<1>11. buffer_position + 6 > Len(request) => BufferSpent'
  <2>1. n >= 6
    BY PayloadLengthType
  <2> QED
    BY <1>4, <1>9, <2>1, PayloadLengthType
<1>12. nested_element4BCP + map_size >= 2 => nested_element4BCP' + map_size' >= 2
  BY <1>2, <1>3
<1>13. ArgumentsRead
  BY DEF ArgumentsCarried
<1>14. CASE k = 0 /\ buffer_position + 6 <= Len(request)
  <2>1. ArgumentType[1] \in {"nil", "false", "true"}
    BY <1>1, <1>10, <1>13, <1>14 DEF ArgumentsRead, AheadIs, Types
  <2>2. n = 6
    BY <2>1 DEF PayloadLength
  <2>3. buffer_position' = buffer_position + 6
    BY <1>9, <1>14, <2>2
  <2>4. Sent(d, STATE_ARG, "bool")'
    BY <1>1, <1>5, <1>14, <2>1, ArgumentIsSent DEF STATE_ARG, DURATION_ARG
  <2>5. AheadIs(6, {"uint32"})'
    <3>1. buffer_position + 12 <= Len(request)
              => request[buffer_position + 12][1] = "uint32"
      BY <1>1, <1>13, <1>14 DEF ArgumentsRead, AheadIs
    <3>2. buffer_position' + 6 = buffer_position + 12
      BY <1>4, <2>3
    <3> QED
      BY <1>2, <3>1, <3>2 DEF AheadIs
  <2> QED
    BY <1>1, <1>2, <1>6, <1>7, <1>8, <1>12, <1>13, <1>14, <2>4, <2>5
    DEF ArgumentsRead, Sent
<1>15. CASE k = 1 /\ buffer_position + 6 <= Len(request)
  <2>1. ArgumentType[1] = "uint32"
    BY <1>1, <1>4, <1>10, <1>13, <1>15 DEF ArgumentsRead, AheadIs, Types
  <2>2. Sent(d, DURATION_ARG, "uint32")'
    BY <1>1, <1>5, <1>15, <2>1, ArgumentIsSent DEF STATE_ARG, DURATION_ARG
  <2>3. Sent(d, STATE_ARG, "bool")
    BY <1>1, <1>4, <1>13, <1>15 DEF ArgumentsRead
  <2>4. Sent(d, STATE_ARG, "bool")'
    <3>1. STATE_ARG # nested_element4BCP
      BY <1>15 DEF STATE_ARG
    <3> QED
      BY <1>1, <2>3, <3>1, ArgumentStays
  <2> QED
    BY <1>1, <1>2, <1>6, <1>7, <1>8, <1>12, <1>13, <1>15, <2>2, <2>4
    DEF ArgumentsRead, Complete, Sent
<1>16. CASE k >= 2
  <2>1. Complete(d)
    BY <1>1, <1>4, <1>13, <1>16 DEF ArgumentsRead
  <2>2. STATE_ARG # nested_element4BCP /\ DURATION_ARG # nested_element4BCP
    BY <1>16 DEF STATE_ARG, DURATION_ARG
  <2>3. Complete(d)'
    BY <1>1, <2>1, <2>2, ArgumentStays DEF Complete
  <2> QED
    BY <1>1, <1>2, <1>3, <1>6, <1>7, <1>8, <1>12, <1>13, <1>16, <2>3
    DEF ArgumentsRead, Complete, Sent
<1>17. CASE k \in {0, 1} /\ buffer_position + 6 > Len(request)
  <2>1. BufferSpent'
    BY <1>11, <1>17
  <2> QED
    BY <1>1, <1>2, <1>3, <1>7, <1>8, <1>12, <1>13, <1>17, <2>1 DEF ArgumentsRead
<1> QED
  BY <1>3, <1>4, <1>9, <1>14, <1>15, <1>16, <1>17

\* When the key after the last argument is there, the device is complete, and so
\* are those before it.
LEMMA CompleteAtKey ==
    ASSUME Inv, ArgumentsCarried, AtNextKey, ~BufferSpent,
           NEW i \in 0..element4BCP_number
    PROVE  Complete(map4BCP_elements[i])
<1>1. nested_element4BCP >= 2
  BY DEF Inv, TypeOK, HandlerTypeOK, ArgumentsCarried, ArgumentsRead, AtNextKey
<1>2. Complete(Device)
  BY <1>1 DEF ArgumentsCarried, ArgumentsRead, AtNextKey
<1>3. CASE i = element4BCP_number
  BY <1>2, <1>3 DEF Device
<1>4. CASE i \in 0..(element4BCP_number - 1)
  BY <1>4 DEF ArgumentsCarried, DevicesComplete, Sound, AtNextKey
<1>5. element4BCP_number \in Nat
  BY PoolAssumption DEF Inv, TypeOK, HandlerTypeOK
<1> QED
  BY <1>3, <1>4, <1>5

\* EXECUTE_FLAG => true is not read past the end of the request.
LEMMA ExecuteFlagCarried ==
    ASSUME Inv, ArgumentsCarried, AssembleExecuteFlag
    PROVE  DeviceApart' /\ ArgumentsRead' /\ DevicesComplete'
<1>1. TypeOK /\ AtNextKey /\ element4BCP_number \in Nat
  BY PoolAssumption DEF Inv, TypeOK, HandlerTypeOK, AssembleExecuteFlag
<1>2. ~BufferSpent
  <2>1. AfterKey \in Nat \ {0} /\ Byte(AfterKey) # NUL
    BY DEF AssembleExecuteFlag, AfterKey, KeyLength, TRUE_, NUL
  <2> QED
    BY <1>1, <2>1, ByteInBuffer
<1>3. ASSUME NEW i \in 0..element4BCP_number
      PROVE  Complete(map4BCP_elements[i])'
  <2> PICK d : d = map4BCP_elements[i]
    OBVIOUS
  <2>1. Complete(d)
    BY <1>1, <1>2, CompleteAtKey
  <2>2. Complete(d)'
    BY <1>1, <2>1, TakeElementStays DEF AssembleExecuteFlag, DeviceComplete
  <2>3. map4BCP_elements'[i] = d
    BY DEF AssembleExecuteFlag
  <2> QED
    BY <2>2, <2>3 DEF Complete, Sent
<1>4. /\ element4BCP_number' = element4BCP_number + 1
      /\ pc' = "stream"
  BY DEF AssembleExecuteFlag, DeviceComplete
<1> QED
  BY <1>1, <1>3, <1>4 DEF DeviceApart, DeviceOpen, ArgumentsRead, DevicesComplete

\* The next device takes an element that no device has; without a key there is
\* none, and nothing left to read.
LEMMA NextDeviceCarried ==
    ASSUME Inv, ArgumentsCarried, AssembleNextDevice
    PROVE  DeviceApart' /\ ArgumentsRead' /\ DevicesComplete'
<1>1. /\ TypeOK
      /\ AtNextKey
      /\ element4BCP_number \in Nat
      /\ total_element4BCP \in Nat
  BY PoolAssumption DEF Inv, TypeOK, HandlerTypeOK, AssembleNextDevice
<1>2. /\ element4BCP_number' = element4BCP_number + 1
      /\ element4BCP_number + 1 \in 0..(MaxDevices - 1)
      /\ pc' = "assemble"
      /\ UNCHANGED <<status, request>>
      /\ Consume(KeyLength)
      /\ TakeElement /\ ~NoElementLeft
  BY <1>1, PoolAssumption DEF AssembleNextDevice, DeviceComplete
<1>3. status = "SETTING_ARGS"
  BY <1>1 DEF Inv, StatusAtPoint, AtNextKey
<1>4. /\ Device' = NextElement
      /\ \A i \in 0..element4BCP_number :
             map4BCP_elements'[i] = map4BCP_elements[i]
  <2>1. StoreElement(element4BCP_number + 1)
    BY DEF AssembleNextDevice
  <2>2. /\ map4BCP_elements'[element4BCP_number + 1] = NextElement
        /\ \A j \in 0..(MaxDevices - 1) :
               j # element4BCP_number + 1
                   => map4BCP_elements'[j] = map4BCP_elements[j]
    BY <1>1, <1>2, <2>1, StoreElementType
  <2>3. \A i \in 0..element4BCP_number :
            i \in 0..(MaxDevices - 1) /\ i # element4BCP_number + 1
    BY <1>1, <1>2, PoolAssumption
  <2> QED
    BY <1>2, <2>2, <2>3 DEF Device
<1>5. ArgumentsRead'
  BY <1>2 DEF ArgumentsRead
<1>6. CASE BufferSpent
  <2>1. Byte(1) = NUL
    BY <1>1, <1>6, ByteInBuffer
  <2>2. NextElement = Junk /\ KeyLength = 1
    BY <2>1 DEF NextElement, KeyLength, KeyFound, NUL, UINT32
  <2>3. DeviceApart'
    BY <1>4, <2>2 DEF DeviceApart, Junk
  <2>4. BufferSpent'
    BY <1>1, <1>2, <1>6, <2>2, PositionMoves DEF BufferSpent
  <2> QED
    BY <1>2, <1>3, <1>5, <2>3, <2>4 DEF DevicesComplete
<1>7. CASE ~BufferSpent
  <2>1. ASSUME NEW i \in 0..element4BCP_number
        PROVE  /\ Complete(map4BCP_elements[i])'
               /\ map4BCP_elements[i] \in 1..total_element4BCP
    <3> PICK d : d = map4BCP_elements[i]
      OBVIOUS
    <3>1. Complete(d)
      BY <1>1, <1>7, CompleteAtKey
    <3>2. Complete(d)'
      BY <1>1, <1>2, <3>1, TakeElementStays DEF AssembleNextDevice
    <3> QED
      BY <1>4, <3>1, <3>2 DEF Complete, Sent
  <2>2. DevicesComplete'
    BY <1>1, <1>2, <2>1 DEF DevicesComplete
  <2>3. CASE KeyFound
    <3>1. NextElement = total_element4BCP + 1 /\ total_element4BCP' = total_element4BCP + 1
      BY <1>2, <2>3 DEF NextElement, TakeElement
    <3>2. \A i \in 0..element4BCP_number :
              map4BCP_elements'[i] # total_element4BCP + 1
      BY <1>1, <1>4, <2>1
    <3>3. DeviceApart'
      BY <1>1, <1>2, <1>4, <3>1, <3>2 DEF DeviceApart
    <3> QED
      BY <1>5, <2>2, <3>3
  <2>4. CASE ~KeyFound
    BY <1>4, <1>5, <2>2, <2>4 DEF DeviceApart, NextElement
  <2> QED
    BY <2>3, <2>4
<1> QED
  BY <1>6, <1>7

\* So does the first device of a request, behind those of the requests before.
LEMMA FirstDeviceCarried ==
    ASSUME Inv, ArgumentsCarried, AssembleFirst
    PROVE  DeviceApart' /\ ArgumentsRead' /\ DevicesComplete'
<1>1. /\ TypeOK
      /\ element4BCP_number \in 0..(MaxDevices - 1)
      /\ total_element4BCP \in Nat
  BY PoolAssumption DEF Inv, TypeOK, HandlerTypeOK, AssembleFirst
<1>2. /\ UNCHANGED element4BCP_number
      /\ pc' = "assemble"
      /\ TakeElement /\ ~NoElementLeft
      /\ StoreElement(element4BCP_number)
  BY DEF AssembleFirst
<1>3. /\ Device' = NextElement
      /\ \A i \in 0..(element4BCP_number - 1) :
             map4BCP_elements'[i] = map4BCP_elements[i]
  <2>1. /\ map4BCP_elements'[element4BCP_number] = NextElement
        /\ \A j \in 0..(MaxDevices - 1) :
               j # element4BCP_number => map4BCP_elements'[j] = map4BCP_elements[j]
    BY <1>1, <1>2, StoreElementType
  <2>2. \A i \in 0..(element4BCP_number - 1) :
            i \in 0..(MaxDevices - 1) /\ i # element4BCP_number
    BY <1>1, PoolAssumption
  <2> QED
    BY <1>2, <2>1, <2>2 DEF Device
<1>4. ASSUME NEW i \in 0..(element4BCP_number - 1)
      PROVE  /\ Complete(map4BCP_elements[i])'
             /\ map4BCP_elements[i] \in 1..total_element4BCP
  <2> PICK d : d = map4BCP_elements[i]
    OBVIOUS
  <2>1. Complete(d)
    BY DEF ArgumentsCarried, DevicesComplete, Sound, AssembleFirst
  <2>2. Complete(d)'
    BY <1>1, <1>2, <2>1, TakeElementStays DEF AssembleFirst
  <2> QED
    BY <1>3, <2>1, <2>2 DEF Complete, Sent
<1>5. ArgumentsRead' /\ DevicesComplete'
  BY <1>2, <1>4 DEF ArgumentsRead, DevicesComplete
<1>6. CASE KeyFound
  <2>1. NextElement = total_element4BCP + 1 /\ total_element4BCP' = total_element4BCP + 1
    BY <1>2, <1>6 DEF NextElement, TakeElement
  <2>2. \A i \in 0..(element4BCP_number - 1) :
            map4BCP_elements'[i] # total_element4BCP + 1
    BY <1>1, <1>3, <1>4
  <2> QED
    BY <1>1, <1>2, <1>3, <1>5, <2>1, <2>2 DEF DeviceApart
<1>7. CASE ~KeyFound
  BY <1>3, <1>5, <1>7 DEF DeviceApart, NextElement
<1> QED
  BY <1>6, <1>7

\* When every request carries its arguments, every device does.
LEMMA CarriedStep ==
    ASSUME Inv, ArgumentsCarried, Next, \A r \in Requests : CarriesArguments(r)
    PROVE  ArgumentsCarried'
<1> SUFFICES DeviceApart' /\ ArgumentsRead' /\ DevicesComplete'
  BY RequestReadStep DEF ArgumentsCarried
<1>1. DevicesComplete
  BY DEF ArgumentsCarried
<1>2. CASE StreamNext
  <2>1. pc' # "nested" /\ Sound /\ status # "SETTING_ARGS" /\ status' # "SETTING_ARGS"
    BY <1>2 DEF Inv, StatusAtPoint, Sound, StreamNext, StreamArray, StreamMap,
       StreamMalformed, StreamDone, ProcessMap, ProcessMapRefused, AtProcessMap,
       Dispatch, Executed, RefuseAfter, Refuse
  <2>2. UNCHANGED <<map4BCP_elements, nested_elements, value, written,
                    element4BCP_number, total_element4BCP>>
    BY <1>2 DEF StreamNext, StreamArray, StreamMap,
       StreamMalformed, StreamDone, ProcessMap, ProcessMapRefused, AtProcessMap,
       Dispatch, Executed, RefuseAfter, parseVars, counterVars, containerVars,
       poolVars
  <2> QED
    BY <1>1, <2>1, <2>2, DevicesAlone
<1>3. CASE AssembleNext
  <2>1. CASE AssembleReady \/ AssembleSpins \/ AssembleHeader
    <3>1. /\ pc' # "nested"
          /\ Sound
          /\ status # "SETTING_ARGS"
          /\ status' # "SETTING_ARGS"
          /\ UNCHANGED <<map4BCP_elements, nested_elements, value, written,
                         element4BCP_number, total_element4BCP>>
      BY <2>1 DEF Sound, AssembleReady, AssembleSpins, AssembleHeader, parseVars,
         counterVars, containerVars, poolVars
    <3> QED
      BY <1>1, <3>1, DevicesAlone
  <2>2. CASE pc' \in {"close", "undefined"}
    BY <2>2 DEF DeviceApart, DeviceOpen, ArgumentsRead, DevicesComplete, Sound
  <2> QED
    BY <1>3, <2>1, <2>2, FirstDeviceCarried, ArgumentsExpected, ArgumentCarried,
       ExecuteFlagCarried, NextDeviceCarried
    DEF AssembleNext, AssembleHeaderRefused,
       AssembleFirstUndefined, AssembleArgumentsRefused, AssembleArgumentUndefined,
       AssembleArgumentRefused, AssembleExecuteFlagRefused,
       AssembleNextDeviceUndefined, Undefined, RefuseAfter, Refuse
<1>4. CASE CommandsNext /\ UNCHANGED <<status, parseVars, containerVars, served>>
  <2>1. /\ pc' # "nested"
        /\ Sound
        /\ status # "SETTING_ARGS"
    BY <1>4 DEF Inv, StatusAtPoint, Sound, CommandsNext, GetData, UnknownCommand,
       SetActuator, SetActuatorRefused, SetActuatorDone, Return
  <2> QED
    BY <1>1, <1>4, <2>1, DevicesAlone DEF parseVars, counterVars, containerVars,
       poolVars
<1>5. CASE LoopNext
  <2>1. CASE Close
    BY <2>1 DEF Close, HandlerReset, DeviceApart, DeviceOpen, ArgumentsRead,
       DevicesComplete
  <2>2. CASE LoopNext /\ ~Close
    <3>1. /\ pc' # "nested"
          /\ Sound' => Sound /\ status # "SETTING_ARGS" /\ status' # "SETTING_ARGS"
      BY <2>2 DEF Inv, StatusAtPoint, Sound, LoopNext, Connect, Receive,
         ReceiveTooLong, NoMoreData, Wild, InitStream, vars
    <3>2. UNCHANGED <<map4BCP_elements, nested_elements, value, written,
                      element4BCP_number, total_element4BCP>>
      BY <2>2 DEF LoopNext, Connect, Receive, ReceiveTooLong, NoMoreData, Wild,
         InitStream, vars, parseVars, counterVars, containerVars, poolVars
    <3> QED
      BY <1>1, <3>1, <3>2, DevicesAlone
  <2> QED
    BY <1>5, <2>1, <2>2
<1> QED
  BY <1>2, <1>3, <1>4, <1>5 DEF Next

\* When every request carries its arguments, no device writes over the arguments
\* of another, and a command finds all of its devices complete, through any
\* number of requests on a connection.
THEOREM CarriedCorrect ==
    ASSUME \A r \in Requests : CarriesArguments(r)
    PROVE  Spec => []ArgumentsCarried
<1>1. Init => ArgumentsCarried
  BY DEF Init, ContainerInit, HandlerInit, ArgumentsCarried, RequestRead, Parsing,
     DeviceApart, DeviceOpen, ArgumentsRead, DevicesComplete
<1>2. Inv /\ ArgumentsCarried /\ [Next]_vars => ArgumentsCarried'
  <2>1. Inv /\ ArgumentsCarried /\ Next => ArgumentsCarried'
    BY CarriedStep
  <2>2. ArgumentsCarried /\ UNCHANGED vars => ArgumentsCarried'
    <3> USE DEF ArgumentsCarried, vars, parseVars, bufferVars, counterVars,
               containerVars, poolVars
    <3>1. ASSUME ArgumentsCarried, UNCHANGED vars
          PROVE  RequestRead' /\ DeviceApart'
      BY <3>1, Zenon DEF RequestRead, Parsing, DeviceApart, DeviceOpen, Device
    <3>2. ASSUME ArgumentsCarried, UNCHANGED vars
          PROVE  ArgumentsRead' /\ DevicesComplete'
      BY <3>2, Zenon DEF ArgumentsRead, DevicesComplete, Complete, Sent, Device,
         AheadIs, BufferSpent, Sound
    <3> QED
      BY <3>1, <3>2
  <2> QED
    BY <2>1, <2>2
<1> QED
  BY <1>1, <1>2, InvCorrect, PTL DEF Spec

\* When every request carries its arguments, an actuator moves only by a state
\* and a duration that the connection sent for it, through any number of
\* requests, whether they are executed, refused or broken off.
THEOREM ArgumentsCorrect ==
    ASSUME \A r \in Requests : CarriesArguments(r)
    PROVE  Spec => ArgumentsSent
<1>1. Inv /\ ArgumentsCarried /\ [Next]_vars =>
        [pin' # pin => StateSent(NextDevice) /\ DurationSent(NextDevice)]_vars
  <2> SUFFICES ASSUME Inv, ArgumentsCarried, Next, pin' # pin
               PROVE  StateSent(NextDevice) /\ DurationSent(NextDevice)
    OBVIOUS
  <2> PICK i : i = total_devices_executed
    OBVIOUS
  <2>1. pc = "execute" /\ i < map4BCP_size
    BY PinsMove DEF SetActuator
  <2>2. /\ i \in 0..(element4BCP_number - 1)
        /\ status = "EXECUTING"
    BY <2>1, PoolAssumption DEF Inv, StatusAtPoint, DevicesCounted, DeviceOpen, Sound, TypeOK,
       CommandTypeOK, HandlerTypeOK
  <2>3. Complete(map4BCP_elements[i])
    BY <2>1, <2>2 DEF ArgumentsCarried, DevicesComplete, Sound
  <2>4. devices_element_list[i] = map4BCP_elements[i]
    BY <2>1, <2>2 DEF Inv, DevicesListed, Sound
  <2> PICK d : d = NextDevice
    OBVIOUS
  <2>5. Complete(d)
    BY <2>3, <2>4 DEF NextDevice
  <2>6. /\ d # Junk
        /\ total_element4BCP \in Nat
        /\ nested_elements[d][STATE_ARG] # Junk
        /\ nested_elements[d][DURATION_ARG] # Junk
    BY <2>5, PoolAssumption DEF Complete, Sent, Junk, Inv, TypeOK, HandlerTypeOK
  <2> QED
    BY <2>5, <2>6 DEF StateSent, DurationSent, Complete, Sent, ArgumentValue
<1>2. Spec => []ArgumentsCarried
  BY CarriedCorrect
<1> QED
  BY <1>1, <1>2, InvCorrect, PTL DEF Spec, ArgumentsSent

-----------------------------------------------------------------------------
(* The process flow *)

\* The first place of a status in a table.
LEMMA PositionIs ==
    ASSUME NEW flow, NEW s, NEW p \in DOMAIN flow, DOMAIN flow \subseteq Nat,
           flow[p] = s, \A q \in 1..(p - 1) : flow[q] # s, 0 \notin DOMAIN flow
    PROVE  Position(flow, s) = p
<1> DEFINE First(q) == flow[q] = s /\ \A r \in 1..(q - 1) : flow[r] # s
<1>1. \A q \in DOMAIN flow : First(q) => q = p
  OBVIOUS
<1>2. First(p)
  OBVIOUS
<1>3. Position(flow, s) = CHOOSE q \in DOMAIN flow : First(q)
  BY DEF Position
<1> HIDE DEF First
<1> QED
  BY <1>1, <1>2, <1>3

\* The steps the first table lets setStatus() take.
LEMMA FlowAccepts ==
    /\ \A p \in Statuses : ~FlowErrorWritten(p, "IDLE")
    /\ \A p \in Statuses : ~FlowErrorWritten(p, "BEGIN")
    /\ ~FlowErrorWritten("BEGIN", "COMMAND_SET")
    /\ ~FlowErrorWritten("COMMAND_SET", "SETTING_ARGS")
    /\ ~FlowErrorWritten("COMMAND_SET", "ARGS_READY")
    /\ ~FlowErrorWritten("SETTING_ARGS", "ARGS_READY")
    /\ ~FlowErrorWritten("ARGS_READY", "ASSEMBLY")
    /\ ~FlowErrorWritten("ASSEMBLY", "EXECUTING")
    /\ ~FlowErrorWritten("EXECUTING", "FINISHED")
<1> DEFINE flow == MSGPACK4BCPProcessFlow
<1>1. /\ DOMAIN flow = 1..9
      /\ flow[1] = "IDLE" /\ flow[2] = "BEGIN" /\ flow[3] = "COMMAND_SET"
      /\ flow[4] = "SETTING_ARGS" /\ flow[5] = "ARGS_READY"
      /\ flow[6] = "ASSEMBLY" /\ flow[7] = "EXECUTING" /\ flow[8] = "FINISHED"
  BY DEF MSGPACK4BCPProcessFlow
<1> HIDE DEF flow
<1>2. /\ DOMAIN flow \subseteq Nat
      /\ 0 \notin DOMAIN flow
  BY <1>1
<1>3. \A p \in 1..8 : \A q \in 1..(p - 1) : flow[q] # flow[p]
  BY <1>1
<1>4. \A p \in 1..8 : Position(flow, flow[p]) = p
  BY <1>1, <1>2, <1>3, PositionIs
<1>5. ASSUME NEW prev, NEW s, FlowErrorWritten(prev, s)
      PROVE  /\ s # "IDLE"
             /\ ~(s = "ARGS_READY" /\ prev = "COMMAND_SET")
             /\ flow[Position(flow, s) - 1] \notin {"IDLE", prev}
  BY <1>5 DEF FlowErrorWritten, Check4BCPProcesFlow, flow
<1>6. /\ Position(flow, "BEGIN") - 1 = 1
      /\ Position(flow, "COMMAND_SET") - 1 = 2
      /\ Position(flow, "SETTING_ARGS") - 1 = 3
      /\ Position(flow, "ARGS_READY") - 1 = 4
      /\ Position(flow, "ASSEMBLY") - 1 = 5
      /\ Position(flow, "EXECUTING") - 1 = 6
      /\ Position(flow, "FINISHED") - 1 = 7
  BY <1>1, <1>4
<1> QED
  BY <1>1, <1>5, <1>6

\* No status is ever set out of order: the error path after each setStatus() is
\* never taken.
THEOREM FlowCorrect == Spec => FlowNeverRefuses
<1>1. Inv /\ [Next]_vars =>
        [status' # status => /\ SetStatusReturns(status, status')
                             /\ ~FlowErrorWritten(status, status')]_vars
  <2> SUFFICES ASSUME Inv, Next, status' # status
               PROVE  ~FlowErrorWritten(status, status')
    BY DEF FlowErrorWritten, SetStatusReturns, CheckFlow
  <2>1. status \in Statuses
    BY DEF Inv, TypeOK, HandlerTypeOK
  <2>2. CASE LoopNext
    BY <2>1, <2>2, FlowAccepts DEF LoopNext, Connect, Receive, ReceiveTooLong,
       NoMoreData, Close, Wild, InitStream, HandlerReset, vars
  <2>3. CASE StreamNext
    BY <2>1, <2>3, FlowAccepts DEF Inv, StatusAtPoint, StreamNext, StreamArray,
       StreamMap, StreamMalformed, StreamDone, ProcessMap, ProcessMapRefused,
       AtProcessMap, ProcessMapAccepts, Dispatch, Executed, RefuseAfter, Refuse
  <2>4. CASE AssembleNext
    BY <2>1, <2>4, FlowAccepts DEF Inv, StatusAtPoint, AssembleNext,
       AssembleReady, AssembleSpins, AssembleHeader, AssembleHeaderRefused,
       AssembleFirst, StatusAfterFirst, AssembleFirstUndefined,
       AssembleArguments, AssembleArgumentsRefused, AssembleArgument,
       AssembleArgumentUndefined, AssembleArgumentRefused, AssembleExecuteFlag,
       AssembleExecuteFlagRefused, AssembleNextDevice,
       AssembleNextDeviceUndefined, AtNextKey, Undefined, RefuseAfter, Refuse
  <2>5. CASE CommandsNext /\ UNCHANGED <<status, parseVars, containerVars, served>>
    BY <2>5
  <2> QED
    BY <2>2, <2>3, <2>4, <2>5 DEF Next
<1> QED
  BY <1>1, InvCorrect, PTL DEF Spec, FlowNeverRefuses
=============================================================================
