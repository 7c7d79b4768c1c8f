---------------------- MODULE ApplianceService_proofs ----------------------
(***************************************************************************)
(* With one request on a connection the appliance implements               *)
(* CommandService for whatever settings the requests stand for, in the     *)
(* sense of StandsFor.                                                     *)
(*                                                                         *)
(* The parser is followed through the bytes of a SET_ACTUATOR (ReadInv),   *)
(* once for every list of settings that the request in the buffer may be   *)
(* asking for; what it has put into the pools is then what execute()       *)
(* makes, setting by setting.                                              *)
(***************************************************************************)
EXTENDS ServiceInvariant, Appliance_proofs

-----------------------------------------------------------------------------
(* Words in the buffer *)

\* A word that is in the buffer is read.
LEMMA WordIsRead ==
    ASSUME NEW r \in Seq(Bytes), NEW p \in Nat, NEW w \in Words,
           p + 4 <= Len(r), WordIs(r, p, w)
    PROVE  WordAt(r, p) = w
<1>1. \A k \in 1..4 : ByteAt(r, p, k) = <<w, k>>
  BY DEF WordIs, ByteIs, ByteAt
<1>2. CASE w = "zero"
  BY <1>1, <1>2 DEF WordAt, ZeroBytes
<1>3. CASE w # "zero"
  <2>1. ByteAt(r, p, 1) = <<w, 1>> /\ <<w, 1>> \notin ZeroBytes
    BY <1>1, <1>3 DEF ZeroBytes, NUL
  <2>2. ~\A k \in 1..4 : ByteAt(r, p, k) \in ZeroBytes
    BY <2>1
  <2> QED
    BY <1>1, <2>1, <2>2 DEF WordAt
<1> QED
  BY <1>2, <1>3

\* A word that means something and is read is in the buffer.
LEMMA WordWasThere ==
    ASSUME NEW r \in Seq(Bytes), NEW p \in Nat, NEW w \in Words \ {"zero", "other"},
           WordAt(r, p) = w
    PROVE  /\ p + 4 <= Len(r)
           /\ \A k \in 1..4 : r[p + k] = <<w, k>>
<1>1. \A k \in 1..4 : ByteAt(r, p, k) = <<w, k>>
  BY DEF WordAt
<1>2. \A k \in 1..4 : ByteAt(r, p, k) # NUL
  BY <1>1 DEF NUL
<1>3. \A k \in 1..4 : p + k <= Len(r)
  BY <1>2 DEF ByteAt
<1> QED
  BY <1>1, <1>3 DEF ByteAt

\* A key that the request has behind the position is found, and read when it is
\* all there.
LEMMA KeyIsRead ==
    ASSUME TypeOK, NEW p \in Nat, buffer_position = p, p < Len(request),
           NEW w \in Words, WordIs(request, p + 1, w)
    PROVE  /\ KeyFound
           /\ KeyLength = 5
           /\ p + 5 <= Len(request) => Word(2) = w
<1>1. request \in Seq(Bytes) /\ Len(request) \in Nat
  BY DEF TypeOK, HandlerTypeOK
<1>2. Byte(1) = request[p + 1] /\ p + 1 <= Len(request)
  BY <1>1 DEF Byte, ByteAt
<1>3. KeyFound
  BY <1>2 DEF WordIs, ByteIs, KeyFound
<1>4. p + 5 <= Len(request) => Word(2) = w
  BY <1>1, WordIsRead DEF Word
<1> QED
  BY <1>3, <1>4 DEF KeyLength

-----------------------------------------------------------------------------
(* The first request of a connection *)

\* newLoop() hands the pools out from the start again, and only the request that
\* comes next takes from them.
LEMMA FreshStep ==
    ASSUME Inv, NoArgsIsGetData, FreshPools, Next, MaxServed <= 1
    PROVE  FreshPools'
<1> USE DEF Inv, StatusAtPoint, NoArgsIsGetData, FreshPools
<1>1. CASE StreamNext /\ UNCHANGED served
  BY <1>1, SMTT(30) DEF ProcessMapAccepts, AtProcessMap, StreamNext, StreamArray,
     StreamMap, StreamMalformed, StreamDone, ProcessMap, ProcessMapRefused,
     Dispatch, Executed, RefuseAfter, Refuse, parseVars, counterVars
<1>2. CASE AssembleNext /\ UNCHANGED served
  BY <1>2, SMTT(30) DEF AssembleNext, AssembleReady, AssembleSpins, AssembleHeader,
     AssembleHeaderRefused, AssembleFirst, StatusAfterFirst,
     AssembleFirstUndefined, AssembleArguments, AssembleArgumentsRefused,
     AssembleArgument, AssembleArgumentUndefined, AssembleArgumentRefused,
     AssembleExecuteFlag, AssembleExecuteFlagRefused, AssembleNextDevice,
     AssembleNextDeviceUndefined, AtNextKey, Undefined, RefuseAfter, Refuse,
     parseVars, counterVars
<1>3. CASE CommandsNext /\ UNCHANGED <<status, parseVars, containerVars, served>>
  BY <1>3 DEF CommandsNext, GetData, UnknownCommand, SetActuator,
     SetActuatorRefused, SetActuatorDone, Return, parseVars, counterVars
<1>4. CASE LoopNext
  BY <1>4, ApplianceAssumption DEF LoopNext, Connect, Receive, ReceiveTooLong,
     NoMoreData, Close, Wild, InitStream, HandlerReset, CommandsReset, vars,
     parseVars, counterVars, TypeOK
<1> QED
  BY <1>1, <1>2, <1>3, <1>4 DEF Next

\* The command word is the one in the request, and no other sets actuators.
LEMMA HeaderIsRead ==
    ASSUME Inv, RequestRead, HeaderRead, AssembleHeader
    PROVE  command_executing' = "SET_ACTUATOR" <=> SetsActuators(request)
<1>1. /\ request \in Seq(Bytes)
      /\ Len(request) \in Nat
      /\ buffer_position = 1
      /\ IsMap(request[1])
      /\ command_executing' = Word(7)
      /\ HeaderWellFormed
  BY DEF Inv, TypeOK, HandlerTypeOK, HeaderRead, AssembleHeader
<1>2. WordAt(request, 2) = Word(2) /\ WordAt(request, 7) = Word(7)
  BY <1>1 DEF Word
<1>3. /\ Byte(1) = IF 2 <= Len(request) THEN request[2] ELSE NUL
      /\ Byte(6) = IF 7 <= Len(request) THEN request[7] ELSE NUL
  BY <1>1 DEF Byte, ByteAt
<1>4. ASSUME Word(7) = "SET_ACTUATOR"
      PROVE  SetsActuators(request)
  <2>1. 6 <= Len(request) /\ \A k \in 1..4 : request[2 + k] = <<"COMMAND_FLAG", k>>
    <3>1. WordAt(request, 2) = "COMMAND_FLAG" /\ "COMMAND_FLAG" \in Words
      BY <1>1, <1>2 DEF HeaderWellFormed, Words
    <3>2. 2 + 4 <= Len(request)
          /\ \A k \in 1..4 : request[2 + k] = <<"COMMAND_FLAG", k>>
      BY <1>1, <3>1, WordWasThere
    <3> QED
      BY <3>2
  <2>2. 11 <= Len(request) /\ \A k \in 1..4 : request[7 + k] = <<"SET_ACTUATOR", k>>
    <3>1. WordAt(request, 7) = "SET_ACTUATOR" /\ "SET_ACTUATOR" \in Words
      BY <1>2, <1>4 DEF Words
    <3>2. 7 + 4 <= Len(request)
          /\ \A k \in 1..4 : request[7 + k] = <<"SET_ACTUATOR", k>>
      BY <1>1, <3>1, WordWasThere
    <3> QED
      BY <3>2
  <2>3. request[2] = UINT32 /\ request[7] = UINT32
    BY <1>1, <1>3, <2>2 DEF HeaderWellFormed
  <2> QED
    BY <1>1, <2>1, <2>2, <2>3 DEF SetsActuators, WordIs, ByteIs
<1>5. ASSUME SetsActuators(request)
      PROVE  Word(7) = "SET_ACTUATOR"
  <2>1. WordIs(request, 7, "SET_ACTUATOR") /\ 7 + 4 <= Len(request)
    BY <1>1, <1>5 DEF SetsActuators
  <2>2. WordAt(request, 7) = "SET_ACTUATOR"
    BY <1>1, <2>1, WordIsRead DEF Words
  <2> QED
    BY <1>2, <2>2
<1> QED
  BY <1>1, <1>4, <1>5

\* The header is read byte by byte, so the command in execution is the request's.
LEMMA HeaderStep ==
    ASSUME Inv, RequestRead, HeaderRead, Next
    PROVE  HeaderRead'
<1> USE DEF Inv, StatusAtPoint, HeaderRead
<1>1. CASE StreamNext /\ UNCHANGED served
  <2>1. CASE StreamMap /\ status = "BEGIN"
    <3>1. /\ request' = request
          /\ pc' = "assemble" /\ status' = "BEGIN"
          /\ buffer_position = 0
          /\ Consume(1)
          /\ IsMap(Byte(1))
      BY <2>1 DEF StreamMap
    <3>2. Byte(1) # NUL
      BY <3>1 DEF IsMap, NUL
    <3>3. 1 <= Len(request) /\ Byte(1) = request[1] /\ Len(request) \in Nat
      BY <3>1, <3>2, ByteInBuffer
    <3>4. buffer_position' = 1
      BY <3>1, <3>3, PositionMoves
    <3> QED
      BY <3>1, <3>3, <3>4
  <2>2. CASE StreamNext /\ ~(StreamMap /\ status = "BEGIN")
    BY <2>2, SMTT(30) DEF ProcessMapAccepts, AtProcessMap, StreamNext, StreamArray,
       StreamMap, StreamMalformed, StreamDone, ProcessMap, ProcessMapRefused,
       Dispatch, Executed, RefuseAfter, Refuse, parseVars, bufferVars
  <2> QED
    BY <1>1, <2>1, <2>2
<1>2. CASE AssembleNext /\ UNCHANGED served
  <2>1. CASE AssembleHeader
    <3>1. request' = request /\ pc' = "assemble" /\ status' = "COMMAND_SET"
      BY <2>1 DEF AssembleHeader
    <3>2. command_executing' = "SET_ACTUATOR" <=> SetsActuators(request')
      BY <2>1, <3>1, HeaderIsRead
    <3> QED
      BY <3>1, <3>2
  <2>2. CASE AssembleNext /\ ~AssembleHeader
    BY <2>2, SMTT(30) DEF AssembleNext, AssembleReady, AssembleSpins,
       AssembleHeaderRefused, AssembleFirst, StatusAfterFirst,
       AssembleFirstUndefined, AssembleArguments, AssembleArgumentsRefused,
       AssembleArgument, AssembleArgumentUndefined, AssembleArgumentRefused,
       AssembleExecuteFlag, AssembleExecuteFlagRefused, AssembleNextDevice,
       AssembleNextDeviceUndefined, AtNextKey, Undefined, RefuseAfter, Refuse,
       parseVars, bufferVars
  <2> QED
    BY <1>2, <2>1, <2>2
<1>3. CASE CommandsNext /\ UNCHANGED <<status, parseVars, containerVars, served>>
  BY <1>3 DEF CommandsNext, GetData, UnknownCommand, SetActuator,
     SetActuatorRefused, SetActuatorDone, Return, parseVars, bufferVars
<1>4. CASE LoopNext
  BY <1>4 DEF LoopNext, Connect, Receive, ReceiveTooLong, NoMoreData, Close, Wild,
     InitStream, HandlerReset, vars, parseVars, bufferVars
<1> QED
  BY <1>1, <1>2, <1>3, <1>4 DEF Next

\* A request is FINISHED after execute(), and BEGINs with its bytes only.
LEMMA RunOnceStep ==
    ASSUME Inv, RunOnce, Next
    PROVE  RunOnce'
<1> USE DEF Inv, StatusAtPoint, RunOnce
<1>1. CASE StreamNext /\ UNCHANGED served
  BY <1>1, SMTT(30) DEF AtProcessMap, StreamNext, StreamArray, StreamMap,
     StreamMalformed, StreamDone, ProcessMap, ProcessMapRefused, InitCommand,
     Dispatch, Executed, RefuseAfter, Refuse, commandVars
<1>2. CASE AssembleNext /\ UNCHANGED served
  BY <1>2, SMTT(30) DEF AssembleNext, AssembleReady, AssembleSpins, AssembleHeader,
     AssembleHeaderRefused, AssembleFirst, StatusAfterFirst,
     AssembleFirstUndefined, AssembleArguments, AssembleArgumentsRefused,
     AssembleArgument, AssembleArgumentUndefined, AssembleArgumentRefused,
     AssembleExecuteFlag, AssembleExecuteFlagRefused, AssembleNextDevice,
     AssembleNextDeviceUndefined, AtNextKey, Undefined, RefuseAfter, Refuse,
     commandVars
<1>3. CASE CommandsNext /\ UNCHANGED <<status, parseVars, containerVars, served>>
  BY <1>3 DEF CommandsNext, GetData, UnknownCommand, SetActuator,
     SetActuatorRefused, SetActuatorDone, Return
<1>4. CASE LoopNext
  BY <1>4 DEF LoopNext, Connect, Receive, ReceiveTooLong, NoMoreData, Close, Wild,
     InitStream, HandlerReset, vars, commandVars
<1> QED
  BY <1>1, <1>2, <1>3, <1>4 DEF Next

-----------------------------------------------------------------------------
(* What the devices have been told *)

\* A device stays as it was told while only keys are taken.
LEMMA ToldAtKey ==
    ASSUME TypeOK, TakeElement, ~NoElementLeft,
           UNCHANGED <<nested_elements, value, bool_value, uint32_value>>,
           NEW i \in Nat, 3 * i + 1 <= total_element4BCP,
           map4BCP_elements'[i] = map4BCP_elements[i],
           NEW s, NEW n, DeviceTold(i, s, n)
    PROVE  DeviceTold(i, s, n)'
<1> PICK e : e = 3 * i + 1
  OBVIOUS
<1>1. /\ key \in [Elements -> WordValues]
      /\ e \in Elements
      /\ total_element4BCP \in 0..MaxElements
      /\ e # total_element4BCP + 1
  BY PoolAssumption DEF TypeOK, ContainerTypeOK, HandlerTypeOK, Elements
<1>2. key'[e] = key[e]
  BY <1>1 DEF TakeElement, NextElement
<1> QED
  BY <1>2 DEF DeviceTold

\* The arguments an argument is stored behind stay, and those of other devices.
LEMMA ToldAtArgument ==
    ASSUME TypeOK, AssembleArgument, NEW i \in Nat, NEW s, NEW n \in 0..2,
           3 * i + 1 + n <= total_element4BCP,
           2 * i + n <= total_elementValue4BCP,
           Device # 3 * i + 1 \/ n <= nested_element4BCP,
           DeviceTold(i, s, n)
    PROVE  DeviceTold(i, s, n)'
<1> PICK e : e = 3 * i + 1
  OBVIOUS
<1> PICK t : t = total_element4BCP
  OBVIOUS
<1>1. /\ key \in [Elements -> WordValues]
      /\ value \in [Elements -> Values \cup {Junk}]
      /\ nested_elements \in [Elements ->
                                [{STATE_ARG, DURATION_ARG} -> Elements \cup {Junk}]]
      /\ bool_value \in [Values -> BoolValues]
      /\ uint32_value \in [Values -> WordValues]
      /\ t \in 0..MaxElements
      /\ total_elementValue4BCP \in 0..NumValues
      /\ MaxElements \in Nat /\ NumValues \in Nat
  BY PoolAssumption DEF TypeOK, ContainerTypeOK, HandlerTypeOK
<1>2. /\ UNCHANGED map4BCP_elements
      /\ key' = [key EXCEPT ![t + 1] = Word(2)]
      /\ value' = [value EXCEPT ![t + 1] = NextValue]
  BY DEF AssembleArgument
<1>3. key'[e] = key[e]
  BY <1>1, <1>2 DEF Elements
<1>4. ASSUME NEW p \in {STATE_ARG, DURATION_ARG},
             Device # e \/ p # nested_element4BCP
      PROVE  nested_elements'[e][p] = nested_elements[e][p]
  <2>1. e \in Elements
    BY <1>1 DEF Elements
  <2>2. CASE nested_element4BCP \in {STATE_ARG, DURATION_ARG}
    <3>1. nested_elements' = [nested_elements EXCEPT
                                ![Device][nested_element4BCP] = t + 1]
      BY <2>2 DEF AssembleArgument
    <3>2. CASE e # Device
      BY <1>1, <2>1, <3>1, <3>2
    <3>3. CASE e = Device /\ p # nested_element4BCP
      BY <1>1, <2>1, <3>1, <3>3
    <3> QED
      BY <1>4, <3>2, <3>3
  <2>3. CASE nested_element4BCP \notin {STATE_ARG, DURATION_ARG}
    BY <2>3 DEF AssembleArgument
  <2> QED
    BY <2>2, <2>3
<1>5. ASSUME NEW v \in 1..total_elementValue4BCP
      PROVE  bool_value'[v] = bool_value[v] /\ uint32_value'[v] = uint32_value[v]
  <2>1. v \in Values /\ v # NextValue
    BY <1>1, <1>5 DEF NextValue, Values, Junk
  <2>2. SetElementValue
    BY DEF AssembleArgument
  <2>3. bool_value'[v] = bool_value[v]
    BY <1>1, <2>1, <2>2 DEF SetElementValue
  <2>4. uint32_value'[v] = uint32_value[v]
    BY <1>1, <2>1, <2>2 DEF SetElementValue
  <2> QED
    BY <2>3, <2>4
<1>6. ASSUME n >= 1
      PROVE  /\ nested_elements'[e][STATE_ARG] = nested_elements[e][STATE_ARG]
             /\ value'[e + 1] = value[e + 1]
             /\ bool_value'[2 * i + 1] = bool_value[2 * i + 1]
  <2>1. Device # e \/ STATE_ARG # nested_element4BCP
    BY <1>6 DEF STATE_ARG
  <2>2. nested_elements'[e][STATE_ARG] = nested_elements[e][STATE_ARG]
    BY <1>4, <2>1
  <2>3. e + 1 \in Elements /\ e + 1 # t + 1 /\ 2 * i + 1 \in 1..total_elementValue4BCP
    BY <1>1, <1>6 DEF Elements
  <2> QED
    BY <1>1, <1>2, <1>5, <2>2, <2>3
<1>7. ASSUME n >= 2
      PROVE  /\ nested_elements'[e][DURATION_ARG] = nested_elements[e][DURATION_ARG]
             /\ value'[e + 2] = value[e + 2]
             /\ uint32_value'[2 * i + 2] = uint32_value[2 * i + 2]
  <2>1. Device # e \/ DURATION_ARG # nested_element4BCP
    BY <1>7 DEF DURATION_ARG
  <2>2. nested_elements'[e][DURATION_ARG] = nested_elements[e][DURATION_ARG]
    BY <1>4, <2>1
  <2>3. e + 2 \in Elements /\ e + 2 # t + 1 /\ 2 * i + 2 \in 1..total_elementValue4BCP
    BY <1>1, <1>7 DEF Elements
  <2> QED
    BY <1>1, <1>2, <1>5, <2>2, <2>3
<1>8. map4BCP_elements'[i] = map4BCP_elements[i]
  BY <1>2
<1> QED
  BY <1>3, <1>6, <1>7, <1>8 DEF DeviceTold

\* The type byte of a state.
BoolType(v) == IF v = "on" THEN "true" ELSE "false"

\* What the argument says of the setting: its state first, then its duration.
ArgumentSays(s) ==
    IF nested_element4BCP = 0
    THEN ArgumentType[1] = BoolType(s.state)
    ELSE ArgumentType[1] = "uint32" /\ Word(7) = s.duration

\* The argument that is read joins them.
LEMMA ToldOneMore ==
    ASSUME TypeOK, AssembleArgument, NEW i \in Nat, NEW s \in DeviceSettings,
           NEW n \in 0..1,
           n = nested_element4BCP, Device = 3 * i + 1,
           total_element4BCP = 3 * i + 1 + n,
           total_elementValue4BCP = 2 * i + n,
           DeviceTold(i, s, n), ArgumentSays(s)
    PROVE  /\ DeviceTold(i, s, n + 1)'
           /\ total_elementValue4BCP' = 2 * i + n + 1
<1> PICK e : e = 3 * i + 1
  OBVIOUS
<1> PICK v : v = 2 * i + n + 1
  OBVIOUS
<1>1. /\ key \in [Elements -> WordValues]
      /\ value \in [Elements -> Values \cup {Junk}]
      /\ nested_elements \in [Elements ->
                                [{STATE_ARG, DURATION_ARG} -> Elements \cup {Junk}]]
      /\ bool_value \in [Values -> BoolValues]
      /\ uint32_value \in [Values -> WordValues]
      /\ total_elementValue4BCP \in 0..NumValues
      /\ MaxElements \in Nat /\ NumValues \in Nat
  <2>1. MaxElements \in Nat /\ NumValues \in Nat
    BY PoolAssumption
  <2> QED
    BY <2>1 DEF TypeOK, ContainerTypeOK, HandlerTypeOK
<1>2. ArgumentType[1] \in {"true", "false", "uint32"}
  BY DEF ArgumentSays, BoolType
<1>3. NextValue # Junk
  BY <1>2 DEF AssembleArgument, ArgumentUndefined, WritesValue, Types
<1>4. NextValue = v /\ v \in Values
  <2>1. total_elementValue4BCP < NumValues
    BY <1>3 DEF NextValue
  <2>2. NextValue = total_elementValue4BCP + 1
    BY <2>1 DEF NextValue
  <2>3. v \in 1..NumValues
    BY <1>1, <2>1
  <2> QED
    BY <2>2, <2>3 DEF Values
<1>5. total_elementValue4BCP' = v
  BY <1>3 DEF AssembleArgument
<1>6. e \in Elements /\ e + n + 1 \in Elements
  <2>1. total_element4BCP < MaxElements
    BY DEF AssembleArgument, ArgumentKeyFound
  <2>2. e \in 1..MaxElements /\ e + n + 1 \in 1..MaxElements
    BY <1>1, <2>1
  <2> QED
    BY <2>2 DEF Elements
<1>7. DeviceTold(i, s, n)'
  BY ToldAtArgument
<1>8. nested_elements'[e][n] = e + n + 1 /\ value'[e + n + 1] = v
  <2>1. n \in {STATE_ARG, DURATION_ARG}
    BY DEF STATE_ARG, DURATION_ARG
  <2>2. nested_elements' = [nested_elements EXCEPT ![e][n] = e + n + 1]
    BY <2>1 DEF AssembleArgument
  <2>3. value' = [value EXCEPT ![e + n + 1] = NextValue]
    BY DEF AssembleArgument
  <2> QED
    BY <1>1, <1>4, <1>6, <2>1, <2>2, <2>3
<1>9. SetElementValue
  BY DEF AssembleArgument
<1>10. CASE n = 0
  <2>1. bool_value'[v] = s.state
    BY <1>1, <1>4, <1>9, <1>10 DEF SetElementValue, ArgumentSays, BoolType,
       DeviceSettings
  <2> QED
    BY <1>5, <1>7, <1>8, <1>10, <2>1 DEF DeviceTold, STATE_ARG
<1>11. CASE n = 1
  <2>1. uint32_value'[v] = s.duration
    BY <1>1, <1>4, <1>9, <1>11 DEF SetElementValue, ArgumentSays
  <2>2. e + 2 = e + n + 1 /\ v = 2 * i + 2
    BY <1>11
  <2> QED
    BY <1>5, <1>7, <1>8, <1>11, <2>1, <2>2 DEF DeviceTold, DURATION_ARG
<1> QED
  BY <1>10, <1>11

-----------------------------------------------------------------------------
(* One list of settings that the request in the buffer follows *)

\* The request follows c, a list that there is room for, and is read as one.
Reads(c) ==
    /\ Inv
    /\ RequestRead
    /\ NoArgsIsGetData
    /\ FreshPools
    /\ HeaderRead
    /\ c \in Commands
    /\ c # <<>>
    /\ FitsPools(c)
    /\ Follows(request, c)
    /\ SettingsFollow(c)

\* The list and the buffer.
LEMMA ReadsList ==
    ASSUME NEW c, Reads(c)
    PROVE  /\ Len(c) \in Nat \ {0}
           /\ \A i \in 0..(Len(c) - 1) : c[i + 1] \in DeviceSettings
           /\ 3 * Len(c) + 1 <= MaxElements
           /\ 2 * Len(c) <= NumValues
           /\ Len(c) < MaxDevices
           /\ MaxElements \in Nat /\ NumValues \in Nat /\ MaxDevices \in Nat
<1>1. c \in Seq(DeviceSettings) /\ c # <<>>
  BY DEF Reads, FitsPools
<1>2. Len(c) \in Nat \ {0} /\ \A i \in 1..Len(c) : c[i] \in DeviceSettings
  BY <1>1
<1>3. \A i \in 0..(Len(c) - 1) : i + 1 \in 1..Len(c)
  BY <1>2
<1>4. /\ 3 * Len(c) + 1 <= MaxElements
      /\ 2 * Len(c) <= NumValues
      /\ MaxElements \in Nat /\ NumValues \in Nat /\ MaxDevices \in Nat
      /\ MaxElements <= 2 * MaxDevices
  BY PoolAssumption DEF Reads, FitsPools
<1>5. Len(c) < MaxDevices
  BY <1>2, <1>4
<1> QED
  BY <1>2, <1>3, <1>4, <1>5

\* What the buffer and the counters range over.
LEMMA ReadsBuffer ==
    ASSUME NEW c, Reads(c)
    PROVE  /\ TypeOK
           /\ request \in Seq(Bytes)
           /\ Len(request) \in Nat
           /\ Len(request) >= 11
           /\ buffer_position \in 0..Len(request)
           /\ element4BCP_number \in 0..MaxDevices
           /\ total_element4BCP \in 0..MaxElements
           /\ total_elementValue4BCP \in 0..NumValues
           /\ nested_element4BCP \in Nat
           /\ map_size \in Nat
  BY PoolAssumption DEF Reads, Inv, TypeOK, HandlerTypeOK, Follows, SetsActuators

\* Its command is the one that sets actuators, so it has arguments.
LEMMA ReadsArguments ==
    ASSUME NEW c, Reads(c),
           status \in {"COMMAND_SET", "SETTING_ARGS", "ARGS_READY", "ASSEMBLY",
                       "EXECUTING"}
    PROVE  command_executing = "SET_ACTUATOR" /\ ~no_args
<1>1. command_executing = "SET_ACTUATOR"
  BY DEF Reads, HeaderRead, Follows
<1>2. no_args => command_executing = "GET_DATA"
  BY DEF Reads, NoArgsIsGetData
<1> QED
  BY <1>1, <1>2

\* Where setting i + 1 stands, as far as the request goes.
LEMMA ReadsSetting ==
    ASSUME NEW c, Reads(c), NEW i \in 0..(Len(c) - 1), NEW p, p = Start(i),
           NEW s, s = c[i + 1]
    PROVE  /\ p \in Nat
           /\ p + 22 <= Start(Len(c))
           /\ s \in DeviceSettings
           /\ WordIs(request, p + 1, s.device)
           /\ p + 6 <= Len(request) => request[p + 6] = <<"map", 2>>
           /\ p + 7 <= Len(request) => request[p + 7] = UINT32
           /\ p + 12 <= Len(request) => request[p + 12][1] = BoolType(s.state)
           /\ p + 13 <= Len(request) => request[p + 13] = UINT32
           /\ p + 18 <= Len(request) => request[p + 18] = UINT32
           /\ WordIs(request, p + 18, s.duration)
<1>1. SettingAt(request, p, s)
  BY DEF Reads, Follows
<1>2. p \in Nat /\ p + 22 <= Start(Len(c)) /\ s \in DeviceSettings
  BY ReadsList DEF Start
<1>3. /\ WordIs(request, p + 1, s.device)
      /\ p + 6 <= Len(request) => request[p + 6] = <<"map", 2>>
      /\ p + 7 <= Len(request) => request[p + 7] = UINT32
      /\ p + 13 <= Len(request) => request[p + 13] = UINT32
      /\ p + 12 <= Len(request) =>
            request[p + 12] = IF s.state = "on" THEN TRUE_ ELSE <<"false", 0>>
      /\ WordIs(request, p + 18, s.duration)
  BY <1>1 DEF SettingAt, ByteIs
<1>4. p + 18 <= Len(request) => request[p + 18] = UINT32
  BY <1>3 DEF WordIs, ByteIs
<1>5. p + 12 <= Len(request) => request[p + 12][1] = BoolType(s.state)
  BY <1>3 DEF TRUE_, BoolType
<1> QED
  BY <1>2, <1>3, <1>4, <1>5

\* A request that goes on to its EXECUTE_FLAG has all of its settings.
LEMMA ReadsOn ==
    ASSUME NEW c, Reads(c), ToldToExecute(request, c)
    PROVE  /\ Start(Len(c)) \in Nat
           /\ Start(Len(c)) + 6 <= Len(request)
           /\ request[Start(Len(c)) + 6] = TRUE_
           /\ Start(Len(c)) >= 33
  BY ReadsList DEF ToldToExecute, Start

\* Settings stand behind each other.
LEMMA StartInOrder ==
    ASSUME NEW n \in Nat \ {0}, NEW j \in 1..n
    PROVE  /\ j \in 0..n
           /\ Start(j) \in Nat
           /\ Start(j) <= Start(n)
  BY DEF Start

\* The position moves by n, unless the request breaks off before.
LEMMA ReadsBytes ==
    ASSUME NEW c, Reads(c), NEW n \in Nat \ {0}, Consume(n), UNCHANGED request
    PROVE  /\ buffer_position + n <= Len(request) =>
                  buffer_position' = buffer_position + n
           /\ buffer_position + n > Len(request) => BufferSpent'
           /\ ~BufferSpent' => /\ buffer_position + n < Len(request)
                               /\ ~BufferSpent
           /\ buffer_position + n < Len(request) => ~BufferSpent'
<1>1. TypeOK /\ buffer_position \in 0..Len(request) /\ Len(request) \in Nat
  BY ReadsBuffer
<1>2. buffer_position' = IF buffer_position + n <= Len(request)
                         THEN buffer_position + n ELSE Len(request)
  BY <1>1, PositionMoves
<1> QED
  BY <1>1, <1>2 DEF BufferSpent

\* Away from the loops of the parser, and before a command is ready, there is
\* nothing to follow.
LEMMA NothingToFollow ==
    ASSUME NEW c, pc' \notin {"assemble", "nested"},
           status' \notin {"ARGS_READY", "ASSEMBLY", "EXECUTING"}
    PROVE  SettingsFollow(c)'
  BY DEF SettingsFollow, HeaderFollows, DeviceFollows, DeviceOpen, CommandFollows,
     GoesOn

\* The map that opens the request.
LEMMA MapFollows ==
    ASSUME NEW c, Reads(c), StreamMap
    PROVE  SettingsFollow(c)'
<1>1. /\ pc = "stream" /\ pc' = "assemble"
      /\ UNCHANGED <<status, request>>
      /\ Consume(1)
      /\ IsMap(Byte(1)) /\ Byte(1) # NUL
  BY DEF StreamMap, IsMap, NUL
<1>2. status \in {"BEGIN", "ARGS_READY", "FINISHED"}
  BY <1>1 DEF Reads, Inv, StatusAtPoint
<1>3. status # "ARGS_READY"
  <2> SUFFICES ASSUME status = "ARGS_READY"
               PROVE  FALSE
    OBVIOUS
  <2>1. ToldToExecute(request, c) /\ buffer_position = Start(Len(c)) + 6
    BY DEF Reads, SettingsFollow, CommandFollows
  <2> PICK p : p = Start(Len(c)) + 7
    OBVIOUS
  <2>2. Byte(1) = request[buffer_position + 1] /\ buffer_position + 1 <= Len(request)
    BY <1>1, ReadsBuffer, ByteInBuffer
  <2>3. p <= Len(request) /\ IsMap(request[p])
    BY <1>1, <2>1, <2>2, ReadsList DEF Start
  <2> QED
    BY <2>1, <2>3 DEF Reads, Follows
<1>4. ASSUME status = "BEGIN", ToldToExecute(request, c)
      PROVE  ~BufferSpent'
  <2>1. buffer_position = 0
    BY <1>1, <1>4 DEF Reads, HeaderRead
  <2> QED
    BY <1>1, <2>1, ReadsBuffer, ReadsBytes
<1>5. ToldToExecute(request', c) <=> ToldToExecute(request, c)
  BY <1>1
<1> QED
  BY <1>1, <1>2, <1>3, <1>4, <1>5 DEF SettingsFollow, HeaderFollows, DeviceFollows,
     DeviceOpen, CommandFollows, GoesOn, ToldToExecute

\* The header: ten bytes.
LEMMA HeaderIsFollowed ==
    ASSUME NEW c, Reads(c), AssembleHeader
    PROVE  SettingsFollow(c)'
<1>1. /\ pc = "assemble" /\ pc' = "assemble"
      /\ status = "BEGIN" /\ status' = "COMMAND_SET"
      /\ UNCHANGED request
      /\ Consume(10)
  BY DEF AssembleHeader
<1>2. buffer_position = 1 /\ buffer_position' = 11
  <2>1. buffer_position = 1
    BY <1>1 DEF Reads, HeaderRead
  <2> QED
    BY <1>1, <2>1, ReadsBuffer, ReadsBytes
<1>3. ASSUME ToldToExecute(request, c)
      PROVE  ~BufferSpent'
  <2>1. buffer_position + 10 < Len(request)
    BY <1>2, <1>3, ReadsOn, ReadsBuffer
  <2> QED
    BY <1>1, <2>1, ReadsBytes
<1> QED
  BY <1>1, <1>2, <1>3 DEF SettingsFollow, HeaderFollows, DeviceFollows, DeviceOpen,
     CommandFollows, GoesOn, ToldToExecute

\* A key of the request that is read up to its end.
LEMMA WholeKey ==
    ASSUME NEW c, Reads(c), NEW w \in Words,
           WordIs(request, buffer_position + 1, w),
           Consume(KeyLength), UNCHANGED request, ~BufferSpent'
    PROVE  /\ KeyFound
           /\ Word(2) = w
           /\ buffer_position' = buffer_position + 5
<1> PICK p : p = buffer_position
  OBVIOUS
<1>1. KeyLength \in Nat \ {0}
  BY DEF KeyLength
<1>2. p \in Nat /\ p < Len(request)
  BY <1>1, ReadsBuffer, ReadsBytes
<1>3. KeyFound /\ KeyLength = 5 /\ (p + 5 <= Len(request) => Word(2) = w)
  BY <1>2, ReadsBuffer, KeyIsRead
<1>4. p + 5 <= Len(request) /\ buffer_position' = p + 5
  BY <1>1, <1>2, <1>3, ReadsBuffer, ReadsBytes
<1> QED
  BY <1>3, <1>4

\* A key of a request that goes on behind it does not exhaust the buffer.
LEMMA KeyGoesOn ==
    ASSUME NEW c, Reads(c), Consume(KeyLength), UNCHANGED request,
           buffer_position + 5 < Len(request)
    PROVE  ~BufferSpent'
<1>1. KeyLength \in 1..5
  BY DEF KeyLength
<1>2. buffer_position + KeyLength < Len(request)
  BY <1>1, ReadsBuffer
<1> QED
  BY <1>1, <1>2, ReadsBytes

\* The first device.
LEMMA FirstFollows ==
    ASSUME NEW c, Reads(c), AssembleFirst
    PROVE  SettingsFollow(c)'
<1> PICK s : s = c[1]
  OBVIOUS
<1>1. /\ pc = "assemble" /\ pc' = "assemble"
      /\ status = "COMMAND_SET"
      /\ UNCHANGED <<request, element4BCP_number, nested_element4BCP,
                     total_elementValue4BCP>>
      /\ Consume(KeyLength)
      /\ TakeElement /\ ~NoElementLeft
      /\ StoreElement(element4BCP_number)
      /\ element4BCP_number < MaxDevices
  BY DEF AssembleFirst
<1>2. status' = "SETTING_ARGS"
  BY <1>1, ReadsArguments DEF AssembleFirst, StatusAfterFirst
<1>3. /\ buffer_position = 11
      /\ element4BCP_number = 0
      /\ total_element4BCP = 0
      /\ total_elementValue4BCP = 0
      /\ nested_element4BCP = 0
  BY <1>1 DEF Reads, SettingsFollow, HeaderFollows, FreshPools, Inv, ArgumentsCounted,
     Sound
<1>4. Start(0) = 11 /\ 0 \in 0..(Len(c) - 1) /\ 0 + 1 = 1
  BY ReadsList DEF Start
<1>5. s \in DeviceSettings /\ WordIs(request, 11 + 1, s.device)
  BY <1>4, ReadsSetting
<1>6. ASSUME ~BufferSpent'
      PROVE  DeviceFollows(c)'
  <2>1. /\ KeyFound
        /\ Word(2) = s.device
        /\ buffer_position' = 16
    BY <1>1, <1>3, <1>5, <1>6, WholeKey DEF DeviceSettings
  <2>2. total_element4BCP' = 1 /\ key'[1] = s.device
    <3>1. /\ total_element4BCP' = total_element4BCP + 1
          /\ key' = [key EXCEPT ![NextElement] = Word(2)]
      BY <1>1, <2>1 DEF TakeElement
    <3>2. NextElement = 1
      BY <1>3, <2>1 DEF NextElement
    <3>3. 1 \in Elements /\ key \in [Elements -> WordValues]
      <4>1. key \in [Elements -> WordValues]
        BY ReadsBuffer DEF TypeOK, ContainerTypeOK
      <4>2. 1 \in 1..MaxElements
        BY ReadsList
      <4> QED
        BY <4>1, <4>2 DEF Elements
    <3>4. key'[1] = s.device
      BY <2>1, <3>1, <3>2, <3>3
    <3> QED
      BY <1>3, <3>1, <3>4
  <2>3. map4BCP_elements'[0] = 1
    <3>1. map4BCP_elements' = [map4BCP_elements EXCEPT ![0] = 1]
      BY <1>1, <1>3, <2>1 DEF StoreElement, NextElement
    <3>2. /\ 0 \in 0..(MaxDevices - 1)
          /\ map4BCP_elements \in [0..(MaxDevices - 1) -> Elements \cup {Junk}]
      <4>1. map4BCP_elements \in [0..(MaxDevices - 1) -> Elements \cup {Junk}]
        BY ReadsBuffer DEF TypeOK, ContainerTypeOK
      <4>2. 0 \in 0..(MaxDevices - 1)
        BY ReadsList
      <4> QED
        BY <4>1, <4>2
    <3> QED
      BY <3>1, <3>2
  <2>4. DeviceTold(0, s, 0)'
    BY <2>2, <2>3 DEF DeviceTold
  <2>5. DevicesTold(0, c)'
    BY DEF DevicesTold
  <2>6. DeviceBytes' = 5
    BY <1>1 DEF DeviceBytes
  <2>7. 0 < Len(c)
    BY ReadsList
  <2> QED
    BY <1>1, <1>3, <1>4, <2>1, <2>2, <2>4, <2>5, <2>6, <2>7 DEF DeviceFollows
<1>7. ASSUME ToldToExecute(request, c)
      PROVE  ~BufferSpent'
  <2>1. buffer_position + 5 < Len(request)
    BY <1>3, <1>7, ReadsOn, ReadsBuffer
  <2> QED
    BY <1>1, <2>1, KeyGoesOn
<1>8. DeviceFollows(c)'
  BY <1>6 DEF DeviceFollows
<1> QED
  BY <1>1, <1>2, <1>7, <1>8 DEF SettingsFollow, HeaderFollows, CommandFollows, GoesOn,
     ToldToExecute

\* What is known of a device that is being read.
LEMMA ReadsDevice ==
    ASSUME NEW c, Reads(c), pc \in {"assemble", "nested"}, status = "SETTING_ARGS",
           ~BufferSpent, NEW i, i = element4BCP_number
    PROVE  /\ i \in 0..(Len(c) - 1)
           /\ nested_element4BCP \in 0..2
           /\ pc = "assemble" => nested_element4BCP = 0
           /\ pc = "nested" => nested_element4BCP + map_size = 2
           /\ buffer_position = Start(i) + DeviceBytes
           /\ total_element4BCP = 3 * i + 1 + nested_element4BCP
           /\ total_elementValue4BCP = 2 * i + nested_element4BCP
           /\ Device = 3 * i + 1
           /\ DeviceTold(i, c[i + 1], nested_element4BCP)
           /\ DevicesTold(i, c)
<1>1. DeviceFollows(c) /\ DeviceOpen
  BY DEF Reads, SettingsFollow, DeviceOpen
<1>2. i \in 0..(Len(c) - 1)
  BY <1>1, ReadsList, ReadsBuffer DEF DeviceFollows
<1>3. pc = "assemble" => nested_element4BCP = 0
  BY DEF Reads, Inv, ArgumentsCounted, Sound
<1>4. Device = 3 * i + 1
  BY <1>1 DEF DeviceFollows, DeviceTold, Device
<1> QED
  BY <1>1, <1>2, <1>3, <1>4 DEF DeviceFollows

\* The map of two arguments.
LEMMA ArgumentsFollow ==
    ASSUME NEW c, Reads(c), AssembleArguments
    PROVE  SettingsFollow(c)'
<1> PICK i : i = element4BCP_number
  OBVIOUS
<1> PICK p : p = Start(i)
  OBVIOUS
<1> PICK s : s = c[i + 1]
  OBVIOUS
<1>1. /\ pc = "assemble" /\ pc' = "nested"
      /\ status = "SETTING_ARGS"
      /\ UNCHANGED <<status, request, element4BCP_number, nested_element4BCP,
                     total_element4BCP, total_elementValue4BCP, containerVars>>
      /\ Consume(1)
      /\ IsMap(Byte(1)) /\ Byte(1) # NUL
      /\ map_size' = Byte(1)[2]
  BY DEF AssembleArguments, IsMap, NUL
<1>2. /\ ~BufferSpent
      /\ buffer_position + 1 <= Len(request)
      /\ Byte(1) = request[buffer_position + 1]
  BY <1>1, ReadsBuffer, ByteInBuffer
<1>3. /\ i \in 0..(Len(c) - 1)
      /\ nested_element4BCP = 0
      /\ buffer_position = p + 5
      /\ total_element4BCP = 3 * i + 1
      /\ total_elementValue4BCP = 2 * i
      /\ DeviceTold(i, s, 0)
      /\ DevicesTold(i, c)
  <2>1. DeviceBytes = 5
    BY <1>1 DEF DeviceBytes
  <2> QED
    BY <1>1, <1>2, <2>1, ReadsDevice
<1>4. /\ p \in Nat
      /\ p + 22 <= Start(Len(c))
      /\ p + 6 <= Len(request) => request[p + 6] = <<"map", 2>>
  BY <1>3, ReadsSetting
<1>5. map_size' = 2 /\ buffer_position' = p + 6
  <2>1. Byte(1) = <<"map", 2>>
    <3>1. buffer_position + 1 = p + 6
      BY <1>3, <1>4
    <3> QED
      BY <1>2, <1>4, <3>1
  <2>2. buffer_position' = buffer_position + 1
    BY <1>1, <1>2, ReadsBytes
  <2>3. map_size' = 2
    BY <1>1, <2>1
  <2>4. buffer_position' = p + 6
    BY <1>3, <1>4, <2>2
  <2> QED
    BY <2>3, <2>4
<1>6. DeviceFollows(c)'
  <2>1. DeviceBytes' = 6
    BY <1>1, <1>3 DEF DeviceBytes
  <2>2. DeviceTold(i, s, 0)' /\ DevicesTold(i, c)'
    BY <1>1, <1>3 DEF DeviceTold, DevicesTold, containerVars, poolVars
  <2>3. i < Len(c) /\ i = element4BCP_number'
    BY <1>1, <1>3, ReadsList
  <2> QED
    BY <1>1, <1>3, <1>5, <2>1, <2>2, <2>3 DEF DeviceFollows
<1>7. ASSUME ToldToExecute(request, c)
      PROVE  ~BufferSpent'
  <2>1. buffer_position + 1 < Len(request)
    <3>1. Start(Len(c)) \in Nat /\ Start(Len(c)) + 6 <= Len(request)
      BY <1>7, ReadsOn
    <3> QED
      <4>1. Len(request) \in Nat
        BY ReadsBuffer
      <4>2. buffer_position + 1 = p + 6 /\ p + 22 <= Start(Len(c))
        BY <1>3, <1>4
      <4> QED
        BY <1>4, <3>1, <4>1, <4>2
  <2> QED
    BY <1>1, <2>1, ReadsBytes
<1> QED
  BY <1>1, <1>6, <1>7 DEF SettingsFollow, HeaderFollows, CommandFollows, GoesOn,
     ToldToExecute

\* The argument at the position is the one the setting says.
LEMMA ArgumentIsRead ==
    ASSUME NEW c, Reads(c), pc = "nested", status = "SETTING_ARGS", ~BufferSpent,
           map_size > 0, NEW i, i = element4BCP_number, NEW q,
           q = Start(i) + IF nested_element4BCP = 0 THEN 12 ELSE 22,
           q <= Len(request)
    PROVE  /\ nested_element4BCP \in 0..1
           /\ ArgumentSays(c[i + 1])
           /\ buffer_position + 6 + PayloadLength(ArgumentType) = q
<1> PICK p : p = Start(i)
  OBVIOUS
<1> PICK s : s = c[i + 1]
  OBVIOUS
<1>1. /\ i \in 0..(Len(c) - 1)
      /\ nested_element4BCP \in 0..1
      /\ buffer_position = p + DeviceBytes
  BY ReadsDevice, ReadsBuffer
<1>2. /\ p \in Nat
      /\ p + 12 <= Len(request) => request[p + 12][1] = BoolType(s.state)
      /\ p + 18 <= Len(request) => request[p + 18] = UINT32
      /\ WordIs(request, p + 18, s.duration)
      /\ s.duration \in Words
  <2>1. p \in Nat /\ s \in DeviceSettings
    BY <1>1, ReadsSetting
  <2>2. p + 12 <= Len(request) => request[p + 12][1] = BoolType(s.state)
    BY <1>1, ReadsSetting
  <2>3. /\ p + 18 <= Len(request) => request[p + 18] = UINT32
        /\ WordIs(request, p + 18, s.duration)
    BY <1>1, ReadsSetting
  <2>4. s.duration \in Words
    BY <2>1 DEF DeviceSettings
  <2> QED
    BY <2>1, <2>2, <2>3, <2>4
<1>3. ASSUME buffer_position + 6 <= Len(request),
             request[buffer_position + 6][1] \in Types
      PROVE  ArgumentType = request[buffer_position + 6]
  BY <1>3 DEF ArgumentType, Byte, ByteAt, TypeOf, CheckDataType
<1>4. CASE nested_element4BCP = 0
  <2>1. buffer_position = p + 6 /\ q = p + 12
    BY <1>1, <1>4 DEF DeviceBytes
  <2>2. /\ buffer_position + 6 <= Len(request)
        /\ request[buffer_position + 6][1] = BoolType(s.state)
    BY <1>2, <2>1
  <2>3. ArgumentType[1] = BoolType(s.state)
    BY <1>3, <2>2 DEF Types, BoolType
  <2>4. PayloadLength(ArgumentType) = 0
    BY <2>3 DEF PayloadLength, BoolType
  <2> QED
    <3>1. ArgumentSays(s)
      BY <1>4, <2>3 DEF ArgumentSays
    <3>2. buffer_position + 6 + PayloadLength(ArgumentType) = q
      BY <1>2, <2>1, <2>4
    <3> QED
      BY <1>1, <3>1, <3>2
<1>5. CASE nested_element4BCP = 1
  <2>1. buffer_position = p + 12 /\ q = p + 22
    BY <1>1, <1>5 DEF DeviceBytes
  <2>2. /\ buffer_position + 6 <= Len(request)
        /\ request[buffer_position + 6] = UINT32
    <3>1. Len(request) \in Nat
      BY ReadsBuffer
    <3>2. buffer_position + 6 = p + 18 /\ p + 18 <= Len(request)
      BY <1>2, <2>1, <3>1
    <3> QED
      BY <1>2, <3>2
  <2>3. ArgumentType[1] = "uint32"
    BY <1>3, <2>2 DEF Types, UINT32
  <2>4. PayloadLength(ArgumentType) = 4
    BY <2>3 DEF PayloadLength
  <2>5. Word(7) = s.duration
    <3>1. WordAt(request, p + 18) = s.duration
      <4>1. request \in Seq(Bytes)
        BY ReadsBuffer
      <4>2. p + 18 \in Nat /\ (p + 18) + 4 <= Len(request)
        BY <1>2, <2>1
      <4> QED
        BY <1>2, <4>1, <4>2, WordIsRead
    <3>2. buffer_position + 7 - 1 = p + 18
      BY <1>2, <2>1
    <3> QED
      BY <3>1, <3>2 DEF Word
  <2> QED
    <3>1. ArgumentSays(s)
      BY <1>5, <2>3, <2>5 DEF ArgumentSays
    <3>2. buffer_position + 6 + PayloadLength(ArgumentType) = q
      BY <1>2, <2>1, <2>4
    <3> QED
      BY <1>1, <3>1, <3>2
<1> QED
  BY <1>1, <1>4, <1>5

\* An argument.
LEMMA ArgumentFollows ==
    ASSUME NEW c, Reads(c), AssembleArgument
    PROVE  SettingsFollow(c)'
<1> PICK i : i = element4BCP_number
  OBVIOUS
<1> PICK k : k = nested_element4BCP
  OBVIOUS
<1> PICK s : s = c[i + 1]
  OBVIOUS
<1> PICK p : p = Start(i)
  OBVIOUS
<1> PICK q : q = p + IF k = 0 THEN 12 ELSE 22
  OBVIOUS
<1> PICK n : n = 6 + PayloadLength(ArgumentType)
  OBVIOUS
<1>1. /\ TypeOK
      /\ pc = "nested" /\ pc' = "nested"
      /\ status = "SETTING_ARGS"
      /\ UNCHANGED <<status, request, element4BCP_number, map4BCP_elements>>
      /\ nested_element4BCP' = k + 1
      /\ map_size > 0 /\ map_size' = map_size - 1
      /\ total_element4BCP' = total_element4BCP + 1
      /\ Consume(n)
  BY ReadsBuffer DEF AssembleArgument, Reads, Inv, StatusAtPoint
<1>2. ~BufferSpent
  BY <1>1, ByteInBuffer DEF AssembleArgument, ArgumentKeyFound, UINT32, NUL
<1>3. /\ i \in 0..(Len(c) - 1)
      /\ k \in 0..1
      /\ k + map_size = 2
      /\ buffer_position = p + DeviceBytes
      /\ total_element4BCP = 3 * i + 1 + k
      /\ total_elementValue4BCP = 2 * i + k
      /\ Device = 3 * i + 1
      /\ DeviceTold(i, s, k)
      /\ DevicesTold(i, c)
  <2>1. /\ i \in 0..(Len(c) - 1)
        /\ k \in 0..2
        /\ k + map_size = 2
        /\ buffer_position = p + DeviceBytes
        /\ total_element4BCP = 3 * i + 1 + k
        /\ total_elementValue4BCP = 2 * i + k
        /\ Device = 3 * i + 1
        /\ DeviceTold(i, s, k)
        /\ DevicesTold(i, c)
    BY <1>1, <1>2, ReadsDevice
  <2>2. map_size \in Nat
    BY ReadsBuffer
  <2>3. k \in 0..1
    BY <1>1, <2>1, <2>2
  <2> QED
    BY <2>1, <2>3
<1>4. /\ p \in Nat
      /\ p + 22 <= Start(Len(c))
      /\ s \in DeviceSettings
  BY <1>3, ReadsSetting
<1>5. n \in Nat \ {0} /\ n >= 6
  BY PayloadLengthType
<1>6. q <= Len(request) => /\ ArgumentSays(s)
                           /\ buffer_position + n = q
  <2> SUFFICES ASSUME q <= Len(request)
               PROVE  ArgumentSays(s) /\ buffer_position + n = q
    OBVIOUS
  <2>1. /\ ArgumentSays(s)
        /\ buffer_position + 6 + PayloadLength(ArgumentType) = q
    BY <1>1, <1>2, ArgumentIsRead
  <2> QED
    BY <2>1, ReadsBuffer, PayloadLengthType
<1>7. ~BufferSpent' => q <= Len(request)
  <2> SUFFICES ASSUME ~BufferSpent'
               PROVE  q <= Len(request)
    OBVIOUS
  <2>1. buffer_position + n < Len(request) /\ Len(request) \in Nat
    BY <1>1, <1>5, ReadsBytes, ReadsBuffer
  <2>2. CASE k = 0
    <3>1. buffer_position = p + 6
      BY <1>1, <1>3, <2>2 DEF DeviceBytes
    <3>2. q = p + 12
      BY <2>2
    <3>3. p \in Nat /\ n \in Nat /\ n >= 6
      BY <1>4, <1>5
    <3>4. (p + 6) + n < Len(request) /\ Len(request) \in Nat
      BY <2>1, <3>1
    <3> QED
      BY <3>2, <3>3, <3>4
  <2>3. CASE k = 1
    <3>1. buffer_position = p + 12
      BY <1>1, <1>3, <2>3 DEF DeviceBytes
    <3>2. p + 18 <= Len(request)
      BY <1>4, <1>5, <2>1, <3>1
    <3>3. ArgumentType[1] = "uint32"
      <4>1. request[p + 18] = UINT32
        BY <1>3, <3>2, ReadsSetting
      <4>2. Byte(6) = UINT32
        <5>1. buffer_position + 6 = p + 18
          BY <1>4, <3>1
        <5> QED
          BY <3>2, <4>1, <5>1 DEF Byte, ByteAt
      <4> QED
        BY <4>2 DEF ArgumentType, TypeOf, CheckDataType, UINT32, Types
    <3>4. n = 10
      BY <3>3 DEF PayloadLength
    <3>5. q = p + 22
      BY <2>3
    <3> QED
      BY <1>4, <2>1, <3>1, <3>4, <3>5
  <2> QED
    BY <1>3, <2>2, <2>3
<1>8. ASSUME ~BufferSpent'
      PROVE  DeviceFollows(c)'
  <2>1. ArgumentSays(s) /\ buffer_position' = q
    BY <1>1, <1>5, <1>6, <1>7, <1>8, ReadsBytes, ReadsBuffer
  <2>2. DeviceTold(i, s, k + 1)' /\ total_elementValue4BCP' = 2 * i + k + 1
    <3>1. i \in Nat /\ k \in 0..1 /\ s \in DeviceSettings
      BY <1>3, <1>4
    <3> QED
      BY <1>1, <1>3, <2>1, <3>1, ToldOneMore
  <2>3. DevicesTold(i, c)'
    <3>1. ASSUME NEW j \in 0..(i - 1)
          PROVE  DeviceTold(j, c[j + 1], 2)'
      <4> PICK t : t = c[j + 1]
        OBVIOUS
      <4>1. DeviceTold(j, t, 2)
        BY <1>3 DEF DevicesTold
      <4>2. /\ j \in Nat
            /\ 3 * j + 1 + 2 <= total_element4BCP
            /\ 2 * j + 2 <= total_elementValue4BCP
            /\ Device # 3 * j + 1
        BY <1>3
      <4>3. DeviceTold(j, t, 2)'
        BY <1>1, <4>1, <4>2, ToldAtArgument
      <4> QED
        BY <4>3
    <3> QED
      BY <3>1 DEF DevicesTold
  <2>4. DeviceBytes' = IF k = 0 THEN 12 ELSE 22
    BY <1>1, <1>3 DEF DeviceBytes
  <2>5. i < Len(c) /\ i = element4BCP_number'
    BY <1>1, <1>3, ReadsList
  <2>6. /\ nested_element4BCP' + map_size' = 2
        /\ nested_element4BCP' \in 0..2
        /\ total_element4BCP' = 3 * i + 1 + nested_element4BCP'
        /\ total_elementValue4BCP' = 2 * i + nested_element4BCP'
        /\ buffer_position' = Start(i) + DeviceBytes'
    <3>1. map_size \in Nat
      BY ReadsBuffer
    <3>2. /\ nested_element4BCP' + map_size' = 2
          /\ nested_element4BCP' \in 0..2
      BY <1>1, <1>3, <3>1
    <3>3. total_element4BCP' = 3 * i + 1 + nested_element4BCP'
      BY <1>1, <1>3
    <3>4. total_elementValue4BCP' = 2 * i + nested_element4BCP'
      BY <1>1, <1>3, <2>2
    <3>5. buffer_position' = Start(i) + DeviceBytes'
      BY <2>1, <2>4
    <3> QED
      BY <3>2, <3>3, <3>4, <3>5
  <2>7. DeviceTold(i, s, nested_element4BCP)'
    BY <1>1, <2>2 DEF DeviceTold
  <2> QED
    BY <2>3, <2>5, <2>6, <2>7 DEF DeviceFollows
<1>9. ASSUME ToldToExecute(request, c)
      PROVE  ~BufferSpent'
  <2>1. q < Len(request)
    <3>1. Start(Len(c)) \in Nat /\ Start(Len(c)) + 6 <= Len(request)
      BY <1>9, ReadsOn
    <3>2. q \in Nat /\ q <= p + 22
      BY <1>4
    <3> QED
      <4>1. Len(request) \in Nat
        BY ReadsBuffer
      <4> QED
        BY <1>4, <3>1, <3>2, <4>1
  <2>2. buffer_position + n < Len(request)
    BY <1>6, <2>1, ReadsBuffer
  <2> QED
    BY <1>1, <1>5, <2>2, ReadsBytes
<1>10. DeviceFollows(c)'
  BY <1>8 DEF DeviceFollows
<1> QED
  BY <1>1, <1>9, <1>10 DEF SettingsFollow, HeaderFollows, CommandFollows, GoesOn,
     ToldToExecute

\* The word behind j settings: the next device, or the EXECUTE_FLAG.
LEMMA WordBehind ==
    ASSUME NEW c, Reads(c), NEW j \in 0..Len(c), NEW p, p = Start(j)
    PROVE  \E w \in Words :
               /\ WordIs(request, p + 1, w)
               /\ w = "EXECUTE_FLAG" <=> j = Len(c)
               /\ j < Len(c) => w = c[j + 1].device
<1>1. CASE j = Len(c)
  <2>1. WordIs(request, p + 1, "EXECUTE_FLAG")
    BY <1>1 DEF Reads, Follows
  <2> QED
    BY <1>1, <2>1, ReadsList DEF Words
<1>2. CASE j < Len(c)
  <2>1. j \in 0..(Len(c) - 1)
    BY <1>2, ReadsList
  <2> PICK s : s = c[j + 1]
    OBVIOUS
  <2>2. WordIs(request, p + 1, s.device) /\ s \in DeviceSettings
    BY <2>1, ReadsSetting
  <2>3. s.device \in Words /\ s.device # "EXECUTE_FLAG"
    BY <2>2 DEF DeviceSettings
  <2> QED
    BY <1>2, <2>2, <2>3, ReadsList
<1>3. Len(c) \in Nat
  BY ReadsList
<1> QED
  BY <1>1, <1>2, <1>3

\* All devices stay as they were told while keys are taken.
LEMMA DevicesAtKey ==
    ASSUME TypeOK, TakeElement, ~NoElementLeft,
           UNCHANGED <<nested_elements, value, bool_value, uint32_value>>,
           NEW n \in Nat, 3 * n <= total_element4BCP,
           \A j \in 0..(n - 1) : map4BCP_elements'[j] = map4BCP_elements[j],
           NEW c, DevicesTold(n, c)
    PROVE  DevicesTold(n, c)'
<1>1. ASSUME NEW j \in 0..(n - 1)
      PROVE  DeviceTold(j, c[j + 1], 2)'
  <2> PICK t : t = c[j + 1]
    OBVIOUS
  <2>1. DeviceTold(j, t, 2)
    BY DEF DevicesTold
  <2>2. total_element4BCP \in Nat
    BY PoolAssumption DEF TypeOK, HandlerTypeOK
  <2>3. j \in Nat /\ 3 * j + 1 <= total_element4BCP
    BY <2>2
  <2>4. DeviceTold(j, t, 2)'
    BY <2>1, <2>3, ToldAtKey
  <2> QED
    BY <2>4
<1> QED
  BY <1>1 DEF DevicesTold

\* What is known when the last argument of a device has been read.
LEMMA ReadsKey ==
    ASSUME NEW c, Reads(c), AtNextKey, ~BufferSpent,
           NEW j, j = element4BCP_number + 1
    PROVE  /\ j \in 1..Len(c)
           /\ buffer_position = Start(j)
           /\ total_element4BCP = 3 * j
           /\ total_elementValue4BCP = 2 * j
           /\ DevicesTold(j, c)
<1> PICK i : i = element4BCP_number
  OBVIOUS
<1>1. pc = "nested" /\ status = "SETTING_ARGS" /\ map_size = 0
  BY DEF AtNextKey, Reads, Inv, StatusAtPoint
<1>2. /\ i \in 0..(Len(c) - 1)
      /\ nested_element4BCP = 2
      /\ buffer_position = Start(i) + DeviceBytes
      /\ total_element4BCP = 3 * i + 3
      /\ total_elementValue4BCP = 2 * i + 2
      /\ DeviceTold(i, c[i + 1], 2)
      /\ DevicesTold(i, c)
  <2>1. /\ i \in 0..(Len(c) - 1)
        /\ nested_element4BCP \in 0..2
        /\ nested_element4BCP + map_size = 2
        /\ buffer_position = Start(i) + DeviceBytes
        /\ total_element4BCP = 3 * i + 1 + nested_element4BCP
        /\ total_elementValue4BCP = 2 * i + nested_element4BCP
        /\ DeviceTold(i, c[i + 1], nested_element4BCP)
        /\ DevicesTold(i, c)
    BY <1>1, ReadsDevice
  <2>2. nested_element4BCP = 2
    BY <1>1, <2>1
  <2> QED
    BY <2>1, <2>2
<1>3. j \in 1..Len(c) /\ i = j - 1
  BY <1>2, ReadsList
<1>4. buffer_position = Start(j)
  BY <1>1, <1>2, <1>3 DEF Start, DeviceBytes
<1>5. DevicesTold(j, c)
  <2>1. ASSUME NEW m \in 0..(j - 1)
        PROVE  DeviceTold(m, c[m + 1], 2)
    BY <1>2, <1>3 DEF DevicesTold
  <2> QED
    BY <2>1 DEF DevicesTold
<1> QED
  BY <1>2, <1>3, <1>4, <1>5

\* EXECUTE_FLAG => true behind the last device, and behind no other.
LEMMA FlagFollows ==
    ASSUME NEW c, Reads(c), AssembleExecuteFlag
    PROVE  SettingsFollow(c)'
<1> PICK j : j = element4BCP_number + 1
  OBVIOUS
<1> PICK p : p = buffer_position
  OBVIOUS
<1>1. /\ TypeOK /\ AtNextKey
      /\ pc' = "stream" /\ status' = "ARGS_READY"
      /\ UNCHANGED <<request, map4BCP_elements, nested_elements, value, bool_value,
                     uint32_value>>
      /\ element4BCP_number' = j
      /\ TakeElement /\ ~NoElementLeft
      /\ Byte(AfterKey) = TRUE_
      /\ ExecuteFlagRead
      /\ Consume(AfterKey)
  BY ReadsBuffer DEF AssembleExecuteFlag, DeviceComplete
<1>2. AfterKey \in Nat \ {0}
  BY DEF AfterKey, KeyLength
<1>3. /\ ~BufferSpent
      /\ p + AfterKey <= Len(request)
      /\ Byte(AfterKey) = request[p + AfterKey]
  BY <1>1, <1>2, ByteInBuffer DEF TRUE_, NUL
<1>4. /\ j \in 1..Len(c)
      /\ p = Start(j)
      /\ total_element4BCP = 3 * j
      /\ DevicesTold(j, c)
  BY <1>1, <1>3, ReadsKey
<1>5. j \in 0..Len(c) /\ p \in Nat /\ p < Len(request)
  <2>1. j \in 0..Len(c)
    BY <1>4, ReadsList
  <2>2. p \in Nat /\ Len(request) \in Nat /\ p + AfterKey <= Len(request)
    BY <1>3, ReadsBuffer
  <2> QED
    BY <1>2, <2>1, <2>2
<1> PICK w \in Words : /\ WordIs(request, p + 1, w)
                       /\ w = "EXECUTE_FLAG" <=> j = Len(c)
  BY <1>4, <1>5, WordBehind
<1>6. KeyFound /\ KeyLength = 5 /\ (p + 5 <= Len(request) => Word(2) = w)
  BY <1>1, <1>5, KeyIsRead
<1>7. AfterKey = 6 /\ p + 6 <= Len(request)
  BY <1>3, <1>6 DEF AfterKey
<1>8. j = Len(c)
  <2>1. Word(2) = w
    BY <1>5, <1>6, <1>7, ReadsBuffer
  <2> QED
    BY <1>1, <1>6, <2>1 DEF ExecuteFlagRead
<1>9. ToldToExecute(request, c)
  BY <1>1, <1>3, <1>4, <1>7, <1>8 DEF ToldToExecute
<1>10. buffer_position' = Start(Len(c)) + 6
  BY <1>1, <1>2, <1>4, <1>7, <1>8, ReadsBytes
<1>11. DevicesTold(j, c)'
  BY <1>1, <1>4, DevicesAtKey
<1>12. CommandFollows(c)'
  BY <1>1, <1>8, <1>9, <1>10, <1>11 DEF CommandFollows, ToldToExecute
<1> QED
  BY <1>1, <1>12 DEF SettingsFollow, HeaderFollows, DeviceFollows, DeviceOpen, GoesOn

\* The key of the next device.
LEMMA NextFollows ==
    ASSUME NEW c, Reads(c), AssembleNextDevice
    PROVE  SettingsFollow(c)'
<1> PICK j : j = element4BCP_number + 1
  OBVIOUS
<1> PICK p : p = buffer_position
  OBVIOUS
<1>1. /\ TypeOK /\ AtNextKey /\ pc = "nested"
      /\ pc' = "assemble"
      /\ status = "SETTING_ARGS"
      /\ UNCHANGED <<status, request, nested_elements, value, bool_value,
                     uint32_value, total_elementValue4BCP>>
      /\ element4BCP_number' = j
      /\ nested_element4BCP' = 0
      /\ j < MaxDevices
      /\ TakeElement /\ ~NoElementLeft
      /\ StoreElement(j)
      /\ OtherKeyRead
      /\ Consume(KeyLength)
  BY ReadsBuffer DEF AssembleNextDevice, DeviceComplete, AtNextKey, Reads, Inv,
     StatusAtPoint
<1>2. KeyLength \in Nat \ {0} /\ KeyLength <= 5
  BY DEF KeyLength
<1>3. ASSUME ~BufferSpent
      PROVE  /\ j \in 1..Len(c)
             /\ j \in 0..Len(c)
             /\ p = Start(j)
             /\ total_element4BCP = 3 * j
             /\ total_elementValue4BCP = 2 * j
             /\ DevicesTold(j, c)
  BY <1>1, <1>3, ReadsKey, ReadsList
<1>4. ASSUME ~BufferSpent'
      PROVE  DeviceFollows(c)'
  <2>1. ~BufferSpent
    BY <1>1, <1>2, <1>4, ReadsBytes
  <2>2. PICK w \in Words : /\ WordIs(request, p + 1, w)
                           /\ w = "EXECUTE_FLAG" <=> j = Len(c)
                           /\ j < Len(c) => w = c[j + 1].device
    BY <1>3, <2>1, WordBehind
  <2>3. KeyFound /\ Word(2) = w /\ buffer_position' = p + 5
    BY <1>1, <1>4, <2>2, WholeKey
  <2>4. j < Len(c) /\ w = c[j + 1].device
    <3>1. w # "EXECUTE_FLAG"
      BY <1>1, <2>3 DEF OtherKeyRead
    <3> QED
      BY <1>3, <2>1, <2>2, <3>1, ReadsList
  <2> PICK e : e = 3 * j + 1
    OBVIOUS
  <2>5. NextElement = e
    BY <1>3, <2>1, <2>3 DEF NextElement
  <2>6. total_element4BCP' = e /\ key'[e] = w
    <3>1. /\ total_element4BCP' = total_element4BCP + 1
          /\ key' = [key EXCEPT ![NextElement] = Word(2)]
      BY <1>1, <2>3 DEF TakeElement
    <3>2. key \in [Elements -> WordValues]
      BY <1>1 DEF TypeOK, ContainerTypeOK
    <3>3. e \in Elements
      <4>1. j \in Nat /\ 3 * j + 3 <= 3 * Len(c) /\ Len(c) \in Nat
        BY <1>3, <2>1, <2>4, ReadsList
      <4>2. 3 * Len(c) + 1 <= MaxElements /\ MaxElements \in Nat
        BY ReadsList
      <4>3. e \in 1..MaxElements
        BY <4>1, <4>2
      <4> QED
        BY <4>3 DEF Elements
    <3>4. key'[e] = w
      BY <2>3, <2>5, <3>1, <3>2, <3>3
    <3> QED
      BY <1>3, <2>1, <3>1, <3>4
  <2>7. /\ map4BCP_elements'[j] = e
        /\ \A m \in 0..(j - 1) : map4BCP_elements'[m] = map4BCP_elements[m]
    <3>1. map4BCP_elements' = [map4BCP_elements EXCEPT ![j] = e]
      BY <1>1, <2>5 DEF StoreElement
    <3>2. /\ map4BCP_elements \in [0..(MaxDevices - 1) -> Elements \cup {Junk}]
          /\ MaxDevices \in Nat
      BY <1>1, PoolAssumption DEF TypeOK, ContainerTypeOK
    <3>3. j \in 0..(MaxDevices - 1)
      BY <1>1, <1>3, <2>1, <3>2
    <3>4. \A m \in 0..(j - 1) : m \in 0..(MaxDevices - 1) /\ m # j
      BY <3>2, <3>3
    <3> QED
      BY <3>1, <3>2, <3>3, <3>4
  <2>8. DeviceTold(j, c[j + 1], 0)'
    BY <2>4, <2>6, <2>7 DEF DeviceTold
  <2>9. DevicesTold(j, c)'
    <3>1. j \in Nat /\ 3 * j <= total_element4BCP
      BY <1>3, <2>1
    <3> QED
      BY <1>1, <1>3, <2>1, <2>7, <3>1, DevicesAtKey
  <2>10. DeviceBytes' = 5
    BY <1>1 DEF DeviceBytes
  <2>11. /\ element4BCP_number' < Len(c)
         /\ nested_element4BCP' \in 0..2
         /\ buffer_position' = Start(j) + DeviceBytes'
         /\ total_element4BCP' = 3 * j + 1 + nested_element4BCP'
         /\ total_elementValue4BCP' = 2 * j + nested_element4BCP'
    BY <1>1, <1>3, <2>1, <2>3, <2>4, <2>6, <2>10
  <2>12. DeviceTold(j, c[j + 1], nested_element4BCP)'
    BY <1>1, <2>8 DEF DeviceTold
  <2> QED
    BY <1>1, <2>9, <2>11, <2>12 DEF DeviceFollows
<1>5. ASSUME ToldToExecute(request, c)
      PROVE  ~BufferSpent'
  <2>1. ~BufferSpent
    BY <1>1, <1>5 DEF Reads, SettingsFollow, GoesOn
  <2>2. Start(Len(c)) \in Nat /\ Start(Len(c)) + 6 <= Len(request)
    BY <1>5, ReadsOn
  <2>3. p \in Nat /\ p <= Start(Len(c))
    BY <1>3, <2>1, ReadsList, StartInOrder
  <2>4. p + 5 < Len(request)
    BY <2>2, <2>3, ReadsBuffer
  <2> QED
    BY <1>1, <2>4, KeyGoesOn
<1>6. DeviceFollows(c)'
  BY <1>4 DEF DeviceFollows
<1> QED
  BY <1>1, <1>5, <1>6 DEF SettingsFollow, HeaderFollows, CommandFollows, GoesOn,
     ToldToExecute

\* Once the command is ready, what it has been told stays until it is run.
LEMMA CommandStays ==
    ASSUME NEW c, Reads(c), pc' \notin {"assemble", "nested"},
           status \in {"ARGS_READY", "ASSEMBLY", "EXECUTING"},
           status' # "ARGS_READY",
           UNCHANGED <<request, element4BCP_number, containerVars>>
    PROVE  SettingsFollow(c)'
<1>1. CommandFollows(c)'
  BY DEF Reads, SettingsFollow, CommandFollows, ToldToExecute, DevicesTold,
     DeviceTold, containerVars, poolVars
<1> QED
  BY <1>1 DEF SettingsFollow, HeaderFollows, DeviceFollows, DeviceOpen, GoesOn

\* A step keeps to every list the request follows.
LEMMA FollowStep ==
    ASSUME NEW c, Reads(c), Next
    PROVE  SettingsFollow(c)'
<1> USE DEF StatusAtPoint
<1>1. StatusAtPoint
  BY DEF Reads, Inv
<1>2. CASE StreamNext /\ UNCHANGED served
  <2>1. CASE ProcessMap \/ Dispatch
    <3>1. /\ pc' \notin {"assemble", "nested"}
          /\ status \in {"ARGS_READY", "ASSEMBLY"}
          /\ status' # "ARGS_READY"
          /\ UNCHANGED <<request, element4BCP_number, containerVars>>
      BY <1>1, <2>1 DEF ProcessMap, AtProcessMap, ProcessMapAccepts, Dispatch,
         parseVars, bufferVars, counterVars
    <3> QED
      BY <3>1, CommandStays
  <2>2. CASE StreamArray \/ StreamMalformed \/ StreamDone \/ ProcessMapRefused
             \/ Executed
    <3>1. /\ pc' \notin {"assemble", "nested"}
          /\ status' \notin {"ARGS_READY", "ASSEMBLY", "EXECUTING"}
      BY <2>2 DEF StreamArray, StreamMalformed, StreamDone, ProcessMapRefused,
         Executed, RefuseAfter, Refuse
    <3> QED
      BY <3>1, NothingToFollow
  <2> QED
    BY <1>2, <2>1, <2>2, MapFollows DEF StreamNext
<1>3. CASE AssembleNext /\ UNCHANGED served
  <2>1. CASE AssembleReady
    <3>1. pc = "assemble" /\ status = "ARGS_READY"
      BY <2>1 DEF AssembleReady
    <3> QED
      BY <3>1 DEF Reads, SettingsFollow, CommandFollows
  <2>2. CASE AssembleSpins
    <3>1. pc' = "assemble" /\ status' = "FINISHED"
      BY <1>1, <2>2 DEF AssembleSpins
    <3> QED
      BY <3>1 DEF SettingsFollow, HeaderFollows, DeviceFollows, DeviceOpen,
         CommandFollows, GoesOn
  <2>3. CASE pc' \in {"close", "undefined"}
    <3>1. status' \notin {"ARGS_READY", "ASSEMBLY", "EXECUTING"}
      BY <1>1, <1>3, <2>3 DEF AssembleNext, AssembleReady, AssembleSpins,
         AssembleHeader, AssembleHeaderRefused, AssembleFirst,
         AssembleFirstUndefined, AssembleArguments, AssembleArgumentsRefused,
         AssembleArgument, AssembleArgumentUndefined, AssembleArgumentRefused,
         AssembleExecuteFlag, AssembleExecuteFlagRefused, AssembleNextDevice,
         AssembleNextDeviceUndefined, AtNextKey, Undefined, RefuseAfter, Refuse
    <3> QED
      BY <2>3, <3>1, NothingToFollow
  <2> QED
    BY <1>3, <2>1, <2>2, <2>3, HeaderIsFollowed, FirstFollows, ArgumentsFollow,
       ArgumentFollows, FlagFollows, NextFollows
    DEF AssembleNext, AssembleHeaderRefused, AssembleFirstUndefined,
       AssembleArgumentsRefused, AssembleArgumentUndefined,
       AssembleArgumentRefused, AssembleExecuteFlagRefused,
       AssembleNextDeviceUndefined, Undefined, RefuseAfter, Refuse
<1>4. CASE CommandsNext /\ UNCHANGED <<status, parseVars, containerVars, served>>
  <2>1. /\ pc = "execute"
        /\ pc' \in {"execute", "executed"}
        /\ UNCHANGED <<status, request, element4BCP_number, containerVars>>
    BY <1>4 DEF CommandsNext, GetData, UnknownCommand, SetActuator,
       SetActuatorRefused, SetActuatorDone, Return, parseVars, bufferVars,
       counterVars
  <2> QED
    BY <1>1, <2>1, CommandStays
<1>5. CASE LoopNext
  <2>1. CASE Wild
    BY <2>1 DEF Wild, Reads, SettingsFollow, HeaderFollows, DeviceFollows, DeviceOpen,
       CommandFollows, GoesOn, ToldToExecute, DevicesTold, DeviceTold, vars,
       parseVars, bufferVars, counterVars, containerVars, poolVars
  <2>2. CASE LoopNext /\ ~Wild
    <3>1. /\ pc' \notin {"assemble", "nested"}
          /\ status' \notin {"ARGS_READY", "ASSEMBLY", "EXECUTING"}
      <4>1. CASE Connect
        BY <1>1, <4>1 DEF Connect
      <4>2. CASE NoMoreData \/ Close \/ \E r \in Requests : Receive(r) \/ ReceiveTooLong(r)
        BY <1>1, <4>2 DEF NoMoreData, Close, Receive, ReceiveTooLong, InitStream,
           HandlerReset, Reads, Inv
      <4> QED
        BY <2>2, <4>1, <4>2 DEF LoopNext
    <3> QED
      BY <3>1, NothingToFollow
  <2> QED
    BY <1>5, <2>1, <2>2
<1> QED
  BY <1>2, <1>3, <1>4, <1>5 DEF Next

\* The buffer holds another request when one is read, or none.
LEMMA RequestStays ==
    ASSUME Inv, Next, request' # request
    PROVE  /\ pc' \notin {"assemble", "nested"}
           /\ status' \notin {"ARGS_READY", "ASSEMBLY", "EXECUTING"}
<1>1. CASE StreamNext \/ AssembleNext
  BY <1>1 DEF StreamNext, StreamArray, StreamMap,
     StreamMalformed, StreamDone, ProcessMap, ProcessMapRefused, Dispatch,
     Executed, AssembleNext, AssembleReady, AssembleSpins, AssembleHeader,
     AssembleHeaderRefused, AssembleFirst, AssembleFirstUndefined,
     AssembleArguments, AssembleArgumentsRefused, AssembleArgument,
     AssembleArgumentUndefined, AssembleArgumentRefused, AssembleExecuteFlag,
     AssembleExecuteFlagRefused, AssembleNextDevice,
     AssembleNextDeviceUndefined, Undefined, RefuseAfter, parseVars, bufferVars
<1>2. CASE LoopNext
  BY <1>2 DEF LoopNext, Connect, Receive, ReceiveTooLong, NoMoreData, Close, Wild,
     InitStream, HandlerReset, vars, parseVars, bufferVars
<1> QED
  BY <1>1, <1>2 DEF Next, parseVars, bufferVars

\* One request on a connection, and room for what it asks for: every setting is
\* read from its place and put in its place.
LEMMA SettingsStep ==
    ASSUME Inv, RequestRead, NoArgsIsGetData, SettingsRead, Next, MaxServed <= 1,
           \A c \in Commands : FitsPools(c)
    PROVE  SettingsRead'
<1>1. FreshPools' /\ HeaderRead' /\ RunOnce'
  BY FreshStep, HeaderStep, RunOnceStep DEF SettingsRead
<1>2. ASSUME NEW c \in Commands, c # <<>>, Follows(request', c)
      PROVE  SettingsFollow(c)'
  <2>1. CASE request' = request
    <3>1. Reads(c)
      BY <1>2, <2>1 DEF Reads, SettingsRead
    <3> QED
      BY <3>1, FollowStep
  <2>2. CASE request' # request
    BY <2>2, RequestStays, NothingToFollow
  <2> QED
    BY <2>1, <2>2
<1> QED
  BY <1>1, <1>2 DEF SettingsRead

\* What the service's invariant rests on.
ReadInv ==
    /\ Inv
    /\ RequestRead
    /\ NoArgsIsGetData
    /\ SettingsRead

\* A step that changes nothing keeps it.
LEMMA ReadInvStutter ==
    ASSUME RequestRead, SettingsRead, UNCHANGED vars
    PROVE  RequestRead' /\ SettingsRead'
<1> USE DEF vars, parseVars, bufferVars, counterVars, containerVars, poolVars,
            commandVars
<1>1. RequestRead'
  BY Zenon DEF RequestRead, Parsing
<1>2. FreshPools' /\ HeaderRead' /\ RunOnce'
  BY DEF SettingsRead, FreshPools, HeaderRead, RunOnce
<1>3. ASSUME NEW c \in Commands, c # <<>>, Follows(request', c)
      PROVE  SettingsFollow(c)'
  <2>1. request' = request
    OBVIOUS
  <2>2. SettingsFollow(c)
    BY <1>3, <2>1 DEF SettingsRead
  <2> QED
    BY <2>2 DEF SettingsFollow, HeaderFollows, DeviceFollows, DeviceOpen,
       DeviceBytes, BufferSpent, CommandFollows, GoesOn, ToldToExecute,
       DevicesTold, DeviceTold
<1> QED
  BY <1>1, <1>2, <1>3 DEF SettingsRead

\* The settings are read, and the request in the buffer is one of Requests, in
\* every state of the appliance.
LEMMA ReadInvCorrect ==
    ASSUME MaxServed <= 1, \A c \in Commands : FitsPools(c)
    PROVE  Spec => []ReadInv
<1>1. Init => RequestRead /\ SettingsRead
  BY DEF Init, ContainerInit, HandlerInit, CommandInit, RequestRead, Parsing,
     SettingsRead, FreshPools, HeaderRead, RunOnce, SettingsFollow, HeaderFollows,
     DeviceFollows, DeviceOpen, CommandFollows, GoesOn
<1>2. Inv /\ NoArgsIsGetData /\ RequestRead /\ SettingsRead /\ [Next]_vars
          => RequestRead' /\ SettingsRead'
  <2>1. ASSUME Inv, NoArgsIsGetData, RequestRead, SettingsRead, Next
        PROVE  RequestRead' /\ SettingsRead'
    BY <2>1, RequestReadStep, SettingsStep
  <2> QED
    BY <2>1, ReadInvStutter
<1>3. Spec => []NoArgsIsGetData
  BY NoArgsCorrect
<1> QED
  BY <1>1, <1>2, <1>3, InvCorrect, PTL DEF Spec, ReadInv

\* With one request on a connection, and room in the pools for what it asks for,
\* every setting of the request is read from its place in the buffer and put in
\* its place in the pools, wherever the request breaks off.
THEOREM SettingsCorrect ==
    ASSUME MaxServed <= 1, \A c \in Commands : FitsPools(c)
    PROVE  Spec => []SettingsRead
<1>1. ReadInv => SettingsRead
  BY DEF ReadInv
<1> QED
  BY <1>1, ReadInvCorrect, PTL

-----------------------------------------------------------------------------
(* A request that goes on to its EXECUTE_FLAG is not refused *)

\* Neither the command word nor the key before it is missing.
LEMMA HeaderAccepted ==
    ASSUME NEW c, Reads(c), pc = "assemble", status = "BEGIN"
    PROVE  HeaderWellFormed
<1>1. buffer_position = 1 /\ SetsActuators(request)
  BY DEF Reads, HeaderRead, Follows
<1>2. /\ WordIs(request, 2, "COMMAND_FLAG")
      /\ WordIs(request, 7, "SET_ACTUATOR")
      /\ request \in Seq(Bytes)
      /\ Len(request) \in Nat
      /\ Len(request) >= 11
  BY <1>1, ReadsBuffer DEF SetsActuators
<1>3. WordAt(request, 2) = "COMMAND_FLAG"
  BY <1>2, WordIsRead DEF Words
<1>4. Word(2) = "COMMAND_FLAG"
  BY <1>1, <1>3 DEF Word
<1>5. request[2] = UINT32 /\ request[7] = UINT32
  BY <1>2 DEF WordIs, ByteIs
<1>6. Byte(1) = request[2] /\ Byte(6) = request[7]
  BY <1>1, <1>2 DEF Byte, ByteAt
<1> QED
  BY <1>4, <1>5, <1>6 DEF HeaderWellFormed

\* Behind the key of a device is its map.
LEMMA DeviceAccepted ==
    ASSUME NEW c, Reads(c), ToldToExecute(request, c), status = "SETTING_ARGS",
           pc = "assemble"
    PROVE  IsMap(Byte(1))
<1> PICK i : i = element4BCP_number
  OBVIOUS
<1> PICK p : p = Start(i)
  OBVIOUS
<1>1. ~BufferSpent
  BY DEF Reads, SettingsFollow, GoesOn
<1>2. i \in 0..(Len(c) - 1) /\ buffer_position = p + 5
  BY <1>1, ReadsDevice DEF DeviceBytes
<1>3. /\ p \in Nat
      /\ p + 22 <= Start(Len(c))
      /\ p + 6 <= Len(request) => request[p + 6] = <<"map", 2>>
  BY <1>2, ReadsSetting
<1>4. Start(Len(c)) \in Nat /\ Start(Len(c)) + 6 <= Len(request) /\ Len(request) \in Nat
  BY ReadsOn, ReadsBuffer
<1>5. p + 6 <= Len(request) /\ buffer_position + 1 = p + 6
  <2>1. buffer_position + 1 = p + 6
    BY <1>2, <1>3
  <2>2. p + 6 <= Len(request)
    BY <1>3, <1>4
  <2> QED
    BY <2>1, <2>2
<1>6. Byte(1) = <<"map", 2>>
  BY <1>3, <1>5 DEF Byte, ByteAt
<1> QED
  BY <1>6 DEF IsMap

\* Behind the key of an argument is its value, and both pools have one left.
LEMMA ArgumentAccepted ==
    ASSUME NEW c, Reads(c), ToldToExecute(request, c), pc = "nested", map_size > 0
    PROVE  ArgumentKeyFound /\ ~ArgumentUndefined
<1> PICK i : i = element4BCP_number
  OBVIOUS
<1> PICK k : k = nested_element4BCP
  OBVIOUS
<1> PICK p : p = Start(i)
  OBVIOUS
<1>1. ~BufferSpent /\ status = "SETTING_ARGS"
  BY DEF Reads, SettingsFollow, GoesOn, Inv, StatusAtPoint
<1>2. /\ i \in 0..(Len(c) - 1)
      /\ k \in 0..1
      /\ buffer_position = p + DeviceBytes
      /\ total_element4BCP = 3 * i + 1 + k
      /\ total_elementValue4BCP = 2 * i + k
      /\ Device = 3 * i + 1
  BY <1>1, ReadsDevice, ReadsBuffer
<1>3. /\ p \in Nat
      /\ p + 22 <= Start(Len(c))
      /\ p + 7 <= Len(request) => request[p + 7] = UINT32
      /\ p + 13 <= Len(request) => request[p + 13] = UINT32
  BY <1>2, ReadsSetting
<1>4. Start(Len(c)) \in Nat /\ Start(Len(c)) + 6 <= Len(request) /\ Len(request) \in Nat
  BY ReadsOn, ReadsBuffer
<1>5. Byte(1) = UINT32
  <2>1. buffer_position \in {p + 6, p + 12}
    BY <1>2 DEF DeviceBytes
  <2>2. CASE buffer_position = p + 6
    <3>1. buffer_position + 1 = p + 7 /\ p + 7 <= Len(request)
      BY <1>3, <1>4, <2>2
    <3> QED
      BY <1>3, <3>1 DEF Byte, ByteAt
  <2>3. CASE buffer_position = p + 12
    <3>1. buffer_position + 1 = p + 13 /\ p + 13 <= Len(request)
      BY <1>3, <1>4, <2>3
    <3> QED
      BY <1>3, <3>1 DEF Byte, ByteAt
  <2> QED
    BY <2>1, <2>2, <2>3
<1>6. total_element4BCP < MaxElements /\ total_elementValue4BCP < NumValues
  BY <1>2, ReadsList
<1>7. NextValue # Junk /\ Device # Junk
  BY <1>2, <1>6, ReadsList DEF NextValue, Junk
<1> QED
  BY <1>5, <1>6, <1>7 DEF ArgumentKeyFound, ArgumentUndefined

\* Behind a device is the next, or the EXECUTE_FLAG with its TRUE; the pool and the
\* array have room for it.
LEMMA KeyAccepted ==
    ASSUME NEW c, Reads(c), ToldToExecute(request, c), AtNextKey
    PROVE  /\ ~NoElementLeft
           /\ element4BCP_number + 1 < MaxDevices
           /\ ExecuteFlagRead => Byte(AfterKey) = TRUE_
<1> PICK j : j = element4BCP_number + 1
  OBVIOUS
<1> PICK p : p = buffer_position
  OBVIOUS
<1>1. ~BufferSpent /\ TypeOK
  BY ReadsBuffer DEF Reads, SettingsFollow, GoesOn, Inv, StatusAtPoint, AtNextKey
<1>2. /\ j \in 1..Len(c)
      /\ p = Start(j)
      /\ total_element4BCP = 3 * j
  BY <1>1, ReadsKey
<1>3. ~NoElementLeft /\ j < MaxDevices
  BY <1>2, ReadsList DEF NoElementLeft
<1>4. Start(Len(c)) \in Nat /\ Start(Len(c)) + 6 <= Len(request) /\ Len(request) \in Nat
  BY ReadsOn, ReadsBuffer
<1>5. j \in 0..Len(c) /\ p \in Nat /\ p <= Start(Len(c))
  BY <1>2, ReadsList, StartInOrder
<1>6. p + 5 <= Len(request) /\ p < Len(request)
  BY <1>4, <1>5
<1> PICK w \in Words : /\ WordIs(request, p + 1, w)
                       /\ w = "EXECUTE_FLAG" <=> j = Len(c)
  BY <1>2, <1>5, WordBehind
<1>7. KeyFound /\ KeyLength = 5 /\ Word(2) = w
  BY <1>1, <1>5, <1>6, KeyIsRead
<1>8. ASSUME ExecuteFlagRead
      PROVE  Byte(AfterKey) = TRUE_
  <2>1. j = Len(c)
    BY <1>7, <1>8 DEF ExecuteFlagRead
  <2>2. AfterKey = 6 /\ p = Start(Len(c))
    BY <1>2, <1>7, <2>1 DEF AfterKey
  <2>3. request[p + 6] = TRUE_ /\ p + 6 <= Len(request)
    BY <1>4, <2>2, ReadsOn
  <2> QED
    BY <2>2, <2>3 DEF Byte, ByteAt
<1> QED
  BY <1>3, <1>8

\* processStream() finds the map first, and the command ready after it.
LEMMA StreamAccepted ==
    ASSUME NEW c, Reads(c), ToldToExecute(request, c), pc = "stream",
           status # "FINISHED"
    PROVE  /\ ~IsArray(Byte(1))
           /\ status # "ARGS_READY" => IsMap(Byte(1))
           /\ status = "ARGS_READY" => ProcessMapAccepts
<1>1. status \in {"BEGIN", "ARGS_READY"}
  BY DEF Reads, Inv, StatusAtPoint
<1>2. CASE status = "BEGIN"
  <2>1. buffer_position = 0 /\ IsMap(request[1])
    BY <1>2 DEF Reads, HeaderRead, Follows, SetsActuators
  <2>2. Byte(1) = request[1]
    BY <2>1, ReadsBuffer DEF Byte, ByteAt
  <2> QED
    BY <1>2, <2>1, <2>2 DEF IsMap, IsArray
<1>3. CASE status = "ARGS_READY"
  <2>1. element4BCP_number = Len(c) /\ buffer_position = Start(Len(c)) + 6
    BY <1>3 DEF Reads, SettingsFollow, CommandFollows
  <2>2. map4BCP_size = Len(c)
    BY <1>3, <2>1 DEF Reads, Inv, DevicesCounted, Sound, DeviceOpen
  <2>3. ProcessMapAccepts
    BY <1>3, <2>2, ReadsList DEF ProcessMapAccepts
  <2> PICK q : q = Start(Len(c)) + 7
    OBVIOUS
  <2>4. q <= Len(request) => ~IsArray(request[q])
    BY DEF Reads, Follows
  <2>5. buffer_position + 1 = q
    BY <2>1, ReadsList DEF Start
  <2>6. ~IsArray(Byte(1))
    BY <2>4, <2>5 DEF Byte, ByteAt, IsArray, NUL
  <2> QED
    BY <1>3, <2>3, <2>6
<1> QED
  BY <1>1, <1>2, <1>3

-----------------------------------------------------------------------------
(* The settings that are made *)

\* What a request stands for is a list of settings; unless it is empty, the
\* request follows it and goes on to its EXECUTE_FLAG.
LEMMA StandsForList ==
    ASSUME ReadInv, \A c \in Commands : FitsPools(c),
           NEW c \in Commands, StandsFor(request, c)
    PROVE  /\ c \in Seq(DeviceSettings)
           /\ c # <<>> => Reads(c) /\ ToldToExecute(request, c)
<1>1. c \in Seq(DeviceSettings)
  BY DEF FitsPools
<1>2. c # <<>> => Follows(request, c) /\ ToldToExecute(request, c)
  BY DEF StandsFor
<1>3. c # <<>> => Reads(c)
  BY <1>2 DEF Reads, ReadInv, SettingsRead
<1> QED
  BY <1>1, <1>2, <1>3

\* A SET_ACTUATOR that is run stands for some setting.
LEMMA RunsForSettings ==
    ASSUME ReadInv, \A c \in Commands : FitsPools(c),
           NEW c \in Commands, StandsFor(request, c),
           status = "EXECUTING", command_executing = "SET_ACTUATOR"
    PROVE  c # <<>>
<1>1. SetsActuators(request)
  BY DEF ReadInv, SettingsRead, HeaderRead
<1> SUFFICES ASSUME c = <<>>
             PROVE  FALSE
  OBVIOUS
<1>2. PICK d \in Commands : /\ d # <<>>
                            /\ Follows(request, d)
                            /\ <<>> = IF ToldToExecute(request, d) THEN d ELSE <<>>
  BY <1>1 DEF StandsFor
<1>3. CommandFollows(d)
  BY <1>2 DEF ReadInv, SettingsRead, SettingsFollow
<1> QED
  BY <1>2, <1>3 DEF CommandFollows

\* What set_actuator() reads of a device is what it was told.
LEMMA ToldIsRead ==
    ASSUME NEW i \in Nat, NEW s \in DeviceSettings, DeviceTold(i, s, 2),
           NEW e, e = 3 * i + 1
    PROVE  /\ KeysOf(e) = {s.device}
           /\ StatesOf(e) = {s.state}
           /\ DurationsOf(e) = {s.duration}
<1>1. /\ s.device \in Words /\ s.device # "junk"
      /\ s.state \in {"on", "off"}
      /\ s.duration \in Words /\ s.duration # "junk"
  BY NoJunkWord DEF DeviceSettings
<1>2. e # Junk /\ e + 1 # Junk /\ e + 2 # Junk
      /\ 2 * i + 1 # Junk /\ 2 * i + 2 # Junk
  BY DEF Junk
<1>3. KeysOf(e) = {s.device}
  BY <1>1, <1>2 DEF DeviceTold, KeysOf
<1>4. StatesOf(e) = {s.state}
  <2>1. ArgumentValue(e, STATE_ARG) = 2 * i + 1
    BY <1>2 DEF DeviceTold, ArgumentValue
  <2>2. bool_value[2 * i + 1] = s.state
    BY DEF DeviceTold
  <2> QED
    BY <1>1, <1>2, <2>1, <2>2 DEF StatesOf
<1>5. DurationsOf(e) = {s.duration}
  <2>1. ArgumentValue(e, DURATION_ARG) = 2 * i + 2
    BY <1>2 DEF DeviceTold, ArgumentValue
  <2>2. uint32_value[2 * i + 2] = s.duration
    BY DEF DeviceTold
  <2> QED
    BY <1>1, <1>2, <2>1, <2>2 DEF DurationsOf
<1> QED
  BY <1>3, <1>4, <1>5

\* set_actuator() runs through the list, and the device under it is the next.
LEMMA RunsTheList ==
    ASSUME NEW c, Reads(c), pc = "execute"
    PROVE  /\ map4BCP_size = Len(c)
           /\ total_devices_executed \in Nat
           /\ total_devices_executed < Len(c) =>
                  LET s == c[total_devices_executed + 1]
                  IN  /\ KeysOf(NextDevice) = {s.device}
                      /\ StatesOf(NextDevice) = {s.state}
                      /\ DurationsOf(NextDevice) = {s.duration}
<1>1. status = "EXECUTING"
  BY DEF Reads, Inv, StatusAtPoint
<1>2. element4BCP_number = Len(c) /\ DevicesTold(Len(c), c)
  BY <1>1 DEF Reads, SettingsFollow, CommandFollows
<1>3. map4BCP_size = Len(c)
  BY <1>2 DEF Reads, Inv, DevicesCounted, Sound, DeviceOpen
<1>4. total_devices_executed \in Nat
  BY PoolAssumption DEF Reads, Inv, TypeOK, CommandTypeOK
<1>5. ASSUME total_devices_executed < Len(c)
      PROVE  LET s == c[total_devices_executed + 1]
             IN  /\ KeysOf(NextDevice) = {s.device}
                 /\ StatesOf(NextDevice) = {s.state}
                 /\ DurationsOf(NextDevice) = {s.duration}
  <2> PICK i : i = total_devices_executed
    OBVIOUS
  <2> PICK s : s = c[i + 1]
    OBVIOUS
  <2> PICK e : e = 3 * i + 1
    OBVIOUS
  <2>1. i \in Nat /\ i \in 0..(Len(c) - 1)
    BY <1>4, <1>5, ReadsList
  <2>2. DeviceTold(i, s, 2) /\ s \in DeviceSettings
    BY <1>2, <2>1, ReadsList DEF DevicesTold
  <2>3. NextDevice = e
    <3>1. devices_element_list[i] = map4BCP_elements[i]
      BY <1>1, <1>2, <2>1 DEF Reads, Inv, DevicesListed, Sound
    <3> QED
      BY <2>2, <3>1 DEF NextDevice, DeviceTold
  <2> QED
    BY <2>1, <2>2, <2>3, ToldIsRead
<1> QED
  BY <1>3, <1>4, <1>5

\* The rest of a list.
LEMMA RestOfList ==
    ASSUME NEW S, NEW c \in Seq(S), NEW i \in Nat
    PROVE  /\ i >= Len(c) => SubSeq(c, i + 1, Len(c)) = <<>>
           /\ i < Len(c) =>
                  /\ SubSeq(c, i + 1, Len(c)) # <<>>
                  /\ Head(SubSeq(c, i + 1, Len(c))) = c[i + 1]
                  /\ Tail(SubSeq(c, i + 1, Len(c))) = SubSeq(c, i + 2, Len(c))
           /\ SubSeq(c, 1, Len(c)) = c
<1> PICK n : n = Len(c)
  OBVIOUS
<1> DEFINE t == SubSeq(c, i + 1, n)
<1>1. n \in Nat
  OBVIOUS
<1>2. ASSUME i >= n
      PROVE  t = <<>>
  BY <1>1, <1>2
<1>3. ASSUME i < n
      PROVE  /\ t # <<>>
             /\ Head(t) = c[i + 1]
             /\ Tail(t) = SubSeq(c, i + 2, n)
  <2>1. Len(t) = n - i /\ t \in Seq(S)
    BY <1>1, <1>3
  <2>2. \A k \in 1..(n - i) : t[k] = c[i + k]
    BY <1>1, <1>3
  <2>3. t # <<>> /\ Head(t) = c[i + 1]
    BY <1>1, <1>3, <2>1, <2>2
  <2>4. Tail(t) = SubSeq(c, i + 2, n)
    BY <1>1, <1>3, <2>1, <2>2, <2>3
  <2> QED
    BY <2>3, <2>4
<1>4. SubSeq(c, 1, n) = c
  BY <1>1
<1> QED
  BY <1>2, <1>3, <1>4

-----------------------------------------------------------------------------
(* The appliance implements the service *)

\* What is still to do is what the request, going on to its EXECUTE_FLAG, says.
LEMMA RequestMeans ==
    ASSUME ReadInv, Understood, Running, NEW c, c = Meaning(request)
    PROVE  /\ c \in Commands
           /\ StandsFor(request, c)
           /\ c \in Seq(DeviceSettings)
           /\ c # <<>> => Reads(c) /\ ToldToExecute(request, c)
<1>1. request \in Requests
  BY DEF ReadInv, RequestRead, Running, Parsing
<1>2. c \in Commands /\ StandsFor(request, c)
  BY <1>1, MeaningAssumption DEF Understood
<1> QED
  BY <1>2, StandsForList DEF Understood

\* What is still to do: the whole list until it is run, and no more once it is.
LEMMA TodoIs ==
    ASSUME ReadInv, Understood, Running, NEW c, c = Meaning(request),
           NEW i, i = total_devices_executed
    PROVE  /\ i \in Nat
           /\ Todo = IF pc = "execute" THEN SubSeq(c, i + 1, Len(c)) ELSE c
           /\ c = <<>> => Todo = <<>>
           /\ pc = "execute" /\ i >= Len(c) => Todo = <<>>
           /\ pc = "execute" /\ i < Len(c) =>
                  /\ Todo # <<>>
                  /\ Head(Todo) = c[i + 1]
                  /\ Tail(Todo) = SubSeq(c, i + 2, Len(c))
<1>1. c \in Seq(DeviceSettings)
  BY RequestMeans
<1>2. i \in Nat
  BY PoolAssumption DEF ReadInv, Inv, TypeOK, CommandTypeOK
<1>3. Todo = IF pc = "execute" THEN SubSeq(c, i + 1, Len(c)) ELSE c
  BY DEF Todo
<1>4. c = <<>> => Len(c) = 0
  BY <1>1
<1>5. c = <<>> => Todo = <<>>
  <2> SUFFICES ASSUME c = <<>>
               PROVE  Todo = <<>>
    OBVIOUS
  <2>1. SubSeq(c, i + 1, Len(c)) = <<>>
    BY <1>1, <1>2, <1>4, RestOfList
  <2> QED
    BY <1>3, <2>1
<1> QED
  BY <1>1, <1>2, <1>3, <1>5, RestOfList

\* A step that moves no actuator and is not a request being read starts no run.
LEMMA RunStarts ==
    ASSUME ReadInv, Next, ~Running, Running'
    PROVE  \E r \in Requests : Receive(r)
<1> USE DEF Running
<1>1. RunOnce
  BY DEF ReadInv, SettingsRead
<1>2. CASE StreamNext
  BY <1>1, <1>2 DEF RunOnce, StreamNext, StreamArray, StreamMap, StreamMalformed,
     StreamDone, ProcessMap, ProcessMapRefused, AtProcessMap, Dispatch, Executed,
     RefuseAfter, commandVars
<1>3. CASE AssembleNext
  BY <1>3 DEF AssembleNext, AssembleReady, AssembleSpins, AssembleHeader,
     AssembleHeaderRefused, AssembleFirst, AssembleFirstUndefined,
     AssembleArguments, AssembleArgumentsRefused, AssembleArgument,
     AssembleArgumentUndefined, AssembleArgumentRefused, AssembleExecuteFlag,
     AssembleExecuteFlagRefused, AssembleNextDevice,
     AssembleNextDeviceUndefined, AtNextKey, Undefined, RefuseAfter, commandVars
<1>4. CASE CommandsNext
  BY <1>4 DEF CommandsNext, GetData, UnknownCommand, SetActuator,
     SetActuatorRefused, SetActuatorDone, Return
<1>5. CASE LoopNext
  BY <1>5 DEF LoopNext, Connect, ReceiveTooLong, NoMoreData, Close, Wild, vars,
     commandVars
<1> QED
  BY <1>2, <1>3, <1>4, <1>5 DEF Next

\* While a request runs, nothing but set_actuator() changes what is to do.
LEMMA RunGoesOn ==
    ASSUME ReadInv, Understood, Next, Running, Running', ~SetActuator
    PROVE  Todo' = Todo
<1> PICK c : c = Meaning(request)
  OBVIOUS
<1>1. request' = request
  BY DEF Running, Next, LoopNext, Connect, Receive, ReceiveTooLong, NoMoreData,
     Close, Wild, vars, StreamNext, StreamArray, StreamMap, StreamMalformed,
     StreamDone, ProcessMap, ProcessMapRefused, Dispatch, Executed, AssembleNext,
     AssembleReady, AssembleSpins, AssembleHeader, AssembleHeaderRefused,
     AssembleFirst, AssembleFirstUndefined, AssembleArguments,
     AssembleArgumentsRefused, AssembleArgument, AssembleArgumentUndefined,
     AssembleArgumentRefused, AssembleExecuteFlag, AssembleExecuteFlagRefused,
     AssembleNextDevice, AssembleNextDeviceUndefined, Undefined, RefuseAfter,
     parseVars, bufferVars
<1>2. pc # "execute"
  BY DEF Running, Next, LoopNext, Connect, Receive, ReceiveTooLong, NoMoreData,
     Close, Wild, StreamNext, StreamArray, StreamMap, StreamMalformed, StreamDone,
     ProcessMap, ProcessMapRefused, AtProcessMap, Dispatch, Executed, AssembleNext,
     AssembleReady, AssembleSpins, AssembleHeader, AssembleHeaderRefused,
     AssembleFirst, AssembleFirstUndefined, AssembleArguments,
     AssembleArgumentsRefused, AssembleArgument, AssembleArgumentUndefined,
     AssembleArgumentRefused, AssembleExecuteFlag, AssembleExecuteFlagRefused,
     AssembleNextDevice, AssembleNextDeviceUndefined, AtNextKey, CommandsNext,
     GetData, UnknownCommand, SetActuatorRefused, SetActuatorDone, Return
<1>3. Todo = c
  BY <1>2, TodoIs
<1>4. pc' # "execute" => Todo' = c
  BY <1>1 DEF Todo
<1>5. ASSUME pc' = "execute"
      PROVE  Todo' = c
  <2>1. Dispatch
    BY <1>2, <1>5 DEF Running, Next, LoopNext, Connect, Receive, ReceiveTooLong,
       NoMoreData, Close, Wild, InitStream, vars, StreamNext, StreamArray, StreamMap,
       StreamMalformed, StreamDone, ProcessMap, ProcessMapRefused, AtProcessMap,
       Executed, AssembleNext, AssembleReady, AssembleSpins, AssembleHeader,
       AssembleHeaderRefused, AssembleFirst, AssembleFirstUndefined,
       AssembleArguments, AssembleArgumentsRefused, AssembleArgument,
       AssembleArgumentUndefined, AssembleArgumentRefused, AssembleExecuteFlag,
       AssembleExecuteFlagRefused, AssembleNextDevice,
       AssembleNextDeviceUndefined, AtNextKey, Undefined, RefuseAfter, Refuse,
       CommandsNext, GetData, UnknownCommand, SetActuatorRefused, SetActuatorDone
  <2>2. total_devices_executed' = 0
    BY <2>1 DEF Dispatch, ReadInv, SettingsRead, RunOnce
  <2>3. Todo' = SubSeq(c, 0 + 1, Len(c))
    BY <1>1, <1>5, <2>2 DEF Todo
  <2> QED
    BY <2>3, RequestMeans, RestOfList
<1> QED
  BY <1>3, <1>4, <1>5

\* set_actuator() makes the next setting of the list.
LEMMA SettingIsMade ==
    ASSUME ReadInv, Understood, SetActuator, status' = status, request' = request
    PROVE  Service!Make
<1> PICK c : c = Meaning(request)
  OBVIOUS
<1> PICK i : i = total_devices_executed
  OBVIOUS
<1> PICK s : s = c[i + 1]
  OBVIOUS
<1>1. /\ pc = "execute" /\ pc' = "execute"
      /\ command_executing = "SET_ACTUATOR"
      /\ i < map4BCP_size
      /\ UNCHANGED result
      /\ total_devices_executed' = i + 1
  BY DEF SetActuator
<1>2. status = "EXECUTING" /\ result = "none"
  BY <1>1 DEF ReadInv, Inv, StatusAtPoint, NotYetRun
<1>3. Running /\ Running'
  BY <1>1, <1>2 DEF Running
<1>4. c \in Commands /\ StandsFor(request, c) /\ c # <<>>
  BY <1>1, <1>2, <1>3, RequestMeans, RunsForSettings DEF Understood
<1>5. Reads(c)
  BY <1>3, <1>4, RequestMeans
<1>6. /\ i \in Nat /\ i < Len(c)
      /\ KeysOf(NextDevice) = {s.device}
      /\ StatesOf(NextDevice) = {s.state}
      /\ DurationsOf(NextDevice) = {s.duration}
  BY <1>1, <1>5, RunsTheList
<1>7. /\ Todo # <<>>
      /\ Head(Todo) = s
      /\ Tail(Todo) = SubSeq(c, i + 2, Len(c))
  BY <1>1, <1>3, <1>6, TodoIs
<1>8. Todo' = SubSeq(c, i + 2, Len(c))
  <2>1. Todo' = SubSeq(c, i + 1 + 1, Len(c))
    BY <1>1, <1>3 DEF Todo
  <2>2. i + 1 + 1 = i + 2
    BY <1>6
  <2> QED
    BY <2>1, <2>2
<1>9. s.duration # "zero"
  BY <1>6 DEF SetActuator
<1>10. pin' = IF s.device \in Actuators THEN [pin EXCEPT ![s.device] = s.state]
              ELSE pin
  BY <1>6 DEF SetActuator
<1> QED
  BY <1>3, <1>7, <1>8, <1>9, <1>10 DEF Service!Make

\* A zero duration gives the rest of the list up.
LEMMA SettingGivenUp ==
    ASSUME ReadInv, Understood, SetActuatorRefused
    PROVE  Service!GiveUp
<1> PICK c : c = Meaning(request)
  OBVIOUS
<1> PICK i : i = total_devices_executed
  OBVIOUS
<1> PICK s : s = c[i + 1]
  OBVIOUS
<1>1. /\ pc = "execute" /\ pc' = "executed"
      /\ command_executing = "SET_ACTUATOR"
      /\ i < map4BCP_size
      /\ UNCHANGED pin
  BY DEF SetActuatorRefused, Return
<1>2. status = "EXECUTING" /\ result = "none"
  BY <1>1 DEF ReadInv, Inv, StatusAtPoint, NotYetRun
<1>3. Running /\ ~Running'
  BY <1>1, <1>2 DEF Running
<1>4. c \in Commands /\ StandsFor(request, c) /\ c # <<>>
  BY <1>1, <1>2, <1>3, RequestMeans, RunsForSettings DEF Understood
<1>5. Reads(c)
  BY <1>3, <1>4, RequestMeans
<1>6. /\ i \in Nat /\ i < Len(c)
      /\ DurationsOf(NextDevice) = {s.duration}
  BY <1>1, <1>5, RunsTheList
<1>7. Todo # <<>> /\ Head(Todo) = s
  BY <1>1, <1>3, <1>6, TodoIs
<1>8. s.duration = "zero"
  BY <1>6 DEF SetActuatorRefused
<1>9. Todo' = <<>>
  BY <1>3 DEF Todo
<1> QED
  BY <1>1, <1>3, <1>7, <1>8, <1>9 DEF Service!GiveUp

\* A request that stands for some setting is not refused on its way to execute().
LEMMA NotRefused ==
    ASSUME NEW c, Reads(c), ToldToExecute(request, c), RunOnce, Running, Next,
           pc # "execute"
    PROVE  Running'
<1>1. status # "FINISHED" /\ StatusAtPoint
  BY DEF Running, RunOnce, Reads, Inv
<1>2. CASE StreamNext
  <2>1. CASE StreamMap \/ ProcessMap \/ Dispatch
    BY <2>1 DEF Running, StreamMap, ProcessMap, Dispatch, commandVars
  <2>2. CASE pc = "stream"
    <3>1. /\ ~IsArray(Byte(1))
          /\ status # "ARGS_READY" => IsMap(Byte(1))
          /\ status = "ARGS_READY" => ProcessMapAccepts
      BY <1>1, <2>2, StreamAccepted
    <3> QED
      BY <1>1, <1>2, <2>1, <2>2, <3>1 DEF StreamNext, StreamArray, StreamMalformed,
         StreamDone, StreamHasMore, ProcessMapRefused, AtProcessMap, Executed
  <2> QED
    BY <1>2, <2>1, <2>2 DEF StreamNext, StreamArray, StreamMalformed, StreamDone,
       ProcessMapRefused, AtProcessMap, Executed, Running
<1>3. CASE AssembleNext
  <2>1. CASE AssembleReady \/ AssembleSpins \/ AssembleHeader \/ AssembleFirst
             \/ AssembleArguments \/ AssembleArgument \/ AssembleExecuteFlag
             \/ AssembleNextDevice
    BY <2>1 DEF Running, AssembleReady, AssembleSpins, AssembleHeader, AssembleFirst,
       AssembleArguments, AssembleArgument, AssembleExecuteFlag,
       AssembleNextDevice, AtNextKey, commandVars
  <2>2. ~AssembleHeaderRefused
    BY HeaderAccepted DEF AssembleHeaderRefused
  <2>3. ~AssembleFirstUndefined
    <3> SUFFICES ASSUME AssembleFirstUndefined
                 PROVE  FALSE
      OBVIOUS
    <3>1. total_element4BCP = 0 /\ element4BCP_number = 0
      BY DEF AssembleFirstUndefined, Reads, FreshPools
    <3> QED
      BY <3>1, ReadsList DEF AssembleFirstUndefined, NoElementLeft
  <2>4. ~AssembleArgumentsRefused
    BY DeviceAccepted DEF AssembleArgumentsRefused
  <2>5. ~AssembleArgumentUndefined /\ ~AssembleArgumentRefused
    BY ArgumentAccepted DEF AssembleArgumentUndefined, AssembleArgumentRefused
  <2>6. ~AssembleExecuteFlagRefused
    BY KeyAccepted DEF AssembleExecuteFlagRefused
  <2>7. ~AssembleNextDeviceUndefined
    <3> SUFFICES ASSUME AssembleNextDeviceUndefined
                 PROVE  FALSE
      OBVIOUS
    <3>1. ~NoElementLeft /\ element4BCP_number + 1 < MaxDevices
      BY KeyAccepted DEF AssembleNextDeviceUndefined
    <3>2. element4BCP_number + 1 >= MaxDevices
      BY <3>1 DEF AssembleNextDeviceUndefined
    <3>3. element4BCP_number \in Nat /\ MaxDevices \in Nat
      BY ReadsList, ReadsBuffer
    <3> QED
      BY <3>1, <3>2, <3>3
  <2> QED
    BY <1>3, <2>1, <2>2, <2>3, <2>4, <2>5, <2>6, <2>7 DEF AssembleNext
<1>4. ~CommandsNext
  BY DEF CommandsNext, GetData, UnknownCommand, SetActuator, SetActuatorRefused,
     SetActuatorDone
<1>5. ~LoopNext
  BY DEF Running, LoopNext, Connect, Receive, ReceiveTooLong, NoMoreData, Close, Wild
<1> QED
  BY <1>2, <1>3, <1>4, <1>5 DEF Next

\* When a run ends otherwise than at a zero duration, nothing is left to do.
LEMMA RunEnds ==
    ASSUME ReadInv, Understood, Next, Running, ~Running', ~SetActuatorRefused
    PROVE  Todo = <<>>
<1> PICK c : c = Meaning(request)
  OBVIOUS
<1> SUFFICES ASSUME c # <<>>
             PROVE  Todo = <<>>
  BY TodoIs
<1>1. Reads(c) /\ ToldToExecute(request, c) /\ RunOnce
  BY RequestMeans DEF ReadInv, SettingsRead
<1>2. pc = "execute"
  BY <1>1, NotRefused
<1>3. command_executing = "SET_ACTUATOR"
  BY <1>1, <1>2, ReadsArguments DEF Reads, Inv, StatusAtPoint
<1>4. SetActuatorDone
  <2>1. CommandsNext
    BY <1>2 DEF Next, LoopNext, Connect, Receive, ReceiveTooLong, NoMoreData, Close,
       Wild, StreamNext, StreamArray, StreamMap, StreamMalformed, StreamDone,
       ProcessMap, ProcessMapRefused, AtProcessMap, Dispatch, Executed,
       AssembleNext, AssembleReady, AssembleSpins, AssembleHeader,
       AssembleHeaderRefused, AssembleFirst, AssembleFirstUndefined,
       AssembleArguments, AssembleArgumentsRefused, AssembleArgument,
       AssembleArgumentUndefined, AssembleArgumentRefused, AssembleExecuteFlag,
       AssembleExecuteFlagRefused, AssembleNextDevice,
       AssembleNextDeviceUndefined, AtNextKey
  <2>2. ~SetActuator
    BY <1>2 DEF Running, SetActuator
  <2> QED
    BY <1>3, <2>1, <2>2 DEF CommandsNext, GetData, UnknownCommand
<1>5. total_devices_executed >= Len(c)
  BY <1>1, <1>2, <1>4, RunsTheList DEF SetActuatorDone
<1> QED
  BY <1>2, <1>5, TodoIs

\* A step of the appliance is one of the service, or none.
LEMMA ServiceStep ==
    ASSUME ReadInv, Understood, Next
    PROVE  Service!Next \/ UNCHANGED Service!vars
<1>1. pin' # pin => SetActuator /\ Running /\ Running'
  <2>1. ASSUME pin' # pin
        PROVE  SetActuator /\ status = "EXECUTING"
    BY <2>1, PinsMove DEF ReadInv
  <2>2. ASSUME SetActuator, status = "EXECUTING"
        PROVE  Running /\ Running'
    BY <2>2 DEF Running, SetActuator, ReadInv, Inv, NotYetRun
  <2> QED
    BY <2>1, <2>2
<1>2. CASE ~Running /\ ~Running'
  <2>1. Todo = <<>> /\ Todo' = <<>>
    BY <1>2 DEF Todo
  <2> QED
    BY <1>1, <1>2, <2>1 DEF Service!vars
<1>3. CASE ~Running /\ Running'
  <2>1. PICK r \in Requests : Receive(r)
    BY <1>3, RunStarts
  <2>2. pc' = "stream" /\ request' = r
    BY <2>1 DEF Receive, InitStream
  <2>3. Todo' = Meaning(r)
    BY <1>3, <2>2 DEF Todo
  <2>4. Meaning(r) \in Commands /\ UNCHANGED pin
    BY <1>1, <1>3, MeaningAssumption
  <2> QED
    BY <1>3, <2>3, <2>4 DEF Service!Next, Service!Take
<1>4. CASE Running /\ Running' /\ SetActuator
  <2>1. status' = status /\ request' = request
    BY <1>4 DEF Next, SetActuator, LoopNext, Connect, Receive, ReceiveTooLong,
       NoMoreData, Close, Wild, StreamNext, StreamArray, StreamMap,
       StreamMalformed, StreamDone, ProcessMap, ProcessMapRefused, AtProcessMap,
       Dispatch, Executed, AssembleNext, AssembleReady, AssembleSpins,
       AssembleHeader, AssembleHeaderRefused, AssembleFirst,
       AssembleFirstUndefined, AssembleArguments, AssembleArgumentsRefused,
       AssembleArgument, AssembleArgumentUndefined, AssembleArgumentRefused,
       AssembleExecuteFlag, AssembleExecuteFlagRefused, AssembleNextDevice,
       AssembleNextDeviceUndefined, AtNextKey, parseVars, bufferVars
  <2> QED
    BY <1>4, <2>1, SettingIsMade DEF Service!Next, Service!Run
<1>5. CASE Running /\ Running' /\ ~SetActuator
  <2>1. Todo' = Todo /\ UNCHANGED pin
    BY <1>1, <1>5, RunGoesOn
  <2> QED
    BY <1>5, <2>1 DEF Service!vars
<1>6. CASE Running /\ ~Running' /\ SetActuatorRefused
  BY <1>6, SettingGivenUp DEF Service!Next, Service!Run
<1>7. CASE Running /\ ~Running' /\ ~SetActuatorRefused
  <2>1. Todo = <<>> /\ UNCHANGED pin
    BY <1>1, <1>7, RunEnds
  <2>2. Todo' = <<>>
    BY <1>7 DEF Todo
  <2> QED
    BY <1>7, <2>1, <2>2 DEF Service!Next, Service!Run, Service!Finish
<1> QED
  BY <1>2, <1>3, <1>4, <1>5, <1>6, <1>7

\* With one request on a connection, the appliance makes the settings its
\* requests stand for, in their order, up to the first that lacks its duration,
\* and moves no actuator otherwise: whatever the words, the lists, the pools that
\* have room for them, and wherever a request breaks off.
THEOREM ServiceCorrect ==
    ASSUME MaxServed <= 1, Understood
    PROVE  Spec => ImplementsServiceSafely
<1>1. Init => Service!Init
  BY DEF Init, CommandInit, Service!Init, Todo, Running
<1>2. ReadInv /\ [Next]_vars => [Service!Next]_(Service!vars)
  <2>1. ReadInv /\ Next => Service!Next \/ UNCHANGED Service!vars
    BY ServiceStep
  <2>2. UNCHANGED vars => UNCHANGED Service!vars
    BY DEF vars, parseVars, bufferVars, commandVars, Service!vars, Todo, Running
  <2> QED
    BY <2>1, <2>2
<1>3. Spec => []ReadInv
  BY ReadInvCorrect DEF Understood
<1> QED
  BY <1>1, <1>2, <1>3, PTL DEF Spec, ImplementsServiceSafely, Service!Spec
=============================================================================
