--------------------------- MODULE MsgPackHandler ---------------------------
(***************************************************************************)
(* MsgPackHandler: one pass over the bytes of a request.                   *)
(*                                                                         *)
(* The thread is at "stream" in the loop of processStream(), at "assemble" *)
(* in the loop of assembleMap(), at "nested" in its inner loop over the    *)
(* arguments of a device, at "dispatch" in processMap(), at "execute" and  *)
(* "executed" in and after CommandsHandler::execute().  It leaves to       *)
(* "close" when processStream() returns false and to "poll" when it        *)
(* returns true (the two branches of loop() in main.cpp).                  *)
(***************************************************************************)
EXTENDS CommandsHandler, ProcessFlow

VARIABLES
    status,
    no_args,
    request,                \* the buffer_lenght bytes of client_request_buffer
    buffer_position,
    element4BCP_number,
    nested_element4BCP,
    total_element4BCP,
    total_elementValue4BCP,
    map_size,               \* arguments of the current device still to read
    armed                   \* history: the request's TRUE has been accepted

bufferVars  == <<request, buffer_position>>
counterVars == <<element4BCP_number, nested_element4BCP, total_element4BCP,
                 total_elementValue4BCP, map_size>>
parseVars   == <<no_args, bufferVars, counterVars, armed, command_executing>>

HandlerTypeOK ==
    /\ status \in Statuses
    /\ no_args \in BOOLEAN
    /\ request \in Seq(Bytes)
    /\ buffer_position \in 0..Len(request)
    /\ element4BCP_number \in 0..MaxDevices
    /\ nested_element4BCP \in 0..MaxElements
    /\ total_element4BCP \in 0..MaxElements
    /\ total_elementValue4BCP \in 0..NumValues
    /\ map_size \in 0..15
    /\ armed \in BOOLEAN

HandlerInit ==
    /\ status = "IDLE"
    /\ no_args = FALSE
    /\ request = <<>>
    /\ buffer_position = 0
    /\ element4BCP_number = 0
    /\ nested_element4BCP = 0
    /\ total_element4BCP = 0
    /\ total_elementValue4BCP = 0
    /\ map_size = 0
    /\ armed = FALSE

-----------------------------------------------------------------------------
(* The buffer. *)

Byte(k)         == ByteAt(request, buffer_position, k)
Word(k)         == WordAt(request, buffer_position + k - 1)
Consume(n)      == buffer_position' = Skip(request, buffer_position, n)
BytesRemaining  == Len(request) - buffer_position

\* init(): the request is read whole and the parser starts over.  Only the
\* buffer and the status do: the counters keep what the connection's earlier
\* requests left in them.
InitStream(r) ==
    /\ status' = "BEGIN"
    /\ request' = r
    /\ buffer_position' = 0
    /\ armed' = FALSE
    /\ result' = "none"
    /\ pc' = "stream"

\* processStream() answers an error, sets IDLE and returns false.
Refuse ==
    /\ status' = "IDLE"
    /\ pc' = "close"

\* A step that only looks at the buffer before it refuses.
RefuseAfter(n) ==
    /\ Refuse
    /\ Consume(n)
    /\ UNCHANGED <<no_args, request, counterVars, armed, command_executing,
                   containerVars, commandVars>>

\* The outcome of a write through a junk pointer or past an array.
Undefined ==
    /\ pc' = "undefined"
    /\ UNCHANGED <<status, parseVars, containerVars, commandVars>>

-----------------------------------------------------------------------------
(* processStream() *)

StreamHasMore == BytesRemaining > 0 \/ status # "FINISHED"

\* A fixarray header is "unimplemented".
StreamArray ==
    /\ pc = "stream"
    /\ StreamHasMore
    /\ IsArray(Byte(1))
    /\ RefuseAfter(1)

StreamMap ==
    /\ pc = "stream"
    /\ StreamHasMore
    /\ IsMap(Byte(1))
    /\ Consume(1)
    /\ pc' = "assemble"
    /\ UNCHANGED <<status, no_args, request, counterVars, armed,
                   command_executing, containerVars, commandVars>>

\* The byte that made the loop turn is consumed, whatever it is.
AtProcessMap ==
    /\ pc = "stream"
    /\ StreamHasMore
    /\ ~IsArray(Byte(1))
    /\ ~IsMap(Byte(1))
    /\ BytesRemaining <= 1 \/ status = "ARGS_READY"

\* Seeded fault: the status is not checked.
ProcessMapAcceptsAnyStatus == map4BCP_size > 0 \/ no_args

ProcessMapAccepts ==
    /\ status \in {"ARGS_READY", "COMMAND_SET", "ASSEMBLY"}
    /\ map4BCP_size > 0 \/ no_args

\* processMap() up to initCommand().
ProcessMap ==
    /\ AtProcessMap
    /\ ProcessMapAccepts
    /\ Consume(1)
    /\ status' = "ASSEMBLY"
    /\ InitCommand
    /\ pc' = "dispatch"
    /\ UNCHANGED <<no_args, request, counterVars, armed, command_executing,
                   containerVars, devices_element_list, pin, result>>

\* Wrong status ("process flow error") or no device ("zero elements").
ProcessMapRefused ==
    /\ AtProcessMap
    /\ ~ProcessMapAccepts
    /\ RefuseAfter(1)

StreamMalformed ==
    /\ pc = "stream"
    /\ StreamHasMore
    /\ ~IsArray(Byte(1))
    /\ ~IsMap(Byte(1))
    /\ BytesRemaining > 1
    /\ status # "ARGS_READY"
    /\ RefuseAfter(1)

\* FINISHED with the buffer empty: processStream() returns true.
StreamDone ==
    /\ pc = "stream"
    /\ ~StreamHasMore
    /\ status' = "IDLE"
    /\ pc' = "poll"
    /\ UNCHANGED <<parseVars, containerVars, commandVars>>

-----------------------------------------------------------------------------
(* processMap(), from assembleCommand() on *)

Dispatch ==
    /\ pc = "dispatch"
    /\ IF no_args THEN UNCHANGED devices_element_list ELSE AssembleCommand
    /\ status' = "EXECUTING"
    /\ pc' = "execute"
    /\ UNCHANGED <<parseVars, containerVars, total_devices_executed, pin,
                   result>>

\* Whatever execute() returned, the status is FINISHED and the loop goes on.
Executed ==
    /\ pc = "executed"
    /\ status' = "FINISHED"
    /\ pc' = "stream"
    /\ UNCHANGED <<parseVars, containerVars, commandVars>>

-----------------------------------------------------------------------------
(* assembleMap() *)

\* A map header found when the arguments are ready: nothing is assembled.
AssembleReady ==
    /\ pc = "assemble"
    /\ status = "ARGS_READY"
    /\ pc' = "stream"
    /\ UNCHANGED <<status, parseVars, containerVars, commandVars>>

\* In any other status no branch of the loop applies: only its counter moves.
AssembleSpins ==
    /\ pc = "assemble"
    /\ status \notin {"BEGIN", "COMMAND_SET", "SETTING_ARGS", "ARGS_READY"}
    /\ UNCHANGED <<pc, status, parseVars, containerVars, commandVars>>

\* processCommandHeader(): COMMAND_FLAG => a command word.
HeaderWellFormed ==
    /\ Byte(1) = UINT32
    /\ Word(2) = "COMMAND_FLAG"
    /\ Byte(6) = UINT32

AssembleHeader ==
    /\ pc = "assemble"
    /\ status = "BEGIN"
    /\ HeaderWellFormed
    /\ Consume(10)
    /\ command_executing' = Word(7)
    /\ no_args' = (no_args \/ Word(7) = "GET_DATA")
    /\ status' = "COMMAND_SET"
    /\ UNCHANGED <<pc, request, counterVars, armed, containerVars, commandVars>>

AssembleHeaderRefused ==
    /\ pc = "assemble"
    /\ status = "BEGIN"
    /\ ~HeaderWellFormed
    /\ RefuseAfter(IF Byte(1) # UINT32 THEN 1
                   ELSE IF Word(2) # "COMMAND_FLAG" THEN 5 ELSE 6)

\* processStatusNextElement(): a key takes the next element of the pool;
\* without one the result is a null pointer, read as a junk element.
KeyFound   == Byte(1) = UINT32
KeyLength  == IF KeyFound THEN 5 ELSE 1
NextElement == IF KeyFound THEN total_element4BCP + 1 ELSE Junk
\* Seeded fault: the last element of the pool is never used.
NoElementLeftEarly == KeyFound /\ total_element4BCP >= MaxElements - 1
NoElementLeft == KeyFound /\ total_element4BCP = MaxElements

\* Seeded fault: the counter is not advanced.
TakeElementUncounted ==
    /\ UNCHANGED total_element4BCP
    /\ key' = IF KeyFound THEN [key EXCEPT ![NextElement] = Word(2)] ELSE key

TakeElement ==
    /\ total_element4BCP' = IF KeyFound THEN total_element4BCP + 1
                            ELSE total_element4BCP
    /\ key' = IF KeyFound THEN [key EXCEPT ![NextElement] = Word(2)] ELSE key

\* map4BCP.elements[i] = *e
StoreElement(i) == map4BCP_elements' = [map4BCP_elements EXCEPT ![i] = NextElement]

\* Seeded faults: the device's status skipped, or set one too far.
StatusAfterFirstReady == "ARGS_READY"
StatusAfterFirstTooFar == IF no_args THEN "ASSEMBLY" ELSE "SETTING_ARGS"
StatusAfterFirst == IF no_args THEN "ARGS_READY" ELSE "SETTING_ARGS"

SizeAfterFirst == IF no_args THEN map4BCP_size ELSE map4BCP_size + 1

\* The first tuple after the command: a device, or with no_args any key.
AssembleFirst ==
    /\ pc = "assemble"
    /\ status = "COMMAND_SET"
    /\ ~NoElementLeft
    /\ element4BCP_number < MaxDevices
    /\ TakeElement
    /\ StoreElement(element4BCP_number)
    /\ Consume(KeyLength)
    /\ status' = StatusAfterFirst
    /\ map4BCP_size' = SizeAfterFirst
    /\ UNCHANGED <<pc, no_args, request, element4BCP_number,
                   nested_element4BCP, total_elementValue4BCP, map_size, armed,
                   command_executing, value, nested_elements, bool_value,
                   uint32_value, written, commandVars>>

AssembleFirstUndefined ==
    /\ pc = "assemble"
    /\ status = "COMMAND_SET"
    /\ NoElementLeft \/ element4BCP_number >= MaxDevices
    /\ Undefined

\* A device's arguments are a fixmap.  With no_args the status is never
\* SETTING_ARGS (StatusAtPoint), so the branch of lines 511-528 is dead.
AssembleArguments ==
    /\ pc = "assemble"
    /\ status = "SETTING_ARGS"
    /\ ~no_args
    /\ IsMap(Byte(1))
    /\ map_size' = Byte(1)[2]
    /\ Consume(1)
    /\ pc' = "nested"
    /\ UNCHANGED <<status, no_args, request, element4BCP_number,
                   nested_element4BCP, total_element4BCP,
                   total_elementValue4BCP, armed, command_executing,
                   containerVars, commandVars>>

AssembleArgumentsRefused ==
    /\ pc = "assemble"
    /\ status = "SETTING_ARGS"
    /\ ~no_args
    /\ ~IsMap(Byte(1))
    /\ RefuseAfter(1)

-----------------------------------------------------------------------------
(* The loop over the arguments of a device *)

ArgumentKeyFound == Byte(1) = UINT32 /\ total_element4BCP < MaxElements
ArgumentType     == TypeOf(Byte(6))

\* setElementPointer(true): an element and, while there is one, a value.
NextValue == IF total_elementValue4BCP < NumValues
             THEN total_elementValue4BCP + 1 ELSE Junk

Device == map4BCP_elements[element4BCP_number]

ArgumentUndefined == Device = Junk \/ (NextValue = Junk /\ WritesValue(ArgumentType))

\* setElementValue(): of its fields only those a command reads are kept.
SetElementValue ==
    LET t == ArgumentType[1]
    IN  /\ bool_value' = IF t \in {"nil", "false"}
                         THEN [bool_value EXCEPT ![NextValue] = "off"]
                         ELSE IF t = "true"
                         THEN [bool_value EXCEPT ![NextValue] = "on"]
                         ELSE bool_value
        /\ uint32_value' = IF t = "uint32"
                           THEN [uint32_value EXCEPT ![NextValue] = Word(7)]
                           ELSE uint32_value

\* The fields the argument writes, for the history.
ArgumentWrites ==
    (IF nested_element4BCP \in {STATE_ARG, DURATION_ARG}
     THEN {<<"nested", Device, nested_element4BCP>>} ELSE {})
    \cup (IF ArgumentType[1] \in {"nil", "false", "true"}
          THEN {<<"bool", NextValue, 0>>} ELSE {})
    \cup (IF ArgumentType[1] = "uint32" THEN {<<"uint32", NextValue, 0>>} ELSE {})

\* An argument is stored by its position: its key is kept and never read.
AssembleArgument ==
    /\ pc = "nested"
    /\ map_size > 0
    /\ ArgumentKeyFound
    /\ ~ArgumentUndefined
    /\ LET e == total_element4BCP + 1
       IN  /\ key' = [key EXCEPT ![e] = Word(2)]
           /\ value' = [value EXCEPT ![e] = NextValue]
           /\ nested_elements' =
                  IF nested_element4BCP \in {STATE_ARG, DURATION_ARG}
                  THEN [nested_elements EXCEPT ![Device][nested_element4BCP] = e]
                  ELSE nested_elements
    /\ SetElementValue
    /\ written' = written \cup ArgumentWrites
    /\ total_element4BCP' = total_element4BCP + 1
    /\ total_elementValue4BCP' = IF NextValue = Junk THEN total_elementValue4BCP
                                 ELSE total_elementValue4BCP + 1
    /\ nested_element4BCP' = nested_element4BCP + 1
    /\ map_size' = map_size - 1
    /\ Consume(6 + PayloadLength(ArgumentType))
    /\ UNCHANGED <<pc, status, no_args, request, element4BCP_number, armed,
                   command_executing, map4BCP_size, map4BCP_elements,
                   commandVars>>

AssembleArgumentUndefined ==
    /\ pc = "nested"
    /\ map_size > 0
    /\ ArgumentKeyFound
    /\ ArgumentUndefined
    /\ Undefined

\* No key, or the element pool is used up.
AssembleArgumentRefused ==
    /\ pc = "nested"
    /\ map_size > 0
    /\ ~ArgumentKeyFound
    /\ RefuseAfter(IF Byte(1) = UINT32 THEN 5 ELSE 1)

-----------------------------------------------------------------------------
(* After the last argument of a device: EXECUTE_FLAG, or another device *)

AtNextKey == pc = "nested" /\ map_size = 0

\* A junk element's key may be any word.
ExecuteFlagRead  == ~KeyFound \/ Word(2) = "EXECUTE_FLAG"
OtherKeyRead     == ~KeyFound \/ Word(2) # "EXECUTE_FLAG"
AfterKey         == KeyLength + 1

\* Seeded fault: the next device's arguments go on where the last one's ended.
DeviceCompleteKeepsPosition ==
    /\ element4BCP_number' = element4BCP_number + 1
    /\ UNCHANGED nested_element4BCP
    /\ TakeElement

DeviceComplete ==
    /\ element4BCP_number' = element4BCP_number + 1
    /\ nested_element4BCP' = 0
    /\ TakeElement

AssembleExecuteFlag ==
    /\ AtNextKey
    /\ ~NoElementLeft
    /\ ExecuteFlagRead
    /\ Byte(AfterKey) = TRUE_
    /\ DeviceComplete
    /\ Consume(AfterKey)
    /\ status' = "ARGS_READY"
    /\ armed' = TRUE
    /\ pc' = "stream"
    /\ UNCHANGED <<no_args, request, total_elementValue4BCP, map_size,
                   command_executing, map4BCP_size, map4BCP_elements, value,
                   nested_elements, bool_value, uint32_value, written,
                   commandVars>>

AssembleExecuteFlagRefused ==
    /\ AtNextKey
    /\ ~NoElementLeft
    /\ ExecuteFlagRead
    /\ Byte(AfterKey) # TRUE_
    /\ DeviceComplete
    /\ Consume(AfterKey)
    /\ Refuse
    /\ UNCHANGED <<no_args, request, total_elementValue4BCP, map_size, armed,
                   command_executing, map4BCP_size, map4BCP_elements, value,
                   nested_elements, bool_value, uint32_value, written,
                   commandVars>>

AssembleNextDevice ==
    /\ AtNextKey
    /\ ~NoElementLeft
    /\ OtherKeyRead
    /\ element4BCP_number + 1 < MaxDevices
    /\ DeviceComplete
    /\ StoreElement(element4BCP_number + 1)
    /\ map4BCP_size' = map4BCP_size + 1
    /\ Consume(KeyLength)
    /\ pc' = "assemble"
    /\ UNCHANGED <<status, no_args, request, total_elementValue4BCP, map_size,
                   armed, command_executing, value, nested_elements, bool_value,
                   uint32_value, written, commandVars>>

AssembleNextDeviceUndefined ==
    /\ AtNextKey
    /\ NoElementLeft \/ (OtherKeyRead /\ element4BCP_number + 1 >= MaxDevices)
    /\ Undefined

-----------------------------------------------------------------------------
StreamNext ==
    \/ StreamArray \/ StreamMap \/ StreamMalformed \/ StreamDone
    \/ ProcessMap \/ ProcessMapRefused \/ Dispatch \/ Executed

AssembleNext ==
    \/ AssembleReady \/ AssembleSpins
    \/ AssembleHeader \/ AssembleHeaderRefused
    \/ AssembleFirst \/ AssembleFirstUndefined
    \/ AssembleArguments \/ AssembleArgumentsRefused
    \/ AssembleArgument \/ AssembleArgumentUndefined \/ AssembleArgumentRefused
    \/ AssembleExecuteFlag \/ AssembleExecuteFlagRefused
    \/ AssembleNextDevice \/ AssembleNextDeviceUndefined

\* Seeded fault: map4BCP.size is not reset.
HandlerResetKeepsSize ==
    /\ status' = "IDLE"
    /\ no_args' = FALSE
    /\ request' = <<>>
    /\ buffer_position' = 0
    /\ element4BCP_number' = 0
    /\ nested_element4BCP' = 0
    /\ total_element4BCP' = 0
    /\ total_elementValue4BCP' = 0
    /\ UNCHANGED <<map_size, map4BCP_size, map4BCP_elements, key, value,
                   nested_elements, bool_value, uint32_value>>

\* Seeded fault: no_args is not cleared.
HandlerResetKeepsNoArgs ==
    /\ status' = "IDLE"
    /\ no_args' = no_args
    /\ request' = <<>>
    /\ buffer_position' = 0
    /\ map4BCP_size' = 0
    /\ element4BCP_number' = 0
    /\ nested_element4BCP' = 0
    /\ total_element4BCP' = 0
    /\ total_elementValue4BCP' = 0
    /\ UNCHANGED <<map_size, map4BCP_elements, key, value, nested_elements,
                   bool_value, uint32_value>>

\* reset(), called by newLoop(): the pools and what they hold stay.
HandlerReset ==
    /\ status' = "IDLE"
    /\ no_args' = FALSE
    /\ request' = <<>>
    /\ buffer_position' = 0
    /\ map4BCP_size' = 0
    /\ element4BCP_number' = 0
    /\ nested_element4BCP' = 0
    /\ total_element4BCP' = 0
    /\ total_elementValue4BCP' = 0
    /\ UNCHANGED <<map_size, map4BCP_elements, key, value, nested_elements,
                   bool_value, uint32_value>>
=============================================================================
