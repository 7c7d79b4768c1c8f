--------------------------- MODULE CommandsHandler ---------------------------
(***************************************************************************)
(* CommandsHandler and SetActuatorCommand: the command being executed, the *)
(* list of its devices, and the actuator pins.  execute() runs device by   *)
(* device, reading each device's arguments from the container.             *)
(***************************************************************************)
EXTENDS Container4BCP

VARIABLES
    command_executing,          \* the command word of the last header
    devices_element_list,       \* command_struct->devices_element_list
    total_devices_executed,     \* command_struct->total_devices_executed
    pin,                        \* actuator -> level of its output pin
    result                      \* history: what execute() returned for
                                \* the request, "none" until it returns

commandVars == <<devices_element_list, total_devices_executed, pin, result>>

Results == {"none", "ok", "failed"}

CommandTypeOK ==
    /\ command_executing \in Words
    /\ devices_element_list \in [0..(MaxDevices - 1) -> Elements \cup {Junk}]
    /\ total_devices_executed \in 0..MaxDevices
    /\ pin \in [Actuators -> {"on", "off"}]
    /\ result \in Results

\* setup() leaves every actuator pin LOW.
CommandInit ==
    /\ command_executing = "zero"
    /\ devices_element_list = [i \in 0..(MaxDevices - 1) |-> Junk]
    /\ total_devices_executed = 0
    /\ pin = [a \in Actuators |-> "off"]
    /\ result = "none"

-----------------------------------------------------------------------------
InitCommand == total_devices_executed' = 0

\* Seeded fault: the last device is not copied.
AssembleCommandButLast ==
    devices_element_list' =
        [i \in DOMAIN devices_element_list |->
            IF i + 1 < map4BCP_size THEN map4BCP_elements[i]
            ELSE devices_element_list[i]]

AssembleCommand ==
    devices_element_list' =
        [i \in DOMAIN devices_element_list |->
            IF i < map4BCP_size THEN map4BCP_elements[i]
            ELSE devices_element_list[i]]

Return(r) ==
    /\ pc' = "executed"
    /\ result' = r

\* get_data(): the sensors are read and sent; nothing is kept.
GetData ==
    /\ pc = "execute"
    /\ command_executing = "GET_DATA"
    /\ Return("ok")
    /\ UNCHANGED <<devices_element_list, total_devices_executed, pin>>

\* The default case of execute().
UnknownCommand ==
    /\ pc = "execute"
    /\ command_executing \notin {"GET_DATA", "SET_ACTUATOR"}
    /\ Return("failed")
    /\ UNCHANGED <<devices_element_list, total_devices_executed, pin>>

NextDevice == devices_element_list[total_devices_executed]

\* SetActuatorCommand::execute() for the device under total_devices_executed:
\* the first installed actuator with the device's key takes the state; a key
\* no actuator has is skipped, and that is a success too.
SetActuator ==
    /\ pc = "execute"
    /\ command_executing = "SET_ACTUATOR"
    /\ total_devices_executed < map4BCP_size
    /\ \E k \in KeysOf(NextDevice), s \in StatesOf(NextDevice) :
           pin' = IF k \in Actuators THEN [pin EXCEPT ![k] = s] ELSE pin
    /\ DurationsOf(NextDevice) # {"zero"}
    /\ total_devices_executed' = total_devices_executed + 1
    /\ UNCHANGED <<pc, devices_element_list, result>>

\* checkArguments() refuses a zero duration: the devices before it stay set.
SetActuatorRefused ==
    /\ pc = "execute"
    /\ command_executing = "SET_ACTUATOR"
    /\ total_devices_executed < map4BCP_size
    /\ "zero" \in DurationsOf(NextDevice)
    /\ Return("failed")
    /\ UNCHANGED <<devices_element_list, total_devices_executed, pin>>

\* set_actuator() has run through the list.
SetActuatorDone ==
    /\ pc = "execute"
    /\ command_executing = "SET_ACTUATOR"
    /\ total_devices_executed >= map4BCP_size
    /\ Return("ok")
    /\ UNCHANGED <<devices_element_list, total_devices_executed, pin>>

CommandsNext ==
    \/ GetData
    \/ UnknownCommand
    \/ SetActuator
    \/ SetActuatorRefused
    \/ SetActuatorDone

\* CommandsHandler::reset()
CommandsReset ==
    /\ total_devices_executed' = 0
    /\ UNCHANGED <<command_executing, devices_element_list, pin>>
=============================================================================
