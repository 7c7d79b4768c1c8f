--------------------------- MODULE ServiceInvariant ---------------------------
(***************************************************************************)
(* Why the appliance implements CommandService: where each setting of a    *)
(* SET_ACTUATOR request stands in the buffer, and where the parser puts it *)
(* in the pools.  With one request on a connection the pools are handed    *)
(* out from their first element, so that the places are known:             *)
(* ApplianceService_proofs proves it, the run service checks it.           *)
(***************************************************************************)
EXTENDS ApplianceService, ApplianceInvariant

-----------------------------------------------------------------------------
(* What a request says. *)

DeviceSettings == [device : Words \ {"EXECUTE_FLAG"}, state : {"on", "off"},
                   duration : Words]

\* A list of settings that there is room for in the pools: three elements and
\* two values for each, and an element for the EXECUTE_FLAG.
FitsPools(c) ==
    /\ c \in Seq(DeviceSettings)
    /\ 3 * Len(c) + 1 <= MaxElements
    /\ 2 * Len(c) <= NumValues

\* The byte at p, and the word behind the type byte at p, as far as r goes.
ByteIs(r, p, b) == p <= Len(r) => r[p] = b
WordIs(r, p, w) == /\ ByteIs(r, p, UINT32)
                   /\ \A k \in 1..4 : ByteIs(r, p + k, <<w, k>>)

SetsActuators(r) ==
    /\ Len(r) >= 11
    /\ IsMap(r[1])
    /\ WordIs(r, 2, "COMMAND_FLAG")
    /\ WordIs(r, 7, "SET_ACTUATOR")

\* The bytes before the device of setting i + 1.
Start(i) == 11 + 22 * i

\* Behind the first p bytes: the device, its map of two, a bool and a number.
SettingAt(r, p, s) ==
    /\ WordIs(r, p + 1, s.device)
    /\ ByteIs(r, p + 6, <<"map", 2>>)
    /\ ByteIs(r, p + 7, UINT32)
    /\ ByteIs(r, p + 12, IF s.state = "on" THEN TRUE_ ELSE <<"false", 0>>)
    /\ ByteIs(r, p + 13, UINT32)
    /\ WordIs(r, p + 18, s.duration)

\* It goes on to EXECUTE_FLAG => true.
ToldToExecute(r, c) ==
    LET p == Start(Len(c)) + 6
    IN  /\ p <= Len(r)
        /\ r[p] = TRUE_

\* r asks for the settings of c, wherever it breaks off.  What comes behind may
\* be any byte that does not open another map or array.
Follows(r, c) ==
    /\ SetsActuators(r)
    /\ \A i \in 0..(Len(c) - 1) : SettingAt(r, Start(i), c[i + 1])
    /\ WordIs(r, Start(Len(c)) + 1, "EXECUTE_FLAG")
    /\ LET p == Start(Len(c)) + 7
       IN  ToldToExecute(r, c) /\ p <= Len(r) => ~IsMap(r[p]) /\ ~IsArray(r[p])

\* A request stands for its settings if it says so up to its EXECUTE_FLAG =>
\* true, and for none if it breaks off before, or is no SET_ACTUATOR at all.
StandsFor(r, c) ==
    \/ c = <<>> /\ ~SetsActuators(r)
    \/ \E d \in Commands :
           /\ d # <<>>
           /\ Follows(r, d)
           /\ c = IF ToldToExecute(r, d) THEN d ELSE <<>>

\* The requests stand for lists of settings that there is room for.
Understood ==
    /\ \A c \in Commands : FitsPools(c)
    /\ \A r \in Requests : StandsFor(r, Meaning(r))

-----------------------------------------------------------------------------
(* Where the parser is, and what it has put where. *)

\* The first request of a connection finds the pools as newLoop() left them.
FreshPools ==
    \/ pc = "idle"
    \/ pc = "poll" /\ served = 0
    \/ pc \in {"stream", "assemble"} /\ status \in {"BEGIN", "COMMAND_SET"}
    => /\ element4BCP_number = 0
       /\ total_element4BCP = 0
       /\ total_elementValue4BCP = 0

HeaderRead ==
    /\ pc = "stream" /\ status = "BEGIN" => buffer_position = 0
    /\ pc = "assemble" /\ status = "BEGIN" =>
           buffer_position = 1 /\ IsMap(request[1])
    /\ status \in {"COMMAND_SET", "SETTING_ARGS", "ARGS_READY", "ASSEMBLY",
                   "EXECUTING"}
       => (command_executing = "SET_ACTUATOR" <=> SetsActuators(request))

\* From the end of execute() on, the request is not run again.
RunOnce ==
    /\ pc = "executed" => result # "none"
    /\ status = "FINISHED" => result # "none"
    /\ pc = "dispatch" => total_devices_executed = 0

\* The first n arguments of device i are those of setting s.
DeviceTold(i, s, n) ==
    LET e == 3 * i + 1
    IN  /\ map4BCP_elements[i] = e
        /\ key[e] = s.device
        /\ n >= 1 => /\ nested_elements[e][STATE_ARG] = e + 1
                     /\ value[e + 1] = 2 * i + 1
                     /\ bool_value[2 * i + 1] = s.state
        /\ n >= 2 => /\ nested_elements[e][DURATION_ARG] = e + 2
                     /\ value[e + 2] = 2 * i + 2
                     /\ uint32_value[2 * i + 2] = s.duration

DevicesTold(n, c) == \A i \in 0..(n - 1) : DeviceTold(i, c[i + 1], 2)

\* The bytes of a device that are read at this point.
DeviceBytes ==
    IF pc = "assemble" THEN 5
    ELSE IF nested_element4BCP = 0 THEN 6
    ELSE IF nested_element4BCP = 1 THEN 12
    ELSE 22

\* A device of the list is being read, unless the request has broken off.
DeviceFollows(c) ==
    DeviceOpen /\ ~BufferSpent =>
        /\ element4BCP_number < Len(c)
        /\ nested_element4BCP \in 0..2
        /\ pc = "nested" => nested_element4BCP + map_size = 2
        /\ buffer_position = Start(element4BCP_number) + DeviceBytes
        /\ total_element4BCP = 3 * element4BCP_number + 1 + nested_element4BCP
        /\ total_elementValue4BCP = 2 * element4BCP_number + nested_element4BCP
        /\ DeviceTold(element4BCP_number, c[element4BCP_number + 1],
                      nested_element4BCP)
        /\ DevicesTold(element4BCP_number, c)

\* A command is ready when all of them have been.
CommandFollows(c) ==
    status \in {"ARGS_READY", "ASSEMBLY", "EXECUTING"} =>
        /\ ToldToExecute(request, c)
        /\ element4BCP_number = Len(c)
        /\ DevicesTold(Len(c), c)
        /\ status = "ARGS_READY" =>
               pc = "stream" /\ buffer_position = Start(Len(c)) + 6

\* A request that goes on to its EXECUTE_FLAG does not run out before.
GoesOn(c) ==
    /\ pc \in {"assemble", "nested"}
    /\ status \in {"BEGIN", "COMMAND_SET", "SETTING_ARGS"}
    /\ ToldToExecute(request, c)
    => ~BufferSpent

HeaderFollows ==
    pc = "assemble" /\ status = "COMMAND_SET" => buffer_position = 11

SettingsFollow(c) ==
    /\ HeaderFollows
    /\ DeviceFollows(c)
    /\ CommandFollows(c)
    /\ GoesOn(c)

\* Every setting of the list is read from its place and put in its place.
SettingsRead ==
    /\ FreshPools
    /\ HeaderRead
    /\ RunOnce
    /\ \A c \in Commands :
           c # <<>> /\ Follows(request, c) => SettingsFollow(c)
=============================================================================
