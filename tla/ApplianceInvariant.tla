-------------------------- MODULE ApplianceInvariant --------------------------
(***************************************************************************)
(* The inductive invariant of Appliance: why the counters agree, why the   *)
(* arrays hold and why a command only sees devices of its own connection.  *)
(* Appliance_proofs proves it; the runs check it on the small instances.   *)
(***************************************************************************)
EXTENDS Appliance

\* The statuses the thread can have at each point of its way through a request.
\* assembleMap() comes back with true only at ARGS_READY, and no_args is only
\* set before the arguments of a device are expected.
StatusAtPoint ==
    /\ pc \in {"idle", "poll", "close"} => status = "IDLE"
    /\ pc = "stream" => status \in {"BEGIN", "ARGS_READY", "FINISHED"}
    /\ pc = "assemble" => status \in {"BEGIN", "COMMAND_SET", "SETTING_ARGS",
                                      "ARGS_READY", "FINISHED"}
    /\ pc = "nested" => status = "SETTING_ARGS"
    /\ pc = "dispatch" => status = "ASSEMBLY"
    /\ pc \in {"execute", "executed"} => status = "EXECUTING"
    /\ status = "SETTING_ARGS" => ~no_args

\* The connection is neither given up nor beyond what can be said of it.
Sound == pc \notin {"close", "undefined"}

\* The two counters of devices, and the index of the device being read.
DevicesCounted ==
    /\ Sound => map4BCP_size = IF DeviceOpen THEN element4BCP_number + 1
                               ELSE element4BCP_number
    /\ DeviceOpen => element4BCP_number < MaxDevices

\* Every complete device has taken two elements of the pool, its key and its
\* first argument; an open one has taken its key and the arguments read.
ElementsTaken ==
    /\ 2 * element4BCP_number <= total_element4BCP
    /\ nested_element4BCP <= total_element4BCP
    /\ DeviceOpen /\ Device # Junk =>
           2 * element4BCP_number + 1 + nested_element4BCP <= total_element4BCP

\* The arguments of a device are at least one, and the first of them shows that
\* the device has an element.
ArgumentsCounted ==
    /\ Sound /\ pc # "nested" => nested_element4BCP = 0
    /\ pc = "nested" =>
           /\ nested_element4BCP + map_size >= 1
           /\ nested_element4BCP > 0 =>
                  /\ Device # Junk
                  /\ <<"nested", Device, STATE_ARG>> \in written

\* A request runs one command, and is FINISHED from then on.
NotYetRun ==
    /\ pc \in {"stream", "assemble", "nested", "dispatch", "execute"}
    /\ status # "FINISHED"
    => result = "none"

DeviceSent(d) ==
    /\ d # Junk
    /\ key[d] # "junk"
    /\ <<"nested", d, STATE_ARG>> \in written

\* The devices of the connection so far have been sent by it.
DevicesSent ==
    Sound =>
        /\ \A i \in 0..(element4BCP_number - 1) : DeviceSent(map4BCP_elements[i])
        /\ DeviceOpen /\ Device # Junk => key[Device] # "junk"

\* Whenever no device is being added, command_struct lists all of them: that is
\* what a command without arguments, which copies nothing, relies on.
DevicesListed ==
    Sound /\ (no_args \/ status \notin {"SETTING_ARGS", "ARGS_READY", "ASSEMBLY"}) =>
        \A i \in 0..(element4BCP_number - 1) :
            devices_element_list[i] = map4BCP_elements[i]

\* What is about to run has been armed, or is taken for a command without
\* arguments.
ArmedToRun ==
    status \in {"ARGS_READY", "ASSEMBLY", "EXECUTING"} => armed \/ no_args

\* The strengthening the invariants of Appliance follow from.
Inv ==
    /\ TypeOK
    /\ StatusAtPoint
    /\ DevicesCounted
    /\ ElementsTaken
    /\ ArgumentsCounted
    /\ NotYetRun
    /\ DevicesSent
    /\ DevicesListed
    /\ WildOnlyWhenSpent
    /\ ArmedToRun

-----------------------------------------------------------------------------
(* One request per connection. *)

\* The request about to be read is the first since newLoop(); from its header
\* on, no_args says that it is a GET_DATA.
NoArgsIsGetData ==
    /\ pc = "idle" => served = 0
    /\ served = 0 => pc \in {"idle", "poll", "close"}
    /\ served = 0 \/ status = "BEGIN" => ~no_args
    /\ status \in {"COMMAND_SET", "SETTING_ARGS", "ARGS_READY", "ASSEMBLY",
                   "EXECUTING"} /\ no_args
       => command_executing = "GET_DATA"

-----------------------------------------------------------------------------
(* Requests that carry their arguments. *)

\* As far as the request goes, the arguments of every device in it are a state
\* and then a duration: what a map that does not open the request has to hold.
CarriesArguments(r) ==
    \A p \in 2..Len(r) : IsMap(r[p]) =>
        /\ r[p][2] >= 2
        /\ p + 6 <= Len(r) => r[p + 6][1] \in {"nil", "false", "true"}
        /\ p + 12 <= Len(r) => r[p + 12] = UINT32

\* Argument p of device d is an element of this connection, and so is what it
\* says in field f.
Sent(d, p, f) ==
    /\ d \in 1..total_element4BCP
    /\ <<"nested", d, p>> \in written
    /\ nested_elements[d][p] \in 1..total_element4BCP
    /\ <<f, value[nested_elements[d][p]], 0>> \in written

Complete(d) == Sent(d, STATE_ARG, "bool") /\ Sent(d, DURATION_ARG, "uint32")

BufferSpent == buffer_position = Len(request)

\* The type byte k ahead, while there is one.
AheadIs(k, types) ==
    buffer_position + k <= Len(request) => request[buffer_position + k][1] \in types

\* A request is read from the buffer it came in, behind the map that opens it.
RequestRead ==
    /\ Parsing /\ pc # "poll" => request \in Requests
    /\ pc \in {"assemble", "nested"} => buffer_position >= 1

\* The device being read is none of those before it.
DeviceApart ==
    DeviceOpen /\ Device # Junk =>
        /\ Device <= total_element4BCP
        /\ \A i \in 0..(element4BCP_number - 1) : map4BCP_elements[i] # Device

\* While a device is read: what it has been sent, and what is still to come.  A
\* device that the request breaks off in the middle of leaves nothing to read.
ArgumentsRead ==
    pc = "nested" =>
        /\ nested_element4BCP + map_size >= 2
        /\ nested_element4BCP = 0 => /\ AheadIs(6, {"nil", "false", "true"})
                                     /\ AheadIs(12, {"uint32"})
        /\ nested_element4BCP = 1 /\ ~BufferSpent =>
               Sent(Device, STATE_ARG, "bool") /\ AheadIs(6, {"uint32"})
        /\ nested_element4BCP >= 2 /\ ~BufferSpent => Complete(Device)

\* No device is left incomplete but in a request that is about to be refused.
DevicesComplete ==
    Sound /\ ~(status = "SETTING_ARGS" /\ BufferSpent) =>
        \A i \in 0..(element4BCP_number - 1) : Complete(map4BCP_elements[i])

\* No device writes over the arguments of another, and a command finds all of
\* its devices complete.
ArgumentsCarried ==
    /\ RequestRead
    /\ DeviceApart
    /\ ArgumentsRead
    /\ DevicesComplete
=============================================================================
