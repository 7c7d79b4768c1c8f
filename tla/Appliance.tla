------------------------------ MODULE Appliance ------------------------------
(***************************************************************************)
(* The firmware's loop(): one client at a time, any number of requests on  *)
(* its connection, and newLoop() when the connection is closed.  The       *)
(* network is the environment: what available() reports is any of the      *)
(* buffers in Requests, or nothing.                                        *)
(***************************************************************************)
EXTENDS MsgPackHandler

CONSTANTS
    Requests,           \* the buffers available() may report
    MaxRequestSize,     \* MAX_SIZE_ALLOWED_REQUEST
    MaxServed           \* bound: requests read on one connection

ASSUME ApplianceAssumption ==
    /\ Requests \subseteq Seq(Bytes) \ {<<>>}
    /\ MaxRequestSize \in Nat
    /\ MaxServed \in Nat

VARIABLE served         \* requests read on this connection, for the bound

vars == <<pc, status, parseVars, containerVars, commandVars, served>>

Points == {"idle", "poll", "stream", "assemble", "nested", "dispatch",
           "execute", "executed", "close", "undefined"}

TypeOK ==
    /\ pc \in Points
    /\ served \in 0..MaxServed
    /\ ContainerTypeOK
    /\ CommandTypeOK
    /\ HandlerTypeOK

Init ==
    /\ pc = "idle"
    /\ served = 0
    /\ ContainerInit
    /\ CommandInit
    /\ HandlerInit

\* server.available() returns a client with data.
Connect ==
    /\ pc = "idle"
    /\ pc' = "poll"
    /\ served' = 0
    /\ UNCHANGED <<status, parseVars, containerVars, commandVars>>

\* The client's available() is a size the buffer takes: init() reads it.
Receive(r) ==
    /\ pc = "poll"
    /\ served < MaxServed
    /\ Len(r) <= MaxRequestSize
    /\ InitStream(r)
    /\ served' = served + 1
    /\ UNCHANGED <<no_args, counterVars, command_executing, containerVars,
                   devices_element_list, total_devices_executed, pin>>

\* Too many bytes: an error is sent and the connection given up.
ReceiveTooLong(r) ==
    /\ pc = "poll"
    /\ Len(r) > MaxRequestSize
    /\ pc' = "close"
    /\ UNCHANGED <<status, parseVars, containerVars, commandVars, served>>

\* available() is 0: the inner loop is left.
NoMoreData ==
    /\ pc = "poll"
    /\ pc' = "close"
    /\ UNCHANGED <<status, parseVars, containerVars, commandVars, served>>

\* flush(), stop() and newLoop().
Close ==
    /\ pc = "close"
    /\ pc' = "idle"
    /\ HandlerReset
    /\ CommandsReset
    /\ written' = {}
    /\ result' = "none"
    /\ armed' = FALSE
    /\ served' = 0

\* Nothing can be said of the program from here on.
Wild == pc = "undefined" /\ UNCHANGED vars

LoopNext ==
    \/ Connect
    \/ \E r \in Requests : Receive(r) \/ ReceiveTooLong(r)
    \/ NoMoreData
    \/ Close
    \/ Wild

Next ==
    \/ LoopNext
    \/ StreamNext /\ UNCHANGED served
    \/ AssembleNext /\ UNCHANGED served
    \/ CommandsNext /\ UNCHANGED <<status, parseVars, containerVars, served>>

Spec == Init /\ [][Next]_vars

\* The loop never waits for anything but data: the one thread always goes on.
FairSpec == Spec /\ WF_vars(Next)

-----------------------------------------------------------------------------
(* Safety *)

Parsing == pc \in {"poll", "stream", "assemble", "nested", "dispatch",
                   "execute", "executed"}

\* A device has been opened and its arguments are being read.
DeviceOpen == pc \in {"assemble", "nested"} /\ status = "SETTING_ARGS"

\* map4BCP.size, which execute() and assembleCommand() loop to, and
\* element4BCP_number, which the parser writes at, are two counters kept by
\* different branches of assembleMap(); they agree whenever a command can run,
\* also after the earlier requests of the connection.
CountersAgree ==
    Parsing => map4BCP_size = IF DeviceOpen THEN element4BCP_number + 1
                              ELSE element4BCP_number

\* map4BCP.elements is written at element4BCP_number with no bound check of its
\* own: what keeps the index inside is that every device takes at least two
\* elements of the pool, so the array is full only when the pool is spent.
ArrayOutlivesPool ==
    element4BCP_number >= MaxDevices => total_element4BCP = MaxElements

\* A wild write needs a pool that has run out, or a device whose key was not
\* a 32-bit word and so has no element behind it.
WildOnlyWhenSpent ==
    pc = "undefined" =>
        \/ total_element4BCP = MaxElements
        \/ total_elementValue4BCP = NumValues
        \/ Device = Junk

\* The devices set_actuator() is about to run are real elements with a key and
\* a first argument that this connection sent: nothing left in the pools or in
\* command_struct by an earlier connection is executed.
ExecutedDevicesSent ==
    pc = "execute" =>
        \A i \in 0..(map4BCP_size - 1) :
            LET d == devices_element_list[i]
            IN  /\ d # Junk
                /\ key[d] # "junk"
                /\ <<"nested", d, STATE_ARG>> \in written

-----------------------------------------------------------------------------
(* What a step may never do *)

\* An actuator moves only after the request's EXECUTE_FLAG => true.
PinsNeedExecuteFlag == [][pin' # pin => armed]_vars

\* Without it an actuator moves only when some request of the connection so far
\* was a GET_DATA: no_args is set by its header and cleared by newLoop() only.
UnarmedNeedsGetData == [][pin' # pin => armed \/ no_args]_vars

\* A command runs at most once per request, whatever bytes follow it.
ExecutesOnce == [][pc' = "dispatch" /\ pc # "dispatch" => result = "none"]_vars

\* No setStatus() call fails or writes a flow error: the "return false" after
\* each of them is never taken.
FlowNeverRefuses ==
    [][status' # status => /\ SetStatusReturns(status, status')
                           /\ ~FlowErrorWritten(status, status')]_vars

\* An actuator moves only by a state and a duration that the connection sent.
ArgumentsSent ==
    [][pin' # pin => StateSent(NextDevice) /\ DurationSent(NextDevice)]_vars

-----------------------------------------------------------------------------
(* Liveness *)

\* Every request read is answered, with success or with an error.
RequestAnswered == pc = "stream" ~> pc \in {"poll", "close"}

=============================================================================
