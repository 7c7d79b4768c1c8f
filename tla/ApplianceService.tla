-------------------------- MODULE ApplianceService --------------------------
(***************************************************************************)
(* The appliance implements CommandService: what is still to do is what    *)
(* the request in the buffer stands for, less the devices set_actuator()   *)
(* has been through.                                                       *)
(***************************************************************************)
EXTENDS Appliance

CONSTANTS
    Meaning(_),     \* the list of settings a request stands for
    Commands        \* the lists the requests stand for

ASSUME MeaningAssumption == \A r \in Requests : Meaning(r) \in Commands

\* From the moment the request is read until execute() returns or the request
\* is refused.
Running == /\ pc \in {"stream", "assemble", "nested", "dispatch", "execute"}
           /\ result = "none"

Todo ==
    IF ~Running THEN <<>>
    ELSE IF pc # "execute" THEN Meaning(request)
    ELSE SubSeq(Meaning(request), total_devices_executed + 1,
                Len(Meaning(request)))

Service == INSTANCE CommandService WITH
               todo  <- Todo,
               phase <- IF Running THEN "running" ELSE "waiting"

\* With one request per connection the firmware makes exactly the settings the
\* request asks for, in their order, and comes to the end of each request.
ImplementsService == Service!FairSpec

\* The safety part alone: a pin only moves by the next setting of the request
\* that is running.  ServiceCorrect proves it for one request per connection;
\* init() keeps the devices of earlier requests, so a second one breaks it.
ImplementsServiceSafely == Service!Spec
=============================================================================
