--------------------------- MODULE CommandService ---------------------------
(***************************************************************************)
(* What the appliance promises a client that sends one request per         *)
(* connection: a request stands for a list of settings, a setting being a  *)
(* device, a state and a duration; the settings are made in their order,   *)
(* up to the first that lacks its duration, and nothing else ever moves an *)
(* actuator.  A request that cannot be understood stands for no setting.   *)
(***************************************************************************)
EXTENDS Integers, Sequences

CONSTANTS
    Actuators,
    Commands            \* the lists of settings clients ask for

VARIABLES
    pin,                \* actuator -> the state it was last set to
    todo,               \* the settings still to make
    phase               \* "waiting" for a request or "running" one

vars == <<pin, todo, phase>>

Init ==
    /\ pin = [a \in Actuators |-> "off"]
    /\ todo = <<>>
    /\ phase = "waiting"

Take(c) ==
    /\ phase = "waiting"
    /\ phase' = "running"
    /\ todo' = c
    /\ UNCHANGED pin

\* A device that is not installed is passed over.
Make ==
    /\ phase = "running"
    /\ todo # <<>>
    /\ Head(todo).duration # "zero"
    /\ pin' = IF Head(todo).device \in Actuators
              THEN [pin EXCEPT ![Head(todo).device] = Head(todo).state]
              ELSE pin
    /\ todo' = Tail(todo)
    /\ UNCHANGED phase

GiveUp ==
    /\ phase = "running"
    /\ todo # <<>>
    /\ Head(todo).duration = "zero"
    /\ todo' = <<>>
    /\ phase' = "waiting"
    /\ UNCHANGED pin

Finish ==
    /\ phase = "running"
    /\ todo = <<>>
    /\ phase' = "waiting"
    /\ UNCHANGED <<pin, todo>>

Run == Make \/ GiveUp \/ Finish

Next == Run \/ \E c \in Commands : Take(c)

Spec == Init /\ [][Next]_vars

\* A request that was taken is run to its end.
FairSpec == Spec /\ WF_vars(Run)
=============================================================================
