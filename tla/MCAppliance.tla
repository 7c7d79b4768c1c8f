----------------------------- MODULE MCAppliance -----------------------------
(***************************************************************************)
(* Requests for the model checker, written as the clients write them       *)
(* (MsgPackHandler.cpp:292-305), and the ways they can be cut, malformed   *)
(* or run together.                                                        *)
(***************************************************************************)
EXTENDS ApplianceInvariant

W(w)       == <<<<w, 1>>, <<w, 2>>, <<w, 3>>, <<w, 4>>>>
Key(w)     == <<UINT32>> \o W(w)
Map(n)     == <<<<"map", n>>>>
Header(c)  == Key("COMMAND_FLAG") \o Key(c)
Execute    == Key("EXECUTE_FLAG") \o <<TRUE_>>
Bool(s)    == IF s = "on" THEN <<TRUE_>> ELSE <<<<"false", 0>>>>

\* A device with its state and duration.
Device2(d, s, n) == Key(d) \o Map(2) \o Key("ARGS1") \o Bool(s)
                           \o Key("ARGS2") \o Key(n)
Set1(d, s, n) == Map(3) \o Header("SET_ACTUATOR") \o Device2(d, s, n) \o Execute
Set2(d, s, n, e, t, m) ==
    Map(4) \o Header("SET_ACTUATOR") \o Device2(d, s, n) \o Device2(e, t, m) \o Execute

GetDataReq == Map(2) \o Header("GET_DATA") \o Execute

\* A device with one argument of a type that takes no value field.
Device1(d) == Key(d) \o Map(1) \o Key("ARGS1") \o <<<<"float64", 0>>>>
SetBare(n) == Map(3) \o Header("SET_ACTUATOR")
              \o (IF n = 1 THEN Device1("d1") ELSE Device1("d1") \o Device1("d2"))
              \o Execute

Truncate(r, n) == SubSeq(r, 1, n)

-----------------------------------------------------------------------------
\* Well formed: what the protocol asks for.
Plain == { Set1("d1", "on", "ten"), Set1("d1", "off", "ten"),
           Set2("d1", "on", "ten", "d2", "off", "ten"), GetDataReq }

\* Accepted by the parser, and lacking something the protocol asks for.
Lacking == {
    Set1("d1", "on", "zero"),                                \* zero duration
    Set2("d2", "on", "ten", "d1", "on", "zero"),             \* half done
    Set1("d9", "on", "ten"),                                 \* not installed
    Map(3) \o Header("SET_ACTUATOR") \o Key("d1") \o Map(1)  \* no duration
        \o Key("ARGS1") \o <<TRUE_>> \o Execute,
    Map(3) \o Header("SET_ACTUATOR") \o Key("d1") \o Map(2)  \* uint8 duration
        \o Key("ARGS1") \o <<<<"nil", 0>>>> \o Key("ARGS2")
        \o <<<<"uint8", 0>>, FIXINT>> \o Execute,
    Map(3) \o Header("SET_ACTUATOR") \o Key("d1") \o Map(2)  \* arguments swapped
        \o Key("ARGS2") \o Key("ten") \o Key("ARGS1") \o <<TRUE_>> \o Execute,
    Map(2) \o Header("other") \o Key("d1") \o Map(1)         \* unknown command
        \o Key("ARGS1") \o <<TRUE_>> \o Execute,
    Truncate(GetDataReq, 11) }                               \* no EXECUTE_FLAG

\* Refused somewhere on the way.
Malformed == {
    <<FIXINT>>, <<FIXINT, FIXINT>>, <<<<"array", 1>>>>,
    Truncate(GetDataReq, 1), Truncate(GetDataReq, 4),
    Map(2) \o Key("d1"), Map(2) \o Key("COMMAND_FLAG") \o <<FIXINT>>,
    Truncate(Set1("d1", "on", "ten"), 16),
    Truncate(Set1("d1", "on", "ten"), 18),
    Truncate(Set1("d1", "on", "ten"), 33),
    Truncate(Set1("d1", "on", "ten"), 38),
    Map(3) \o Header("SET_ACTUATOR") \o Device2("d2", "on", "ten")
        \o Key("EXECUTE_FLAG") \o <<<<"false", 0>>>> }

\* No word where the EXECUTE_FLAG is due, but the TRUE that goes with it: what
\* is read through the null pointer decides.
Undecided == {
    Map(3) \o Header("SET_ACTUATOR") \o Device2("d2", "on", "ten")
        \o <<FIXINT, TRUE_>> }

\* More bytes than one request.
Trailing == {
    Set1("d1", "on", "ten") \o <<FIXINT>>,
    Set1("d1", "on", "ten") \o <<FIXINT, FIXINT>>,
    Set1("d1", "on", "ten") \o Set1("d2", "on", "ten"),
    GetDataReq \o <<FIXINT>>,
    GetDataReq \o GetDataReq }

TooLong == { [i \in 1..(MaxRequestSize + 1) |-> FIXINT] }

AllRequests == Plain \cup Lacking \cup Malformed \cup Undecided
               \cup Trailing \cup TooLong

\* Devices that take as little of the pools as they can.
PoolRequests == {
    SetBare(1), SetBare(2),
    SetBare(1) \o <<FIXINT>>,
    Truncate(GetDataReq, 11),
    GetDataReq,
    Map(3) \o Header("SET_ACTUATOR") \o Device1("d1") \o <<FIXINT>>,
    Map(3) \o Header("SET_ACTUATOR") \o Device1("d1") \o Device1("d2") \o <<FIXINT>>,
    Map(3) \o Header("SET_ACTUATOR") \o <<FIXINT>> \o Map(1) \o Key("ARGS1") \o <<TRUE_>>,
    Set1("d1", "on", "ten") }

-----------------------------------------------------------------------------
(* Requests for one question each. *)

\* A pulse on one device, and a command without arguments.
PulseAndGet == { Set2("d1", "on", "ten", "d1", "off", "ten"), GetDataReq }
=============================================================================
