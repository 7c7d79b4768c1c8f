------------------------------- MODULE FourBCP -------------------------------
(***************************************************************************)
(* The vocabulary of the 4-Byte Command Protocol: the msgpack bytes of a   *)
(* request and the 32-bit words they carry (defines/commands_map.h,        *)
(* devices.h, msgpack_defines.h).                                          *)
(*                                                                         *)
(* A byte is a pair.  <<"map", n>> and <<"array", n>> are the fixmap and   *)
(* fixarray headers of n entries; <<t, 0>> is the type byte t; <<w, i>> is *)
(* the i-th byte of the 32-bit word w.  No byte of a word is a recognised  *)
(* msgpack type: the protocol's words start with 0xff 0xff and the others  *)
(* are chosen so.                                                          *)
(***************************************************************************)
EXTENDS Integers, Sequences

CONSTANTS
    Actuators,      \* UUID words of the actuators installed by setup()
    OtherWords      \* the other words requests carry: unknown devices, numbers

\* "zero" is the number 0; "other" is any word the protocol gives no meaning.
Words == {"COMMAND_FLAG", "EXECUTE_FLAG", "GET_DATA", "SET_ACTUATOR",
          "ARGS1", "ARGS2", "zero", "other"} \cup Actuators \cup OtherWords

ASSUME WordsAssumption ==
    /\ Actuators \cap {"COMMAND_FLAG", "EXECUTE_FLAG", "GET_DATA",
                       "SET_ACTUATOR", "ARGS1", "ARGS2", "zero", "other"} = {}
    /\ OtherWords \cap Actuators = {}
    /\ "junk" \notin Actuators \cup OtherWords   \* names what malloc left

\* The recognised single-byte types.  "float64" stands for every type that
\* setElementValue answers with "unimplemented".
Types == {"nil", "false", "true", "uint8", "uint16", "uint32",
          "int8", "int16", "int32", "str8", "float64"}

NUL    == <<"NUL", 0>>        \* what next() returns past the end of the buffer
FIXINT == <<"fixint", 0>>     \* a byte msgpack_types[] does not list
UINT32 == <<"uint32", 0>>
TRUE_  == <<"true", 0>>

Bytes == (Types \X {0}) \cup ({"map", "array"} \X (1..15))
         \cup (Words \X (1..4)) \cup {NUL, FIXINT}

IsArray(b) == b[1] = "array"
IsMap(b)   == b[1] = "map"

CheckDataType(b) == IsMap(b) \/ b[1] \in Types

\* getNextType() hands an unrecognised byte to its caller as 0.
TypeOf(b) == IF CheckDataType(b) THEN b ELSE NUL

-----------------------------------------------------------------------------
(* Reading a request at a position of the buffer. *)

\* The byte the (k)-th next() from position p returns, k >= 1.
ByteAt(buf, p, k) == IF p + k <= Len(buf) THEN buf[p + k] ELSE NUL

\* Seeded fault: the position runs past the end.
SkipPastEnd(buf, p, n) == p + n

\* buffer_position after n calls of next(): it stops at the end.
Skip(buf, p, n) == IF p + n <= Len(buf) THEN p + n ELSE Len(buf)

ZeroBytes == {NUL} \cup ({"zero"} \X (1..4))

\* The word the four next() calls of assemble_uint32_Byte put together.
WordAt(buf, p) ==
    LET w == ByteAt(buf, p, 1)[1]
    IN  IF \A k \in 1..4 : ByteAt(buf, p, k) \in ZeroBytes THEN "zero"
        ELSE IF w \in Words /\ \A k \in 1..4 : ByteAt(buf, p, k) = <<w, k>>
        THEN w
        ELSE "other"

\* The payload bytes setElementValue takes after each type byte.
PayloadLength(t) ==
    CASE t[1] \in {"uint8", "int8", "str8"} -> 1
      [] t[1] \in {"uint16", "int16"}       -> 2
      [] t[1] \in {"uint32", "int32"}       -> 4
      [] OTHER                              -> 0

\* The types setElementValue stores a field for.
WritesValue(t) == t[1] \in Types \ {"float64"}
=============================================================================
