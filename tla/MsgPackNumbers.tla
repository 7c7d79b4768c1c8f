--------------------------- MODULE MsgPackNumbers ---------------------------
(***************************************************************************)
(* setElementValue(): what the handler makes of the bytes of a MessagePack *)
(* number, with the widths the code gives every intermediate value, and    *)
(* when that is the number the client has sent.                            *)
(***************************************************************************)
EXTENDS Integers, TLAPS

Byte == 0..255

\* Conversion to a type of 8, 16 or 32 bits.
Unsigned16(x) == x % 65536
Unsigned32(x) == x % 4294967296
Signed8(x) == ((x + 128) % 256) - 128
Signed16(x) == ((x + 32768) % 65536) - 32768
Signed32(x) == ((x + 2147483648) % 4294967296) - 2147483648

-----------------------------------------------------------------------------
(* The cases of the switch; bytes in the order next() returns them. *)

UInt16Value(b1, b2) == Unsigned16(Unsigned16(b1 * 256) + b2)

\* assemble_uint32_Byte()
UInt32Value(b1, b2, b3, b4) ==
    Unsigned32(Unsigned32(b1 * 16777216) + Unsigned32(b2 * 65536)
                   + Unsigned32(b3 * 256) + b4)

Int8Value(b) == Signed8(b)

\* _byte is an int8_t both times: the second one is added with its sign.
Int16Value(b1, b2) == Signed16(Signed16(Signed8(b1) * 256) + Signed8(b2))

\* The same with four, and the sum goes into int16_value.
Int32Value(b1, b2, b3, b4) ==
    Signed16(Signed32(Signed8(b1) * 16777216 + Signed8(b2) * 65536
                          + Signed8(b3) * 256 + Signed8(b4)))

-----------------------------------------------------------------------------
(* What MessagePack means: big-endian, in two's complement. *)

Sent16(b1, b2) == b1 * 256 + b2
Sent32(b1, b2, b3, b4) == b1 * 16777216 + b2 * 65536 + b3 * 256 + b4

\* The unsigned numbers are read as they were sent; the durations of commands
\* are of this kind.
THEOREM UnsignedRight ==
    ASSUME NEW b1 \in Byte, NEW b2 \in Byte, NEW b3 \in Byte, NEW b4 \in Byte
    PROVE  /\ UInt16Value(b1, b2) = Sent16(b1, b2)
           /\ UInt32Value(b1, b2, b3, b4) = Sent32(b1, b2, b3, b4)
<1>1. UInt16Value(b1, b2) = Sent16(b1, b2)
  BY SMT DEF Byte, UInt16Value, Sent16, Unsigned16
<1>2. /\ Unsigned32(b1 * 16777216) = b1 * 16777216
      /\ Unsigned32(b2 * 65536) = b2 * 65536
      /\ Unsigned32(b3 * 256) = b3 * 256
  BY SMT DEF Byte, Unsigned32
<1>3. Unsigned32(Sent32(b1, b2, b3, b4)) = Sent32(b1, b2, b3, b4)
  BY SMT DEF Byte, Unsigned32, Sent32
<1> QED
  BY SMT, <1>1, <1>2, <1>3 DEF UInt32Value, Sent32

\* A 16-bit number with a sign is read as it was sent exactly when its low byte
\* is below 128: above, 256 is missing.
THEOREM Int16RightIff ==
    ASSUME NEW b1 \in Byte, NEW b2 \in Byte
    PROVE  /\ Int16Value(b1, b2) = Signed16(Sent16(b1, b2)) <=> b2 < 128
           /\ b2 >= 128 => Int16Value(b1, b2) = Signed16(Sent16(b1, b2) - 256)
<1>1. Signed8(b1) \in -128..127 /\ (Signed8(b1) = b1 \/ Signed8(b1) = b1 - 256)
  BY SMT DEF Byte, Signed8
<1>2. Signed16(Signed8(b1) * 256) = Signed8(b1) * 256
  BY SMT, <1>1 DEF Signed16
<1>3. Signed8(b2) = IF b2 < 128 THEN b2 ELSE b2 - 256
  BY SMT DEF Byte, Signed8
<1>4. CASE Signed8(b1) = b1
  BY SMT, <1>1, <1>2, <1>3, <1>4 DEF Byte, Int16Value, Sent16, Signed16
<1>5. CASE Signed8(b1) = b1 - 256
  BY SMT, <1>1, <1>2, <1>3, <1>5 DEF Byte, Int16Value, Sent16, Signed16
<1> QED
  BY SMT, <1>1, <1>4, <1>5

\* Conversion to 32 bits does not touch the low half.
LEMMA LowHalf ==
    ASSUME NEW high \in Int, NEW low \in Int
    PROVE  Signed16(Signed32(high * 65536 + low)) = Signed16(low)
<1> DEFINE x == high * 65536 + low
           k == (x + 2147483648) \div 4294967296
           n == high - k * 65536
<1>1. k \in Int /\ (x + 2147483648) % 4294967296
                       = x + 2147483648 - k * 4294967296
  BY SMT
<1>2. Signed32(x) = x - k * 4294967296
  BY SMT, <1>1 DEF Signed32
<1> HIDE DEF k
<1>3. Signed32(x) = low + n * 65536 /\ n \in Int
  BY SMT, <1>1, <1>2
<1> HIDE DEF n, x
<1>4. Signed16(low + n * 65536) = Signed16(low)
  BY SMT, <1>3 DEF Signed16
<1>5. Signed16(Signed32(x)) = Signed16(low)
  BY SMT, <1>3, <1>4
<1> QED
  BY SMT, <1>5 DEF x

\* A 32-bit number with a sign is cut to its low half, and the defect of the
\* 16-bit case is there too: of the two high bytes nothing is left.
THEOREM Int32IsInt16 ==
    ASSUME NEW b1 \in Byte, NEW b2 \in Byte, NEW b3 \in Byte, NEW b4 \in Byte
    PROVE  Int32Value(b1, b2, b3, b4) = Int16Value(b3, b4)
<1> DEFINE s1   == Signed8(b1)
           s2   == Signed8(b2)
           s3   == Signed8(b3)
           s4   == Signed8(b4)
           high == s1 * 256 + s2
           low  == s3 * 256 + s4
<1>1. s1 \in -128..127 /\ s2 \in -128..127 /\ s3 \in -128..127 /\ s4 \in -128..127
  BY SMT DEF Byte, Signed8
<1>2. Int32Value(b1, b2, b3, b4)
          = Signed16(Signed32(s1 * 16777216 + s2 * 65536 + s3 * 256 + s4))
  BY SMT DEF Int32Value
<1>3. Int16Value(b3, b4) = Signed16(Signed16(s3 * 256) + s4)
  BY SMT DEF Int16Value
<1> HIDE DEF s1, s2, s3, s4
<1>4. /\ high \in Int
      /\ low \in Int
      /\ s1 * 16777216 + s2 * 65536 + s3 * 256 + s4 = high * 65536 + low
  BY SMT, <1>1
<1>5. Signed16(s3 * 256) = s3 * 256
  BY SMT, <1>1 DEF Signed16
<1>6. Int16Value(b3, b4) = Signed16(low)
  BY SMT, <1>3, <1>5
<1> HIDE DEF high, low
<1>7. Signed16(Signed32(high * 65536 + low)) = Signed16(low)
  BY SMT, <1>4, LowHalf
<1> QED
  BY SMT, <1>2, <1>4, <1>6, <1>7
=============================================================================
