----------------------------- MODULE Datapoints -----------------------------
(***************************************************************************)
(* The data points with one MQTT control for each field (dpt1.cpp ..       *)
(* dpt20.cpp, dptraw.cpp, datapointutils.cpp).  A class is a record: its   *)
(* main id, the size of its payload in octets and its fields.  A field is  *)
(* the type of its control, where its bits are in the payload, what they   *)
(* are read as and the width of the C++ type a number of MQTT is cast to.  *)
(* What an object of a class caches is a number for each field: 0 or 1,    *)
(* the code of a character, hundredths for a float of two octets and the   *)
(* IEEE 754 pattern for one of four.                                       *)
(*                                                                         *)
(* A value of MQTT has a type and is <<0>> or <<1>>, the codes of a text,  *)
(* or <<w, p>>, which stands for w + p/100 (w for the float w names).      *)
(***************************************************************************)
EXTENDS Bits

Field(control, at, width, as, cast) == [control |-> control, at |-> at, width |-> width, as |-> as, cast |-> cast]

Switch(at) == Field("switch", at, 1, "bit", 1)
UnsignedField(at, width, cast) == Field("value", at, width, "unsigned", cast)
SignedField(at, width) == Field("value", at, width, "signed", width)

Class(main, size, fields) == [kind |-> "wb", main |-> main, size |-> size, fields |-> fields]

Dpt1 == Class(1, 1, <<Switch(7)>>)
Dpt2 == Class(2, 1, <<Switch(6), Switch(7)>>)
Dpt3 == Class(3, 1, <<Switch(4), UnsignedField(5, 3, 8)>>)
Dpt4 == Class(4, 2, <<Field("text", 8, 8, "char", 8)>>)
DptBaseU8(main) == Class(main, 2, <<UnsignedField(8, 8, 8)>>)
Dpt5 == DptBaseU8(5)
Dpt6 == Class(6, 2, <<SignedField(8, 8)>>)
Dpt7 == Class(7, 3, <<UnsignedField(8, 16, 16)>>)
Dpt8 == Class(8, 3, <<SignedField(8, 16)>>)
Dpt9 == Class(9, 3, <<Field("value", 8, 16, "float16", 64)>>)
Dpt12 == Class(12, 5, <<UnsignedField(8, 32, 32)>>)
Dpt13 == Class(13, 5, <<SignedField(8, 32)>>)
Dpt14 == Class(14, 5, <<Field("value", 8, 32, "float32", 32)>>)
Dpt20 == DptBaseU8(20)

-----------------------------------------------------------------------------
(* Floats of two octets, in hundredths                                     *)

RawToFloat16(raw) ==
    LET mantissa == (raw % 2048) - (IF raw >= 32768 THEN 2048 ELSE 0)
    IN  mantissa * 2 ^ ((raw \div 2048) % 16)

\* The mantissa is halved, rounding down, until it fits; an int32_t does after
\* at most 20 times.  Of the exponent four bits are kept.
FitsEvenly(mantissa) == mantissa \in -2047 .. 2047  \* fault: the least mantissa is left out
Fits(mantissa) == mantissa \in -2048 .. 2047

\* Of larger numbers the conversion of std::round's result is undefined.
Representable(hundredths) == hundredths \in Int /\ \E k \in 0 .. 20 : Fits(hundredths \div 2 ^ k)

FloatToRaw16(hundredths) ==
    LET Halved(k) == hundredths \div 2 ^ k
        exp == CHOOSE k \in 0 .. 20 : Fits(Halved(k)) /\ \A j \in 0 .. k - 1 : ~ Fits(Halved(j))
    IN  (IF hundredths < 0 THEN 32768 ELSE 0) + (exp % 16) * 2048 + (Halved(exp) % 2048)

-----------------------------------------------------------------------------
(* The exchange                                                            *)

DecodeUnsigned(as, bits) ==      \* fault: the sign is lost
    IF as = "float16" THEN RawToFloat16(Unsigned(bits)) ELSE Unsigned(bits)

Decode(as, bits) ==
    CASE as \in {"bit", "unsigned", "char"} -> Unsigned(bits)
      [] as \in {"signed", "float32"} -> Signed(bits)
      [] as = "float16" -> RawToFloat16(Unsigned(bits))

EncodeUnsigned(field, value) ==  \* fault: the sign is lost
    LowBits(IF field.as = "float16" THEN FloatToRaw16(value) ELSE IF value < 0 THEN 0 - value ELSE value,
            field.width)

Encode(field, value) ==
    LowBits(IF field.as = "float16" THEN FloatToRaw16(value) ELSE value, field.width)

Initial(class) == [i \in DOMAIN class.fields |-> 0]

FromKnx(class, payload) ==
    IF Len(payload) = class.size
    THEN {[i \in DOMAIN class.fields |->
              Decode(class.fields[i].as, FieldBits(BitsOf(payload), class.fields[i]))]}
    ELSE {}

ToKnx(class, cached) ==
    Assemble(class.fields, [i \in DOMAIN class.fields |-> Encode(class.fields[i], cached[i])], class.size)

\* Toward zero.
Truncate(number) == IF number[1] < 0 /\ number[2] > 0 THEN number[1] + 1 ELSE number[1]

\* A double out of the range of the integer type: undefined.  The compilers'
\* code keeps the low bits, or the nearest value of the type.
Cast(n, as, width) ==
    LET kept == IF as = "signed" THEN Signed(LowBits(n, width)) ELSE Unsigned(LowBits(n, width))
    IN  IF kept = n THEN {n}
        ELSE IF as = "signed" THEN {kept, 0 - 2 ^ (width - 1), 2 ^ (width - 1) - 1}
        ELSE {kept, 0, 2 ^ width - 1}

Types == [switch |-> "bool", value |-> "number", text |-> "chars"]

\* Values as MQTT has them.
Input(field, value) ==
    /\ value.type = "bool"  => value.value[1] \in {0, 1}
    /\ value.type = "chars" => value.value \in Seq(0 .. 255)
    /\ value.type = "number" =>
           /\ value.value[1] \in Int /\ value.value[2] \in 0 .. 99
           /\ field.as = "float16" => Representable(value.value[1] * 100 + value.value[2])
           /\ field.as = "float32" => value.value[2] = 0

\* What is cached of an MQTT value; another type of value than the control's
\* makes TAny::As throw.
Received(field, value) ==
    IF value.type # Types[field.control] THEN {}
    ELSE CASE field.as = "bit"     -> {value.value[1]}
           [] field.as = "char"    -> {IF value.value = <<>> THEN 0 ELSE value.value[1]}
           [] field.as = "float16" -> {value.value[1] * 100 + value.value[2]}
           [] field.as = "float32" -> {value.value[1]}
           [] OTHER -> Cast(Truncate(value.value), field.as, field.cast)

\* The index is that of the control, from 0.
FromMqtt(class, cached, index, value) ==
    IF index + 1 \in DOMAIN class.fields
    THEN {[cached EXCEPT ![index + 1] = v] : v \in Received(class.fields[index + 1], value)}
    ELSE {}

Published(field, v) ==
    [type  |-> Types[field.control],
     value |-> CASE field.as = "bit" -> <<v>>
                 [] field.as = "char" -> IF v = 0 THEN <<>> ELSE <<v>>
                 [] field.as = "float16" -> <<v \div 100, v % 100>>
                 [] OTHER -> <<v, 0>>]

ToMqtt(class, cached) == [i \in DOMAIN class.fields |-> Published(class.fields[i], cached[i])]

-----------------------------------------------------------------------------
(* The raw data point: it caches octets; a text is a sequence of words,    *)
(* as in StringValueToByte.                                                *)

RawMaxSize == 15
Raw == [kind |-> "raw", main |-> 0]

\* RawData is cleared first and filled word by word: what was read before an
\* exception stays, one octet too many before the one about the length.
RawFromMqtt(words) ==
    LET readable == {k \in DOMAIN words : \A j \in 1 .. k : StringValueToByte(words[j]) # {}}
        read == IF Cardinality(readable) > RawMaxSize THEN RawMaxSize + 1 ELSE Cardinality(readable)
    IN  [cached |-> [k \in 1 .. read |-> Only(StringValueToByte(words[k]))],
         throws |-> read # Len(words) \/ read > RawMaxSize]

RawFromKnx(payload) == IF payload # <<>> THEN {payload} ELSE {}

RawToMqtt(cached) == [type |-> "words", value |-> [k \in DOMAIN cached |-> {cached[k]}]]
=============================================================================
