--------------------------- MODULE JsonDatapoint ---------------------------
(***************************************************************************)
(* The data points with one text control that holds a JSON object          *)
(* (dptjson.cpp, dptjsonfield.cpp) and how they are built from a           *)
(* descriptor of wb-mqtt-knx-jsondpt.conf (dptjsonbuilder.cpp).            *)
(*                                                                         *)
(* A field's name is a number, its rank in alphabetical order, which is    *)
(* the order in which jsoncpp walks over an object.  A JSON object is a    *)
(* function from names to values; a value is null, a number w + p/100 (1   *)
(* and 0 stand for true and false too) or a text of character codes.       *)
(***************************************************************************)
EXTENDS Datapoints

Null == [type |-> "null", value |-> <<>>]
JsonNumber(w, p) == [type |-> "number", value |-> <<w, p>>]
JsonText(codes) == [type |-> "text", value |-> codes]

EncodingMap == [B |-> "bit", N |-> "enum", A |-> "char", U |-> "unsigned", V |-> "signed", F |-> "float"]

\* An encoding is the sequence of its code letters and numbers; Bn is n fields.
ParseEncodingString(encoding) ==
    FlattenSeq([k \in DOMAIN encoding |->
                  IF encoding[k].code = "B" THEN [i \in 1 .. encoding[k].width |-> [code |-> "B", width |-> 1]]
                  ELSE <<encoding[k]>>])

SupportedFixedBitWidthList == [char |-> {8, 112}, signed |-> {8, 16, 32, 64}, float |-> {16, 32}]
Supported(as, width) == as \in DOMAIN SupportedFixedBitWidthList => width \in SupportedFixedBitWidthList[as]

AddField(dpt, name, as, width, at) ==
    LET last == (at + width - 1) \div 8 + 1
    IN  [dpt EXCEPT !.fields = Append(@, [name |-> name, as |-> as, width |-> width, at |-> at]),
                    !.size = IF last > @ THEN last ELSE @]

Widths(encoded) ==
    LET sum[k \in 0 .. Len(encoded)] == IF k = 0 THEN 0 ELSE sum[k - 1] + encoded[k].width
    IN  sum[Len(encoded)]

\* Six bits fit into the octet of the APCI; longer fields begin in the next.
FirstBit(encoded) == IF Widths(encoded) <= 6 THEN 8 - Widths(encoded) ELSE 8

\* One entry of the encoding: reserved bits, or the next field.
Place(names, e, d) ==
    [dpt |-> IF e.code = "r" THEN d.dpt
             ELSE AddField(d.dpt, names[Len(d.dpt.fields) + 1], EncodingMap[e.code], e.width, d.bit),
     bit |-> d.bit + e.width]

PlaceAll(main, names, encoded) ==
    LET placed[k \in 0 .. Len(encoded)] ==
            IF k = 0 THEN [dpt |-> [kind |-> "json", main |-> main, size |-> 0, fields |-> <<>>],
                           bit |-> FirstBit(encoded)]
            ELSE Place(names, encoded[k], placed[k - 1])
    IN  placed[Len(encoded)].dpt

\* The descriptors are a function from main ids; the datapoints of each are a
\* function from sub ids, whose field or encoding may be absent (<<>>).
JsonCreate(descriptors, id) ==
    LET main == descriptors[id.main]
        sub  == IF id.hasSub /\ id.sub \in DOMAIN main.datapoint
                THEN main.datapoint[id.sub] ELSE [field |-> <<>>, encoding |-> <<>>]
        names   == IF sub.field # <<>> THEN sub.field ELSE main.field
        encoded == ParseEncodingString(IF sub.encoding # <<>> THEN sub.encoding ELSE main.encoding)
    IN  CASE id.main \notin DOMAIN descriptors -> {}
          [] \E k \in DOMAIN encoded : encoded[k].code # "r" /\
                 ~ Supported(EncodingMap[encoded[k].code], encoded[k].width) -> {}
          [] OTHER -> {PlaceAll(id.main, names, encoded)}

-----------------------------------------------------------------------------
(* A field                                                                 *)

\* The characters of a string of 14 octets, without those that are zero.
NonZero(codes) ==
    LET kept[k \in 0 .. Len(codes)] ==
            IF k = 0 THEN <<>> ELSE IF codes[k] = 0 THEN kept[k - 1] ELSE Append(kept[k - 1], codes[k])
    IN  kept[Len(codes)]

FieldValue(field, bits) ==
    CASE field.as = "char" /\ field.width = 8 -> JsonText(<<Unsigned(bits)>>)
      [] field.as = "char" /\ field.width # 8 -> JsonText(NonZero(OctetsOf(bits)))
      [] field.as \in {"bit", "unsigned", "enum"} -> JsonNumber(Unsigned(bits), 0)
      [] field.as = "signed" -> JsonNumber(Signed(bits), 0)
      [] field.as = "float" /\ field.width = 16 ->
             LET h == RawToFloat16(Unsigned(bits)) IN JsonNumber(h \div 100, h % 100)
      [] field.as = "float" /\ field.width = 32 -> JsonNumber(Signed(bits), 0)

\* n/d, rounded to the nearest integer.
Round(n, d) == (n + d \div 2) \div d

\* The hundredths left when a number is cut to a float's 24 bits: from 2^17
\* on the float's steps are more than a hundredth.
AsFloat(hundredths) ==
    LET size  == IF hundredths < 0 THEN 0 - hundredths ELSE hundredths
        steps == IF size < 26214400 THEN 64 ELSE IF size < 52428800 THEN 32 ELSE 16
        near  == Round(Round(size * steps, 100) * 100, steps)
    IN  IF size < 13107200 THEN hundredths ELSE IF hundredths < 0 THEN 0 - near ELSE near

Padded(codes, n) == [k \in 1 .. n |-> IF k <= Len(codes) THEN codes[k] ELSE 0]

IsNumber(v) == v.type \in {"null", "number"}
NumberOf(v) == IF v = Null THEN <<0, 0>> ELSE v.value

\* Members as users write them; only texts for the characters.
JsonInput(field, v) ==
    /\ v.type \in {"null", "number", "text"}
    /\ v.type = "null" => v = Null
    /\ v.type = "text" => v.value \in Seq(0 .. 255)
    /\ v.type = "number" =>
           /\ field.as # "char" /\ v.value \in Int \X (0 .. 99)
           /\ field.as = "float" /\ field.width = 16 => Representable(AsFloat(v.value[1] * 100 + v.value[2]))

\* asBool, asUInt64, asInt64 and asFloat throw for a text, asUInt64 for a
\* negative number; null is zero.  (asString of a number is left out.)
GetRawValue(field, v) ==
    IF field.as # "char" /\ ~ IsNumber(v) THEN {}
    ELSE CASE field.as = "char" /\ field.width = 8 ->
                  {LowBits(IF v.value = <<>> THEN 0 ELSE v.value[1], 8)}
           [] field.as = "char" /\ field.width # 8 -> {BitsOf(Padded(v.value, 14))}
           [] field.as = "bit" -> {IF NumberOf(v) = <<0, 0>> THEN <<0>> ELSE <<1>>}
           [] field.as \in {"unsigned", "enum"} ->
                  IF NumberOf(v)[1] < 0 THEN {} ELSE {LowBits(NumberOf(v)[1], field.width)}
           [] field.as = "signed" -> {LowBits(Truncate(NumberOf(v)), field.width)}
           [] field.as = "float" /\ field.width = 16 ->
                  {LowBits(FloatToRaw16(AsFloat(NumberOf(v)[1] * 100 + NumberOf(v)[2])), 16)}
           [] field.as = "float" /\ field.width = 32 -> {LowBits(NumberOf(v)[1], 32)}

-----------------------------------------------------------------------------
(* The exchange                                                            *)

UnsizedInitial(dpt) == <<>>      \* fault: the cache does not grow with the fields
JsonInitial(dpt) == [i \in DOMAIN dpt.fields |-> Null]

JsonFromKnx(dpt, payload) ==
    IF Len(payload) = dpt.size
    THEN {[i \in DOMAIN dpt.fields |-> FieldValue(dpt.fields[i], FieldBits(BitsOf(payload), dpt.fields[i]))]}
    ELSE {}

JsonToKnx(dpt, cached) ==
    LET raw == [i \in DOMAIN dpt.fields |-> GetRawValue(dpt.fields[i], cached[i])]
    IN  IF \E i \in DOMAIN raw : raw[i] = {} THEN {}
        ELSE {Assemble(dpt.fields, [i \in DOMAIN raw |-> Only(raw[i])], dpt.size)}

\* fault: a member is inserted where there is none and never replaced
JsonInsert(dpt, cached, object) ==
    [cached |-> [i \in DOMAIN cached |->
                    IF cached[i] = Null /\ dpt.fields[i].name \in DOMAIN object
                    THEN object[dpt.fields[i].name] ELSE cached[i]],
     throws |-> \E n \in DOMAIN object : \A i \in DOMAIN dpt.fields : dpt.fields[i].name # n]

\* The members are taken in order up to the first that is no field; those
\* before it keep their new values when the exception is thrown.
JsonFromMqtt(dpt, cached, object) ==
    LET known == {dpt.fields[i].name : i \in DOMAIN dpt.fields}
        taken == {n \in DOMAIN object : \A m \in DOMAIN object : m <= n => m \in known}
    IN  [cached |-> [i \in DOMAIN cached |->
                        IF dpt.fields[i].name \in taken THEN object[dpt.fields[i].name] ELSE cached[i]],
         throws |-> taken # DOMAIN object]

JsonToMqtt(dpt, cached) ==
    [type  |-> "json",
     value |-> [n \in {dpt.fields[i].name : i \in DOMAIN dpt.fields} |->
                   cached[CHOOSE i \in DOMAIN dpt.fields : dpt.fields[i].name = n]]]
=============================================================================
