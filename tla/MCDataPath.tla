----------------------------- MODULE MCDataPath -----------------------------
(* Every class of data points on an object of its own, by the ETS tool or  *)
(* by a configuration of a user; values at the limits, beyond them and of  *)
(* the wrong type; payloads of the right and of the wrong length.          *)
EXTENDS DataPath

-----------------------------------------------------------------------------
(* Descriptors: those of the file for the ids that the configurations name *)

Code(c, n) == [code |-> c, width |-> n]
Sub(title, field, encoding) == [title |-> title, field |-> field, encoding |-> encoding]

\* Names by their alphabetical rank, e.g. Day, Hour, Minutes, Seconds; Year is
\* after Month.
MCDescriptors ==
    6 :> [title |-> "V8", encoding |-> <<Code("V", 8)>>, field |-> <<1>>,
          datapoint |-> 20 :> Sub("Status_with_Mode", <<1, 2, 3, 4, 5, 6>>, <<Code("B", 5), Code("N", 3)>>)]
    @@ 9 :> [title |-> "2-Octet_Float_Value", encoding |-> <<Code("F", 16)>>, field |-> <<1>>, datapoint |-> <<>>]
    @@ 10 :> [title |-> "Time", field |-> <<1, 2, 3, 4>>, datapoint |-> 1 :> Sub("Time_Of_Day", <<>>, <<>>),
              encoding |-> <<Code("N", 3), Code("U", 5), Code("r", 2), Code("U", 6), Code("r", 2), Code("U", 6)>>]
    @@ 11 :> [title |-> "Date", field |-> <<1, 2, 3>>, datapoint |-> 1 :> Sub("Date", <<>>, <<>>),
              encoding |-> <<Code("r", 3), Code("U", 5), Code("r", 4), Code("U", 4), Code("r", 1), Code("U", 7)>>]
    @@ 16 :> [title |-> "String", encoding |-> <<Code("A", 112)>>, field |-> <<1>>, datapoint |-> <<>>]
    @@ 18 :> [title |-> "Scene_Control", encoding |-> <<Code("B", 1), Code("r", 1), Code("U", 6)>>,
              field |-> <<1, 2>>, datapoint |-> <<>>]
    @@ 21 :> [title |-> "B8", encoding |-> <<Code("B", 8)>>, field |-> <<8, 7, 6, 5, 4, 3, 2, 1>>,
              datapoint |-> 1 :> Sub("StatusGen", <<1, 3, 5, 2, 4>>, <<Code("r", 3), Code("B", 5)>>)
                         @@ 2 :> Sub("DeviceControl", <<2, 1, 3>>, <<Code("r", 5), Code("B", 3)>>)]
    @@ 23 :> [title |-> "N2", encoding |-> <<Code("N", 2)>>, field |-> <<1>>, datapoint |-> <<>>]

-----------------------------------------------------------------------------
(* Exports                                                                 *)

Address(m, n, s, dpts) ==
    [tag |-> "GroupAddress", children |-> <<>>, address |-> <<{m}, {n}, {s}>>, dpts |-> dpts]
Numbered(n, dpts) == [tag |-> "GroupAddress", children |-> <<>>, address |-> <<n>>, dpts |-> dpts]
GroupRange(children) == [tag |-> "GroupRange", children |-> children, address |-> <<>>, dpts |-> {}]

Type(main) == {<<{main}>>}
TypeSub(main, sub) == {<<{main}, {sub}>>}
NoType == {}
NoNumbers == {<<>>}           \* a type without '-'
BadNumber == {<<{}>>}         \* a type whose number is none
BigNumber == {<<TooBig>>}     \* a type whose number no int holds
BigSub == {<<{1}, TooBig>>}

One(dpts) == <<<<Numbered({2561}, dpts)>>>>

MCExports ==
    {One(Type(m)) : m \in {1, 2, 3, 4, 5, 6, 7, 8, 9, 10, 11, 13, 14, 16, 20, 21, 22, 23}}
        \cup {One(TypeSub(9, 1)), One(TypeSub(6, 20)), One(TypeSub(10, 1)), One(TypeSub(12, 1)), One(Type(18))}
        \cup {One(NoType), One(NoNumbers), One(BadNumber), One(BigNumber), One(BigSub)}
        \cup {\* three levels: two middle groups of one main group, and another
              <<<<GroupRange(<<Address(1, 0, 1, NoType), Address(1, 0, 2, NoNumbers)>>),
                  GroupRange(<<Address(1, 1, 1, Type(1))>>), GroupRange(<<>>)>>,
                <<GroupRange(<<Address(2, 0, 1, Type(22))>>)>>>>,
              \* two levels: addresses of several middle groups in a main group
              <<<<Address(1, 0, 1, Type(1)), Address(1, 1, 1, NoType)>>, <<Address(2, 0, 1, NoType)>>>>,
              \* free: a range beside addresses, and one in another
              <<<<GroupRange(<<Address(3, 0, 1, NoType), GroupRange(<<Address(3, 0, 2, NoType)>>)>>),
                  Address(1, 0, 1, NoType), GroupRange(<<Address(1, 2, 1, NoType)>>)>>>>,
              \* addresses of four hexadecimal digits are read as 0; one is out of bounds
              <<<<Numbered({0}, NoType)>>>>, <<<<Numbered({65536}, NoType)>>>>, <<<<Numbered({}, NoType)>>>>}

\* As ETS writes it: DPTs="DPST-10-1".
TimeOfDay == {One(TypeSub(10, 1))}

-----------------------------------------------------------------------------
(* Configurations                                                          *)

Indented(name) == [name EXCEPT !.indented = TRUE]
JsonName(main, title) == Name("json", IdText(Id(main)), title)
JsonSub(main, sub, title) == Indented(Name("json", IdText(SubId(main, sub)), title))

WrittenBy(legacy, address, type) ==
    [legacy |-> legacy, devices |-> <<[id |-> <<>>, controls |-> <<[address |-> address, type |-> type]>>]>>]

MCConfigurations ==
    {WrittenBy(FALSE, <<{1}, {1025}>>, type) :
        type \in {JsonSub(6, 20, "Status_with_Mode"), JsonName(9, "2-Octet_Float_Value"),
                  JsonName(18, "SceneControl"), JsonSub(21, 1, "Status_Gen"),
                  Name("wb", IdText(SubId(12, 1)), "4-Octet_Unsigned_Value"),
                  Name("wb", IdText(Id(15)), "Access"), Name("bad", IdText(Id(0)), "")}}
        \cup {WrittenBy(TRUE, <<{9}, {7}, {55}>>, Name("wb", IdText(Id(1)), "B1")),
              WrittenBy(FALSE, <<{32}, {0}, {1}>>, RawValueString),
              WrittenBy(FALSE, <<{1}, {2}, {3}, {4}>>, RawValueString)}

-----------------------------------------------------------------------------
(* Values                                                                  *)

Bool(b) == [type |-> "bool", value |-> <<b>>]
Number(w, p) == [type |-> "number", value |-> <<w, p>>]
Chars(codes) == [type |-> "chars", value |-> codes]
Words(ns) == [type |-> "words", value |-> [k \in DOMAIN ns |-> {ns[k]}]]
Json(object) == [type |-> "json", value |-> object]
NotJson == [type |-> "json text", value |-> <<>>]

Long == [k \in 1 .. 16 |-> 255]

WbValues(main) ==
    CASE main \in {1, 2} -> {Bool(0), Bool(1), Number(1, 0)}
      [] main = 3 -> {Bool(0), Bool(1), Number(0, 0), Number(7, 0), Number(8, 0)}
      [] main = 4 -> {Chars(<<>>), Chars(<<65>>), Chars(<<255, 66>>), Bool(1)}
      [] main \in {5, 20} -> {Number(0, 0), Number(255, 0), Number(12, 50), Number(256, 0), Number(-1, 0)}
      [] main = 6 -> {Number(-128, 0), Number(127, 0), Number(-1, 50), Number(-2, 50), Number(128, 0)}
      [] main = 7 -> {Number(0, 0), Number(65535, 0), Number(256, 0), Number(65536, 0), Number(-1, 0)}
      [] main = 8 -> {Number(-32768, 0), Number(32767, 0), Number(-256, 0), Number(32768, 0)}
      [] main = 9 -> {Number(-671089, 36), Number(670760, 96), Number(20, 47), Number(20, 48),
                      Number(-21, 52), Number(-1, 99), Number(21, 51), Number(1000000, 0)}
      [] main = 12 -> {Number(0, 0), Number(2147483647, 0), Number(65536, 0)}
      [] main = 13 -> {Number(-2147483647 - 1, 0), Number(2147483647, 0), Number(-1, 0), Number(256, 0)}
      [] main = 14 -> {Number(1065353216, 0), Number(-1, 0), Number(0, 0)}

Object(values) == Json([n \in DOMAIN values |-> JsonNumber(values[n], 0)])

JsonValues(main) ==
    CASE main = 6  -> {Object(<<1, 0, 1, 0, 1, 7>>), Object(<<0, 1, 0, 1, 0, 8>>), Object(2 :> 1 @@ 9 :> 0)}
      [] main = 9  -> {Json(<<JsonNumber(670760, 96)>>), Json(<<JsonNumber(-671089, 36)>>), Json(<<JsonNumber(-1, 99)>>),
                       Json(<<JsonNumber(-265094, 89)>>), Json(<<JsonText(<<65>>)>>)}
      [] main = 10 -> {Object(<<7, 23, 59, 59>>), Object(<<0, 31, 0, 63>>), Object(3 :> 1),
                       Json(2 :> JsonText(<<65>>) @@ 5 :> Null)}
      [] main = 11 -> {Object(<<31, 12, 99>>), Object(3 :> -1), Object(<<>>)}
      [] main = 16 -> {Json(<<JsonText(<<75, 78, 88>>)>>), Json(<<JsonText(<<>>)>>),
                       Json(<<JsonText([k \in 1 .. 14 |-> 64 + k])>>)}
      [] main = 18 -> {Object(<<1, 63>>), Object(<<0, 0>>), Json(1 :> Null), NotJson,
                       Json(<<JsonNumber(0, 50), JsonNumber(-1, 50)>>)}
      [] main = 21 -> {Object(<<1, 0, 1, 1, 0>>), Object(<<0, 1, 0, 0, 0>>), Object(4 :> 2), Object(<<1, 0, 0, 0, 1, 1, 0, 1>>)}
      [] main = 23 -> {Object(<<3>>), Object(<<0>>), Object(<<4>>)}

MCUserValues(d) ==
    CASE d.kind = "raw"  -> {Words(<<0, 18>>), Words(<<200>>), Words(<<1, 256>>), Words(Long),
                             [type |-> "words", value |-> <<{7}, {8}, {}>>]}
      [] d.kind = "wb"   -> WbValues(d.main)
      [] d.kind = "json" -> JsonValues(d.main)

MCDevicePayloads(d) ==
    CASE d.kind = "raw" -> {<<5>>, <<0, 255, 1>>}
      [] d.kind = "wb" /\ d.size = 1 -> {<<0>>, <<1>>, <<2>>, <<15>>, <<9>>, <<0, 1>>}
      [] d.kind = "wb" /\ d.size = 2 -> {<<0, 255>>, <<0, 128>>, <<0, 0>>, <<1>>}
      [] d.kind = "wb" /\ d.size = 3 -> {<<0, 127, 254>>, <<0, 248, 0>>, <<0, 138, 1>>, <<0, 1>>}
      [] d.kind = "wb" /\ d.size = 5 -> {<<0, 127, 255, 255, 254>>, <<0, 1, 0, 0, 2>>, <<0, 1, 2>>}
      [] d.kind = "json" /\ d.size = 1 -> {<<2>>, <<63>>, <<0, 1>>}
      [] d.kind = "json" /\ d.size = 2 -> {<<0, 90>>, <<0, 165>>, <<0>>}
      [] d.kind = "json" /\ d.size = 3 -> {<<0, 127, 255>>, <<0, 248, 0>>, <<0, 138, 1>>}
      [] d.kind = "json" /\ d.size = 4 -> {<<0, 247, 59, 58>>, <<0, 66, 197, 227>>}
      [] d.kind = "json" /\ d.size = 15 -> {<<0>> \o [k \in 1 .. 14 |-> IF k < 4 THEN 70 + k ELSE 0], <<0, 65>>}

-----------------------------------------------------------------------------
(* Messages, packets and frames                                            *)

Text(group, dst, apci, data) == [group |-> group, src |-> <<>>, dst |-> dst, apci |-> apci, data |-> data]
Apci(name) == [name |-> name, number |-> {}]
At == <<{9}, {7}, {55}>>

MCMessages ==
    {Text(TRUE, At, Apci("GroupValueRead"), <<>>),
     Text(TRUE, At, Apci("GroupValueWrite"), <<{1}>>),
     Text(TRUE, <<{9}, {1847}>>, Apci("GroupValueResponse"), <<{0}>>),
     Text(TRUE, <<{20279}>>, Apci("GroupValueWrite"), <<{64}, {170}, {187}>>),
     Text(TRUE, At, [name |-> "", number |-> {26}], [k \in 1 .. 15 |-> {k}]),
     Text(TRUE, At, Apci("GroupValueWrite"), [k \in 1 .. 16 |-> {k}]),
     Text(TRUE, At, Apci(""), <<{1}>>),
     Text(TRUE, <<{9}, {8}, {55}>>, Apci("GroupValueRead"), <<>>),
     [Text(FALSE, <<{1}, {1}, {22}>>, Apci("GroupValueRead"), <<>>) EXCEPT !.src = <<{1}, {1}, {1}>>]}

\* Of a single octet, of a control telegram, to an address without an object.
MCDevicePackets ==
    {Packet(4360, 20279, <<0>>, Device), Packet(4360, 20279, <<129>>, Device),
     Packet(4360, 20280, <<0, 128, 255>>, Device)}

MCFrames ==
    [repeated : BOOLEAN, priority : {2}, src : {4374}, dst : {65024}, group : BOOLEAN, routing : {6},
     tpdu : {DefaultTpdu, [DefaultTpdu EXCEPT !.type = UCD, !.control = 3],
             [type |-> NDP, seq |-> 11, apci |-> 6, control |-> Connect, payload |-> [k \in 1 .. 15 |-> 17 * k % 64]]}]

\* The JSON objects that are not as installed for a type of the documents: the
\* texts, and the signed octet of main 6.
ASSUME InstalledAssumption ==
    \A d \in JsonDpts : AsInstalled(d) <=> d.main # 16 /\ ~ (d.main = 6 /\ Len(d.fields) = 1)
=============================================================================
