-------------------------- MODULE EtsConfig_proofs --------------------------
(* Theorems of EtsConfig and of the modules it is built from: the ids of   *)
(* data points, the catalog, the JSON data points a descriptor makes, and  *)
(* what a loaded export comes from.                                        *)
EXTENDS EtsConfig, KnxConverter_proofs, TLAPS

\* operator< is a strict order of ids, as std::map demands (datapointid.cpp:79).
THEOREM IdLessIsOrder ==
    /\ \A a \in Ids : ~ IdLess(a, a)
    /\ \A a, b, c \in Ids : IdLess(a, b) /\ IdLess(b, c) => IdLess(a, c)
BY DEF Ids, IdLess

\* The map takes two ids for the same exactly if operator== does; one without a
\* sub id is none of those with it, whatever is left in the Sub of the object.
THEOREM SameKeyIsEqual == \A a, b \in Ids : SameKey(a, b) <=> IdEqual(a, b)
BY DEF Ids, SameKey, IdLess, IdEqual

\* The catalogs write ids into names and the builder reads them from there: it
\* reads the id that was written (datapointid.cpp:47-72).
THEOREM NameRoundTrip ==
    ASSUME NEW id \in Ids, NEW kind \in {"wb", "json"}, NEW title,
           NEW read \in SetFromString(Name(kind, IdText(id), title))
    PROVE  SameKey(read, id)
<1>1. read = IF id.hasSub THEN SubId(id.main, id.sub) ELSE Id(id.main)
  <2>1. CASE id.hasSub
    BY <2>1 DEF Ids, SetFromString, Name, IdText, Id, SubId, SetSub
  <2>2. CASE ~ id.hasSub
    BY <2>2 DEF Ids, SetFromString, Name, IdText, Id, SubId, SetSub
  <2> QED
    BY <2>1, <2>2
<1>2. /\ read.hasSub = id.hasSub /\ read.main = id.main
      /\ id.hasSub => read.sub = id.sub
  BY <1>1 DEF Ids, Id, SubId
<1>3. id.main \in Nat /\ id.sub \in Nat /\ id.hasSub \in BOOLEAN
  BY DEF Ids
<1> QED
  BY <1>2, <1>3 DEF SameKey, IdLess

\* And no name a catalog writes for an id is refused.
THEOREM NameIsRead ==
    ASSUME NEW id \in Ids, NEW kind \in {"wb", "json"}, NEW title
    PROVE  SetFromString(Name(kind, IdText(id), title)) # {}
BY ZenonT(30) DEF Ids, SetFromString, Name, IdText, Id, SetSub

-----------------------------------------------------------------------------
(* The catalog                                                             *)

Main(m, id) == id = Id(m) \/ \E s \in Nat : id = SubId(m, s)
CatalogIds == {id \in Ids : ~ id.hasSub => id.sub = 0}

LEMMA SameIsEqual ==
    ASSUME NEW a \in CatalogIds, NEW b \in CatalogIds
    PROVE  SameKey(a, b) <=> a = b
<1>1. a \in Ids /\ b \in Ids
  BY DEF CatalogIds
<1>2. IdEqual(a, b) <=> a = b
  BY DEF CatalogIds, Ids, IdEqual
<1> QED
  BY <1>1, <1>2, SameKeyIsEqual

LEMMA FindDef ==
    ASSUME NEW map, DOMAIN map \subseteq CatalogIds, NEW id \in CatalogIds
    PROVE  Find(map, id) = IF id \in DOMAIN map THEN {map[id]} ELSE {}
<1>1. \A j \in DOMAIN map : SameKey(j, id) <=> j = id
  BY SameIsEqual
<1> QED
  BY <1>1 DEF Find

LEMMA IdFacts ==
    ASSUME NEW m \in Nat
    PROVE  /\ Id(m) \in CatalogIds /\ ClearSub(Id(m)) = Id(m) /\ ~ Id(m).hasSub /\ Id(m).main = m
           /\ \A n \in Nat : Id(m) = Id(n) => m = n
           /\ \A s \in Nat : /\ SubId(m, s) \in CatalogIds /\ SubId(m, s).hasSub /\ SubId(m, s).main = m
                             /\ SubId(m, s).sub = s
                             /\ ClearSub(SubId(m, s)) = Id(m) /\ SetSub(Id(m), s) = SubId(m, s)
                             /\ \A n \in Nat : Id(n) # SubId(m, s)
<1>1. Id(m) \in CatalogIds /\ \A s \in Nat : SubId(m, s) \in CatalogIds
  BY DEF CatalogIds, Ids, Id, SubId
<1>2. ClearSub(Id(m)) = Id(m) /\ ~ Id(m).hasSub /\ Id(m).main = m
  BY DEF ClearSub, Id
<1>3. \A n \in Nat : Id(m) = Id(n) => m = n
  BY DEF Id
<1>4. ASSUME NEW s \in Nat
      PROVE  /\ SubId(m, s).hasSub /\ SubId(m, s).main = m /\ SubId(m, s).sub = s
             /\ ClearSub(SubId(m, s)) = Id(m) /\ SetSub(Id(m), s) = SubId(m, s)
             /\ \A n \in Nat : Id(n) # SubId(m, s)
  BY DEF Id, SubId, ClearSub, SetSub
<1> QED
  BY <1>1, <1>2, <1>3, <1>4

WbMains == 1 .. 9 \cup {12, 13, 14, 20}

LEMMA CatalogMains == {d[1] : d \in DptsCatalog} = WbMains
BY DEF DptsCatalog, WbMains

LEMMA WbNamesDef ==
    /\ DOMAIN WbNames = {Id(m) : m \in {0} \cup WbMains}
    /\ WbNames[Id(0)] = RawValueString
    /\ \A m \in WbMains : \E title : WbNames[Id(m)] = Name("wb", IdText(Id(m)), title)
<1> DEFINE I == {Id(0)} \cup {Id(d[1]) : d \in DptsCatalog}
<1>1. DOMAIN WbNames = I
  BY DEF WbNames
<1>2. I = {Id(m) : m \in {0} \cup WbMains}
  <2>1. {Id(d[1]) : d \in DptsCatalog} = {Id(m) : m \in {d[1] : d \in DptsCatalog}}
    OBVIOUS
  <2> QED
    BY <2>1, CatalogMains
<1> HIDE DEF I
<1>3. WbNames[Id(0)] = RawValueString
  BY <1>1, <1>2 DEF WbNames
<1>4. ASSUME NEW m \in WbMains PROVE \E title : WbNames[Id(m)] = Name("wb", IdText(Id(m)), title)
  <2>1. m \in Nat /\ m # 0
    BY DEF WbMains
  <2>2. Id(m) \in I /\ Id(m) # Id(0)
    BY <1>2, <2>1, IdFacts
  <2> QED
    BY <1>1, <2>2 DEF WbNames
<1> QED
  BY <1>1, <1>2, <1>3, <1>4

JsonIds == {Id(m) : m \in DOMAIN Descriptors} \cup
           UNION {{SetSub(Id(m), s) : s \in DOMAIN Descriptors[m].datapoint} : m \in DOMAIN Descriptors}

LEMMA JsonNamesDef ==
    /\ DOMAIN JsonNames = JsonIds /\ JsonIds \subseteq CatalogIds
    /\ \A m \in DOMAIN Descriptors : Id(m) \in JsonIds
    /\ \A id \in JsonIds : id.main \in DOMAIN Descriptors /\ Main(id.main, id)
    /\ \A id \in JsonIds : \E title : JsonNames[id] = Name("json", IdText(id), title)
<1>1. DOMAIN JsonNames = JsonIds
  BY DEF JsonNames, JsonIds
<1>2. \A m \in DOMAIN Descriptors : Id(m) \in JsonIds
  BY DEF JsonIds
<1>3. \A id \in JsonIds : \E m \in DOMAIN Descriptors : Main(m, id) /\ id.main = m /\ id \in CatalogIds
  <2> TAKE id \in JsonIds
  <2>1. CASE \E m \in DOMAIN Descriptors : id = Id(m)
    BY <2>1, IdFacts, DescriptorsAssumption DEF Main
  <2>2. CASE \E m \in DOMAIN Descriptors : \E s \in DOMAIN Descriptors[m].datapoint : id = SetSub(Id(m), s)
    <3>1. PICK m \in DOMAIN Descriptors : \E s \in DOMAIN Descriptors[m].datapoint : id = SetSub(Id(m), s)
      BY <2>2
    <3>2. PICK s \in DOMAIN Descriptors[m].datapoint : id = SetSub(Id(m), s)
      BY <3>1
    <3>3. m \in Nat /\ s \in Nat
      BY DescriptorsAssumption
    <3> QED
      BY <3>2, <3>3, IdFacts DEF Main
  <2> QED
    BY <2>1, <2>2 DEF JsonIds
<1>4. \A id \in JsonIds : \E title : JsonNames[id] = Name("json", IdText(id), title)
  BY <1>1 DEF JsonNames
<1> QED
  BY <1>1, <1>2, <1>3, <1>4

\* The names an exported type of main number m may get.
TypeFor(m, type) ==
    IF m \in WbMains THEN \E title : type = Name("wb", IdText(Id(m)), title)
    ELSE IF m \in DOMAIN Descriptors
    THEN \E id, title : Main(m, id) /\ type = Name("json", IdText(id), title)
    ELSE type = RawValueString

LEMMA NameOf ==
    ASSUME NEW m \in Nat, NEW id, Main(m, id)
    PROVE  /\ GetDptConfigName(WbNames, id) = IF m \in {0} \cup WbMains THEN {WbNames[Id(m)]} ELSE {}
           /\ m \notin DOMAIN Descriptors => GetDptConfigName(JsonNames, id) = {}
           /\ m \in DOMAIN Descriptors => GetDptConfigName(JsonNames, id) # {}
           /\ \A n \in GetDptConfigName(JsonNames, id) :
                  \E x, title : Main(m, x) /\ n = Name("json", IdText(x), title)
<1>1. id \in CatalogIds /\ Id(m) \in CatalogIds /\ ClearSub(id) = Id(m)
  BY IdFacts DEF Main
<1>2. 0 \in Nat /\ WbMains \subseteq Nat
  BY DEF WbMains
<1>3. DOMAIN WbNames \subseteq CatalogIds
  <2>1. \A n \in {0} \cup WbMains : n \in Nat
    BY <1>2
  <2>2. \A n \in Nat : Id(n) \in CatalogIds
    BY IdFacts, Zenon
  <2> QED
    BY <2>1, <2>2, WbNamesDef
<1>4. Id(m) \in DOMAIN WbNames <=> m \in {0} \cup WbMains
  <2> DEFINE M == {0} \cup WbMains
  <2>1. M \subseteq Nat
    BY <1>2
  <2>2. DOMAIN WbNames = {Id(n) : n \in M}
    BY WbNamesDef
  <2>3. \A n \in Nat : Id(m) = Id(n) => m = n
    BY IdFacts, Zenon
  <2> HIDE DEF M
  <2>4. Id(m) \in DOMAIN WbNames => m \in M
    BY <2>1, <2>2, <2>3
  <2>5. m \in M => Id(m) \in DOMAIN WbNames
    BY <2>2
  <2> QED
    BY <2>4, <2>5 DEF M
<1>5. id.hasSub => id \notin DOMAIN WbNames
  <2> DEFINE M == {0} \cup WbMains
  <2>1. M \subseteq Nat
    BY <1>2
  <2>2. DOMAIN WbNames = {Id(n) : n \in M}
    BY WbNamesDef
  <2>3. \A n \in Nat : ~ Id(n).hasSub
    BY IdFacts, Zenon
  <2> HIDE DEF M
  <2> QED
    BY <2>1, <2>2, <2>3
<1>6. GetDptConfigName(WbNames, id) = IF m \in {0} \cup WbMains THEN {WbNames[Id(m)]} ELSE {}
  BY <1>1, <1>3, <1>4, <1>5, FindDef DEF GetDptConfigName
<1> DEFINE G == GetDptConfigName(JsonNames, id)
<1>7. G = IF id.hasSub /\ id \in JsonIds THEN {JsonNames[id]} ELSE IF Id(m) \in JsonIds THEN {JsonNames[Id(m)]} ELSE {}
  BY <1>1, JsonNamesDef, FindDef DEF GetDptConfigName
<1> HIDE DEF G
<1>8. id.main = m /\ Id(m).main = m /\ Main(m, Id(m))
  BY IdFacts DEF Main
<1>9. m \notin DOMAIN Descriptors => id \notin JsonIds /\ Id(m) \notin JsonIds
  BY <1>8, JsonNamesDef
<1>10. m \in DOMAIN Descriptors => Id(m) \in JsonIds
  BY JsonNamesDef
<1>11. \A n \in G : \E x, title : Main(m, x) /\ n = Name("json", IdText(x), title)
  BY <1>7, <1>8, JsonNamesDef
<1> QED
  BY <1>6, <1>7, <1>9, <1>10, <1>11 DEF G

\* What the tool writes for a type: nothing if its numbers are out of range, else
\* a name for its main number.
LEMMA ExportedType ==
    ASSUME NEW d \in Seq(Numbers), NEW type \in DatapointTypeExportToConfig(d)
    PROVE  type = Dropped \/ (d # <<>> /\ \E m \in d[1] : m \in Nat /\ TypeFor(m, type))
<1>1. CASE OutOfRange(d)
  BY <1>1 DEF DatapointTypeExportToConfig
<1>2. CASE ~ OutOfRange(d)
  <2>a. d # <<>> /\ d[1] # TooBig /\ (Len(d) = 2 /\ d[1] # {} => d[2] # TooBig)
    BY <1>2 DEF OutOfRange
  <2> DEFINE ids == {IF Len(d) = 2 THEN SubId(m, s) ELSE Id(m) : m \in d[1], s \in IF Len(d) = 2 THEN d[2] ELSE {0}}
             N(id) == IF GetDptConfigName(WbNames, id) # {} THEN GetDptConfigName(WbNames, id)
                      ELSE IF GetDptConfigName(JsonNames, id) # {} THEN GetDptConfigName(JsonNames, id)
                      ELSE {DefaultName}
  <2>0. DatapointTypeExportToConfig(d) = UNION {N(id) : id \in ids}
    BY <1>2 DEF DatapointTypeExportToConfig
  <2>1. PICK id \in ids : type \in N(id)
    <3> HIDE DEF ids, N
    <3> QED
      BY <2>0
  <2>2. PICK m \in d[1] : \E s \in IF Len(d) = 2 THEN d[2] ELSE {0} : id = IF Len(d) = 2 THEN SubId(m, s) ELSE Id(m)
    BY <2>1
  <2>3. PICK s \in IF Len(d) = 2 THEN d[2] ELSE {0} : id = IF Len(d) = 2 THEN SubId(m, s) ELSE Id(m)
    BY <2>2
  <2>4. Len(d) \in Nat /\ Len(d) # 0 /\ d \in [1 .. Len(d) -> Numbers]
    BY <2>a
  <2>5. d[1] \in Numbers /\ (Len(d) = 2 => d[2] \in Numbers)
    BY <2>4
  <2>6. m \in Nat /\ s \in Nat
    BY <2>a, <2>2, <2>3, <2>5 DEF Numbers
  <2>7. Main(m, id)
    BY <2>3, <2>6 DEF Main
  <2> HIDE DEF ids
  <2>8. CASE m \in {0} \cup WbMains
    <3>0. GetDptConfigName(WbNames, id) = {WbNames[Id(m)]}
      <4>1. GetDptConfigName(WbNames, id) = IF m \in {0} \cup WbMains THEN {WbNames[Id(m)]} ELSE {}
        BY <2>6, <2>7, NameOf
      <4> QED
        BY <2>8, <4>1
    <3>1. type = WbNames[Id(m)]
      <4>1. GetDptConfigName(WbNames, id) # {}
        BY <3>0
      <4>2. N(id) = GetDptConfigName(WbNames, id)
        BY <4>1
      <4> HIDE DEF N
      <4> QED
        BY <2>1, <3>0, <4>2
    <3>2. 0 \notin DOMAIN Descriptors /\ 0 \notin WbMains
      BY DescriptorsAssumption DEF WbMains
    <3>3. TypeFor(m, type)
      BY <2>8, <3>1, <3>2, WbNamesDef DEF TypeFor
    <3> QED
      BY <2>a, <2>6, <3>3
  <2>9. CASE m \notin {0} \cup WbMains /\ m \in DOMAIN Descriptors
    <3>1. type \in GetDptConfigName(JsonNames, id)
      BY <2>1, <2>6, <2>7, <2>9, NameOf
    <3>2. TypeFor(m, type)
      BY <2>6, <2>7, <2>9, <3>1, NameOf DEF TypeFor
    <3> QED
      BY <2>a, <2>6, <3>2
  <2>10. CASE m \notin {0} \cup WbMains /\ m \notin DOMAIN Descriptors
    <3>1. type = DefaultName
      BY <2>1, <2>6, <2>7, <2>10, NameOf
    <3>2. TypeFor(m, type)
      BY <2>10, <3>1 DEF TypeFor, DefaultName
    <3> QED
      BY <2>a, <2>6, <3>2
  <2> QED
    BY <2>8, <2>9, <2>10
<1> QED
  BY <1>1, <1>2
-----------------------------------------------------------------------------
(* The data points a name stands for                                       *)

\* An entry of an encoding that can be built.
IsEntry(e) ==
    /\ e.width \in Nat
    /\ e.code \in {"r"} \cup DOMAIN EncodingMap
    /\ e.code # "r" => Supported(EncodingMap[e.code], e.width)
    /\ e.code = "B" => e.width = 1

LEMMA ParseType ==
    ASSUME NEW encoding, Buildable(encoding)
    PROVE  \E E : ParseEncodingString(encoding) \in Seq(E) /\ \A e \in E : IsEntry(e)
<1> DEFINE b == [code |-> "B", width |-> 1]
           E == {encoding[k] : k \in {j \in DOMAIN encoding : encoding[j].code # "B"}} \cup {b}
           n == Len(encoding)
           P(k) == IF encoding[k].code = "B" THEN [i \in 1 .. encoding[k].width |-> [code |-> "B", width |-> 1]]
                   ELSE <<encoding[k]>>
           parts == [k \in DOMAIN encoding |-> P(k)]
<1>1. encoding \in Seq({encoding[k] : k \in DOMAIN encoding})
  BY DEF Buildable, IsSequence
<1>2. n \in Nat /\ DOMAIN encoding = 1 .. n
  BY <1>1
<1>3. IsEntry(b)
  <2>1. b.width \in Nat /\ b.code = "B" /\ b.width = 1
    OBVIOUS
  <2>2. "B" \in DOMAIN EncodingMap /\ EncodingMap["B"] = "bit"
    BY DEF EncodingMap
  <2>3. "bit" \notin DOMAIN SupportedFixedBitWidthList
    BY DEF SupportedFixedBitWidthList
  <2> QED
    BY <2>1, <2>2, <2>3 DEF IsEntry, Supported
<1>4. \A k \in DOMAIN encoding : encoding[k].width \in Nat /\ (encoding[k].code # "B" => IsEntry(encoding[k]))
  BY DEF Buildable, IsEntry
<1>5. \A e \in E : IsEntry(e)
  BY <1>3, <1>4
<1>6. ASSUME NEW k \in 1 .. n PROVE P(k) \in Seq(E)
  <2>1. (encoding[k].code # "B" => encoding[k] \in E) /\ encoding[k].width \in Nat
    BY <1>2, <1>4
  <2>2. b \in E
    OBVIOUS
  <2> HIDE DEF E
  <2>3. [i \in 1 .. encoding[k].width |-> b] \in Seq(E)
    <3> DEFINE w == encoding[k].width
    <3>1. [i \in 1 .. w |-> b] \in [1 .. w -> E]
      BY <2>2
    <3>2. w \in Nat
      BY <2>1
    <3> HIDE DEF w, b
    <3>3. [i \in 1 .. w |-> b] \in Seq(E)
      BY <3>1, <3>2, FunctionIsSequence
    <3> QED
      BY <3>3 DEF w
  <2>4. encoding[k].code # "B" => <<encoding[k]>> \in Seq(E)
    BY <2>1
  <2> QED
    BY <2>3, <2>4
<1> HIDE DEF E, P, n
<1>7. parts \in [1 .. n -> Seq(E)]
  BY <1>2, <1>6
<1>8. parts \in Seq(Seq(E))
  BY <1>2, <1>7, FunctionIsSequence
<1>9. ParseEncodingString(encoding) = FlattenSeq(parts)
  BY DEF ParseEncodingString, P
<1>10. ParseEncodingString(encoding) \in Seq(E)
  <2> HIDE DEF parts
  <2> QED
    BY <1>8, <1>9, FlattenSeqDef DEF Flattened
<1> QED
  BY <1>5, <1>10

LEMMA WidthsType ==
    ASSUME NEW E, NEW encoded \in Seq(E), \A e \in E : IsEntry(e)
    PROVE  Widths(encoded) \in Nat /\ FirstBit(encoded) \in Nat
<1> DEFINE n == Len(encoded)
           step == [k \in 1 .. n |-> [v \in Nat |-> v + encoded[k].width]]
           Def(v) == [k \in 0 .. n |-> IF k = 0 THEN 0 ELSE v[k - 1] + encoded[k].width]
           F == CHOOSE v : v = Def(v)
<1>1. n \in Nat /\ \A k \in 1 .. n : encoded[k].width \in Nat
  BY DEF IsEntry
<1>2. Widths(encoded) = F[n]
  BY DEF Widths
<1> HIDE DEF n
<1>3. step \in [1 .. n -> [Nat -> Nat]]
  BY <1>1
<1>4. PICK f : Steps(f, n, Nat, 0, step)
  <2> HIDE DEF step
  <2> QED
    BY <1>1, <1>3, Recursion DEF Defined
<1>5. f = Def(f)
  <2>1. ASSUME NEW k \in 1 .. n PROVE f[k] = f[k - 1] + encoded[k].width
    <3>1. k - 1 \in 0 .. n
      BY <1>1
    <3>2. f[k - 1] \in Nat
      BY <1>4, <3>1 DEF Steps
    <3> QED
      BY <1>4, <3>2 DEF Steps
  <2>2. \A k \in 0 .. n : f[k] = IF k = 0 THEN 0 ELSE f[k - 1] + encoded[k].width
    BY <1>1, <1>4, <2>1 DEF Steps
  <2>3. f = [k \in 0 .. n |-> f[k]]
    BY <1>4 DEF Steps
  <2> QED
    BY <2>2, <2>3
<1>6. F = Def(F)
  <2> HIDE DEF Def
  <2> QED
    BY <1>5
<1> HIDE DEF F
<1>7. F[0] = 0 /\ \A k \in 1 .. n : F[k] = F[k - 1] + encoded[k].width
  BY <1>1, <1>6
<1> DEFINE T == {k \in 0 .. n : F[k] \in Nat}
<1>8. 0 \in T
  BY <1>1, <1>7
<1>9. ASSUME NEW k \in 1 .. n, k - 1 \in T PROVE k \in T
  <2>1. k \in 0 .. n /\ F[k] = F[k - 1] + encoded[k].width /\ F[k - 1] \in Nat /\ encoded[k].width \in Nat
    BY <1>1, <1>7, <1>9
  <2> QED
    BY <2>1
<1>10. 0 .. n \subseteq T
  <2> HIDE DEF T
  <2> QED
    BY <1>1, <1>8, <1>9, Upto
<1>11. Widths(encoded) \in Nat
  BY <1>1, <1>2, <1>10
<1> QED
  BY <1>11 DEF FirstBit
JsonFieldSet(N) ==
    {f \in [name : N, as : {"bit", "enum", "char", "unsigned", "signed", "float"}, width : Nat, at : Nat] :
        Supported(f.as, f.width) /\ (f.as = "bit" => f.width = 1)}
JsonFieldsIn(fields, size) == \A i \in DOMAIN fields : fields[i].at + fields[i].width <= 8 * size
JsonClasses(main, N) ==
    {d \in [kind : {"json"}, main : {main}, size : Nat, fields : Seq(JsonFieldSet(N))] : JsonFieldsIn(d.fields, d.size)}

LEMMA EncodedAs ==
    \A c \in DOMAIN EncodingMap :
        /\ EncodingMap[c] \in {"bit", "enum", "char", "unsigned", "signed", "float"}
        /\ EncodingMap[c] = "bit" => c = "B"
BY DEF EncodingMap

LEMMA AddFieldType ==
    ASSUME NEW main, NEW N, NEW dpt \in JsonClasses(main, N), NEW name \in N,
           NEW as \in {"bit", "enum", "char", "unsigned", "signed", "float"},
           NEW width \in Nat, NEW at \in Nat, Supported(as, width), as = "bit" => width = 1
    PROVE  AddField(dpt, name, as, width, at) \in JsonClasses(main, N)
<1> DEFINE last == (at + width - 1) \div 8 + 1
           f == [name |-> name, as |-> as, width |-> width, at |-> at]
           fields == dpt.fields
           size == dpt.size
           fs == Append(fields, f)
           sz == IF last > size THEN last ELSE size
<1>1. size \in Nat /\ fields \in Seq(JsonFieldSet(N)) /\ JsonFieldsIn(fields, size)
  BY DEF JsonClasses
<1>2. f \in JsonFieldSet(N) /\ f.at = at /\ f.width = width
  BY DEF JsonFieldSet
<1>3. last \in Int /\ at + width <= 8 * last
  <2> DEFINE n == at + width
  <2>1. n \in Nat /\ last = (n - 1) \div 8 + 1
    OBVIOUS
  <2> HIDE DEF n, last
  <2>2. last \in Int /\ n <= 8 * last
    BY <2>1
  <2> QED
    BY <2>2 DEF n
<1>4. AddField(dpt, name, as, width, at) = [dpt EXCEPT !.fields = fs, !.size = sz]
  BY DEF AddField
<1> HIDE DEF f, last, fields, size
<1>5. sz \in Nat /\ size <= sz /\ last <= sz
  BY <1>1, <1>3
<1> HIDE DEF sz
<1>6. fs \in Seq(JsonFieldSet(N)) /\ JsonFieldsIn(fs, sz)
  <2>1. fs \in Seq(JsonFieldSet(N)) /\ DOMAIN fs = 1 .. Len(fields) + 1 /\ Len(fields) \in Nat
    BY <1>1, <1>2
  <2>2. ASSUME NEW i \in DOMAIN fs PROVE fs[i].at + fs[i].width <= 8 * sz
    <3>1. CASE i = Len(fields) + 1
      <4>1. fs[i] = f
        BY <1>1, <3>1
      <4> QED
        BY <1>2, <1>3, <1>5, <4>1
    <3>2. CASE i # Len(fields) + 1
      <4>1. i \in DOMAIN fields /\ fs[i] = fields[i]
        BY <1>1, <2>1, <3>2
      <4>2. fields[i] \in JsonFieldSet(N)
        BY <1>1, <4>1
      <4>3. fields[i].at \in Nat /\ fields[i].width \in Nat
        BY <4>2 DEF JsonFieldSet
      <4>4. fields[i].at + fields[i].width <= 8 * size
        BY <1>1, <4>1 DEF JsonFieldsIn
      <4> QED
        BY <1>1, <1>5, <4>1, <4>3, <4>4
    <3> QED
      BY <3>1, <3>2
  <2> QED
    BY <2>1, <2>2 DEF JsonFieldsIn
<1> HIDE DEF fs
<1>7. dpt \in [kind : {"json"}, main : {main}, size : Nat, fields : Seq(JsonFieldSet(N))]
  BY DEF JsonClasses
<1> DEFINE made == [dpt EXCEPT !.fields = fs, !.size = sz]
<1>8. made \in [kind : {"json"}, main : {main}, size : Nat, fields : Seq(JsonFieldSet(N))]
  BY <1>5, <1>6, <1>7
<1>9. made.fields = fs /\ made.size = sz
  BY <1>7
<1> HIDE DEF made
<1>10. made \in JsonClasses(main, N)
  BY <1>6, <1>8, <1>9 DEF JsonClasses
<1> QED
  BY <1>4, <1>10 DEF made

LEMMA PlaceType ==
    ASSUME NEW main, NEW N, NEW names, \A k \in Nat : names[k] \in N, NEW e, IsEntry(e),
           NEW d \in [dpt : JsonClasses(main, N), bit : Nat]
    PROVE  Place(names, e, d) \in [dpt : JsonClasses(main, N), bit : Nat]
<1>1. d.dpt \in JsonClasses(main, N) /\ d.bit \in Nat /\ e.width \in Nat
  BY DEF IsEntry
<1>2. d.bit + e.width \in Nat
  BY <1>1
<1>3. CASE e.code = "r"
  BY <1>1, <1>2, <1>3 DEF Place
<1>4. CASE e.code # "r"
  <2>1. /\ e.code \in DOMAIN EncodingMap /\ Supported(EncodingMap[e.code], e.width)
        /\ EncodingMap[e.code] = "bit" => e.width = 1
    BY <1>4, EncodedAs DEF IsEntry
  <2>2. names[Len(d.dpt.fields) + 1] \in N
    <3>1. d.dpt.fields \in Seq(JsonFieldSet(N))
      BY <1>1 DEF JsonClasses
    <3>2. Len(d.dpt.fields) + 1 \in Nat
      BY <3>1
    <3> QED
      BY <3>2
  <2>3. AddField(d.dpt, names[Len(d.dpt.fields) + 1], EncodingMap[e.code], e.width, d.bit) \in JsonClasses(main, N)
    BY <1>1, <2>1, <2>2, EncodedAs, AddFieldType
  <2> QED
    BY <1>2, <1>4, <2>3 DEF Place
<1> QED
  BY <1>3, <1>4

LEMMA PlaceAllType ==
    ASSUME NEW main, NEW names, NEW E, NEW encoded \in Seq(E), \A e \in E : IsEntry(e)
    PROVE  \E N : PlaceAll(main, names, encoded) \in JsonClasses(main, N)
<1> DEFINE n == Len(encoded)
           N == {names[k] : k \in Nat}
           S == [dpt : JsonClasses(main, N), bit : Nat]
           first == [dpt |-> [kind |-> "json", main |-> main, size |-> 0, fields |-> <<>>], bit |-> FirstBit(encoded)]
           step == [k \in 1 .. n |-> [v \in S |-> Place(names, encoded[k], v)]]
           Def(v) == [k \in 0 .. n |-> IF k = 0 THEN first ELSE Place(names, encoded[k], v[k - 1])]
           F == CHOOSE v : v = Def(v)
<1>1. n \in Nat /\ \A k \in 1 .. n : IsEntry(encoded[k])
  OBVIOUS
<1>2. PlaceAll(main, names, encoded) = F[n].dpt
  BY DEF PlaceAll
<1>3. first \in S
  <2>1. FirstBit(encoded) \in Nat
    BY WidthsType
  <2>2. <<>> \in Seq(JsonFieldSet(N))
    OBVIOUS
  <2>3. [kind |-> "json", main |-> main, size |-> 0, fields |-> <<>>] \in JsonClasses(main, N)
    BY <2>2 DEF JsonClasses, JsonFieldsIn
  <2> QED
    BY <2>1, <2>3
<1>4. \A k \in Nat : names[k] \in N
  OBVIOUS
<1> HIDE DEF n, N
<1>5. \A k \in 1 .. n : \A v \in S : Place(names, encoded[k], v) \in S
  BY <1>1, <1>4, PlaceType
<1> HIDE DEF S, first
<1>6. step \in [1 .. n -> [S -> S]]
  BY <1>5
<1>7. PICK f : Steps(f, n, S, first, step)
  <2> HIDE DEF step
  <2> QED
    BY <1>1, <1>3, <1>6, Recursion DEF Defined
<1>8. f = Def(f)
  <2>1. ASSUME NEW k \in 1 .. n PROVE f[k] = Place(names, encoded[k], f[k - 1])
    <3>1. k - 1 \in 0 .. n
      BY <1>1
    <3>2. f[k - 1] \in S
      BY <1>7, <3>1 DEF Steps
    <3> QED
      BY <1>7, <3>2 DEF Steps
  <2>2. \A k \in 0 .. n : f[k] = IF k = 0 THEN first ELSE Place(names, encoded[k], f[k - 1])
    BY <1>1, <1>7, <2>1 DEF Steps
  <2>3. f = [k \in 0 .. n |-> f[k]]
    BY <1>7 DEF Steps
  <2> QED
    BY <2>2, <2>3
<1>9. F = Def(F)
  <2> HIDE DEF Def
  <2> QED
    BY <1>8
<1> HIDE DEF F
<1>10. F[0] = first /\ \A k \in 1 .. n : F[k] = Place(names, encoded[k], F[k - 1])
  BY <1>1, <1>9
<1> DEFINE T == {k \in 0 .. n : F[k] \in S}
<1>11. 0 \in T
  BY <1>1, <1>3, <1>10
<1>12. ASSUME NEW k \in 1 .. n, k - 1 \in T PROVE k \in T
  <2>1. k \in 0 .. n /\ F[k] = Place(names, encoded[k], F[k - 1]) /\ F[k - 1] \in S
    BY <1>1, <1>10, <1>12
  <2> QED
    BY <1>5, <2>1
<1>13. 0 .. n \subseteq T
  <2> HIDE DEF T
  <2> QED
    BY <1>1, <1>11, <1>12, Upto
<1>14. F[n] \in S
  BY <1>1, <1>13
<1>15. F[n].dpt \in JsonClasses(main, N)
  BY <1>14 DEF S
<1> QED
  BY <1>2, <1>15

\* A name for a main number makes a JSON data point of it.
LEMMA JsonCreateType ==
    ASSUME NEW m \in DOMAIN Descriptors, NEW id, Main(m, id)
    PROVE  /\ JsonCreate(Descriptors, id) # {}
           /\ \A d \in JsonCreate(Descriptors, id) : \E N : d \in JsonClasses(m, N)
<1> DEFINE main == Descriptors[id.main]
           sub  == IF id.hasSub /\ id.sub \in DOMAIN main.datapoint
                   THEN main.datapoint[id.sub] ELSE [field |-> <<>>, encoding |-> <<>>]
           names   == IF sub.field # <<>> THEN sub.field ELSE main.field
           encoding == IF sub.encoding # <<>> THEN sub.encoding ELSE main.encoding
           encoded == ParseEncodingString(encoding)
<1>1. m \in Nat /\ id.main = m
  BY IdFacts, DescriptorsAssumption DEF Main
<1>2. Buildable(encoding)
  <2>1. Buildable(main.encoding) /\ \A s \in DOMAIN main.datapoint : Buildable(main.datapoint[s].encoding)
    BY <1>1, DescriptorsAssumption
  <2> HIDE DEF main
  <2>2. CASE id.hasSub /\ id.sub \in DOMAIN main.datapoint
    BY <2>1, <2>2
  <2>3. CASE ~ (id.hasSub /\ id.sub \in DOMAIN main.datapoint)
    <3>1. sub = [field |-> <<>>, encoding |-> <<>>]
      BY <2>3
    <3>2. sub.encoding = <<>>
      BY <3>1
    <3> QED
      BY <2>1, <3>2
  <2> QED
    BY <2>2, <2>3
<1> HIDE DEF encoding, names
<1>3. PICK E : encoded \in Seq(E) /\ \A e \in E : IsEntry(e)
  BY <1>2, ParseType
<1>4. \A k \in DOMAIN encoded : encoded[k].code # "r" => Supported(EncodingMap[encoded[k].code], encoded[k].width)
  <2>1. \A k \in DOMAIN encoded : encoded[k] \in E
    BY <1>3
  <2> QED
    BY <1>3, <2>1 DEF IsEntry
<1>5. JsonCreate(Descriptors, id) =
          CASE id.main \notin DOMAIN Descriptors -> {}
            [] \E k \in DOMAIN encoded : encoded[k].code # "r" /\
                   ~ Supported(EncodingMap[encoded[k].code], encoded[k].width) -> {}
            [] OTHER -> {PlaceAll(id.main, names, encoded)}
  BY DEF JsonCreate, encoding, names
<1> HIDE DEF encoded
<1>6. JsonCreate(Descriptors, id) = {PlaceAll(m, names, encoded)}
  BY <1>1, <1>4, <1>5
<1>7. \E N : PlaceAll(m, names, encoded) \in JsonClasses(m, N)
  BY <1>3, PlaceAllType
<1> QED
  BY <1>6, <1>7
LEMMA DptsFacts ==
    /\ \A d \in Dpts : d = Raw \/ (d.kind = "wb" /\ d.main \in WbMains)
    /\ \A m \in {0} \cup WbMains : \E d \in Dpts : d.main = m
<1>1. /\ Dpt1.main = 1 /\ Dpt2.main = 2 /\ Dpt3.main = 3 /\ Dpt4.main = 4 /\ Dpt5.main = 5 /\ Dpt6.main = 6
      /\ Dpt7.main = 7 /\ Dpt8.main = 8 /\ Dpt9.main = 9 /\ Dpt12.main = 12 /\ Dpt13.main = 13
      /\ Dpt14.main = 14 /\ Dpt20.main = 20 /\ Raw.main = 0
  BY DEF Dpt1, Dpt2, Dpt3, Dpt4, Dpt5, Dpt6, Dpt7, Dpt8, Dpt9, Dpt12, Dpt13, Dpt14, Dpt20, DptBaseU8, Class, Raw
<1>2. /\ Dpt1.kind = "wb" /\ Dpt2.kind = "wb" /\ Dpt3.kind = "wb" /\ Dpt4.kind = "wb" /\ Dpt5.kind = "wb"
      /\ Dpt6.kind = "wb" /\ Dpt7.kind = "wb" /\ Dpt8.kind = "wb" /\ Dpt9.kind = "wb" /\ Dpt12.kind = "wb"
      /\ Dpt13.kind = "wb" /\ Dpt14.kind = "wb" /\ Dpt20.kind = "wb"
  BY DEF Dpt1, Dpt2, Dpt3, Dpt4, Dpt5, Dpt6, Dpt7, Dpt8, Dpt9, Dpt12, Dpt13, Dpt14, Dpt20, DptBaseU8, Class
<1>3. \A d \in Dpts : d = Raw \/ (d.kind = "wb" /\ d.main \in WbMains)
  BY <1>1, <1>2 DEF Dpts, WbMains
<1>4. \A m \in WbMains : m \in {1, 2, 3, 4, 5, 6, 7, 8, 9, 12, 13, 14, 20}
  BY DEF WbMains
<1>5. \A m \in {0, 1, 2, 3, 4, 5, 6, 7, 8, 9, 12, 13, 14, 20} : \E d \in Dpts : d.main = m
  BY <1>1 DEF Dpts
<1> QED
  BY <1>3, <1>4, <1>5

LEMMA CreatorDef ==
    ASSUME NEW m \in Nat, NEW id, Main(m, id)
    PROVE  /\ m \in {0} \cup WbMains => FindDptInstanceCreator(id) # {}
           /\ \A d \in FindDptInstanceCreator(id) : d \in Dpts /\ d.main = m
<1> DEFINE I == {Id(d.main) : d \in Dpts}
           G == FindDptInstanceCreator(id)
<1>1. \A d \in Dpts : d.main \in Nat /\ d.main \in {0} \cup WbMains
  BY DptsFacts DEF WbMains, Raw
<1>2. DOMAIN DptInstanceCreatorMap = I /\ \A x \in I : DptInstanceCreatorMap[x] = CHOOSE d \in Dpts : d.main = x.main
  BY DEF DptInstanceCreatorMap
<1>3. \A x \in I : DptInstanceCreatorMap[x] \in Dpts /\ DptInstanceCreatorMap[x].main = x.main
  <2> TAKE x \in I
  <2>1. PICK e \in Dpts : x = Id(e.main)
    OBVIOUS
  <2>2. x.main = e.main
    BY <2>1 DEF Id
  <2>3. \E d \in Dpts : d.main = x.main
    BY <2>2
  <2> QED
    BY <1>2, <2>3
<1>4. I \subseteq CatalogIds
  <2>1. \A n \in Nat : Id(n) \in CatalogIds
    BY IdFacts, Zenon
  <2> QED
    BY <1>1, <2>1
<1>5. m \in {0} \cup WbMains => Id(m) \in I
  BY DptsFacts
<1> HIDE DEF I
<1>6. id \in CatalogIds /\ Id(m) \in CatalogIds /\ ClearSub(id) = Id(m) /\ id.main = m /\ Id(m).main = m
  BY IdFacts DEF Main
<1>7. G = IF id \in I THEN {DptInstanceCreatorMap[id]} ELSE IF Id(m) \in I THEN {DptInstanceCreatorMap[Id(m)]} ELSE {}
  BY <1>2, <1>4, <1>6, FindDef DEF FindDptInstanceCreator
<1> HIDE DEF G
<1>8. m \in {0} \cup WbMains => G # {}
  BY <1>5, <1>7
<1>9. \A d \in G : d \in Dpts /\ d.main = m
  BY <1>3, <1>6, <1>7
<1> QED
  BY <1>8, <1>9 DEF G

\* The data point of an object whose type had the main number m.
MadeFor(m, d) ==
    IF m \in WbMains THEN d \in Dpts /\ d.kind = "wb" /\ d.main = m
    ELSE IF m \in DOMAIN Descriptors THEN \E N : d \in JsonClasses(m, N)
    ELSE d = Raw

\* A data point can be made for every name the tool writes, and it is one for the
\* exported main number.
THEOREM NamesMade ==
    ASSUME NEW m \in Nat, NEW type, TypeFor(m, type)
    PROVE  CreateDatapoint(type) # {} /\ \A d \in CreateDatapoint(type) : MadeFor(m, d)
<1>1. 0 \notin WbMains /\ 0 \notin DOMAIN Descriptors
  BY DescriptorsAssumption DEF WbMains
<1>2. CASE m \in WbMains
  <2>1. PICK title : type = Name("wb", IdText(Id(m)), title)
    BY <1>2 DEF TypeFor
  <2>2. type.kind = "wb" /\ type.main = m /\ type.sub = {}
    BY <2>1 DEF Name, IdText, Id
  <2>3. type # RawValueString
    BY <2>2 DEF RawValueString, Name
  <2>4. SetFromString(type) = {Id(m)}
    BY <2>2 DEF SetFromString
  <2>5. CreateDatapoint(type) = FindDptInstanceCreator(Id(m))
    BY <2>2, <2>3, <2>4 DEF CreateDatapoint
  <2>6. Main(m, Id(m))
    BY DEF Main
  <2>7. \A d \in Dpts : d.main = m => d.kind = "wb"
    BY <1>1, <1>2, DptsFacts DEF Raw
  <2> QED
    BY <1>2, <2>5, <2>6, <2>7, CreatorDef DEF MadeFor
<1>3. CASE m \notin WbMains /\ m \in DOMAIN Descriptors
  <2>1. PICK id, title : Main(m, id) /\ type = Name("json", IdText(id), title)
    BY <1>3 DEF TypeFor
  <2>2. id \in Ids /\ id.main = m
    BY <2>1, IdFacts DEF Main, CatalogIds
  <2>3. type.kind = "json" /\ type.main = m /\ type.sub = IF id.hasSub THEN {id.sub} ELSE {}
    BY <2>1, <2>2 DEF Name, IdText
  <2>4. type # RawValueString
    BY <2>3 DEF RawValueString, Name
  <2>5. SetFromString(type) = {id}
    <3>1. CASE id = Id(m)
      BY <2>3, <3>1 DEF SetFromString, Id
    <3>2. ASSUME NEW s \in Nat, id = SubId(m, s) PROVE SetFromString(type) = {id}
      <4>1. type.sub = {s}
        BY <2>3, <3>2, IdFacts
      <4>2. SetFromString(type) = {SetSub(Id(m), s)}
        BY <2>3, <4>1 DEF SetFromString
      <4> QED
        BY <3>2, <4>2, IdFacts
    <3> QED
      BY <2>1, <3>1, <3>2 DEF Main
  <2>6. CreateDatapoint(type) = JsonCreate(Descriptors, id)
    BY <2>3, <2>4, <2>5 DEF CreateDatapoint
  <2> QED
    BY <1>3, <2>1, <2>6, JsonCreateType DEF MadeFor
<1>4. CASE m \notin WbMains /\ m \notin DOMAIN Descriptors
  <2>1. type = RawValueString
    BY <1>4 DEF TypeFor
  <2>2. type.kind = "raw"
    BY <2>1 DEF RawValueString, Name
  <2>3. CreateDatapoint(type) = FindDptInstanceCreator(Id(0))
    BY <2>1, <2>2 DEF CreateDatapoint
  <2>4. Main(0, Id(0)) /\ 0 \in Nat
    BY DEF Main
  <2>5. \A d \in Dpts : d.main = 0 => d = Raw
    BY <1>1, DptsFacts
  <2> QED
    BY <1>4, <2>3, <2>4, <2>5, CreatorDef DEF MadeFor
<1> QED
  BY <1>2, <1>3, <1>4

\* Whatever a user writes for a type.
LEMMA JsonDptsType == \A d \in JsonDpts : \E m, N : d \in JsonClasses(m, N)
<1> TAKE d \in JsonDpts
<1>1. PICK id \in JsonIds : d \in JsonCreate(Descriptors, id)
  BY JsonNamesDef DEF JsonDpts
<1>2. id.main \in DOMAIN Descriptors /\ Main(id.main, id)
  BY JsonNamesDef
<1> QED
  BY <1>1, <1>2, JsonCreateType

LEMMA WrittenMade ==
    ASSUME NEW type, type.main \in Nat, type.sub \subseteq Nat, NEW d \in CreateDatapoint(type)
    PROVE  d = NoObject \/ d \in Dpts \/ d \in JsonDpts
<1> DEFINE ids == IF type = RawValueString THEN {Id(0)} ELSE SetFromString(type)
<1>1. \A id \in ids : \E m \in Nat : Main(m, id)
  <2> TAKE id \in ids
  <2>1. CASE type = RawValueString
    BY <2>1 DEF Main
  <2>2. CASE type # RawValueString
    <3>1. id \in SetFromString(type)
      BY <2>2
    <3>2. id = Id(type.main) \/ \E s \in Nat : id = SetSub(Id(type.main), s)
      BY <3>1 DEF SetFromString
    <3> QED
      BY <3>2, IdFacts DEF Main
  <2> QED
    BY <2>1, <2>2
<1>2. d = NoObject \/ (\E id \in ids : d \in JsonCreate(Descriptors, id)) \/ (\E id \in ids : d \in FindDptInstanceCreator(id))
  BY DEF CreateDatapoint
<1> HIDE DEF ids
<1>3. ASSUME NEW id \in ids, d \in JsonCreate(Descriptors, id) PROVE d \in JsonDpts
  <2>1. PICK m \in Nat : Main(m, id)
    BY <1>1
  <2>2. id.main = m
    BY <2>1, IdFacts DEF Main
  <2>3. m \in DOMAIN Descriptors
    <3> SUFFICES ASSUME m \notin DOMAIN Descriptors PROVE JsonCreate(Descriptors, id) = {}
      BY <1>3
    <3> QED
      BY <2>2 DEF JsonCreate
  <2>4. CASE id \in JsonIds
    BY <1>3, <2>4, JsonNamesDef DEF JsonDpts
  <2>5. CASE id \notin JsonIds
    <3>1. Id(m) \in JsonIds
      BY <2>3, JsonNamesDef
    <3>2. PICK s \in Nat : id = SubId(m, s)
      BY <2>1, <2>5, <3>1 DEF Main
    <3>3. id.sub = s /\ id = SetSub(Id(m), s)
      BY <3>2, IdFacts
    <3>4. s \notin DOMAIN Descriptors[m].datapoint
      BY <2>3, <2>5, <3>3 DEF JsonIds
    <3>5. ~ (id.hasSub /\ id.sub \in DOMAIN Descriptors[id.main].datapoint)
      BY <2>2, <3>3, <3>4
    <3>6. ~ (Id(m).hasSub /\ Id(m).sub \in DOMAIN Descriptors[Id(m).main].datapoint) /\ Id(m).main = id.main
      BY <2>2, IdFacts
    <3>7. JsonCreate(Descriptors, id) = JsonCreate(Descriptors, Id(m))
      BY <3>5, <3>6 DEF JsonCreate
    <3> QED
      BY <1>3, <3>1, <3>7, JsonNamesDef DEF JsonDpts
  <2> QED
    BY <2>4, <2>5
<1>4. ASSUME NEW id \in ids, d \in FindDptInstanceCreator(id) PROVE d \in Dpts
  BY <1>1, <1>4, CreatorDef
<1> QED
  BY <1>2, <1>3, <1>4
-----------------------------------------------------------------------------
(* What a loaded export comes from                                         *)

\* What a loop collects is what its steps give, in their order.
Ordered(r, steps, n, S) ==
    \E parts, from, at :
        /\ parts \in [1 .. n -> Seq(S)] /\ \A k \in 1 .. n : parts[k] \in steps[k]
        /\ Flattened(r, from, at, parts, n, S)

LEMMA InOrderDef ==
    ASSUME NEW S, NEW n \in Nat, NEW steps, DOMAIN steps = 1 .. n, \A k \in 1 .. n : steps[k] \subseteq Seq(S),
           NEW r \in InOrder(steps)
    PROVE  Ordered(r, steps, n, S)
<1> DEFINE parts == [k \in 1 .. n |-> Only(steps[k])]
<1>1. (\A k \in 1 .. n : steps[k] # {}) /\ r = FlattenSeq(parts)
  BY DEF InOrder
<1>2. \A k \in 1 .. n : parts[k] \in steps[k]
  BY <1>1 DEF Only
<1>3. parts \in [1 .. n -> Seq(S)]
  BY <1>2
<1> HIDE DEF parts
<1>4. parts \in Seq(Seq(S)) /\ Len(parts) = n
  BY <1>3, FunctionIsSequence
<1>5. PICK from, at : Flattened(r, from, at, parts, n, S)
  BY <1>1, <1>4, FlattenSeqDef
<1> QED
  BY <1>2, <1>3, <1>5 DEF Ordered

TypesOf(element) ==
    IF element.dpts = {} THEN {DefaultName}
    ELSE UNION {DatapointTypeExportToConfig(d) : d \in element.dpts}

\* A control of an element, and the controls of some.
FromElement(c, element) ==
    /\ element.tag = "GroupAddress"
    /\ c.address \in GroupAddressOf(element.address) /\ c.type \in TypesOf(element) \ {Dropped}
ControlSet(children) ==
    {c \in [address : GroupAddresses, type : UNION {TypesOf(children[i]) : i \in DOMAIN children}] :
        \E i \in DOMAIN children : FromElement(c, children[i])}

Elements(children) == IsSequence(children) /\ \A i \in DOMAIN children : IsElement(children[i])

LEMMA ElementsDomain ==
    ASSUME NEW children, IsSequence(children)
    PROVE  Len(children) \in Nat /\ DOMAIN children = 1 .. Len(children)
BY DEF IsSequence

LEMMA ControlListType ==
    ASSUME NEW children, Elements(children), NEW l \in ControlList(children)
    PROVE  l \in Seq(ControlSet(children))
<1> DEFINE S == ControlSet(children)
           n == Len(children)
           steps == [k \in DOMAIN children |-> ControlsOf(children[k])]
<1>1. n \in Nat /\ DOMAIN children = 1 .. n
  BY ElementsDomain DEF Elements
<1>2. ASSUME NEW k \in DOMAIN children, NEW x \in ControlsOf(children[k]) PROVE x \in Seq(S)
  <2> DEFINE e == children[k]
  <2>1. <<>> \in Seq(S)
    OBVIOUS
  <2>2. CASE e.tag # "GroupAddress"
    BY <1>2, <2>1, <2>2 DEF ControlsOf
  <2>3. CASE e.tag = "GroupAddress"
    <3>1. ControlsOf(e) = {IF type = Dropped THEN <<>> ELSE <<[address |-> a, type |-> type]>> :
                              a \in GroupAddressOf(e.address), type \in TypesOf(e)}
      BY <2>3 DEF ControlsOf, TypesOf
    <3> HIDE DEF e
    <3>2. PICK a \in GroupAddressOf(e.address), type \in TypesOf(e) :
              x = IF type = Dropped THEN <<>> ELSE <<[address |-> a, type |-> type]>>
      BY <1>2, <3>1 DEF e
    <3> DEFINE c == [address |-> a, type |-> type]
    <3>3. e.address \in Seq(WordValues)
      BY DEF e, Elements, IsElement
    <3>4. a \in GroupAddresses
      BY <3>3, OneAddress
    <3>5. type # Dropped => c \in S
      <4> SUFFICES ASSUME type # Dropped PROVE c \in S
        OBVIOUS
      <4>1. FromElement(c, children[k])
        BY <2>3, <3>2 DEF FromElement, e
      <4>2. type \in UNION {TypesOf(children[i]) : i \in DOMAIN children}
        BY <3>2 DEF e
      <4> QED
        BY <3>4, <4>1, <4>2 DEF ControlSet
    <3> HIDE DEF S, c
    <3>6. type # Dropped => <<c>> \in Seq(S)
      BY <3>5
    <3> QED
      BY <2>1, <3>2, <3>6 DEF c, S
  <2> QED
    BY <2>2, <2>3
<1> HIDE DEF S, n
<1>3. DOMAIN steps = 1 .. n /\ \A k \in 1 .. n : steps[k] \subseteq Seq(S)
  BY <1>1, <1>2
<1>4. l \in InOrder(steps)
  BY DEF ControlList
<1> HIDE DEF steps
<1>5. Ordered(l, steps, n, S)
  BY <1>1, <1>3, <1>4, InOrderDef
<1> QED
  BY <1>5 DEF Ordered, Flattened, S

\* The devices that can be made of the child j of a main group, or of the whole.
GroupOf(children, j) == IF j = 0 THEN children ELSE children[j].children
DeviceFor(children, j, l) == IF j = 0 THEN MainDevice(l) ELSE RangeDevice(l)
MadeOf(children, j) == {DeviceFor(children, j, l) : l \in ControlList(GroupOf(children, j)) \ {<<>>}}
MadeOfAny(children) == UNION {MadeOf(children, j) : j \in 0 .. Len(children)}

Grouped(x, children, g) ==
    /\ x \in Seq(MadeOfAny(children))
    /\ \A p \in 1 .. Len(x) : g[p] \in 0 .. Len(children) /\ x[p] \in MadeOf(children, g[p])
    /\ \A p, q \in 1 .. Len(x) : g[p] = g[q] => p = q

Single(x, children, j) ==
    x \in Seq(MadeOfAny(children)) /\ \A p \in 1 .. Len(x) : p = 1 /\ x[p] \in MadeOf(children, j)

LEMMA OneDevice ==
    ASSUME NEW children, NEW j \in 0 .. Len(children), NEW l \in ControlList(GroupOf(children, j)),
           NEW x, x = IF l = <<>> THEN <<>> ELSE <<DeviceFor(children, j, l)>>
    PROVE  Single(x, children, j)
<1> DEFINE S == MadeOfAny(children)
           d == DeviceFor(children, j, l)
<1>1. CASE l = <<>>
  BY <1>1 DEF Single
<1>2. CASE l # <<>>
  <2>1. d \in MadeOf(children, j)
    BY <1>2 DEF MadeOf
  <2>2. d \in S
    BY <2>1 DEF MadeOfAny
  <2> HIDE DEF S, d
  <2>3. x = <<d>>
    BY <1>2 DEF d
  <2>4. <<d>> \in Seq(S) /\ Len(<<d>>) = 1 /\ <<d>>[1] = d
    BY <2>2
  <2> QED
    BY <2>1, <2>3, <2>4 DEF S, Single
<1> QED
  BY <1>1, <1>2

LEMMA MainGroupDef ==
    ASSUME NEW children, Elements(children), NEW x \in MainGroupDevices(children)
    PROVE  \E g : Grouped(x, children, g)
<1> DEFINE n == Len(children)
           S == MadeOfAny(children)
           addresses == {k \in DOMAIN children : children[k].tag = "GroupAddress"}
           candidates == addresses \cup {n + 1}
           first == CHOOSE k \in candidates : \A j \in candidates : k <= j
           ranges == [k \in 1 .. first - 1 |-> {DevicesOf(l, RangeDevice) : l \in ControlList(children[k].children)}]
           main   == {DevicesOf(l, MainDevice) : l \in ControlList(children)}
           rest   == IF addresses = {} THEN <<>> ELSE <<main>>
           steps  == ranges \o rest
<1>1. n \in Nat /\ DOMAIN children = 1 .. n
  BY ElementsDomain DEF Elements
<1>2. x \in InOrder(steps)
  BY DEF MainGroupDevices
<1>3. first \in candidates
  <2>1. candidates \in SUBSET Nat /\ candidates # {}
    BY <1>1
  <2> HIDE DEF candidates
  <2> QED
    BY <2>1, LeastNumber
<1>4. first \in Nat /\ first - 1 \in 0 .. n
  <2> HIDE DEF first
  <2> QED
    BY <1>1, <1>3
<1> HIDE DEF first
<1> DEFINE m == first - 1
<1>5. ASSUME NEW k \in 1 .. m, NEW y \in ranges[k]
      PROVE  Single(y, children, k)
  <2>1. PICK l \in ControlList(children[k].children) : y = DevicesOf(l, RangeDevice)
    BY <1>5
  <2>2. k \in 0 .. Len(children) /\ k # 0
    BY <1>1, <1>4
  <2>3. l \in ControlList(GroupOf(children, k))
    BY <2>1, <2>2 DEF GroupOf
  <2>4. y = IF l = <<>> THEN <<>> ELSE <<DeviceFor(children, k, l)>>
    BY <2>1, <2>2 DEF DevicesOf, DeviceFor
  <2> HIDE DEF n
  <2> QED
    BY <2>2, <2>3, <2>4, OneDevice
<1>6. ASSUME NEW y \in main
      PROVE  Single(y, children, 0)
  <2>1. PICK l \in ControlList(children) : y = DevicesOf(l, MainDevice)
    BY <1>6
  <2>2. 0 \in 0 .. n
    BY <1>1
  <2>3. l \in ControlList(GroupOf(children, 0))
    BY <2>1 DEF GroupOf
  <2>4. y = IF l = <<>> THEN <<>> ELSE <<DeviceFor(children, 0, l)>>
    BY <2>1 DEF DevicesOf, DeviceFor
  <2> QED
    BY <2>2, <2>3, <2>4, OneDevice
<1> DEFINE V == SUBSET Seq(S)
<1>7. ranges \in Seq(V) /\ Len(ranges) = m
  <2>1. ranges \in [1 .. m -> V]
    BY <1>5 DEF Single
  <2>2. m \in Nat
    BY <1>4
  <2> HIDE DEF ranges, V, m
  <2> QED
    BY <2>1, <2>2, FunctionIsSequence
<1>8. rest \in Seq(V) /\ Len(rest) \in 0 .. 1 /\ (Len(rest) = 1 => rest[1] = main)
  <2>1. main \in V
    BY <1>6 DEF Single
  <2> HIDE DEF main, V
  <2> QED
    BY <2>1
<1> HIDE DEF V, ranges, rest, main, m, S, n
<1>9. Joined(ranges, rest, V)
  BY <1>7, <1>8, Concatenated
<1> DEFINE s == Len(steps)
<1>10. steps \in Seq(V) /\ s = m + Len(rest)
  BY <1>7, <1>9 DEF Joined
<1>11. m \in Nat /\ s \in Nat /\ s \in m .. m + 1 /\ DOMAIN steps = 1 .. s
  <2>1. DOMAIN steps = 1 .. s
    BY <1>10
  <2>2. m \in Nat
    BY <1>4 DEF m
  <2> DEFINE r == Len(rest)
  <2>3. r \in 0 .. 1 /\ s = m + r
    BY <1>8, <1>10
  <2> HIDE DEF s, steps, r
  <2>4. s \in Nat /\ s \in m .. m + 1
    BY <2>2, <2>3
  <2> QED
    BY <2>1, <2>2, <2>4
<1>12. \A k \in 1 .. m : steps[k] = ranges[k]
  BY <1>7, <1>9 DEF Joined
<1>13. \A k \in 1 .. s : k \notin 1 .. m => k = m + 1 /\ steps[k] = main
  <2> SUFFICES ASSUME NEW k \in 1 .. s, k \notin 1 .. m PROVE k = m + 1 /\ steps[k] = main
    OBVIOUS
  <2>1. Len(rest) = 1 /\ k = m + 1
    BY <1>8, <1>10, <1>11
  <2>2. steps[Len(ranges) + 1] = rest[1]
    BY <2>1, <1>9 DEF Joined
  <2> QED
    BY <1>7, <1>8, <2>1, <2>2
<1>14. \A k \in 1 .. s : steps[k] \subseteq Seq(S)
  BY <1>5, <1>6, <1>12, <1>13 DEF Single, S
<1> HIDE DEF steps, s
<1>15. Ordered(x, steps, s, S)
  BY <1>2, <1>11, <1>14, InOrderDef
<1>16. PICK parts, from, at :
          /\ parts \in [1 .. s -> Seq(S)] /\ \A k \in 1 .. s : parts[k] \in steps[k]
          /\ Flattened(x, from, at, parts, s, S)
  BY <1>15 DEF Ordered
<1> DEFINE g == [p \in 1 .. Len(x) |-> IF from[p] <= m THEN from[p] ELSE 0]
<1>17. ASSUME NEW p \in 1 .. Len(x)
       PROVE  /\ from[p] \in 1 .. s /\ at[p] = 1 /\ g[p] \in 0 .. n /\ x[p] \in MadeOf(children, g[p])
              /\ (g[p] = 0 => from[p] = m + 1) /\ (g[p] # 0 => from[p] = g[p])
  <2>1. from[p] \in 1 .. s /\ at[p] \in 1 .. Len(parts[from[p]]) /\ x[p] = parts[from[p]][at[p]]
    BY <1>16 DEF Flattened
  <2> DEFINE k == from[p]
             y == parts[k]
  <2>2. y \in steps[k] /\ x[p] = y[at[p]] /\ at[p] \in 1 .. Len(y)
    BY <1>16, <2>1
  <2>3. CASE k \in 1 .. m
    <3>1. y \in ranges[k]
      BY <1>12, <2>2, <2>3
    <3>2. at[p] = 1 /\ x[p] \in MadeOf(children, k)
      BY <1>5, <2>2, <2>3, <3>1 DEF Single
    <3>3. g[p] = k /\ k # 0 /\ k \in 0 .. n
      BY <1>4, <2>3 DEF m, n
    <3> QED
      BY <2>1, <3>2, <3>3
  <2>4. CASE k \notin 1 .. m
    <3>1. k = m + 1 /\ y \in main
      BY <1>13, <2>1, <2>2, <2>4
    <3>2. at[p] = 1 /\ x[p] \in MadeOf(children, 0)
      BY <1>6, <2>2, <3>1 DEF Single
    <3>3. g[p] = 0 /\ 0 \in 0 .. n
      BY <1>1, <1>11, <3>1 DEF n
    <3> QED
      BY <2>1, <3>1, <3>2, <3>3
  <2> QED
    BY <2>3, <2>4
<1> HIDE DEF g
<1>18. \A p, q \in 1 .. Len(x) : g[p] = g[q] => p = q
  <2> SUFFICES ASSUME NEW p \in 1 .. Len(x), NEW q \in 1 .. Len(x), g[p] = g[q] PROVE p = q
    OBVIOUS
  <2>1. from[p] = from[q] /\ at[p] = at[q]
    BY <1>17
  <2> QED
    BY <1>16, <2>1 DEF Flattened
<1>19. x \in Seq(S)
  BY <1>16 DEF Flattened
<1>20. Grouped(x, children, g)
  BY <1>17, <1>18, <1>19 DEF Grouped, S, n
<1> QED
  BY <1>20
\* Every device of a configuration comes from one group, and no two from the same.
LoadedFrom(devices, export, g) ==
    /\ Len(devices) \in Nat /\ DOMAIN devices = 1 .. Len(devices)
    /\ \A p \in DOMAIN devices :
           /\ g[p][1] \in DOMAIN export /\ g[p][2] \in 0 .. Len(export[g[p][1]])
           /\ devices[p] \in MadeOf(export[g[p][1]], g[p][2])
    /\ \A p, q \in DOMAIN devices : g[p][1] = g[q][1] /\ g[p][2] = g[q][2] => p = q

THEOREM LoadedDef ==
    ASSUME NEW export, IsExport(export), NEW config \in LoadEtsExport(export)
    PROVE  \E g : LoadedFrom(config.devices, export, g)
<1> DEFINE n == Len(export)
           S == UNION {MadeOfAny(export[k]) : k \in DOMAIN export}
           steps == [k \in DOMAIN export |-> MainGroupDevices(export[k])]
           x == config.devices
<1>1. n \in Nat /\ DOMAIN export = 1 .. n
  BY ElementsDomain DEF IsExport
<1>2. \A k \in DOMAIN export : Elements(export[k])
  BY DEF IsExport, Elements
<1>3. x \in InOrder(steps)
  BY DEF LoadEtsExport
<1>4. ASSUME NEW k \in 1 .. n, NEW y \in steps[k] PROVE (\E h : Grouped(y, export[k], h)) /\ y \in Seq(S)
  <2>1. PICK h : Grouped(y, export[k], h)
    BY <1>1, <1>2, <1>4, MainGroupDef
  <2>2. y \in Seq(MadeOfAny(export[k])) /\ MadeOfAny(export[k]) \subseteq S
    BY <1>1, <2>1 DEF Grouped
  <2> HIDE DEF S
  <2> QED
    BY <2>1, <2>2, SeqWiden
<1> HIDE DEF S, n, x
<1>5. DOMAIN steps = 1 .. n /\ \A k \in 1 .. n : steps[k] \subseteq Seq(S)
  BY <1>1, <1>4
<1>6. Ordered(x, steps, n, S)
  <2> HIDE DEF steps
  <2> QED
    BY <1>1, <1>3, <1>5, InOrderDef
<1>7. PICK parts, from, at :
          /\ parts \in [1 .. n -> Seq(S)] /\ \A k \in 1 .. n : parts[k] \in steps[k]
          /\ Flattened(x, from, at, parts, n, S)
  BY <1>6 DEF Ordered
<1> HIDE DEF steps
<1> DEFINE h(k) == CHOOSE f : Grouped(parts[k], export[k], f)
           g == [p \in 1 .. Len(x) |-> <<from[p], h(from[p])[at[p]]>>]
<1>8. \A k \in 1 .. n : Grouped(parts[k], export[k], h(k))
  BY <1>4, <1>7
<1> HIDE DEF h
<1>9. Len(x) \in Nat /\ DOMAIN x = 1 .. Len(x)
  BY <1>7 DEF Flattened
<1>10. ASSUME NEW p \in 1 .. Len(x)
       PROVE  /\ from[p] \in 1 .. n /\ at[p] \in 1 .. Len(parts[from[p]])
              /\ g[p][1] = from[p] /\ g[p][2] = h(from[p])[at[p]]
              /\ g[p][2] \in 0 .. Len(export[from[p]])
              /\ x[p] \in MadeOf(export[from[p]], g[p][2])
  <2>1. from[p] \in 1 .. n /\ at[p] \in 1 .. Len(parts[from[p]]) /\ x[p] = parts[from[p]][at[p]]
    BY <1>7 DEF Flattened
  <2>2. Grouped(parts[from[p]], export[from[p]], h(from[p]))
    BY <1>8, <2>1
  <2>3. g[p][1] = from[p] /\ g[p][2] = h(from[p])[at[p]]
    OBVIOUS
  <2> HIDE DEF g
  <2>4. h(from[p])[at[p]] \in 0 .. Len(export[from[p]]) /\ x[p] \in MadeOf(export[from[p]], h(from[p])[at[p]])
    BY <2>1, <2>2 DEF Grouped
  <2> QED
    BY <2>1, <2>3, <2>4
<1> HIDE DEF g
<1>11. \A p, q \in 1 .. Len(x) : g[p][1] = g[q][1] /\ g[p][2] = g[q][2] => p = q
  <2> SUFFICES ASSUME NEW p \in 1 .. Len(x), NEW q \in 1 .. Len(x), g[p][1] = g[q][1], g[p][2] = g[q][2]
               PROVE  p = q
    OBVIOUS
  <2>1. from[p] = from[q]
    BY <1>10
  <2>2. h(from[p])[at[p]] = h(from[p])[at[q]]
    BY <1>10, <2>1
  <2>3. at[p] \in 1 .. Len(parts[from[p]]) /\ at[q] \in 1 .. Len(parts[from[p]]) /\ from[p] \in 1 .. n
    BY <1>10, <2>1
  <2>4. at[p] = at[q]
    BY <1>8, <2>2, <2>3 DEF Grouped
  <2> QED
    BY <1>7, <2>1, <2>4 DEF Flattened
<1>12. LoadedFrom(x, export, g)
  BY <1>1, <1>9, <1>10, <1>11 DEF LoadedFrom
<1> QED
  BY <1>12 DEF x

\* The controls of a device are those of a list that is not empty, and its last
\* address names it.
LEMMA DeviceParts ==
    ASSUME NEW children, Elements(children), NEW j \in 0 .. Len(children),
           \A i \in DOMAIN children : Elements(children[i].children), NEW d \in MadeOf(children, j)
    PROVE  \E l \in Seq(ControlSet(GroupOf(children, j))) :
               /\ l # <<>> /\ d.controls = Written(l)
               /\ d.id = IF j = 0 THEN <<l[Len(l)].address.main>>
                         ELSE <<l[Len(l)].address.main, l[Len(l)].address.middle>>
<1>1. PICK l \in ControlList(GroupOf(children, j)) \ {<<>>} : d = DeviceFor(children, j, l)
  BY DEF MadeOf
<1>2. Elements(GroupOf(children, j))
  BY ElementsDomain DEF GroupOf, Elements
<1>3. l \in Seq(ControlSet(GroupOf(children, j)))
  BY <1>1, <1>2, ControlListType
<1>4. d.controls = Written(l) /\ d.id = IF j = 0 THEN <<l[Len(l)].address.main>>
                         ELSE <<l[Len(l)].address.main, l[Len(l)].address.middle>>
  BY <1>1 DEF DeviceFor, MainDevice, RangeDevice
<1> QED
  BY <1>1, <1>3, <1>4
-----------------------------------------------------------------------------
(* What JSON data points cache and send                                    *)

\* Every member is one that its field can be written from.
JsonTyped(d, cached) ==
    DOMAIN cached = DOMAIN d.fields /\ \A i \in DOMAIN d.fields : JsonInput(d.fields[i], cached[i])

WithNonZero(codes, code) == IF code = 0 THEN codes ELSE Append(codes, code)

LEMMA NonZeroType == ASSUME NEW codes \in Seq(ByteSet) PROVE NonZero(codes) \in Seq(ByteSet)
<1> DEFINE n == Len(codes)
           S == Seq(ByteSet)
           step == [k \in 1 .. n |-> [v \in S |-> WithNonZero(v, codes[k])]]
           Def(v) == [k \in 0 .. n |-> IF k = 0 THEN <<>> ELSE WithNonZero(v[k - 1], codes[k])]
           F == CHOOSE v : v = Def(v)
<1>1. n \in Nat /\ (\A k \in 1 .. n : codes[k] \in ByteSet) /\ <<>> \in S
  OBVIOUS
<1>2. NonZero(codes) = F[n]
  BY DEF NonZero, WithNonZero
<1> HIDE DEF n
<1>3. \A k \in 1 .. n : \A v \in S : WithNonZero(v, codes[k]) \in S
  BY <1>1 DEF S, WithNonZero
<1> HIDE DEF S
<1>4. step \in [1 .. n -> [S -> S]]
  BY <1>3
<1>5. PICK f : Steps(f, n, S, <<>>, step)
  <2> HIDE DEF step
  <2> QED
    BY <1>1, <1>4, Recursion DEF Defined
<1>6. f = Def(f)
  <2>1. ASSUME NEW k \in 1 .. n PROVE f[k] = WithNonZero(f[k - 1], codes[k])
    <3>1. k - 1 \in 0 .. n
      BY <1>1
    <3>2. f[k - 1] \in S
      BY <1>5, <3>1 DEF Steps
    <3> QED
      BY <1>5, <3>2 DEF Steps
  <2>2. \A k \in 0 .. n : f[k] = IF k = 0 THEN <<>> ELSE WithNonZero(f[k - 1], codes[k])
    BY <1>1, <1>5, <2>1 DEF Steps
  <2>3. f = [k \in 0 .. n |-> f[k]]
    BY <1>5 DEF Steps
  <2> QED
    BY <2>2, <2>3
<1>7. F = Def(F)
  <2> HIDE DEF Def
  <2> QED
    BY <1>6
<1> HIDE DEF F
<1>8. F[0] = <<>> /\ \A k \in 1 .. n : F[k] = WithNonZero(F[k - 1], codes[k])
  BY <1>1, <1>7
<1> DEFINE T == {k \in 0 .. n : F[k] \in S}
<1>9. 0 \in T
  BY <1>1, <1>8
<1>10. ASSUME NEW k \in 1 .. n, k - 1 \in T PROVE k \in T
  <2>1. k \in 0 .. n /\ F[k - 1] \in S /\ F[k] = WithNonZero(F[k - 1], codes[k])
    BY <1>1, <1>8, <1>10
  <2>2. F[k] \in S
    BY <1>3, <2>1
  <2> QED
    BY <2>1, <2>2
<1>11. 0 .. n \subseteq T
  <2> HIDE DEF T
  <2> QED
    BY <1>1, <1>9, <1>10, Upto
<1>12. F[n] \in S
  BY <1>1, <1>11
<1> QED
  BY <1>2, <1>12 DEF S

\* Numbers of hundredths far beyond what a float of two octets can hold.
Wide == 134217728

LEMMA WideRepresentable ==
    ASSUME NEW h \in Int, 0 - 2 * Wide <= h, h <= 2 * Wide
    PROVE  Representable(h)
<1>1. Fits(h \div 1048576)
  BY SMT DEF Fits, Wide
<1>2. 2 ^ 20 = 1048576
  BY SMT
<1>3. Fits(h \div 2 ^ 20)
  BY <1>1, <1>2, SMT
<1>4. 20 \in 0 .. 20
  BY SMT
<1> QED
  BY <1>3, <1>4, SMT DEF Representable

LEMMA RoundRange ==
    ASSUME NEW n \in Nat, NEW d \in {16, 32, 64, 100}
    PROVE  Round(n, d) \in Nat /\ d * Round(n, d) <= n + 50
BY SMT DEF Round

LEMMA AsFloatRange ==
    ASSUME NEW h \in Int, 0 - Wide <= h, h <= Wide
    PROVE  Representable(AsFloat(h))
<1> DEFINE size  == IF h < 0 THEN 0 - h ELSE h
           steps == IF size < 26214400 THEN 64 ELSE IF size < 52428800 THEN 32 ELSE 16
           mid   == Round(size * steps, 100)
           near  == Round(mid * 100, steps)
           a     == AsFloat(h)
<1>1. a \in {h, near, 0 - near}
  BY SMT DEF AsFloat
<1>2. size \in Nat /\ size <= Wide
  BY SMT DEF Wide
<1>3. steps \in {16, 32, 64}
  BY SMT
<1> HIDE DEF size, steps
<1>4. size * steps \in Nat
  BY <1>2, <1>3
<1>5. mid \in Nat /\ 100 * mid <= size * steps + 50
  BY <1>4, RoundRange
<1> HIDE DEF mid
<1>6. mid * 100 \in Nat
  BY <1>5
<1>7. near \in Nat /\ steps * near <= mid * 100 + 50
  BY <1>3, <1>6, RoundRange, ZenonT(30)
<1> HIDE DEF near
<1>8. near <= size + 100
  <2>1. steps * near <= size * steps + 100
    BY <1>2, <1>3, <1>5, <1>7
  <2> QED
    BY <1>2, <1>3, <1>7, <2>1
<1> HIDE DEF a
<1>9. a \in Int /\ 0 - 2 * Wide <= a /\ a <= 2 * Wide
  BY <1>1, <1>2, <1>7, <1>8, SMT DEF Wide
<1> QED
  BY <1>9, WideRepresentable DEF a

LEMMA ReadRange ==
    ASSUME NEW raw \in Int, NEW h, h = RawToFloat16(raw)
    PROVE  h \in Int /\ 0 - Wide <= h /\ h <= Wide
<1> DEFINE e == (raw \div 2048) % 16
           x == raw % 2048
           s == IF raw >= 32768 THEN 2048 ELSE 0
           m == x - s
           P == 2 ^ e
<1>1. e \in 0 .. 15
  BY SMT
<1>2. x \in Int /\ 0 <= x /\ x <= 2047 /\ s \in {0, 2048}
  BY SMT
<1>3. h = m * P
  BY SMT DEF RawToFloat16
<1> HIDE DEF x, s, e
<1>4. m \in Int /\ 0 - 2048 <= m /\ m <= 2047
  BY <1>2, SMT
<1> HIDE DEF m
<1>5. P \in Powers16
  BY <1>1, PowerOf, Zenon
<1> HIDE DEF P
<1> QED
  BY <1>3, <1>4, <1>5, SMT DEF Powers16, Wide

LEMMA FieldParts ==
    ASSUME NEW N, NEW f \in JsonFieldSet(N)
    PROVE  /\ f.as \in {"bit", "enum", "char", "unsigned", "signed", "float"}
           /\ f.width \in Nat /\ f.at \in Nat
           /\ f.as = "bit" => f.width = 1
           /\ f.as = "char" => f.width \in {8, 112}
           /\ f.as = "signed" => f.width \in {8, 16, 32, 64}
           /\ f.as = "float" => f.width \in {16, 32}
BY DEF JsonFieldSet, Supported, SupportedFixedBitWidthList

LEMMA NumberInput ==
    ASSUME NEW f, f.as # "char", NEW n \in Int, NEW p \in 0 .. 99,
           f.as = "float" /\ f.width = 16 => Representable(AsFloat(n * 100 + p))
    PROVE  JsonInput(f, JsonNumber(n, p))
<1> DEFINE v == JsonNumber(n, p)
<1>1. v.type = "number" /\ v.value = <<n, p>>
  BY DEF JsonNumber
<1>2. <<n, p>> \in Int \X (0 .. 99) /\ <<n, p>>[1] = n /\ <<n, p>>[2] = p
  OBVIOUS
<1> HIDE DEF v
<1>3. JsonInput(f, v)
  BY <1>1, <1>2 DEF JsonInput
<1> QED
  BY <1>3 DEF v

LEMMA TextInput == ASSUME NEW f, NEW codes \in Seq(ByteSet) PROVE JsonInput(f, JsonText(codes))
<1> DEFINE v == JsonText(codes)
<1>1. v.type = "text" /\ v.value = codes
  BY DEF JsonText
<1> HIDE DEF v
<1>2. JsonInput(f, v)
  BY <1>1 DEF JsonInput, ByteSet
<1> QED
  BY <1>2 DEF v

\* What is read from a telegram can be written to one.
LEMMA FieldValueTyped ==
    ASSUME NEW N, NEW f \in JsonFieldSet(N), NEW bits \in Seq(BitSet), Len(bits) = f.width
    PROVE  JsonInput(f, FieldValue(f, bits))
<1> DEFINE v == FieldValue(f, bits)
<1>1. /\ f.as \in {"bit", "enum", "char", "unsigned", "signed", "float"}
      /\ f.as = "char" => f.width \in {8, 112}
      /\ f.as = "signed" => f.width \in {8, 16, 32, 64}
      /\ f.as = "float" => f.width \in {16, 32}
  BY FieldParts
<1>2. Unsigned(bits) \in Int
  <2>1. bits \in Seq(Int)
    BY BitsAreNumbers
  <2> QED
    BY <2>1, ValueFromType DEF Unsigned
<1>3. bits \in [1 .. f.width -> BitSet]
  BY SequenceIsFunction
<1>5. CASE f.as = "char" /\ f.width = 8
  <2>1. v = JsonText(<<Unsigned(bits)>>)
    BY <1>5 DEF FieldValue
  <2>2. <<Unsigned(bits)>> \in Seq(ByteSet)
    <3>1. bits \in [1 .. 8 -> BitSet]
      BY <1>3, <1>5
    <3>2. Unsigned(bits) \in ByteSet
      BY <3>1, EightBits
    <3> QED
      BY <3>2
  <2> QED
    BY <2>1, <2>2, TextInput
<1>6. CASE f.as = "char" /\ f.width # 8
  <2>1. v = JsonText(NonZero(OctetsOf(bits)))
    BY <1>6 DEF FieldValue
  <2>0. f.width = 8 * 14
    BY <1>1, <1>6
  <2>2. bits \in [1 .. 8 * 14 -> BitSet]
    BY <1>3, <2>0
  <2>3. OctetsOf(bits) \in Seq(ByteSet)
    BY <2>2, OctetsOfType
  <2>4. NonZero(OctetsOf(bits)) \in Seq(ByteSet)
    BY <2>3, NonZeroType
  <2> QED
    BY <2>1, <2>4, TextInput
<1>7. CASE f.as \in {"bit", "unsigned", "enum"}
  <2>1. v = JsonNumber(Unsigned(bits), 0)
    BY <1>7 DEF FieldValue
  <2>2. 0 \in 0 .. 99
    OBVIOUS
  <2> QED
    BY <1>2, <1>7, <2>1, <2>2, NumberInput
<1>8. f.as = "signed" \/ (f.as = "float" /\ f.width = 32) => Signed(bits) \in Int
  <2>1. f.as = "signed" \/ (f.as = "float" /\ f.width = 32) => Len(bits) >= 1
    BY <1>1
  <2> QED
    BY <2>1, SignedType
<1>9. CASE f.as = "signed"
  <2>1. v = JsonNumber(Signed(bits), 0)
    BY <1>9 DEF FieldValue
  <2>2. 0 \in 0 .. 99
    OBVIOUS
  <2> QED
    BY <1>8, <1>9, <2>1, <2>2, NumberInput
<1>10. CASE f.as = "float" /\ f.width = 32
  <2>1. v = JsonNumber(Signed(bits), 0)
    BY <1>10 DEF FieldValue
  <2>2. 0 \in 0 .. 99 /\ f.width # 16
    BY <1>10
  <2> QED
    BY <1>8, <1>10, <2>1, <2>2, NumberInput
<1>11. CASE f.as = "float" /\ f.width = 16
  <2> DEFINE h == RawToFloat16(Unsigned(bits))
  <2>1. v = JsonNumber(h \div 100, h % 100)
    BY <1>11 DEF FieldValue
  <2>2. h \in Int /\ Representable(AsFloat(h))
    BY <1>2, ReadRange, AsFloatRange
  <2> HIDE DEF h
  <2>3. h \div 100 \in Int /\ h % 100 \in 0 .. 99 /\ (h \div 100) * 100 + (h % 100) = h
    BY <2>2
  <2>4. Representable(AsFloat((h \div 100) * 100 + (h % 100)))
    BY <2>2, <2>3
  <2>5. JsonInput(f, JsonNumber(h \div 100, h % 100))
    BY <1>11, <2>3, <2>4, NumberInput
  <2> QED
    BY <2>1, <2>5
<1> QED
  BY <1>1, <1>5, <1>6, <1>7, <1>9, <1>10, <1>11

\* The bits of a member that can be written are as many as its field has.
LEMMA RawValueType ==
    ASSUME NEW N, NEW f \in JsonFieldSet(N), NEW v, JsonInput(f, v), NEW r \in GetRawValue(f, v)
    PROVE  r \in [1 .. f.width -> BitSet]
<1> DEFINE n == NumberOf(v)
<1>1. /\ f.as \in {"bit", "enum", "char", "unsigned", "signed", "float"} /\ f.width \in Nat
      /\ f.as = "bit" => f.width = 1
      /\ f.as = "char" => f.width \in {8, 112}
      /\ f.as = "float" => f.width \in {16, 32}
  BY FieldParts
<1>2. f.as # "char" => IsNumber(v)
  BY DEF GetRawValue
<1>3. ASSUME f.as # "char"
      PROVE  n[1] \in Int /\ n[2] \in 0 .. 99
             /\ (f.as = "float" /\ f.width = 16 => Representable(AsFloat(n[1] * 100 + n[2])))
  <2>1. CASE v = Null
    <3>1. n = <<0, 0>>
      BY <2>1 DEF NumberOf
    <3> DEFINE h == n[1] * 100 + n[2]
    <3>2. n[1] = 0 /\ n[2] = 0 /\ h = 0
      BY <3>1
    <3>3. Representable(AsFloat(0))
      <4>1. 0 - Wide <= 0 /\ 0 <= Wide
        BY SMT DEF Wide
      <4> QED
        BY <4>1, AsFloatRange
    <3> HIDE DEF n
    <3> QED
      BY <3>2, <3>3
  <2>2. CASE v # Null
    <3>1. v.type = "number" /\ n = v.value
      BY <1>2, <1>3, <2>2 DEF JsonInput, IsNumber, NumberOf
    <3> HIDE DEF n
    <3> QED
      BY <3>1 DEF JsonInput
  <2> QED
    BY <2>1, <2>2
<1>4. f.as = "char" => \E codes \in Seq(ByteSet) : v.value = codes
  <2>1. CASE v = Null
    <3>1. v.value = <<>> /\ <<>> \in Seq(ByteSet)
      BY <2>1 DEF Null
    <3> QED
      BY <3>1
  <2>2. CASE v.type = "text"
    BY <2>2 DEF JsonInput, ByteSet
  <2> QED
    BY <2>1, <2>2 DEF JsonInput
<1> HIDE DEF n
<1>5. CASE f.as = "char" /\ f.width = 8
  <2>1. PICK codes \in Seq(ByteSet) : v.value = codes
    BY <1>4, <1>5
  <2> DEFINE c == IF codes = <<>> THEN 0 ELSE codes[1]
  <2>2. c \in Int
    <3>1. CASE codes = <<>>
      BY <3>1
    <3>2. CASE codes # <<>>
      <4>1. codes[1] \in ByteSet
        BY <3>2, FirstIn, Zenon
      <4>2. codes[1] \in Int
        BY <4>1, Byte, Zenon
      <4> QED
        BY <3>2, <4>2
    <3> QED
      BY <3>1, <3>2
  <2>3. r = LowBits(c, 8)
    BY <1>5, <2>1 DEF GetRawValue
  <2> HIDE DEF c
  <2>4. LowBits(c, 8) \in [1 .. 8 -> BitSet]
    BY <2>2, LowBitsType
  <2> QED
    BY <1>5, <2>3, <2>4
<1>6. CASE f.as = "char" /\ f.width # 8
  <2>1. PICK codes \in Seq(ByteSet) : v.value = codes
    BY <1>4, <1>6
  <2>2. r = BitsOf(Padded(codes, 14))
    BY <1>6, <2>1 DEF GetRawValue
  <2>3. \A k \in 1 .. 14 : (IF k <= Len(codes) THEN codes[k] ELSE 0) \in Int
    <3> TAKE k \in 1 .. 14
    <3>1. k <= Len(codes) => codes[k] \in ByteSet
      OBVIOUS
    <3> HIDE DEF ByteSet
    <3>2. \A x \in ByteSet : x \in Int
      BY Byte
    <3> QED
      BY <3>1, <3>2
  <2>4. Padded(codes, 14) \in [1 .. 14 -> Int]
    BY <2>3 DEF Padded
  <2>5. Padded(codes, 14) \in Seq(Int) /\ Len(Padded(codes, 14)) = 14
    BY <2>4, FunctionIsSequence
  <2>6. BitsOf(Padded(codes, 14)) \in [1 .. 8 * 14 -> BitSet]
    BY <2>5, BitsOfType
  <2>7. f.width = 8 * 14
    BY <1>1, <1>6
  <2> QED
    BY <2>2, <2>6, <2>7
<1>7. CASE f.as = "bit"
  <2>1. r = <<0>> \/ r = <<1>>
    BY <1>7 DEF GetRawValue
  <2>2. <<0>> \in [1 .. 1 -> BitSet] /\ <<1>> \in [1 .. 1 -> BitSet]
    BY DEF BitSet
  <2>3. r \in [1 .. 1 -> BitSet]
    <3>1. CASE r = <<0>>
      BY <2>2, <3>1, Zenon
    <3>2. CASE r = <<1>>
      BY <2>2, <3>2, Zenon
    <3> QED
      BY <2>1, <3>1, <3>2
  <2>4. f.width = 1
    BY <1>1, <1>7
  <2> QED
    BY <2>3, <2>4
<1>8. CASE f.as \in {"unsigned", "enum"}
  <2>1. r = LowBits(n[1], f.width)
    BY <1>8 DEF GetRawValue, n
  <2> QED
    BY <1>1, <1>3, <1>8, <2>1, LowBitsType
<1>9. CASE f.as = "signed"
  <2>1. r = LowBits(Truncate(n), f.width)
    BY <1>9 DEF GetRawValue, n
  <2>2. Truncate(n) \in Int
    BY <1>3, <1>9 DEF Truncate
  <2> QED
    BY <1>1, <2>1, <2>2, LowBitsType
<1>10. CASE f.as = "float" /\ f.width = 32
  <2>1. r = LowBits(n[1], 32)
    BY <1>10 DEF GetRawValue, n
  <2> QED
    BY <1>3, <1>10, <2>1, LowBitsType
<1>11. CASE f.as = "float" /\ f.width = 16
  <2> DEFINE raw == FloatToRaw16(AsFloat(n[1] * 100 + n[2]))
  <2>1. r = LowBits(raw, 16)
    BY <1>11 DEF GetRawValue, n
  <2>2. raw \in Int
    <3>1. Representable(AsFloat(n[1] * 100 + n[2]))
      BY <1>3, <1>11
    <3> QED
      BY <3>1, Raw16Type, SMT
  <2> HIDE DEF raw
  <2> QED
    BY <1>11, <2>1, <2>2, LowBitsType
<1> QED
  BY <1>1, <1>5, <1>6, <1>7, <1>8, <1>9, <1>10, <1>11

LEMMA JsonParts ==
    ASSUME NEW d \in JsonDpts
    PROVE  /\ d.kind = "json" /\ d.size \in Nat
           /\ \E N : \A i \in DOMAIN d.fields :
                  d.fields[i] \in JsonFieldSet(N) /\ d.fields[i].at + d.fields[i].width <= 8 * d.size
<1>1. PICK m, N : d \in JsonClasses(m, N)
  BY JsonDptsType
<1>2. d.kind = "json" /\ d.size \in Nat /\ d.fields \in Seq(JsonFieldSet(N)) /\ JsonFieldsIn(d.fields, d.size)
  BY <1>1 DEF JsonClasses
<1>3. \A i \in DOMAIN d.fields : d.fields[i] \in JsonFieldSet(N)
  BY <1>2
<1> QED
  BY <1>2, <1>3 DEF JsonFieldsIn

LEMMA JsonInitialTyped == ASSUME NEW d PROVE JsonTyped(d, JsonInitial(d))
<1>1. \A f : JsonInput(f, Null)
  BY DEF JsonInput, Null
<1> QED
  BY <1>1 DEF JsonTyped, JsonInitial

LEMMA JsonFromKnxTyped ==
    ASSUME NEW d \in JsonDpts, NEW p \in Seq(ByteSet), NEW c \in JsonFromKnx(d, p)
    PROVE  JsonTyped(d, c)
<1>1. /\ Len(p) = d.size
      /\ c = [i \in DOMAIN d.fields |-> FieldValue(d.fields[i], FieldBits(BitsOf(p), d.fields[i]))]
  BY DEF JsonFromKnx
<1>2. PICK N : \A i \in DOMAIN d.fields :
          d.fields[i] \in JsonFieldSet(N) /\ d.fields[i].at + d.fields[i].width <= 8 * d.size
  BY JsonParts
<1>3. p \in Seq(Int)
  BY Byte, SeqWiden
<1>4. BitsOf(p) \in Seq(BitSet) /\ Len(BitsOf(p)) = 8 * d.size
  BY <1>1, <1>3, BitsOfType
<1>5. ASSUME NEW i \in DOMAIN d.fields PROVE JsonInput(d.fields[i], c[i])
  <2> DEFINE B == BitsOf(p)
             f == d.fields[i]
             at == f.at
             w == f.width
  <2>1. f \in JsonFieldSet(N)
    BY <1>2
  <2>2. at \in Nat /\ w \in Nat /\ at + w <= 8 * d.size
    BY <1>2, <2>1, FieldParts
  <2>3. FieldBits(B, f) = SubSeq(B, at + 1, at + w)
    BY DEF FieldBits
  <2>4. c[i] = FieldValue(f, FieldBits(B, f))
    BY <1>1
  <2>5. d.size \in Nat
    BY JsonParts
  <2> HIDE DEF B, at, w, f
  <2>6. SubSeq(B, at + 1, at + w) \in Seq(BitSet) /\ Len(SubSeq(B, at + 1, at + w)) = w
    BY <1>4, <2>2, <2>5, Part DEF B
  <2>7. JsonInput(f, FieldValue(f, FieldBits(B, f)))
    BY <2>1, <2>3, <2>6, FieldValueTyped DEF w
  <2> QED
    BY <2>4, <2>7 DEF f
<1>6. DOMAIN c = DOMAIN d.fields
  BY <1>1
<1> QED
  BY <1>5, <1>6 DEF JsonTyped

\* Whatever members a user writes, taken or refused.
LEMMA JsonFromMqttTyped ==
    ASSUME NEW d, NEW cached, JsonTyped(d, cached), NEW object,
           \A i \in DOMAIN d.fields :
               d.fields[i].name \in DOMAIN object => JsonInput(d.fields[i], object[d.fields[i].name])
    PROVE  JsonTyped(d, JsonFromMqtt(d, cached, object).cached)
<1> DEFINE known == {d.fields[i].name : i \in DOMAIN d.fields}
           taken == {n \in DOMAIN object : \A m \in DOMAIN object : m <= n => m \in known}
           c == JsonFromMqtt(d, cached, object).cached
<1>1. c = [i \in DOMAIN cached |-> IF d.fields[i].name \in taken THEN object[d.fields[i].name] ELSE cached[i]]
  BY DEF JsonFromMqtt
<1>2. \A n \in taken : n \in DOMAIN object
  OBVIOUS
<1>3. DOMAIN cached = DOMAIN d.fields /\ \A i \in DOMAIN d.fields : JsonInput(d.fields[i], cached[i])
  BY DEF JsonTyped
<1> HIDE DEF c, taken
<1>4. DOMAIN c = DOMAIN d.fields
  BY <1>1, <1>3
<1>5. \A i \in DOMAIN d.fields : JsonInput(d.fields[i], c[i])
  BY <1>1, <1>2, <1>3
<1> QED
  BY <1>4, <1>5 DEF JsonTyped, c

LEMMA OnlyMember == ASSUME NEW S, S # {} PROVE Only(S) \in S
BY DEF Only

LEMMA JsonToKnxTyped ==
    ASSUME NEW d \in JsonDpts, NEW c, JsonTyped(d, c), NEW x \in JsonToKnx(d, c)
    PROVE  x \in Seq(ByteSet)
<1> DEFINE raw == [i \in DOMAIN d.fields |-> GetRawValue(d.fields[i], c[i])]
           bits == [i \in DOMAIN raw |-> Only(raw[i])]
<1>1. (\A i \in DOMAIN raw : raw[i] # {}) /\ x = Assemble(d.fields, bits, d.size)
  BY DEF JsonToKnx
<1>2. PICK N : \A i \in DOMAIN d.fields : d.fields[i] \in JsonFieldSet(N)
  BY JsonParts
<1>3. ASSUME NEW i \in DOMAIN d.fields
      PROVE  d.fields[i].at \in Nat /\ d.fields[i].width \in Nat /\ bits[i] \in [1 .. d.fields[i].width -> BitSet]
  <2>1. d.fields[i] \in JsonFieldSet(N)
    BY <1>2
  <2>2. d.fields[i].at \in Nat /\ d.fields[i].width \in Nat
    BY <2>1, FieldParts
  <2>3. bits[i] \in GetRawValue(d.fields[i], c[i])
    BY <1>1, OnlyMember
  <2>4. bits[i] \in [1 .. d.fields[i].width -> BitSet]
    BY <2>1, <2>3, RawValueType DEF JsonTyped
  <2> QED
    BY <2>2, <2>4
<1>4. d.size \in Nat
  BY JsonParts
<1> HIDE DEF bits
<1> QED
  BY <1>1, <1>3, <1>4, AssembleType

-----------------------------------------------------------------------------
(* Numbers in the octets of a payload                                      *)

\* Two shifts are one.
LEMMA ShiftedTwice ==
    ASSUME NEW n \in Int, NEW r \in Nat, NEW q \in Nat
    PROVE  Shifted(Shifted(n, r), q) = Shifted(n, r + q)
<1> DEFINE m == Shifted(n, r)
           S == {k \in Nat : Shifted(m, k) = Shifted(n, r + k)}
<1>1. m \in Int
  BY ShiftedDef
<1>2. 0 \in S
  <2>1. r + 0 = r /\ 0 \in Nat
    OBVIOUS
  <2>2. Shifted(m, 0) = m
    BY <1>1, ShiftedDef
  <2> QED
    BY <2>1, <2>2
<1> HIDE DEF m
<1>3. ASSUME NEW k \in Nat, k \in S PROVE k + 1 \in S
  <2>1. Shifted(m, k + 1) = Shifted(m, k) \div 2
    BY <1>1, ShiftedDef
  <2>2. r + k \in Nat /\ r + (k + 1) = (r + k) + 1 /\ k + 1 \in Nat
    OBVIOUS
  <2>3. Shifted(n, (r + k) + 1) = Shifted(n, r + k) \div 2
    BY <2>2, ShiftedDef
  <2>4. Shifted(m, k) = Shifted(n, r + k)
    BY <1>3
  <2> QED
    BY <2>1, <2>2, <2>3, <2>4
<1> HIDE DEF S
<1>4. Nat \subseteq S
  BY <1>2, <1>3, Induction
<1>5. q \in S
  BY <1>4
<1> QED
  BY <1>5 DEF S, m

\* A shift by up to seven bits is a division by a power of two.
LEMMA ShiftedIs ==
    ASSUME NEW n \in Int, NEW k \in 0 .. 7
    PROVE  Shifted(n, k) = n \div 2 ^ k
<1>1. /\ Shifted(n, 0) = n /\ Shifted(n, 0 + 1) = Shifted(n, 0) \div 2 /\ Shifted(n, 1 + 1) = Shifted(n, 1) \div 2
      /\ Shifted(n, 2 + 1) = Shifted(n, 2) \div 2 /\ Shifted(n, 3 + 1) = Shifted(n, 3) \div 2
      /\ Shifted(n, 4 + 1) = Shifted(n, 4) \div 2 /\ Shifted(n, 5 + 1) = Shifted(n, 5) \div 2
      /\ Shifted(n, 6 + 1) = Shifted(n, 6) \div 2
  <2>1. \A j \in Nat : Shifted(n, j + 1) = Shifted(n, j) \div 2
    BY ShiftedDef
  <2>2. 0 \in Nat /\ 1 \in Nat /\ 2 \in Nat /\ 3 \in Nat /\ 4 \in Nat /\ 5 \in Nat /\ 6 \in Nat
    OBVIOUS
  <2> QED
    BY <2>1, <2>2, ShiftedDef, Zenon
<1>2. /\ Shifted(n, 0) = n \div 1 /\ Shifted(n, 1) = n \div 2 /\ Shifted(n, 2) = n \div 4 /\ Shifted(n, 3) = n \div 8
  BY <1>1
<1>3. /\ Shifted(n, 4) = n \div 16 /\ Shifted(n, 5) = n \div 32 /\ Shifted(n, 6) = n \div 64
      /\ Shifted(n, 7) = n \div 128
  BY <1>1, <1>2
<1>4. /\ 2 ^ 0 = 1 /\ 2 ^ 1 = 2 /\ 2 ^ 2 = 4 /\ 2 ^ 3 = 8 /\ 2 ^ 4 = 16 /\ 2 ^ 5 = 32 /\ 2 ^ 6 = 64 /\ 2 ^ 7 = 128
  BY SMT
<1>5. k = 0 \/ k = 1 \/ k = 2 \/ k = 3 \/ k = 4 \/ k = 5 \/ k = 6 \/ k = 7
  OBVIOUS
<1> DEFINE Is(i) == Shifted(n, i) = n \div 2 ^ i
<1>6. Is(0) /\ Is(1) /\ Is(2) /\ Is(3) /\ Is(4) /\ Is(5) /\ Is(6) /\ Is(7)
  BY <1>2, <1>3, <1>4, Zenon
<1> HIDE DEF Is
<1>7. Is(k)
  BY <1>5, <1>6, Zenon
<1> QED
  BY <1>7 DEF Is

\* The powers of two that narrow fields count to.
Narrow == {2, 4, 8, 16, 32, 64, 128, 256}

\* What is left of a number, by a divisor that is known.
LEMMA RemainderIs ==
    ASSUME NEW N \in Narrow, NEW s \in Int, NEW u \in 0 .. N - 1, NEW m, m = s * N + u
    PROVE  u = m % N
<1>1. CASE N = 2
  BY <1>1
<1>2. CASE N = 4
  BY <1>2
<1>3. CASE N = 8
  BY <1>3
<1>4. CASE N = 16
  BY <1>4
<1>5. CASE N = 32
  BY <1>5
<1>6. CASE N = 64
  BY <1>6
<1>7. CASE N = 128
  BY <1>7
<1>8. CASE N = 256
  BY <1>8
<1> QED
  BY <1>1, <1>2, <1>3, <1>4, <1>5, <1>6, <1>7, <1>8 DEF Narrow

\* The low bits of a number are what is left of it.
LEMMA UnsignedLow ==
    ASSUME NEW w \in Nat, NEW N \in Narrow, Times(w, N), NEW m \in Int
    PROVE  Unsigned(LowBits(m, w)) = m % N
<1> DEFINE u == Unsigned(LowBits(m, w))
<1>1. N \in Nat
  BY DEF Narrow
<1>2. PICK s \in Int : m = s * N + u /\ u \in 0 .. N - 1
  BY <1>1, Remainder
<1> HIDE DEF u
<1> QED
  BY <1>2, RemainderIs DEF u

\* The w bits of B from the place at.
PartIs(q, B, at, w) == q \in Seq(BitSet) /\ Len(q) = w /\ \A i \in 1 .. w : q[i] = B[at + i]

\* Bits of a payload, as the bits of an octet.
LEMMA BitPart ==
    ASSUME NEW B \in Seq(BitSet), NEW at \in Nat, NEW w \in Nat, at + w <= Len(B)
    PROVE  PartIs(SubSeq(B, at + 1, at + w), B, at, w)
<1> DEFINE q == SubSeq(B, at + 1, at + w)
<1>1. q \in Seq(BitSet) /\ Len(q) = w /\ \A i \in 1 .. w : q[i] = B[at + i]
  BY Part
<1> HIDE DEF q
<1>2. PartIs(q, B, at, w)
  BY <1>1 DEF PartIs
<1> QED
  BY <1>2 DEF q

\* Field f of p is r bits before the end of octet k.
OctetRead(f, p, k, r, N) == Unsigned(FieldBits(BitsOf(p), f)) = (p[k] \div 2 ^ r) % N

\* A field inside an octet holds what the octet has there.
LEMMA OctetPart ==
    ASSUME NEW p \in Seq(ByteSet), NEW k \in 1 .. Len(p), NEW j \in Nat, NEW w \in Nat, NEW r \in 0 .. 7, j + w + r = 8,
           NEW N \in Narrow, Times(w, N), NEW f, f.width = w, f.at = 8 * (k - 1) + j
    PROVE  OctetRead(f, p, k, r, N)
<1> DEFINE at == 8 * (k - 1) + j
           B == BitsOf(p)
           n == p[k]
           m == Shifted(n, r)
           S == SubSeq(B, at + 1, at + w)
<1>0. FieldBits(B, f) = S
  BY DEF FieldBits
<1>1. n \in Int /\ p \in Seq(Int) /\ B \in Seq(BitSet) /\ Len(B) = 8 * Len(p)
  BY OctetAt
<1>2. r \in Nat /\ m = n \div 2 ^ r /\ m \in Int
  <2>1. r \in Nat
    OBVIOUS
  <2> HIDE DEF n
  <2>2. m = n \div 2 ^ r
    BY <1>1, ShiftedIs
  <2>3. m \in Int
    BY <1>1, <2>1, ShiftedDef
  <2> QED
    BY <2>1, <2>2, <2>3
<1>3. at \in Nat /\ at + w <= Len(B)
  BY <1>1
<1>4. \A i \in 1 .. 8 : B[8 * (k - 1) + i] = LowBits(n, 8)[i]
  BY <1>1, OctetBits
<1>5. \A i \in 1 .. 8 : LowBits(n, 8)[i] = Shifted(n, 8 - i) % 2
  BY DEF LowBits
<1>6. \A q \in Nat : Shifted(m, q) = Shifted(n, r + q)
  BY <1>1, <1>2, ShiftedTwice
<1> HIDE DEF B, n, m
<1>7. S \in Seq(BitSet) /\ Len(S) = w /\ \A i \in 1 .. w : S[i] = B[at + i]
  <2>1. B \in Seq(BitSet) /\ at \in Nat /\ at + w <= Len(B)
    BY <1>1, <1>3
  <2>2. PartIs(S, B, at, w)
    BY <2>1, BitPart, Zenon
  <2> QED
    BY <2>2 DEF PartIs
<1> HIDE DEF S
<1>8. ASSUME NEW i \in 1 .. w PROVE S[i] = Shifted(m, w - i) % 2
  <2>1. j + i \in 1 .. 8 /\ at + i = 8 * (k - 1) + (j + i) /\ 8 - (j + i) = r + (w - i) /\ w - i \in Nat
    BY <1>3
  <2>2. B[8 * (k - 1) + (j + i)] = Shifted(n, 8 - (j + i)) % 2
    BY <1>4, <1>5, <2>1
  <2>3. Shifted(m, w - i) = Shifted(n, r + (w - i))
    BY <1>6, <2>1
  <2> QED
    BY <1>7, <2>1, <2>2, <2>3
<1>9. S = LowBits(m, w)
  <2>1. S \in [1 .. w -> BitSet]
    BY <1>7, SequenceIsFunction
  <2>2. S = [i \in 1 .. w |-> S[i]]
    BY <2>1
  <2> QED
    BY <1>8, <2>2 DEF LowBits
<1>10. Unsigned(LowBits(m, w)) = m % N
  BY <1>2, UnsignedLow
<1> QED
  BY <1>0, <1>2, <1>9, <1>10 DEF OctetRead, B, n

\* The numbers of the widths that JSON fields have.
LEMMA TimesNarrow ==
    /\ Times(1, 2) /\ Times(2, 4) /\ Times(3, 8) /\ Times(4, 16)
    /\ Times(5, 32) /\ Times(6, 64) /\ Times(7, 128) /\ Times(8, 256)
<1>1. Times(1, 2) /\ Times(2, 4) /\ Times(3, 8) /\ Times(7, 128) /\ Times(8, 256)
  BY TimesTable
<1>2. Times(3 + 1, 2 * 8)
  BY <1>1, TimesNext
<1>3. Times(4, 16)
  BY <1>2
<1>4. Times(4 + 1, 2 * 16)
  BY <1>3, TimesNext
<1>5. Times(5, 32)
  BY <1>4
<1>6. Times(5 + 1, 2 * 32)
  BY <1>5, TimesNext
<1>7. Times(6, 64)
  BY <1>6
<1> QED
  BY <1>1, <1>3, <1>5, <1>7

-----------------------------------------------------------------------------
(* Members of JSON objects and the bits they are written with              *)

\* The number that a field of a JSON object has for its bits.
Decoded(f, bits) ==
    CASE f.as = "signed" -> Signed(bits)
      [] f.as = "float"  -> RawToFloat16(Unsigned(bits))
      [] OTHER -> Unsigned(bits)

\* The member that stands for a number, and the bits that it is written with.
MemberFor(f, x) == IF f.as = "float" THEN JsonNumber(x \div 100, x % 100) ELSE JsonNumber(x, 0)
RawBits(f, x) == LowBits(IF f.as = "float" THEN FloatToRaw16(AsFloat(x)) ELSE x, f.width)

\* The fields of numbers, and the numbers that they hold.
Numeric(f) ==
    /\ f.as \in {"bit", "unsigned", "enum", "signed", "float"} /\ f.width \in Nat
    /\ f.as = "bit" => f.width = 1
    /\ f.as \in {"signed", "float"} => f.width = 16

LeastFloat == 0 - 67108864
GreatestFloat == 67076096
InFloat(x) == x \in Int /\ LeastFloat <= x /\ x <= GreatestFloat

Holds(f, x) ==
    /\ x \in Int
    /\ f.as = "bit" => x \in BitSet
    /\ f.as \in {"bit", "unsigned", "enum"} => 0 <= x /\ Unsigned(LowBits(x, f.width)) = x
    /\ f.as = "signed" => Signed(LowBits(x, f.width)) = x
    /\ f.as = "float" => InFloat(x)

\* What a field shows for its bits.
LEMMA FieldShown ==
    ASSUME NEW f, Numeric(f), NEW bits
    PROVE  FieldValue(f, bits) = MemberFor(f, Decoded(f, bits))
<1>1. CASE f.as = "float"
  <2>1. f.width = 16
    BY <1>1 DEF Numeric
  <2> QED
    BY <1>1, <2>1 DEF FieldValue, MemberFor, Decoded
<1>2. CASE f.as # "float"
  <2>1. f.as \in {"bit", "unsigned", "enum", "signed"}
    BY <1>2 DEF Numeric
  <2> QED
    BY <1>2, <2>1 DEF FieldValue, MemberFor, Decoded
<1> QED
  BY <1>1, <1>2

\* What a float of 24 bits loses.
LEMMA AsFloatNear ==
    ASSUME NEW h, InFloat(h)
    PROVE  InFloat(AsFloat(h)) /\ h - 3 <= AsFloat(h) /\ AsFloat(h) <= h + 3
<1> DEFINE size  == IF h < 0 THEN 0 - h ELSE h
           steps == IF size < 26214400 THEN 64 ELSE IF size < 52428800 THEN 32 ELSE 16
           mid   == Round(size * steps, 100)
           near  == Round(mid * 100, steps)
           a     == AsFloat(h)
<1>0. h \in Int /\ LeastFloat <= h /\ h <= GreatestFloat
  BY DEF InFloat
<1>1. a = IF size < 13107200 THEN h ELSE IF h < 0 THEN 0 - near ELSE near
  BY SMT DEF AsFloat
<1>2. /\ size \in Int /\ 0 <= size /\ size <= 0 - LeastFloat /\ (~ h < 0 => size <= GreatestFloat)
      /\ h = IF h < 0 THEN 0 - size ELSE size
  BY <1>0, SMT DEF LeastFloat, GreatestFloat
<1>3. steps \in {16, 32, 64} /\ (steps # 16 => size < 52428800)
  BY <1>2, SMT
<1> HIDE DEF size, steps, a
<1> DEFINE scaled == size * steps
<1>4. scaled \in Int /\ mid \in Int /\ 100 * mid <= scaled + 50 /\ scaled <= 100 * mid + 49
  <2>1. scaled \in Int
    BY <1>2, <1>3, SMT
  <2> HIDE DEF scaled
  <2>2. Round(scaled, 100) = (scaled + 50) \div 100
    BY SMT DEF Round
  <2> QED
    BY <2>1, <2>2, SMT DEF scaled
<1> HIDE DEF mid
<1> DEFINE most == IF h < 0 THEN 0 - LeastFloat ELSE GreatestFloat
<1>5. ASSUME NEW s \in {16, 32, 64}, steps = s
      PROVE  near \in Int /\ near <= size + 3 /\ size <= near + 3 /\ near <= most
  <2>1. near = (mid * 100 + s \div 2) \div s
    BY <1>5, SMT DEF Round
  <2>2. scaled = size * s
    BY <1>5, SMT
  <2>3. size <= most /\ (most = 67108864 \/ most = 67076096) /\ (s # 16 => size < 52428800)
    BY <1>2, <1>3, <1>5, SMT DEF LeastFloat, GreatestFloat
  <2> HIDE DEF scaled, near, most
  <2>4. near \in Int /\ near <= size + 3 /\ size <= near + 3 /\ near <= most
    <3>1. CASE s = 16
      BY <1>2, <1>4, <2>1, <2>2, <2>3, <3>1, SMT
    <3>2. CASE s = 32
      BY <1>2, <1>4, <2>1, <2>2, <2>3, <3>2, SMT
    <3>3. CASE s = 64
      BY <1>2, <1>4, <2>1, <2>2, <2>3, <3>3, SMT
    <3> QED
      BY <3>1, <3>2, <3>3
  <2> QED
    BY <2>4
<1> HIDE DEF near
<1>6. near \in Int /\ near <= size + 3 /\ size <= near + 3 /\ near <= most
  BY <1>3, <1>5
<1>7. a \in Int /\ LeastFloat <= a /\ a <= GreatestFloat /\ h - 3 <= a /\ a <= h + 3
  BY <1>0, <1>1, <1>2, <1>6, SMT DEF LeastFloat, GreatestFloat, most
<1> QED
  BY <1>7 DEF InFloat, a

\* The raw number of a float that is written.
LEMMA FloatBits ==
    ASSUME NEW a \in Int, InFloat(a)
    PROVE  /\ Fits(a \div 2 ^ 15) /\ FloatToRaw16(a) \in Int
           /\ Unsigned(LowBits(FloatToRaw16(a), 16)) = FloatToRaw16(a)
<1> DEFINE raw == FloatToRaw16(a)
           Q == 2 ^ 15
           N == 65536
<1>1. Q = 32768
  BY LargePowers
<1>2. LeastFloat <= a /\ a <= GreatestFloat
  BY DEF InFloat
<1> HIDE DEF Q
<1>3. a \div Q \in Int /\ -2048 <= a \div Q /\ a \div Q <= 2047
  BY <1>1, <1>2, SMT DEF LeastFloat, GreatestFloat
<1>4. Fits(a \div Q)
  BY <1>3, FitsRange
<1>5. Fits(a \div 2 ^ 15)
  BY <1>4 DEF Q
<1>6. raw \in Int /\ 0 <= raw /\ raw <= 65535
  BY <1>5, FloatKept, Raw16Type
<1>7. N \in Nat /\ Times(16, N)
  BY TimesTable, SMT
<1> HIDE DEF raw
<1>8. raw < N
  BY <1>6, SMT
<1> HIDE DEF N
<1>9. raw \in 0 .. N - 1
  BY <1>6, <1>7, <1>8, SMT
<1>10. Unsigned(LowBits(raw, 16)) = raw
  BY <1>7, <1>9, UnsignedKept
<1> QED
  BY <1>5, <1>6, <1>10 DEF raw

\* A field has the number that it was written with, a float apart.
LEMMA BitsWritten ==
    ASSUME NEW f, Numeric(f), NEW x, Holds(f, x)
    PROVE  /\ RawBits(f, x) \in [1 .. f.width -> BitSet]
           /\ f.as # "float" => Decoded(f, RawBits(f, x)) = x
<1>1. CASE f.as = "float"
  <2>1. AsFloat(x) \in Int /\ InFloat(AsFloat(x))
    BY <1>1, AsFloatNear DEF Holds, InFloat
  <2>2. FloatToRaw16(AsFloat(x)) \in Int /\ f.width \in Nat
    BY <2>1, FloatBits DEF Numeric
  <2> QED
    BY <1>1, <2>2, LowBitsType DEF RawBits
<1>2. CASE f.as # "float"
  <2>1. RawBits(f, x) = LowBits(x, f.width)
    BY <1>2 DEF RawBits
  <2>2. x \in Int /\ f.width \in Nat
    BY DEF Holds, Numeric
  <2>3. Decoded(f, LowBits(x, f.width)) = x
    BY <1>2 DEF Decoded, Holds, Numeric
  <2> QED
    BY <2>1, <2>2, <2>3, LowBitsType
<1> QED
  BY <1>1, <1>2

\* A number as a member, with hundredths for a float only.
Tells(f, m, x) ==
    /\ m.type = "number" /\ m.value[1] \in Int /\ m.value[2] \in 0 .. 99
    /\ IF f.as = "float" THEN x = m.value[1] * 100 + m.value[2] ELSE m.value = <<x, 0>>

\* A member is written with the bits of its number.
LEMMA MemberWritten ==
    ASSUME NEW f, Numeric(f), NEW x, Holds(f, x), NEW m, Tells(f, m, x)
    PROVE  GetRawValue(f, m) = {RawBits(f, x)}
<1>1. f.as # "char" /\ IsNumber(m) /\ NumberOf(m) = m.value
  <2>1. m # Null
    BY DEF Tells, Null
  <2> QED
    BY <2>1 DEF Numeric, Tells, IsNumber, NumberOf
<1>2. CASE f.as = "float"
  <2>1. x = m.value[1] * 100 + m.value[2] /\ f.width = 16
    BY <1>2 DEF Tells, Numeric
  <2> QED
    BY <1>1, <1>2, <2>1 DEF GetRawValue, RawBits
<1>3. ASSUME f.as # "float" PROVE m.value[1] = x /\ m.value = <<x, 0>> /\ RawBits(f, x) = LowBits(x, f.width) /\ x \in Int
  BY <1>3 DEF Tells, RawBits, Holds
<1>4. CASE f.as \in {"unsigned", "enum"}
  <2>1. ~ (m.value[1] < 0)
    BY <1>3, <1>4 DEF Holds
  <2> QED
    BY <1>1, <1>3, <1>4, <2>1 DEF GetRawValue
<1>5. CASE f.as = "signed"
  <2>1. Truncate(m.value) = x
    BY <1>3, <1>5 DEF Truncate
  <2> QED
    BY <1>1, <1>3, <1>5, <2>1 DEF GetRawValue
<1>6. CASE f.as = "bit"
  <2>1. f.width = 1 /\ x \in {0, 1}
    BY <1>6 DEF Numeric, Holds, BitSet
  <2>2. LowBits(x, 1) = <<x>>
    <3>1. Shifted(x, 0) = x
      BY <2>1, ShiftedDef
    <3>2. LowBits(x, 1) = [i \in 1 .. 1 |-> Shifted(x, 1 - i) % 2]
      BY DEF LowBits
    <3>3. \A i \in 1 .. 1 : Shifted(x, 1 - i) % 2 = x
      BY <2>1, <3>1
    <3> QED
      BY <3>2, <3>3
  <2>3. (IF m.value = <<0, 0>> THEN <<0>> ELSE <<1>>) = <<x>>
    BY <1>3, <1>6, <2>1
  <2>4. GetRawValue(f, m) = {IF m.value = <<0, 0>> THEN <<0>> ELSE <<1>>}
    BY <1>1, <1>6 DEF GetRawValue
  <2> QED
    BY <1>3, <1>6, <2>1, <2>2, <2>3, <2>4
<1> QED
  BY <1>2, <1>4, <1>5, <1>6 DEF Numeric

\* What a field has read can be shown and written again.
LEMMA ShownWritten ==
    ASSUME NEW f, Numeric(f), NEW x, Holds(f, x)
    PROVE  Tells(f, MemberFor(f, x), x)
<1>1. x \in Int
  BY DEF Holds
<1>2. CASE f.as = "float"
  <2>1. MemberFor(f, x) = JsonNumber(x \div 100, x % 100)
    BY <1>2 DEF MemberFor
  <2>2. x \div 100 \in Int /\ x % 100 \in 0 .. 99 /\ x = (x \div 100) * 100 + (x % 100)
    BY <1>1
  <2> DEFINE q == x \div 100
             r == x % 100
  <2> HIDE DEF q, r
  <2>3. JsonNumber(q, r).type = "number" /\ JsonNumber(q, r).value[1] = q /\ JsonNumber(q, r).value[2] = r
    BY DEF JsonNumber
  <2>4. Tells(f, JsonNumber(q, r), x)
    BY <1>2, <2>2, <2>3 DEF Tells, q, r
  <2> QED
    BY <2>1, <2>4 DEF q, r
<1>3. CASE f.as # "float"
  <2>1. MemberFor(f, x) = JsonNumber(x, 0)
    BY <1>3 DEF MemberFor
  <2>2. JsonNumber(x, 0).type = "number" /\ JsonNumber(x, 0).value = <<x, 0>>
    BY DEF JsonNumber
  <2>3. <<x, 0>>[1] = x /\ <<x, 0>>[2] = 0 /\ 0 \in 0 .. 99
    OBVIOUS
  <2> QED
    BY <1>1, <1>3, <2>1, <2>2, <2>3 DEF Tells
<1> QED
  BY <1>2, <1>3

\* How far a float is off, in terms of what the documents read.
OffByLess(x, high, low) == \E e \in 0 .. 15 : Exponent(high) = e /\ x - Hundredths(high, low) \in 0 .. 2 ^ e - 1

LEMMA StepSmall ==
    ASSUME NEW x, NEW raw, NEW e, StepOff(x, raw, e), NEW high, Exponent(high) = (raw \div 2048) % 16,
           NEW y, RawToFloat16(raw) = y
    PROVE  Exponent(high) = e /\ x - y \in 0 .. 2 ^ e - 1
BY DEF StepOff

LEMMA StepShown ==
    ASSUME NEW x, NEW e \in 0 .. 15, NEW high, NEW low, Exponent(high) = e,
           x - Hundredths(high, low) \in 0 .. 2 ^ e - 1
    PROVE  OffByLess(x, high, low)
BY Zenon DEF OffByLess

\* Where the documents read the exponent, it was put.
LEMMA ExponentPut ==
    ASSUME NEW h \in ByteSet, NEW l \in ByteSet
    PROVE  Exponent(h) = ((256 * h + l) \div 2048) % 16
<1> DEFINE q == h \div 8
           s == h % 8
           raw == 256 * h + l
<1>1. h \in Int /\ l \in 0 .. 255
  BY DEF ByteSet
<1>2. q \in Int /\ s \in 0 .. 7 /\ h = 8 * q + s
  BY <1>1, SMT
<1>3. Exponent(h) = q % 16
  BY DEF Exponent
<1> HIDE DEF q, s
<1>4. raw \div 2048 = q
  BY <1>1, <1>2, SMT
<1> HIDE DEF raw
<1>5. Exponent(h) = (raw \div 2048) % 16
  BY <1>3, <1>4
<1> QED
  BY <1>5 DEF raw

\* The octets of a float of two octets.
Makes(raw, high, low) == raw = 256 * high + low

\* A float of two octets is off by less than one step.
LEMMA FloatWithin ==
    ASSUME NEW x \in Int, InFloat(x), NEW high \in ByteSet, NEW low \in ByteSet,
           Makes(FloatToRaw16(x), high, low)
    PROVE  OffByLess(x, high, low)
<1> DEFINE raw == FloatToRaw16(x)
<1>1. Fits(x \div 2 ^ 15)
  BY FloatBits
<1>2. PICK e \in 0 .. 15 : StepOff(x, raw, e)
  BY <1>1, FloatKept
<1> HIDE DEF raw
<1>3. RawToFloat16(raw) = Hundredths(high, low)
  <2>1. RawToFloat16(256 * high + low) = Hundredths(high, low)
    BY Float16Read
  <2> QED
    BY <2>1 DEF Makes, raw
<1>4. Exponent(high) = (raw \div 2048) % 16
  BY ExponentPut DEF Makes, raw
<1>5. Exponent(high) = e /\ x - Hundredths(high, low) \in 0 .. 2 ^ e - 1
  BY <1>2, <1>3, <1>4, StepSmall
<1> QED
  BY <1>5, StepShown

\* A float of two octets that was sent, and its exponent.
SentAsFloat(x, p) == Len(p) = 3 /\ SubSeq(BitsOf(p), 9, 24) = LowBits(FloatToRaw16(x), 16)

LEMMA FloatSent ==
    ASSUME NEW x \in Int, InFloat(x), NEW p \in Seq(ByteSet), SentAsFloat(x, p)
    PROVE  OffByLess(x, p[2], p[3])
<1>1. Unsigned(LowBits(FloatToRaw16(x), 16)) = FloatToRaw16(x)
  BY FloatBits
<1>2. Makes(FloatToRaw16(x), p[2], p[3])
  <2>1. Unsigned(SubSeq(BitsOf(p), 9, 24)) = 256 * p[2] + p[3]
    <3>1. Len(p) >= 3
      BY DEF SentAsFloat
    <3> QED
      BY <3>1, TwoOctets, SMTT(30)
  <2> QED
    BY <1>1, <2>1, ZenonT(30) DEF Makes, SentAsFloat
<1>3. p[2] \in ByteSet /\ p[3] \in ByteSet
  <2>1. 2 \in 1 .. Len(p) /\ 3 \in 1 .. Len(p)
    BY DEF SentAsFloat
  <2> QED
    BY <2>1, OctetAt
<1> QED
  BY <1>2, <1>3, FloatWithin
====
