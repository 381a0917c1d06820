------------------------------ MODULE EtsConfig ------------------------------
(***************************************************************************)
(* The ETS tool (etsconfigtool.cpp, mqttknxconfig.cpp): from an export of  *)
(* ETS to a configuration of the service, and the schema's check of one.   *)
(*                                                                         *)
(* An export is a sequence of main groups, each the sequence of its child  *)
(* elements.  An element has a tag, "GroupRange" or "GroupAddress", its    *)
(* children, and, for a group address, the tokens of the attribute Address *)
(* and the attribute DPTs: {} if it is missing, else {d} with d the        *)
(* numbers after the first '-' of its first type: each {n}, {} if it is    *)
(* none, or TooBig.                                                        *)
(***************************************************************************)
EXTENDS KnxAddress, DatapointCatalog

\* The attribute DPTs names one type at most; '-' is no sign, and -1 stands for
\* a number that no int holds.
TooBig == {-1}
Numbers == {w \in SUBSET Nat : \A m, n \in w : m = n} \cup {TooBig}
IsElement(element) ==
    /\ IsSequence(element.children)
    /\ element.address \in Seq(WordValues)
    /\ element.dpts \subseteq Seq(Numbers) /\ \A d, e \in element.dpts : d = e

IsExport(export) ==
    /\ IsSequence(export)
    /\ \A k \in DOMAIN export :
           /\ IsSequence(export[k])
           /\ \A j \in DOMAIN export[k] :
                  /\ IsElement(export[k][j])
                  /\ \A i \in DOMAIN export[k][j].children : IsElement(export[k][j].children[i])

DefaultName == RawValueString
Dropped == Name("dropped", IdText(Id(0)), "")  \* the empty string

\* Of a type without numbers, or with one that no int holds, the control is left
\* out (std::out_of_range); a number that cannot be read is std::invalid_argument,
\* which ends the tool.  The main number is read first.
OutOfRange(dpts) ==
    \/ dpts = <<>>
    \/ dpts[1] = TooBig
    \/ Len(dpts) = 2 /\ dpts[1] # {} /\ dpts[2] = TooBig

DatapointTypeExportToConfig(dpts) ==
    IF OutOfRange(dpts) THEN {Dropped}
    ELSE LET ids == {IF Len(dpts) = 2 THEN SubId(m, s) ELSE Id(m) :
                        m \in dpts[1], s \in IF Len(dpts) = 2 THEN dpts[2] ELSE {0}}
             NameOf(id) == IF GetDptConfigName(WbNames, id) # {} THEN GetDptConfigName(WbNames, id)
                           ELSE IF GetDptConfigName(JsonNames, id) # {} THEN GetDptConfigName(JsonNames, id)
                           ELSE {DefaultName}
         IN  UNION {NameOf(id) : id \in ids}

\* The controls a child element adds: none for one without an address.
ControlsOf(element) ==
    IF element.tag # "GroupAddress" THEN {<<>>}
    ELSE LET types == IF element.dpts = {} THEN {DefaultName}
                      ELSE UNION {DatapointTypeExportToConfig(d) : d \in element.dpts}
         IN  {IF type = Dropped THEN <<>> ELSE <<[address |-> a, type |-> type]>> :
                 a \in GroupAddressOf(element.address), type \in types}

\* A loop over what may throw: {} if one step does, else all results in order.
InOrder(steps) ==
    IF \E k \in DOMAIN steps : steps[k] = {} THEN {}
    ELSE {FlattenSeq([k \in DOMAIN steps |-> Only(steps[k])])}

ControlList(children) == InOrder([k \in DOMAIN children |-> ControlsOf(children[k])])

\* AddDevice writes the addresses as texts of three parts.
Written(controls) ==
    [k \in DOMAIN controls |-> [address |-> GroupAddressText(controls[k].address), type |-> controls[k].type]]

MainRangeDevice(controls) ==      \* fault: the middle group is left out of the id
    [id |-> <<controls[Len(controls)].address.main>>, controls |-> Written(controls)]

\* A device is named after the last of its controls; none is made of nothing.
RangeDevice(controls) ==
    LET last == controls[Len(controls)].address
    IN  [id |-> <<last.main, last.middle>>, controls |-> Written(controls)]

MainDevice(controls) ==
    [id |-> <<controls[Len(controls)].address.main>>, controls |-> Written(controls)]

DevicesOf(controls, Device(_)) == IF controls = <<>> THEN <<>> ELSE <<Device(controls)>>

\* A main group is read up to its first address, with which all of its
\* children are taken at once.
MainGroupDevices(children) ==
    LET addresses == {k \in DOMAIN children : children[k].tag = "GroupAddress"}
        first == CHOOSE k \in addresses \cup {Len(children) + 1} :
                     \A j \in addresses \cup {Len(children) + 1} : k <= j
        ranges == [k \in 1 .. first - 1 |->
                      {DevicesOf(l, RangeDevice) : l \in ControlList(children[k].children)}]
        main   == {DevicesOf(l, MainDevice) : l \in ControlList(children)}
    IN  InOrder(ranges \o IF addresses = {} THEN <<>> ELSE <<main>>)

\* What the schema lets through; its pattern allows no 0/0/0.
SchemaAllows(control) ==
    /\ control.type \in SchemaTypes
    /\ \E a \in GroupAddressOf(control.address) : a # GroupAddress(0, 0, 0)

Validate(config) ==
    \A d \in DOMAIN config.devices : \A k \in DOMAIN config.devices[d].controls :
        SchemaAllows(config.devices[d].controls[k])

\* AddHeader leaves the legacy device out; the devices are in the order AddDevice
\* appends them.
LoadEtsExport(export) ==
    {[legacy |-> FALSE, devices |-> d] :
        d \in InOrder([k \in DOMAIN export |-> MainGroupDevices(export[k])])}
=============================================================================
