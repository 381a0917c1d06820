-------------------------- MODULE DatapointCatalog --------------------------
(***************************************************************************)
(* The lists that must agree: the names of data points that the ETS tool   *)
(* writes into a configuration (dptwbmqttconfig.cpp, dptjsonconfig.cpp),   *)
(* those the schema allows there (wb-mqtt-knx.schema.json) and the data    *)
(* points the service makes of them (dptwbmqttbuilder.cpp,                 *)
(* dptjsonbuilder.cpp, mqttbuilder.cpp).                                   *)
(***************************************************************************)
EXTENDS DatapointId, JsonDatapoint

CONSTANT Descriptors  \* wb-mqtt-knx-jsondpt.conf: a function from main ids

\* As in the file that is installed: no id is 0, every encoding can be built.
Buildable(encoding) ==
    /\ IsSequence(encoding)
    /\ \A k \in DOMAIN encoding :
           /\ encoding[k].width \in Nat
           /\ encoding[k].code \in {"r"} \cup DOMAIN EncodingMap
           /\ encoding[k].code # "r" => Supported(EncodingMap[encoding[k].code], encoding[k].width)

ASSUME DescriptorsAssumption ==
    /\ DOMAIN Descriptors \subseteq Nat \ {0}
    /\ \A m \in DOMAIN Descriptors :
           /\ Buildable(Descriptors[m].encoding)
           /\ DOMAIN Descriptors[m].datapoint \subseteq Nat
           /\ \A s \in DOMAIN Descriptors[m].datapoint : Buildable(Descriptors[m].datapoint[s].encoding)

\* std::map's find.
Find(map, id) == {map[k] : k \in {j \in DOMAIN map : SameKey(j, id)}}

DptsCatalog == {<<1, "B1">>, <<2, "B2">>, <<3, "B1U3">>, <<4, "Character_Set">>,
                <<5, "8-Bit_Unsigned_Value">>, <<6, "V8">>, <<7, "2-Octet_Unsigned_Value">>,
                <<8, "2-Octet_Signed_Value">>, <<9, "2-Octet_Float_Value">>,
                <<12, "4-Octet_Unsigned_Value">>, <<13, "4-Octet_Signed_Value">>,
                <<14, "4-Octet_Float_Value">>, <<20, "N8">>}

WbNames ==
    LET title(m) == CHOOSE t \in {d[2] : d \in DptsCatalog} : <<m, t>> \in DptsCatalog
    IN  [id \in {Id(0)} \cup {Id(d[1]) : d \in DptsCatalog} |->
            IF id = Id(0) THEN RawValueString ELSE Name("wb", IdText(id), title(id.main))]

JsonNames ==
    [id \in {Id(m) : m \in DOMAIN Descriptors} \cup
            UNION {{SetSub(Id(m), s) : s \in DOMAIN Descriptors[m].datapoint} : m \in DOMAIN Descriptors} |->
        Name("json", IdText(id), IF id.hasSub THEN Descriptors[id.main].datapoint[id.sub].title
                                 ELSE Descriptors[id.main].title)]

ExactName(names, id) == Find(names, id)  \* fault: no fall back on the main id

GetDptConfigName(names, id) ==
    IF id.hasSub /\ Find(names, id) # {} THEN Find(names, id)
    ELSE Find(names, ClearSub(id))

-----------------------------------------------------------------------------
(* The schema: what it lists by main id, and by id with two spaces before  *)
(* the name; 12.001 stands without them among the data points of MQTT.     *)

MainTitlesMqtt == {<<1, "B1">>, <<2, "B2">>, <<3, "B1U3">>, <<4, "Character_Set">>,
                   <<5, "8-Bit_Unsigned_Value">>, <<6, "V8">>, <<7, "2-Octet_Unsigned_Value">>,
                   <<8, "2-Octet_Signed_Value">>, <<9, "2-Octet_Float_Value">>,
                   <<13, "4-Octet_Signed_Value">>, <<14, "4-Octet_Float_Value">>, <<20, "N8">>}

DatapointTypeMqtt ==
    {RawValueString, Name("wb", IdText(SubId(12, 1)), "4-Octet_Unsigned_Value")}
        \cup {Name("wb", IdText(Id(d[1])), d[2]) : d \in MainTitlesMqtt}

MainTitlesJSON == {<<1, "B1">>, <<2, "B2">>, <<3, "B1U3">>, <<4, "CharacterSet">>,
                   <<5, "8-Bit_Unsigned_Value">>, <<6, "V8">>, <<7, "2-Octet_Unsigned_Value">>,
                   <<8, "2-Octet_Signed_Value">>, <<9, "2-Octet_Float_Value">>, <<10, "Time">>,
                   <<11, "Date">>, <<12, "4-Octet_Unsigned_Value">>, <<13, "4-Octet_Signed_Value">>,
                   <<14, "4-Octet_Float_Value">>, <<15, "Access_Data">>, <<16, "String">>,
                   <<17, "SceneNumber">>, <<18, "SceneControl">>, <<19, "Date_Time">>, <<20, "N8">>,
                   <<21, "B8">>, <<23, "N2">>, <<26, "Scene_Info">>,
                   <<27, "Combined_Info_On_Off">>, <<29, "V64">>}

SubTitlesJSON == {<<1, 1, "Switch">>, <<1, 2, "Bool">>, <<1, 2, "Enable">>, <<6, 20, "Status_with_Mode">>,
                  <<10, 1, "Time_Of_Day">>, <<11, 1, "Date">>, <<12, 1, "Value-4-Ucount">>,
                  <<15, 0, "Access_Data">>, <<19, 1, "Date_Time">>, <<21, 1, "Status_Gen">>,
                  <<21, 2, "Device_Control">>, <<26, 1, "Scene_Info">>, <<27, 1, "Combined_Info_On_Off">>}

DatapointTypeJSON ==
    {Name("json", IdText(Id(d[1])), d[2]) : d \in MainTitlesJSON} \cup
    {[Name("json", IdText(SubId(d[1], d[2])), d[3]) EXCEPT !.indented = TRUE] : d \in SubTitlesJSON}

SchemaTypes == DatapointTypeMqtt \cup DatapointTypeJSON

-----------------------------------------------------------------------------
DptsWithout20 ==                 \* fault: a data point is missing in the list
    {Raw, Dpt1, Dpt2, Dpt3, Dpt4, Dpt5, Dpt6, Dpt7, Dpt8, Dpt9, Dpt12, Dpt13, Dpt14}
Dpts == {Raw, Dpt1, Dpt2, Dpt3, Dpt4, Dpt5, Dpt6, Dpt7, Dpt8, Dpt9, Dpt12, Dpt13, Dpt14, Dpt20}

DptInstanceCreatorMap == [id \in {Id(d.main) : d \in Dpts} |-> CHOOSE d \in Dpts : d.main = id.main]

FindDptInstanceCreator(id) ==
    IF Find(DptInstanceCreatorMap, id) # {} THEN Find(DptInstanceCreatorMap, id)
    ELSE Find(DptInstanceCreatorMap, ClearSub(id))

JsonDpts == UNION {JsonCreate(Descriptors, id) : id \in DOMAIN JsonNames}

NoObject == [kind |-> "nullptr"]

\* TGroupObjectMqttBuilder::Create: nullptr for a name that cannot be read, an
\* exception for an id there is no data point for.
CreateDatapoint(name) ==
    LET ids == IF name = RawValueString THEN {Id(0)} ELSE SetFromString(name)
    IN  IF ids = {} THEN {NoObject}
        ELSE IF name.kind = "json" THEN UNION {JsonCreate(Descriptors, id) : id \in ids}
        ELSE UNION {FindDptInstanceCreator(id) : id \in ids}
=============================================================================
