---------------------------- MODULE KnxConverter ----------------------------
(***************************************************************************)
(* Telegrams as the texts of the legacy device (knxconverter.cpp).  A text *)
(* to send is a record of its words: whether the receiver begins with 'g', *)
(* the tokens of the addresses, the APCI's word and the data's words, as   *)
(* StringValueToByte takes them.  A text that is published is what its     *)
(* words stand for.                                                        *)
(***************************************************************************)
EXTENDS KnxTelegram, Bits

ApciString == <<"GroupValueRead", "GroupValueResponse", "GroupValueWrite",
                "IndividualAddrWrite", "IndividualAddrRequest", "IndividualAddrResponse",
                "AdcRead", "AdcResponse", "MemoryRead", "MemoryResponse", "MemoryWrite",
                "UserMessage", "MaskVersionRead", "MaskVersionResponse", "Restart", "Escape">>

CommunicationTypeString == <<"Connect", "Disconnect", "Ack", "Nack">>

\* The word of an APCI is a name, or a number with the name "".
StringToKnxApci(word) ==
    LET named == {k \in DOMAIN ApciString : ApciString[k] = word.name}
    IN  IF named # {} THEN {k - 1 : k \in named}
        ELSE {b % 16 : b \in StringValueToByte(word.number)}

\* The parts of an individual address are cut to their widths, not refused.
StringToKnxAddress(tokens, groupBit) ==
    IF groupBit THEN {GetEibAddress(a) : a \in GroupAddressOf(tokens)}
    ELSE IF Len(tokens) = 3
         THEN {(a % 16) * 4096 + (l % 16) * 256 + (d % 256) : a \in tokens[1], l \in tokens[2], d \in tokens[3]}
         ELSE {}

\* The octets of the payload: the first word keeps six bits, no word is zero.
PayloadOf(words) ==
    LET octets == [k \in DOMAIN words |-> StringValueToByte(words[k])]
    IN  IF words = <<>> THEN {<<0>>}
        ELSE IF (\E k \in DOMAIN words : octets[k] = {}) \/ Len(words) > MaxPayloadSize THEN {}
        ELSE {[k \in DOMAIN words |-> LET b == Only(octets[k]) IN IF k = 1 THEN b % 64 ELSE b]}

\* A group telegram has no source; an individual one has "i:source:receiver".
MqttToKnxTelegram(text) ==
    LET sources == IF text.group THEN {0} ELSE StringToKnxAddress(text.src, FALSE)
    IN  {Telegram(s, d, text.group, u) :
            s \in sources, d \in StringToKnxAddress(text.dst, text.group),
            u \in UNION {SetPayload(DataTpdu(a), p) :
                            a \in StringToKnxApci(text.apci), p \in PayloadOf(text.data)}}

-----------------------------------------------------------------------------
WholePayload(payload) == payload  \* fault: the first octet of a long payload stays

\* Of a long payload the first octet is left out.
KnxPayloadToString(payload) == IF Len(payload) = 1 THEN payload ELSE Tail(payload)

KnxReceiverAddress(t) ==
    IF t.group THEN [group |-> TRUE, address |-> Only(InitEib(t.dst))]
    ELSE [group |-> FALSE, address |-> IndividualAddress(t.dst)]

KnxTelegramToMqtt(t) ==
    LET addresses == [src |-> IndividualAddress(t.src), dst |-> KnxReceiverAddress(t)]
    IN  IF IsData(t.tpdu)
        THEN [to |-> addresses, what |-> ApciString[t.tpdu.apci + 1], data |-> KnxPayloadToString(t.tpdu.payload)]
        ELSE [to |-> addresses, what |-> CommunicationTypeString[t.tpdu.control + 1], data |-> <<>>]
=============================================================================
