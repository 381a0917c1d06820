---------------------------- MODULE KnxTelegram ----------------------------
(***************************************************************************)
(* Telegrams: the transport layer's octets that are exchanged with knxd    *)
(* (TTpdu) and the frame of the bus around them (TTelegram).  SetRaw and   *)
(* SetRawTelegram are sets of outcomes, as in KnxAddress; they start from  *)
(* a new object, as all of their callers do.                               *)
(***************************************************************************)
EXTENDS KnxAddress

Octets == 0 .. 255
MaxPayloadSize == 15
SizeWithoutPayload == 8

UDP == 0
NDP == 1
UCD == 2
NCD == 3
GroupValueRead == 0
GroupValueResponse == 1
GroupValueWrite == 2
Connect == 0

\* Six bits of the first octet of a payload share an octet with the APCI.
Payloads == {p \in Seq(Octets) : Len(p) \in 1 .. MaxPayloadSize /\ p[1] < 64}

Tpdus == [type : 0 .. 3, seq : 0 .. 15, apci : 0 .. 15, control : 0 .. 3, payload : Payloads]
IsData(tpdu) == tpdu.type \in {UDP, NDP}

Tpdu(type, seq, apci, control, payload) ==
    [type |-> type, seq |-> seq, apci |-> apci, control |-> control, payload |-> payload]
DataTpdu(apci) == Tpdu(UDP, 0, apci, Connect, <<0>>)
DefaultTpdu == DataTpdu(GroupValueRead)

SixBits(octets) == [k \in DOMAIN octets |-> IF k = 1 THEN octets[k] % 64 ELSE octets[k]]

SetPayload(tpdu, octets) ==
    IF Len(octets) \in 1 .. MaxPayloadSize
    THEN {Tpdu(tpdu.type, tpdu.seq, tpdu.apci, tpdu.control, SixBits(octets))}
    ELSE {}

\* Of a single octet with data the code reads the APCI past the end, but then
\* there is no payload and it throws whatever it has read.
SetRaw(octets) ==
    LET first == octets[1]
        type  == first \div 64
        seq   == (first \div 4) % 16
    IN  IF type \notin {UDP, NDP} THEN {Tpdu(type, seq, GroupValueRead, first % 4, <<0>>)}
        ELSE IF Len(octets) = 1 THEN {}
        ELSE SetPayload(Tpdu(type, seq, (first % 4) * 4 + (octets[2] \div 64), Connect, <<0>>), Tail(octets))

GetRaw(tpdu) ==
    LET first == tpdu.type * 64 + (tpdu.seq % 16) * 4
    IN  IF IsData(tpdu)
        THEN <<first + (tpdu.apci \div 4), (tpdu.apci % 4) * 64 + (tpdu.payload[1] % 64)>> \o Tail(tpdu.payload)
        ELSE <<first + tpdu.control>>

-----------------------------------------------------------------------------
(* The frame                                                               *)

Telegrams == [repeated : BOOLEAN, priority : 0 .. 3, src : EibAddresses, dst : EibAddresses,
              group : BOOLEAN, routing : 0 .. 7, tpdu : Tpdus]

Telegram(src, dst, group, tpdu) ==
    [repeated |-> FALSE, priority |-> 3, src |-> src, dst |-> dst, group |-> group,
     routing |-> 0, tpdu |-> tpdu]
DefaultTelegram == Telegram(0, 0, FALSE, DefaultTpdu)

Bit(n, i) == (n \div 2 ^ i) % 2

\* Whether an odd number of the octets has bit i.
Odd(octets, i) ==
    LET odd[k \in 0 .. Len(octets)] == IF k = 0 THEN 0 ELSE (odd[k - 1] + Bit(octets[k], i)) % 2
    IN  odd[Len(octets)]

Xor(octets) ==
    Odd(octets, 0) + 2 * Odd(octets, 1) + 4 * Odd(octets, 2) + 8 * Odd(octets, 3)
        + 16 * Odd(octets, 4) + 32 * Odd(octets, 5) + 64 * Odd(octets, 6) + 128 * Odd(octets, 7)

NoParity(octets) == 0            \* fault: the parity is neither written nor checked
CalculateParity(octets) == 255 - Xor(octets)

GetRawTelegram(t) ==
    LET control == 128 + (IF t.repeated THEN 0 ELSE 32) + 16 + (t.priority % 4) * 4
        npdu    == (IF t.group THEN 128 ELSE 0) + (t.routing % 8) * 16 + Len(t.tpdu.payload)
        octets  == <<control, t.src \div 256, t.src % 256, t.dst \div 256, t.dst % 256, npdu>> \o GetRaw(t.tpdu)
    IN  Append(octets, CalculateParity(octets))

\* The bits of the control octet other than repetition and priority.
FixedControlBits(octet) == octet - Bit(octet, 5) * 32 - ((octet \div 4) % 4) * 4

SetRawTelegram(octets) ==
    IF /\ Len(octets) \in SizeWithoutPayload .. SizeWithoutPayload + MaxPayloadSize
       /\ Len(octets) = SizeWithoutPayload + (octets[6] % 16)
       /\ FixedControlBits(octets[1]) = 128 + 16
       /\ CalculateParity(octets) = 0
    THEN {[repeated |-> Bit(octets[1], 5) = 0,
           priority |-> (octets[1] \div 4) % 4,
           src      |-> octets[2] * 256 + octets[3],
           dst      |-> octets[4] * 256 + octets[5],
           group    |-> Bit(octets[6], 7) = 1,
           routing  |-> (octets[6] % 128) \div 16,
           tpdu     |-> u] : u \in SetRaw(SubSeq(octets, 7, Len(octets) - 1))}
    ELSE {}
=============================================================================
