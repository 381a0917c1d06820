----------------------------- MODULE KnxAddress -----------------------------
(***************************************************************************)
(* Group and individual addresses (knxgroupaddress.cpp,                    *)
(* knxindividualaddress.cpp): from the parts of a text, from the 16-bit    *)
(* number knxd uses (eibaddr_t), and back.                                 *)
(*                                                                         *)
(* A conversion that may throw is the set of its outcomes: {} where it     *)
(* throws, {r} where it returns r.  A token is what std::stoi makes of one *)
(* part of a text, {n} or {}, and a text the sequence of its tokens.       *)
(***************************************************************************)
EXTENDS Integers, Sequences

\* A word of a text is read as one integer, or as none.
WordValues == {w \in SUBSET Int : \A m, n \in w : m = n}

MainGroups   == 0 .. 31
MiddleGroups == 0 .. 7
SubGroups    == 0 .. 255
SubGroupsDouble == 0 .. 2047
EibAddresses == 0 .. 65535

GroupAddresses == [main : MainGroups, middle : MiddleGroups, sub : SubGroups]
GroupAddress(m, n, s) == [main |-> m, middle |-> n, sub |-> s]

\* The parts are cast to uint32_t first: a negative one is out of bounds too.
InitTriple(main, middle, sub) ==
    IF main \in MainGroups /\ middle \in MiddleGroups /\ sub \in SubGroups
    THEN {GroupAddress(main, middle, sub)}
    ELSE {}

InitDouble(main, sub) ==
    IF main \in MainGroups /\ sub \in SubGroupsDouble
    THEN {GroupAddress(main, (sub \div 256) % 8, sub % 256)}
    ELSE {}

InitEib(address) ==
    IF address \in EibAddresses
    THEN {GroupAddress((address \div 2048) % 32, (address \div 256) % 8, address % 256)}
    ELSE {}

GroupAddressOf(tokens) ==
    CASE Len(tokens) = 3 -> UNION {InitTriple(m, n, s) : m \in tokens[1], n \in tokens[2], s \in tokens[3]}
      [] Len(tokens) = 2 -> UNION {InitDouble(m, s) : m \in tokens[1], s \in tokens[2]}
      [] Len(tokens) = 1 -> UNION {InitEib(n) : n \in tokens[1]}
      [] OTHER -> {}

GetEibAddress(a) == (a.main % 32) * 2048 + (a.middle % 8) * 256 + (a.sub % 256)

AddressLess(a, b) == GetEibAddress(a) < GetEibAddress(b)
AddressEqual(a, b) == a.main = b.main /\ a.middle = b.middle /\ a.sub = b.sub

GroupAddressText(a) == <<{a.main}, {a.middle}, {a.sub}>>

-----------------------------------------------------------------------------
IndividualAddresses == [area : 0 .. 15, line : 0 .. 15, device : 0 .. 255]

IndividualAddress(eib) ==
    [area |-> (eib \div 4096) % 16, line |-> (eib \div 256) % 16, device |-> eib % 256]

IndividualAddressOf(tokens) ==
    IF Len(tokens) = 3
    THEN {[area |-> a, line |-> l, device |-> d] :
              a \in tokens[1] \cap (0 .. 15), l \in tokens[2] \cap (0 .. 15), d \in tokens[3] \cap (0 .. 255)}
    ELSE {}

GetIndividualEib(i) == (i.area % 16) * 4096 + (i.line % 16) * 256 + (i.device % 256)
=============================================================================
