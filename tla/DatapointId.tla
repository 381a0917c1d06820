---------------------------- MODULE DatapointId ----------------------------
(***************************************************************************)
(* Data point ids (datapointid.cpp) and the names that configurations give *)
(* data points.  A name is a record: its kind ("raw" for Raw_Value, "wb",  *)
(* "json" with the suffix _JSON, "bad" where no number, dot and number can *)
(* be found), the number before the dot, what follows it ({n}, or {} for   *)
(* "xxx"), the title that ends it, and whether spaces precede it.          *)
(***************************************************************************)
EXTENDS Naturals

Ids == [main : Nat, sub : Nat, hasSub : BOOLEAN]

Id(main)         == [main |-> main, sub |-> 0, hasSub |-> FALSE]
SubId(main, sub) == [main |-> main, sub |-> sub, hasSub |-> TRUE]
SetSub(id, sub)  == SubId(id.main, sub)
ClearSub(id)     == Id(id.main)

IdEqual(a, b) == a.hasSub = b.hasSub /\ a.main = b.main /\ (a.hasSub => a.sub = b.sub)

IdLess(a, b) ==
    \/ ~ a.hasSub /\ b.hasSub
    \/ /\ a.hasSub = b.hasSub
       /\ a.main < b.main \/ (a.main = b.main /\ a.hasSub /\ a.sub < b.sub)

\* What std::map takes for the same key.
SameKey(a, b) == ~ IdLess(a, b) /\ ~ IdLess(b, a)

IdText(id) == [main |-> id.main, sub |-> IF id.hasSub THEN {id.sub} ELSE {}]

Name(kind, text, title) ==
    [kind |-> kind, main |-> text.main, sub |-> text.sub, title |-> title, indented |-> FALSE]
RawValueString == Name("raw", IdText(Id(0)), "Raw_Value")

\* {} where the code returns false.
SetFromString(name) ==
    IF name.kind \in {"raw", "bad"} THEN {}
    ELSE IF name.sub = {} THEN {Id(name.main)}
    ELSE {SetSub(Id(name.main), s) : s \in name.sub}
=============================================================================
