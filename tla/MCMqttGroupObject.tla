------------------------- MODULE MCMqttGroupObject -------------------------
(***************************************************************************)
(* A data point with two fields, as DPT 3 or a JSON object: a field may    *)
(* hold 2, of which a telegram keeps the low bit; word is no number.       *)
(***************************************************************************)
EXTENDS MqttGroupObject, TLC

CONSTANT word

MCWire == [v \in 0 .. 2 |-> v % 2]

\* One member, the other one, or both; the second may be no number.
MCTexts == {0 :> 2, 1 :> 1, 1 :> word, 0 :> 1 @@ 1 :> 0}
=============================================================================
