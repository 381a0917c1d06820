-------------------------- MODULE DatapointFormats --------------------------
(***************************************************************************)
(* What the payloads of the KNX data points stand for, as                  *)
(* datapointformat.md and jsondatapoint.md promise it: octet arithmetic    *)
(* type by type, with nothing of the code's fields, positions or widths.   *)
(* The properties of DataPath compare the program with it.                 *)
(***************************************************************************)
EXTENDS Integers, Sequences

\* A number below 2 * half is negative from half on.
Negative(n, half) == IF n >= half THEN n - 2 * half ELSE n

\* Hundredths: a mantissa of 12 bits, sign included, times a power of two.
Exponent(high) == (high \div 8) % 16
Hundredths(high, low) ==
    ((high % 8) * 256 + low - (IF high >= 128 THEN 2048 ELSE 0)) * 2 ^ Exponent(high)

Word(p)       == p[2] * 256 + p[3]
DoubleWord(high, p) == ((high * 256 + p[3]) * 256 + p[4]) * 256 + p[5]

MeaningOfMqtt(main, p) ==
    CASE main = 1  -> <<p[1] % 2>>
      [] main = 2  -> <<(p[1] \div 2) % 2, p[1] % 2>>
      [] main = 3  -> <<(p[1] \div 8) % 2, p[1] % 8>>
      [] main \in {4, 5, 20} -> <<p[2]>>
      [] main = 6  -> <<Negative(p[2], 128)>>
      [] main = 7  -> <<Word(p)>>
      [] main = 8  -> <<Negative(Word(p), 32768)>>
      [] main = 9  -> <<Hundredths(p[2], p[3])>>
      [] main = 12 -> <<DoubleWord(p[2], p)>>
      [] main \in {13, 14} -> <<DoubleWord(Negative(p[2], 128), p)>>

\* By the descriptor's order of n fields; a text is the sequence of its codes.
MeaningOfJson(main, n, p) ==
    CASE main = 6  -> <<p[2] \div 128, (p[2] \div 64) % 2, (p[2] \div 32) % 2, (p[2] \div 16) % 2,
                        (p[2] \div 8) % 2, p[2] % 8>>
      [] main = 8  -> <<Negative(Word(p), 32768)>>
      [] main = 9  -> <<Hundredths(p[2], p[3])>>
      [] main = 10 -> <<p[2] \div 32, p[2] % 32, p[3] % 64, p[4] % 64>>
      [] main = 11 -> <<p[2] % 32, p[3] % 16, p[4] % 128>>
      [] main = 16 -> <<SelectSeq(Tail(p), LAMBDA c : c # 0)>>
      [] main = 18 -> <<p[2] \div 128, p[2] % 64>>
      [] main = 21 -> [k \in 1 .. n |-> (p[2] \div 2 ^ (n - k)) % 2]
      [] main = 23 -> <<p[1] % 4>>

\* The controls of the fields.
ControlType(main, i) ==
    IF main \in {1, 2} \/ (main = 3 /\ i = 1) THEN "bool" ELSE IF main = 4 THEN "chars" ELSE "number"

\* The lengths their payloads have.
LengthOfMqtt(main) ==
    CASE main \in {1, 2, 3} -> 1
      [] main \in {4, 5, 6, 20} -> 2
      [] main \in {7, 8, 9} -> 3
      [] main \in {12, 13, 14} -> 5

LengthOfJson(main) ==
    CASE main = 23 -> 1
      [] main \in {6, 18, 21} -> 2
      [] main \in {8, 9} -> 3
      [] main \in {10, 11} -> 4
      [] main = 16 -> 15

\* In hundredths.
FloatValues == -2048 * 2 ^ 15 .. 2047 * 2 ^ 15

\* The numbers a field may hold, by the order of the fields.
AllowedMqtt(main, i) ==
    CASE main \in {1, 2} \/ (main = 3 /\ i = 1) -> 0 .. 1
      [] main = 3 /\ i = 2 -> 0 .. 7
      [] main \in {4, 5, 20} -> 0 .. 2 ^ 8 - 1
      [] main = 6 -> 0 - 2 ^ 7 .. 2 ^ 7 - 1
      [] main = 7 -> 0 .. 2 ^ 16 - 1
      [] main = 8 -> 0 - 2 ^ 15 .. 2 ^ 15 - 1
      [] main = 9 -> FloatValues
      [] main = 12 -> {n \in Nat : n \div 2 ^ 16 \in 0 .. 2 ^ 16 - 1}
      [] main \in {13, 14} -> {n \in Int : n \div 2 ^ 16 \in 0 - 2 ^ 15 .. 2 ^ 15 - 1}

AllowedJson(main, i) ==
    CASE main = 6  -> IF i < 6 THEN 0 .. 1 ELSE 0 .. 7
      [] main = 8  -> 0 - 2 ^ 15 .. 2 ^ 15 - 1
      [] main = 9  -> FloatValues
      [] main = 10 -> <<0 .. 7, 0 .. 31, 0 .. 63, 0 .. 63>>[i]
      [] main = 11 -> <<0 .. 31, 0 .. 15, 0 .. 127>>[i]
      [] main = 18 -> IF i = 1 THEN 0 .. 1 ELSE 0 .. 63
      [] main = 21 -> 0 .. 1
      [] main = 23 -> 0 .. 3
=============================================================================
