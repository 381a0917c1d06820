-------------------------------- MODULE Bits --------------------------------
(* Numbers and payloads as strings of bits, the most significant first.     *)
EXTENDS Integers, Sequences, FiniteSets, SequencesExt

\* What is in a set of one element: the outcome of what did not throw.
Only(outcomes) == CHOOSE r \in outcomes : TRUE

IsSequence(s) == s \in Seq({s[k] : k \in DOMAIN s})

\* The bits after a number's first ones.
ValueFrom(first, bits) ==
    LET value[k \in 0 .. Len(bits)] == IF k = 0 THEN first ELSE 2 * value[k - 1] + bits[k]
    IN  value[Len(bits)]

Unsigned(bits) == ValueFrom(0, bits)

\* Two's complement.
Signed(bits) == ValueFrom(0 - Head(bits), Tail(bits))

\* n >> k; \div rounds down, as >> of a negative number does.
Shifted(n, k) ==
    LET rest[j \in 0 .. k] == IF j = 0 THEN n ELSE rest[j - 1] \div 2
    IN  rest[k]

LowBits(n, width) == [i \in 1 .. width |-> Shifted(n, width - i) % 2]

BitsOf(octets) ==
    LET bits == [k \in DOMAIN octets |-> LowBits(octets[k], 8)]
    IN  [p \in 1 .. 8 * Len(octets) |-> bits[((p - 1) \div 8) + 1][((p - 1) % 8) + 1]]

OctetsOf(bits) == [k \in 1 .. Len(bits) \div 8 |-> Unsigned(SubSeq(bits, 8 * k - 7, 8 * k))]

\* utils::StringValueToByte.  A word is the set of the integer read in it, {n},
\* or {} where the function throws; the result is cut to a byte.
StringValueToByte(word) == {n % 256 : n \in word}

\* A field of a payload: where its first bit is and how many it has.
FieldBits(bits, field) == SubSeq(bits, field.at + 1, field.at + field.width)

\* A payload of `size` octets with the bits of its fields, the others zero.
Assemble(fields, bits, size) ==
    LET BitAt(p) == IF \E i \in DOMAIN fields : p \in fields[i].at .. fields[i].at + fields[i].width - 1
                    THEN LET i == CHOOSE i \in DOMAIN fields :
                                      p \in fields[i].at .. fields[i].at + fields[i].width - 1
                         IN  bits[i][p - fields[i].at + 1]
                    ELSE 0
    IN  OctetsOf([p \in 1 .. 8 * size |-> BitAt(p - 1)])
=============================================================================
