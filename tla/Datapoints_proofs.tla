-------------------------- MODULE Datapoints_proofs -------------------------
(* Theorems of Bits, Datapoints and DatapointFormats: what a class of data  *)
(* points reads and writes means what its document says.  The provers       *)
(* cannot use an induction theorem that takes a predicate; here the         *)
(* predicate is a set of numbers, and induction follows from the least      *)
(* number of a set.                                                         *)
EXTENDS JsonDatapoint, DatapointFormats, FiniteSetTheorems, WellFoundedInduction, TLAPS

LEMMA LeastNumber ==
    ASSUME NEW S \in SUBSET Nat, S # {}
    PROVE  \E n \in S : \A m \in S : n <= m
<1> DEFINE R == OpToRel(<, Nat)
<1>1. IsWellFoundedOn(R, Nat)
  BY NatLessThanWellFounded
<1>2. \A m, n \in Nat : m < n => <<m, n>> \in R
  BY DEF OpToRel
<1> HIDE DEF R
<1>3. PICK n \in S : \A m \in S : <<m, n>> \notin R
  BY <1>1, WFMin
<1>4. \A m \in S : ~ (m < n)
  BY <1>2, <1>3
<1>5. \A m \in S : n <= m
  BY <1>4
<1> QED
  BY <1>5

LEMMA Induction ==
    ASSUME NEW S, 0 \in S, \A n \in Nat : n \in S => n + 1 \in S
    PROVE  Nat \subseteq S
<1> DEFINE T == Nat \ S
<1> SUFFICES ASSUME T # {} PROVE FALSE
  OBVIOUS
<1>1. PICK n \in T : \A m \in T : n <= m
  BY LeastNumber
<1>2. n # 0 /\ n \in Nat /\ n - 1 \in Nat /\ n - 1 \notin T
  BY <1>1
<1>3. (n - 1) + 1 \in S /\ (n - 1) + 1 = n
  BY <1>2
<1> QED
  BY <1>1, <1>3

\* Induction up to a bound.
LEMMA Upto ==
    ASSUME NEW n \in Nat, NEW T, 0 \in T, \A k \in 1 .. n : k - 1 \in T => k \in T
    PROVE  0 .. n \subseteq T
<1> DEFINE S == {m \in Nat : m <= n => m \in T}
<1>1. 0 \in S
  OBVIOUS
<1>2. ASSUME NEW m \in Nat, m \in S PROVE m + 1 \in S
  <2> SUFFICES ASSUME m + 1 <= n PROVE m + 1 \in T
    OBVIOUS
  <2>1. m + 1 \in 1 .. n /\ (m + 1) - 1 = m
    OBVIOUS
  <2>2. m \in T
    BY <1>2
  <2> QED
    BY <2>1, <2>2
<1>3. Nat \subseteq S
  <2> HIDE DEF S
  <2> QED
    BY <1>1, <1>2, Induction
<1> QED
  BY <1>3

\* There is the function a recursive definition with one step back describes.
Steps(f, n, S, base, step) ==
    f \in [0 .. n -> S] /\ f[0] = base /\ \A k \in 1 .. n : f[k] = step[k][f[k - 1]]
Defined(n, S, base, step) == \E f : Steps(f, n, S, base, step)

LEMMA Recursion ==
    ASSUME NEW n \in Nat, NEW S, NEW base \in S, NEW step \in [1 .. n -> [S -> S]]
    PROVE  Defined(n, S, base, step)
<1> DEFINE Good(m, f) == f \in [0 .. m -> S] /\ f[0] = base /\ \A k \in 1 .. m : f[k] = step[k][f[k - 1]]
           G == {m \in Nat : m <= n => \E f : Good(m, f)}
<1>1. 0 \in G
  <2>1. Good(0, [k \in 0 .. 0 |-> base])
    OBVIOUS
  <2> QED
    BY <2>1
<1>2. ASSUME NEW m \in Nat, m \in G PROVE m + 1 \in G
  <2> SUFFICES ASSUME m + 1 <= n PROVE \E f : Good(m + 1, f)
    OBVIOUS
  <2>1. PICK f : Good(m, f)
    BY <1>2
  <2> DEFINE g == [k \in 0 .. m + 1 |-> IF k <= m THEN f[k] ELSE step[m + 1][f[m]]]
  <2>2. f[m] \in S /\ step[m + 1] \in [S -> S]
    BY <2>1
  <2>3. g \in [0 .. m + 1 -> S]
    BY <2>1, <2>2
  <2>4. g[0] = base
    BY <2>1
  <2>5. \A k \in 1 .. m + 1 : g[k] = step[k][g[k - 1]]
    <3> TAKE k \in 1 .. m + 1
    <3>1. k - 1 \in 0 .. m /\ g[k - 1] = f[k - 1]
      OBVIOUS
    <3>2. CASE k \in 1 .. m
      BY <2>1, <3>1, <3>2
    <3>3. CASE k = m + 1
      BY <3>1, <3>3
    <3> QED
      BY <3>2, <3>3
  <2> QED
    BY <2>3, <2>4, <2>5
<1>3. Nat \subseteq G
  <2> HIDE DEF G
  <2> QED
    BY <1>1, <1>2, Induction
<1> QED
  BY <1>3 DEF Defined, Steps

LEMMA FunctionIsSequence ==
    ASSUME NEW n \in Nat, NEW S, NEW f \in [1 .. n -> S]
    PROVE  f \in Seq(S) /\ Len(f) = n
OBVIOUS

LEMMA SequenceIsFunction ==
    ASSUME NEW S, NEW f \in Seq(S), NEW n, Len(f) = n
    PROVE  n \in Nat /\ f \in [1 .. n -> S]
OBVIOUS

LEMMA SeqWiden ==
    ASSUME NEW S, NEW T, S \subseteq T, NEW s \in Seq(S)
    PROVE  s \in Seq(T)
<1> DEFINE n == Len(s)
<1>1. n \in Nat /\ s \in [1 .. n -> S]
  OBVIOUS
<1> HIDE DEF n
<1>2. s \in [1 .. n -> T]
  BY <1>1
<1> QED
  BY <1>1, <1>2, FunctionIsSequence

\* What the sequence a \o b is.
Joined(a, b, S) ==
    /\ a \o b \in Seq(S) /\ Len(a \o b) = Len(a) + Len(b)
    /\ \A k \in 1 .. Len(a) : (a \o b)[k] = a[k]
    /\ \A k \in 1 .. Len(b) : (a \o b)[Len(a) + k] = b[k]

LEMMA Concatenated == ASSUME NEW S, NEW a \in Seq(S), NEW b \in Seq(S) PROVE Joined(a, b, S)
<1>1. a \o b \in Seq(S) /\ Len(a \o b) = Len(a) + Len(b)
  OBVIOUS
<1>2. ASSUME NEW k \in 1 .. Len(a) PROVE (a \o b)[k] = a[k]
  OBVIOUS
<1>3. ASSUME NEW k \in 1 .. Len(b) PROVE (a \o b)[Len(a) + k] = b[k]
  <2>1. Len(a) + k \in 1 .. Len(a) + Len(b) /\ Len(a) + k > Len(a) /\ (Len(a) + k) - Len(a) = k
    OBVIOUS
  <2> QED
    BY <2>1
<1> QED
  BY <1>1, <1>2, <1>3 DEF Joined

-----------------------------------------------------------------------------
(* Numbers of bits                                                         *)

\* The value of the bits up to each of them.
Values(f, first, bits) ==
    /\ f \in [0 .. Len(bits) -> Int]
    /\ f[0] = first /\ \A k \in 1 .. Len(bits) : f[k] = 2 * f[k - 1] + bits[k]
    /\ ValueFrom(first, bits) = f[Len(bits)]

LEMMA ValueFromDef ==
    ASSUME NEW first \in Int, NEW bits \in Seq(Int)
    PROVE  \E f : Values(f, first, bits)
<1> DEFINE n == Len(bits)
           step == [k \in 1 .. n |-> [v \in Int |-> 2 * v + bits[k]]]
           Def(v) == [k \in 0 .. n |-> IF k = 0 THEN first ELSE 2 * v[k - 1] + bits[k]]
           F == CHOOSE v : v = Def(v)
<1>1. n \in Nat /\ \A k \in 1 .. n : bits[k] \in Int
  OBVIOUS
<1>2. ValueFrom(first, bits) = F[n]
  BY DEF ValueFrom
<1> HIDE DEF n
<1>3. step \in [1 .. n -> [Int -> Int]]
  BY <1>1
<1>4. PICK f : Steps(f, n, Int, first, step)
  <2> HIDE DEF step
  <2> QED
    BY <1>1, <1>3, Recursion DEF Defined
<1>5. f = Def(f)
  <2>1. ASSUME NEW k \in 1 .. n PROVE f[k] = 2 * f[k - 1] + bits[k]
    <3>1. k - 1 \in 0 .. n
      BY <1>1
    <3>2. f[k - 1] \in Int
      BY <1>4, <3>1 DEF Steps
    <3> QED
      BY <1>4, <3>2 DEF Steps
  <2>2. \A k \in 0 .. n : f[k] = IF k = 0 THEN first ELSE 2 * f[k - 1] + bits[k]
    BY <1>1, <1>4, <2>1 DEF Steps
  <2>3. f = [k \in 0 .. n |-> f[k]]
    BY <1>4 DEF Steps
  <2> QED
    BY <2>2, <2>3
<1>6. F = Def(F)
  <2> HIDE DEF Def
  <2> QED
    BY <1>5
<1> HIDE DEF F
<1>7. F[0] = first /\ \A k \in 1 .. n : F[k] = 2 * F[k - 1] + bits[k]
  BY <1>1, <1>6
<1>8. F \in [0 .. n -> Int]
  <2> DEFINE T == {k \in 0 .. n : F[k] \in Int}
  <2>1. 0 \in T
    BY <1>1, <1>7
  <2>2. ASSUME NEW k \in 1 .. n, k - 1 \in T PROVE k \in T
    <3>1. k \in 0 .. n /\ F[k] = 2 * F[k - 1] + bits[k] /\ F[k - 1] \in Int /\ bits[k] \in Int
      BY <1>1, <1>7, <2>2
    <3> QED
      BY <3>1
  <2>3. 0 .. n \subseteq T
    <3> HIDE DEF T
    <3> QED
      BY <1>1, <2>1, <2>2, Upto
  <2>4. F = [k \in 0 .. n |-> F[k]]
    BY <1>6
  <2> QED
    BY <2>3, <2>4
<1> QED
  BY <1>2, <1>7, <1>8 DEF n, Values

\* What a shift by one more does.
LEMMA ShiftedDef ==
    ASSUME NEW n \in Int
    PROVE  /\ Shifted(n, 0) = n
           /\ \A k \in Nat : Shifted(n, k) \in Int /\ Shifted(n, k + 1) = Shifted(n, k) \div 2
<1> DEFINE Def(v, k) == [j \in 0 .. k |-> IF j = 0 THEN n ELSE v[j - 1] \div 2]
           F(k) == CHOOSE v : v = Def(v, k)
<1>1. \A k : Shifted(n, k) = F(k)[k]
  BY DEF Shifted
<1>2. ASSUME NEW k \in Nat PROVE F(k) = Def(F(k), k)
  <2> DEFINE step == [j \in 1 .. k |-> [v \in Int |-> v \div 2]]
  <2>1. step \in [1 .. k -> [Int -> Int]]
    OBVIOUS
  <2>2. PICK f : Steps(f, k, Int, n, step)
    <3> HIDE DEF step
    <3> QED
      BY <2>1, Recursion DEF Defined
  <2>3. ASSUME NEW j \in 1 .. k PROVE f[j] = f[j - 1] \div 2
    <3>1. j - 1 \in 0 .. k
      OBVIOUS
    <3>2. f[j - 1] \in Int
      BY <2>2, <3>1 DEF Steps
    <3> QED
      BY <2>2, <3>2 DEF Steps
  <2>4. f = [j \in 0 .. k |-> f[j]]
    BY <2>2 DEF Steps
  <2>5. \A j \in 0 .. k : f[j] = IF j = 0 THEN n ELSE f[j - 1] \div 2
    BY <2>2, <2>3 DEF Steps
  <2>6. f = Def(f, k)
    BY <2>4, <2>5
  <2> HIDE DEF Def
  <2> QED
    BY <2>6
<1> HIDE DEF F
<1>3. ASSUME NEW k \in Nat
      PROVE  F(k)[0] = n /\ \A j \in 1 .. k : F(k)[j] = F(k)[j - 1] \div 2
  BY <1>2
<1>4. ASSUME NEW k \in Nat, NEW m \in Nat, k <= m
      PROVE  \A j \in 0 .. k : F(k)[j] \in Int /\ F(k)[j] = F(m)[j]
  <2> DEFINE T == {j \in 0 .. k : F(k)[j] \in Int /\ F(k)[j] = F(m)[j]}
  <2>1. 0 \in T
    BY <1>3, <1>4
  <2>2. ASSUME NEW j \in 1 .. k, j - 1 \in T PROVE j \in T
    <3>1. j \in 0 .. k /\ j \in 1 .. m
      BY <1>4
    <3>2. F(k)[j] = F(k)[j - 1] \div 2 /\ F(m)[j] = F(m)[j - 1] \div 2
      BY <1>3, <3>1
    <3>3. F(k)[j - 1] \in Int /\ F(k)[j - 1] = F(m)[j - 1]
      BY <2>2
    <3> QED
      BY <3>1, <3>2, <3>3
  <2> HIDE DEF T
  <2>3. 0 .. k \subseteq T
    BY <2>1, <2>2, Upto
  <2> QED
    BY <2>3 DEF T
<1>5. ASSUME NEW k \in Nat PROVE F(k)[k] \in Int /\ F(k + 1)[k + 1] = F(k)[k] \div 2
  <2>1. k \in 0 .. k /\ k + 1 \in Nat /\ k <= k + 1 /\ k + 1 \in 1 .. k + 1 /\ (k + 1) - 1 = k
    OBVIOUS
  <2>2. F(k)[k] \in Int /\ F(k)[k] = F(k + 1)[k]
    BY <1>4, <2>1
  <2>3. F(k + 1)[k + 1] = F(k + 1)[k] \div 2
    BY <1>3, <2>1
  <2> QED
    BY <2>2, <2>3
<1> QED
  BY <1>1, <1>3, <1>5

BitSet == {0, 1}

LEMMA LowBitsType ==
    ASSUME NEW n \in Int, NEW w \in Nat
    PROVE  LowBits(n, w) \in [1 .. w -> BitSet] /\ LowBits(n, w) \in Seq(BitSet) /\ Len(LowBits(n, w)) = w
<1>1. ASSUME NEW i \in 1 .. w PROVE Shifted(n, w - i) % 2 \in BitSet
  <2>1. w - i \in Nat
    OBVIOUS
  <2>2. Shifted(n, w - i) \in Int
    BY <2>1, ShiftedDef
  <2> QED
    BY <2>2 DEF BitSet
<1> QED
  BY <1>1 DEF LowBits

\* The bits a shift drops and what it leaves are the number again.
LEMMA Reassembled ==
    ASSUME NEW n \in Int, NEW w \in Nat
    PROVE  ValueFrom(Shifted(n, w), LowBits(n, w)) = n
<1> DEFINE b == LowBits(n, w)
           s(k) == Shifted(n, k)
<1>1. b \in Seq(Int) /\ Len(b) = w /\ \A k \in 1 .. w : b[k] = s(w - k) % 2
  <2>1. b \in [1 .. w -> BitSet]
    BY LowBitsType
  <2>2. \A k \in 1 .. w : b[k] = s(w - k) % 2
    BY DEF LowBits
  <2> QED
    BY <2>1, <2>2 DEF BitSet
<1>2. s(0) = n /\ \A k \in Nat : s(k) \in Int /\ s(k + 1) = s(k) \div 2
  BY ShiftedDef
<1> HIDE DEF b, s
<1>3. s(w) \in Int
  BY <1>2
<1>4. PICK f \in [0 .. w -> Int] :
          /\ f[0] = s(w) /\ \A k \in 1 .. w : f[k] = 2 * f[k - 1] + b[k]
          /\ ValueFrom(s(w), b) = f[w]
  <2>1. PICK f : Values(f, s(w), b)
    BY <1>1, <1>3, ValueFromDef
  <2> QED
    BY <1>1, <2>1 DEF Values
<1> DEFINE T == {k \in 0 .. w : f[k] = s(w - k)}
<1>5. 0 \in T
  BY <1>4
<1>6. ASSUME NEW k \in 1 .. w, k - 1 \in T PROVE k \in T
  <2>1. w - k \in Nat /\ w - (k - 1) = (w - k) + 1
    OBVIOUS
  <2>2. f[k - 1] = s((w - k) + 1)
    BY <1>6, <2>1
  <2>3. s(w - k) \in Int /\ s((w - k) + 1) = s(w - k) \div 2
    BY <1>2, <2>1
  <2>4. f[k] = 2 * f[k - 1] + (s(w - k) % 2)
    BY <1>1, <1>4
  <2>5. f[k] = s(w - k)
    BY <2>2, <2>3, <2>4, SMTT(30)
  <2> QED
    BY <2>5
<1> HIDE DEF T
<1>7. 0 .. w \subseteq T
  BY <1>5, <1>6, Upto
<1>8. f[w] = s(w - w)
  BY <1>7 DEF T
<1> QED
  BY <1>2, <1>4, <1>8 DEF b, s

-----------------------------------------------------------------------------
(* Octets                                                                  *)

ByteSet == 0 .. 255

\* The number of eight bits, and what eight bits may be.
LEMMA EightBits ==
    ASSUME NEW b \in [1 .. 8 -> BitSet]
    PROVE  /\ Unsigned(b) \in ByteSet
           /\ Unsigned(b) = 128 * b[1] + 64 * b[2] + 32 * b[3] + 16 * b[4] + 8 * b[5] + 4 * b[6] + 2 * b[7] + b[8]
<1>1. b \in Seq(Int) /\ Len(b) = 8
  <2>1. b \in [1 .. 8 -> Int] /\ 8 \in Nat
    BY DEF BitSet
  <2> QED
    BY <2>1, FunctionIsSequence
<1>2. PICK f \in [0 .. 8 -> Int] :
          f[0] = 0 /\ (\A k \in 1 .. 8 : f[k] = 2 * f[k - 1] + b[k]) /\ Unsigned(b) = f[8]
  <2>1. PICK f : Values(f, 0, b)
    BY <1>1, ValueFromDef
  <2> QED
    BY <1>1, <2>1 DEF Values, Unsigned
<1>3. /\ f[1] = b[1] /\ f[2] = 2 * f[1] + b[2] /\ f[3] = 2 * f[2] + b[3] /\ f[4] = 2 * f[3] + b[4]
      /\ f[5] = 2 * f[4] + b[5] /\ f[6] = 2 * f[5] + b[6] /\ f[7] = 2 * f[6] + b[7] /\ f[8] = 2 * f[7] + b[8]
  <2>1. b[1] \in Int
    BY DEF BitSet
  <2> QED
    BY <1>2, <2>1
<1>4. /\ b[1] \in 0 .. 1 /\ b[2] \in 0 .. 1 /\ b[3] \in 0 .. 1 /\ b[4] \in 0 .. 1
      /\ b[5] \in 0 .. 1 /\ b[6] \in 0 .. 1 /\ b[7] \in 0 .. 1 /\ b[8] \in 0 .. 1
  BY DEF BitSet
<1>5. f[8] = 128 * b[1] + 64 * b[2] + 32 * b[3] + 16 * b[4] + 8 * b[5] + 4 * b[6] + 2 * b[7] + b[8]
  <2>1. f[4] = 8 * b[1] + 4 * b[2] + 2 * b[3] + b[4] /\ f[4] \in Int
    BY <1>3, <1>4
  <2>2. f[8] = 16 * f[4] + 8 * b[5] + 4 * b[6] + 2 * b[7] + b[8]
    BY <1>3, <1>4, <2>1
  <2> QED
    BY <1>4, <2>1, <2>2
<1>6. f[8] \in 0 .. 255
  BY <1>4, <1>5
<1> QED
  BY <1>2, <1>5, <1>6, ZenonT(30) DEF ByteSet

LEMMA OctetsOfType ==
    ASSUME NEW n \in Nat, NEW bits \in [1 .. 8 * n -> BitSet]
    PROVE  OctetsOf(bits) \in Seq(ByteSet) /\ Len(OctetsOf(bits)) = n
<1>1. bits \in Seq(BitSet) /\ Len(bits) = 8 * n /\ (8 * n) \div 8 = n
  OBVIOUS
<1>2. ASSUME NEW k \in 1 .. n PROVE Unsigned(SubSeq(bits, 8 * k - 7, 8 * k)) \in ByteSet
  <2> DEFINE b == SubSeq(bits, 8 * k - 7, 8 * k)
  <2>1. 8 * k - 7 \in 1 .. 8 * n /\ 8 * k \in 1 .. 8 * n /\ 8 * k - (8 * k - 7) + 1 = 8
    OBVIOUS
  <2>2. b \in Seq(BitSet) /\ Len(b) = 8
    BY <1>1, <2>1
  <2>3. b \in [1 .. 8 -> BitSet]
    BY <2>2, SequenceIsFunction
  <2> QED
    BY <2>3, EightBits
<1>3. OctetsOf(bits) = [k \in 1 .. n |-> Unsigned(SubSeq(bits, 8 * k - 7, 8 * k))]
  BY <1>1 DEF OctetsOf
<1> QED
  BY <1>2, <1>3

LEMMA BitsOfType ==
    ASSUME NEW o \in Seq(Int)
    PROVE  BitsOf(o) \in [1 .. 8 * Len(o) -> BitSet] /\ BitsOf(o) \in Seq(BitSet) /\ Len(BitsOf(o)) = 8 * Len(o)
<1> DEFINE bits == [k \in DOMAIN o |-> LowBits(o[k], 8)]
           n == Len(o)
<1>1. n \in Nat /\ DOMAIN o = 1 .. n /\ \A k \in 1 .. n : o[k] \in Int
  OBVIOUS
<1>2. \A k \in 1 .. n : bits[k] \in [1 .. 8 -> BitSet]
  BY <1>1, LowBitsType
<1>3. BitsOf(o) = [p \in 1 .. 8 * n |-> bits[((p - 1) \div 8) + 1][((p - 1) % 8) + 1]]
  BY DEF BitsOf
<1> HIDE DEF bits, n
<1>4. \A p \in 1 .. 8 * n : ((p - 1) \div 8) + 1 \in 1 .. n /\ ((p - 1) % 8) + 1 \in 1 .. 8
  BY <1>1
<1>5. \A p \in 1 .. 8 * n : bits[((p - 1) \div 8) + 1][((p - 1) % 8) + 1] \in BitSet
  BY <1>2, <1>4
<1>6. BitsOf(o) \in [1 .. 8 * n -> BitSet] /\ 8 * n \in Nat
  BY <1>1, <1>3, <1>5
<1>7. BitsOf(o) \in Seq(BitSet) /\ Len(BitsOf(o)) = 8 * n
  BY <1>6
<1> QED
  BY <1>6, <1>7 DEF n

\* A payload is made of octets, and as many as asked for, whatever its fields.
LEMMA AssembleType ==
    ASSUME NEW fields, NEW bits, NEW size \in Nat,
           \A i \in DOMAIN fields : /\ fields[i].at \in Nat /\ fields[i].width \in Nat
                                    /\ bits[i] \in [1 .. fields[i].width -> BitSet]
    PROVE  Assemble(fields, bits, size) \in Seq(ByteSet) /\ Len(Assemble(fields, bits, size)) = size
<1> DEFINE In(p, i) == p \in fields[i].at .. fields[i].at + fields[i].width - 1
           C(p) == CHOOSE i \in DOMAIN fields : In(p, i)
           BitAt(p) == IF \E i \in DOMAIN fields : In(p, i) THEN bits[C(p)][p - fields[C(p)].at + 1] ELSE 0
           B == [p \in 1 .. 8 * size |-> BitAt(p - 1)]
<1>1. Assemble(fields, bits, size) = OctetsOf(B)
  BY DEF Assemble
<1>2. ASSUME NEW p \in Int PROVE BitAt(p) \in BitSet
  <2>1. CASE \E i \in DOMAIN fields : In(p, i)
    <3>1. C(p) \in DOMAIN fields /\ In(p, C(p))
      BY <2>1
    <3> HIDE DEF C
    <3>2. p - fields[C(p)].at + 1 \in 1 .. fields[C(p)].width
      BY <3>1
    <3>3. bits[C(p)][p - fields[C(p)].at + 1] \in BitSet
      BY <3>1, <3>2
    <3> QED
      BY <2>1, <3>3
  <2>2. CASE ~ \E i \in DOMAIN fields : In(p, i)
    BY <2>2 DEF BitSet
  <2> QED
    BY <2>1, <2>2
<1> HIDE DEF BitAt
<1>3. B \in [1 .. 8 * size -> BitSet]
  BY <1>2
<1> HIDE DEF B
<1> QED
  BY <1>1, <1>3, OctetsOfType

-----------------------------------------------------------------------------
(* Sequences of sequences                                                  *)

\* flat is made of the first n of the sequences: from and at tell where each
\* element comes from, each place is taken once and none is left out.
Flattened(flat, from, at, seqs, n, S) ==
    /\ flat \in Seq(S)
    /\ \A p \in 1 .. Len(flat) : /\ from[p] \in 1 .. n /\ at[p] \in 1 .. Len(seqs[from[p]])
                                 /\ flat[p] = seqs[from[p]][at[p]]
    /\ \A p, q \in 1 .. Len(flat) : from[p] = from[q] /\ at[p] = at[q] => p = q
    /\ \A k \in 1 .. n : \A j \in 1 .. Len(seqs[k]) : \E p \in 1 .. Len(flat) : from[p] = k /\ at[p] = j

LEMMA FlattenStep ==
    ASSUME NEW S, NEW n \in Nat, NEW k \in 1 .. n, NEW seqs, seqs[k] \in Seq(S),
           NEW flat, NEW from, NEW at, Flattened(flat, from, at, seqs, k - 1, S)
    PROVE  \E f, a : Flattened(flat \o seqs[k], f, a, seqs, k, S)
<1> DEFINE l == Len(flat)
           s == seqs[k]
           m == Len(s)
           whole == flat \o s
           f == [p \in 1 .. l + m |-> IF p <= l THEN from[p] ELSE k]
           a == [p \in 1 .. l + m |-> IF p <= l THEN at[p] ELSE p - l]
<1>1. flat \in Seq(S) /\ s \in Seq(S) /\ l \in Nat /\ m \in Nat
  BY DEF Flattened
<1>2. /\ whole \in Seq(S) /\ Len(whole) = l + m
      /\ \A p \in 1 .. l : whole[p] = flat[p]
      /\ \A p \in 1 .. l + m : p > l => whole[p] = s[p - l]
  BY <1>1
<1>3. /\ \A p \in 1 .. l : from[p] \in 1 .. k - 1 /\ at[p] \in 1 .. Len(seqs[from[p]])
                           /\ flat[p] = seqs[from[p]][at[p]]
      /\ \A p, q \in 1 .. l : from[p] = from[q] /\ at[p] = at[q] => p = q
      /\ \A i \in 1 .. k - 1 : \A j \in 1 .. Len(seqs[i]) : \E p \in 1 .. l : from[p] = i /\ at[p] = j
  BY DEF Flattened
<1>4. /\ \A p \in 1 .. l : p \in 1 .. l + m /\ f[p] = from[p] /\ a[p] = at[p]
      /\ \A p \in 1 .. l + m : p > l => f[p] = k /\ a[p] = p - l /\ p - l \in 1 .. m
  BY <1>1
<1> HIDE DEF whole, f, a, l, m
<1>5. \A p \in 1 .. l + m : /\ f[p] \in 1 .. k /\ a[p] \in 1 .. Len(seqs[f[p]])
                            /\ whole[p] = seqs[f[p]][a[p]]
  <2> TAKE p \in 1 .. l + m
  <2>1. CASE p \in 1 .. l
    <3>1. f[p] = from[p] /\ a[p] = at[p] /\ whole[p] = flat[p]
      BY <1>2, <1>4, <2>1
    <3>2. from[p] \in 1 .. k - 1 /\ at[p] \in 1 .. Len(seqs[from[p]]) /\ flat[p] = seqs[from[p]][at[p]]
      BY <1>3, <2>1
    <3>3. from[p] \in 1 .. k
      BY <3>2
    <3> QED
      BY <3>1, <3>2, <3>3
  <2>2. CASE p > l
    <3>1. f[p] = k /\ a[p] = p - l /\ p - l \in 1 .. m /\ whole[p] = s[p - l]
      BY <1>2, <1>4, <2>2
    <3> QED
      BY <3>1 DEF m
  <2> QED
    BY <1>1, <2>1, <2>2
<1>6. ASSUME NEW p \in 1 .. l + m, NEW q \in 1 .. l + m, f[p] = f[q], a[p] = a[q]
      PROVE  p = q
  <2>1. CASE p \in 1 .. l /\ q \in 1 .. l
    <3>1. from[p] = from[q] /\ at[p] = at[q]
      BY <1>4, <1>6, <2>1
    <3> QED
      BY <1>3, <2>1, <3>1
  <2>2. CASE p > l /\ q > l
    BY <1>1, <1>4, <1>6, <2>2
  <2>3. CASE p \in 1 .. l /\ q > l
    <3>1. f[p] = from[p] /\ from[p] \in 1 .. k - 1 /\ f[q] = k
      BY <1>3, <1>4, <2>3
    <3>2. k \in 1 .. k - 1
      BY <1>6, <3>1
    <3> QED
      BY <3>2
  <2>4. CASE p > l /\ q \in 1 .. l
    <3>1. f[q] = from[q] /\ from[q] \in 1 .. k - 1 /\ f[p] = k
      BY <1>3, <1>4, <2>4
    <3>2. k \in 1 .. k - 1
      BY <1>6, <3>1
    <3> QED
      BY <3>2
  <2> QED
    BY <1>1, <2>1, <2>2, <2>3, <2>4
<1>7. ASSUME NEW i \in 1 .. k, NEW j \in 1 .. Len(seqs[i])
      PROVE  \E p \in 1 .. l + m : f[p] = i /\ a[p] = j
  <2>1. CASE i \in 1 .. k - 1
    <3>1. PICK p \in 1 .. l : from[p] = i /\ at[p] = j
      BY <1>3, <2>1
    <3> QED
      BY <1>4, <3>1
  <2>2. CASE i = k
    <3>1. j \in 1 .. m
      BY <2>2 DEF m
    <3>2. l + j \in 1 .. l + m /\ l + j > l /\ (l + j) - l = j
      BY <1>1, <3>1
    <3>3. f[l + j] = k /\ a[l + j] = j
      BY <1>4, <3>2
    <3> QED
      BY <2>2, <3>2, <3>3
  <2> QED
    BY <2>1, <2>2
<1>8. Flattened(whole, f, a, seqs, k, S)
  BY <1>2, <1>5, <1>6, <1>7 DEF Flattened
<1> QED
  BY <1>8 DEF whole

LEMMA FlattenSeqDef ==
    ASSUME NEW S, NEW seqs \in Seq(Seq(S))
    PROVE  \E from, at : Flattened(FlattenSeq(seqs), from, at, seqs, Len(seqs), S)
<1> DEFINE n == Len(seqs)
           Def(v) == [i \in 1 .. n |-> IF i = 1 THEN seqs[i] ELSE v[i - 1] \o seqs[i]]
           F == CHOOSE v : v = Def(v)
           step == [k \in 1 .. n |-> [v \in Seq(S) |-> v \o seqs[k]]]
<1>1. n \in Nat /\ \A k \in 1 .. n : seqs[k] \in Seq(S)
  OBVIOUS
<1>2. FlattenSeq(seqs) = IF n = 0 THEN seqs ELSE F[n]
  BY DEF FlattenSeq
<1>3. seqs = <<>> <=> n = 0
  OBVIOUS
<1> HIDE DEF n
<1>4. step \in [1 .. n -> [Seq(S) -> Seq(S)]]
  BY <1>1
<1>5. PICK f : Steps(f, n, Seq(S), <<>>, step)
  <2>1. <<>> \in Seq(S)
    OBVIOUS
  <2> HIDE DEF step
  <2> QED
    BY <1>1, <1>4, <2>1, Recursion DEF Defined
<1>6. ASSUME NEW k \in 1 .. n PROVE f[k - 1] \in Seq(S) /\ f[k] = f[k - 1] \o seqs[k]
  <2>1. k - 1 \in 0 .. n
    BY <1>1
  <2>2. f[k - 1] \in Seq(S)
    BY <1>5, <2>1 DEF Steps
  <2> QED
    BY <1>5, <2>2 DEF Steps
<1> DEFINE h == [i \in 1 .. n |-> f[i]]
<1>7. h = Def(h)
  <2>1. ASSUME NEW i \in 1 .. n, i # 1 PROVE i - 1 \in 1 .. n
    BY <1>1, <2>1
  <2>2. f[0] = <<>>
    BY <1>5 DEF Steps
  <2>3. ASSUME NEW i \in 1 .. n PROVE h[i] = IF i = 1 THEN seqs[i] ELSE h[i - 1] \o seqs[i]
    <3>1. CASE i = 1
      <4> HIDE DEF h, Def, F, step
      <4>1. f[i] = f[i - 1] \o seqs[i]
        BY <1>6, Zenon
      <4>2. seqs[i] \in Seq(S)
        BY <1>1, Zenon
      <4>3. i - 1 = 0
        BY <3>1
      <4>4. <<>> \o seqs[i] = seqs[i]
        BY <4>2
      <4>5. f[i] = seqs[i]
        BY <2>2, <4>1, <4>3, <4>4
      <4>6. h[i] = f[i]
        BY DEF h
      <4> QED
        BY <3>1, <4>5, <4>6
    <3>2. CASE i # 1
      BY <1>6, <2>1, <3>2
    <3> QED
      BY <3>1, <3>2
  <2> QED
    BY <2>3
<1>8. F = Def(F)
  <2> HIDE DEF h, Def
  <2> QED
    BY <1>7
<1> HIDE DEF F
<1>9. \A i \in 1 .. n : F[i] = IF i = 1 THEN seqs[i] ELSE F[i - 1] \o seqs[i]
  BY <1>8
<1> DEFINE G(k) == IF k = 0 THEN <<>> ELSE F[k]
           T == {k \in 0 .. n : \E from, at : Flattened(G(k), from, at, seqs, k, S)}
<1>10. 0 \in T
  <2>1. Flattened(<<>>, <<>>, <<>>, seqs, 0, S)
    BY DEF Flattened
  <2> QED
    BY <1>1, <2>1
<1>11. ASSUME NEW k \in 1 .. n, k - 1 \in T PROVE k \in T
  <2>1. PICK from, at : Flattened(G(k - 1), from, at, seqs, k - 1, S)
    BY <1>11
  <2>2. G(k) = G(k - 1) \o seqs[k]
    <3>1. CASE k = 1
      <4>1. F[1] = seqs[1] /\ seqs[1] \in Seq(S)
        BY <1>1, <1>9, <3>1
      <4> QED
        BY <3>1, <4>1
    <3>2. CASE k # 1
      <4>1. k # 0 /\ k - 1 # 0
        BY <3>2
      <4>2. F[k] = F[k - 1] \o seqs[k]
        BY <1>9, <3>2
      <4> QED
        BY <4>1, <4>2
    <3> QED
      BY <3>1, <3>2
  <2> HIDE DEF G
  <2>3. \E f1, a1 : Flattened(G(k - 1) \o seqs[k], f1, a1, seqs, k, S)
    BY <1>1, <2>1, FlattenStep
  <2>4. k \in 0 .. n
    BY <1>1
  <2> QED
    BY <2>2, <2>3, <2>4
<1> HIDE DEF T
<1>12. 0 .. n \subseteq T
  BY <1>1, <1>10, <1>11, Upto
<1>13. \E from, at : Flattened(G(n), from, at, seqs, n, S)
  BY <1>1, <1>12 DEF T
<1>14. G(n) = FlattenSeq(seqs)
  BY <1>2, <1>3
<1> QED
  BY <1>13, <1>14 DEF n

-----------------------------------------------------------------------------
(* Bits after bits                                                         *)

LEMMA ValueFromEmpty == ASSUME NEW first \in Int PROVE ValueFrom(first, <<>>) = first
<1>1. <<>> \in Seq(Int) /\ Len(<<>>) = 0
  OBVIOUS
<1>2. PICK f : Values(f, first, <<>>)
  BY <1>1, ValueFromDef
<1> QED
  BY <1>1, <1>2 DEF Values

LEMMA ValueFromType == ASSUME NEW first \in Int, NEW bits \in Seq(Int) PROVE ValueFrom(first, bits) \in Int
<1>1. PICK f : Values(f, first, bits)
  BY ValueFromDef
<1>2. Len(bits) \in 0 .. Len(bits)
  OBVIOUS
<1> QED
  BY <1>1, <1>2 DEF Values

\* The bits after a are counted from the number of a's.
LEMMA ValueFromJoined ==
    ASSUME NEW first \in Int, NEW a \in Seq(Int), NEW b \in Seq(Int)
    PROVE  ValueFrom(first, a \o b) = ValueFrom(ValueFrom(first, a), b)
<1> DEFINE m == Len(a)
           n == Len(b)
           c == a \o b
           v == ValueFrom(first, a)
<1>1. /\ m \in Nat /\ n \in Nat /\ c \in Seq(Int) /\ Len(c) = m + n
      /\ \A k \in 1 .. m : c[k] = a[k]
      /\ \A k \in 1 .. n : c[m + k] = b[k]
  BY Concatenated DEF Joined
<1>2. v \in Int
  BY ValueFromType
<1>3. PICK f \in [0 .. m + n -> Int] :
          f[0] = first /\ (\A k \in 1 .. m + n : f[k] = 2 * f[k - 1] + c[k]) /\ ValueFrom(first, c) = f[m + n]
  <2> HIDE DEF c, m, n
  <2>1. PICK f : Values(f, first, c)
    BY <1>1, ValueFromDef
  <2> QED
    BY <1>1, <2>1 DEF Values
<1>4. PICK g \in [0 .. m -> Int] :
          g[0] = first /\ (\A k \in 1 .. m : g[k] = 2 * g[k - 1] + a[k]) /\ v = g[m]
  <2>1. PICK g : Values(g, first, a)
    BY ValueFromDef
  <2> QED
    BY <2>1 DEF Values
<1>5. PICK h \in [0 .. n -> Int] :
          h[0] = v /\ (\A k \in 1 .. n : h[k] = 2 * h[k - 1] + b[k]) /\ ValueFrom(v, b) = h[n]
  <2> HIDE DEF v
  <2>1. PICK h : Values(h, v, b)
    BY <1>2, ValueFromDef
  <2> QED
    BY <2>1 DEF Values
<1> HIDE DEF c, m, n, v
<1> DEFINE T == {k \in 0 .. m : f[k] = g[k]}
           U == {k \in 0 .. n : f[m + k] = h[k]}
<1>6. 0 .. m \subseteq T
  <2>1. 0 \in T
    BY <1>1, <1>3, <1>4
  <2>2. ASSUME NEW k \in 1 .. m, k - 1 \in T PROVE k \in T
    <3>1. k \in 1 .. m + n /\ k \in 0 .. m /\ f[k - 1] = g[k - 1] /\ c[k] = a[k]
      BY <1>1, <2>2
    <3>2. f[k] = 2 * f[k - 1] + c[k] /\ g[k] = 2 * g[k - 1] + a[k]
      BY <1>3, <1>4, <3>1
    <3> QED
      BY <3>1, <3>2
  <2> HIDE DEF T
  <2> QED
    BY <1>1, <2>1, <2>2, Upto
<1>7. f[m] = v
  <2>1. m \in T
    BY <1>1, <1>6
  <2> QED
    BY <1>4, <2>1
<1>8. 0 .. n \subseteq U
  <2>1. 0 \in U
    BY <1>1, <1>5, <1>7
  <2>2. ASSUME NEW k \in 1 .. n, k - 1 \in U PROVE k \in U
    <3>1. k \in 0 .. n /\ m + k \in 1 .. m + n /\ (m + k) - 1 = m + (k - 1)
      BY <1>1, SMTT(30)
    <3>2. f[m + (k - 1)] = h[k - 1]
      BY <2>2
    <3>3. f[m + k] = 2 * f[(m + k) - 1] + c[m + k] /\ h[k] = 2 * h[k - 1] + b[k] /\ c[m + k] = b[k]
      BY <1>1, <1>3, <1>5, <3>1
    <3> QED
      BY <3>1, <3>2, <3>3
  <2> HIDE DEF U
  <2> QED
    BY <1>1, <2>1, <2>2, Upto
<1>9. f[m + n] = h[n]
  <2>1. n \in U
    BY <1>1, <1>8
  <2> QED
    BY <2>1
<1> QED
  BY <1>3, <1>5, <1>9 DEF c, v

LEMMA BitsAreNumbers == ASSUME NEW b \in Seq(BitSet) PROVE b \in Seq(Int)
BY SeqWiden DEF BitSet

\* w bits after a number multiply it by N = 2^w.
Times(w, N) ==
    \A v \in Int : \A b \in Seq(BitSet) : Len(b) = w =>
        /\ ValueFrom(v, b) = v * N + Unsigned(b)
        /\ Unsigned(b) \in Int /\ 0 <= Unsigned(b) /\ Unsigned(b) < N

LEMMA TimesNone == Times(0, 1)
<1> SUFFICES ASSUME NEW v \in Int, NEW b \in Seq(BitSet), Len(b) = 0
             PROVE  /\ ValueFrom(v, b) = v * 1 + Unsigned(b)
                    /\ Unsigned(b) \in Int /\ 0 <= Unsigned(b) /\ Unsigned(b) < 1
  BY DEF Times
<1>1. b = <<>>
  OBVIOUS
<1> QED
  BY <1>1, ValueFromEmpty DEF Unsigned

LEMMA TimesNext == ASSUME NEW w \in Nat, NEW N \in Nat, Times(w, N) PROVE Times(w + 1, 2 * N)
<1> SUFFICES ASSUME NEW v \in Int, NEW b \in Seq(BitSet), Len(b) = w + 1
             PROVE  /\ ValueFrom(v, b) = v * (2 * N) + Unsigned(b)
                    /\ Unsigned(b) \in Int /\ 0 <= Unsigned(b) /\ Unsigned(b) < 2 * N
  BY DEF Times
<1> DEFINE a == SubSeq(b, 1, w)
           z == b[w + 1]
           u == Unsigned(a)
<1>1. a \in Seq(BitSet) /\ Len(a) = w /\ z \in BitSet /\ b = a \o <<z>>
  OBVIOUS
<1>2. a \in Seq(Int) /\ <<z>> \in Seq(Int) /\ z \in 0 .. 1
  BY <1>1, BitsAreNumbers DEF BitSet
<1> HIDE DEF a, z
<1>3. ASSUME NEW x \in Int PROVE ValueFrom(x, b) = 2 * (x * N) + 2 * u + z
  <2>1. ValueFrom(x, a) = x * N + u /\ u \in Int
    BY <1>1 DEF Times
  <2>2. ValueFrom(x, b) = ValueFrom(ValueFrom(x, a), <<z>>)
    BY <1>1, <1>2, ValueFromJoined
  <2>3. \A y \in Int : ValueFrom(y, <<z>>) = 2 * y + z
    <3> TAKE y \in Int
    <3>1. PICK f : Values(f, y, <<z>>)
      BY <1>2, ValueFromDef
    <3>2. Len(<<z>>) = 1 /\ <<z>>[1] = z
      OBVIOUS
    <3>3. f[0] = y /\ f[1] = 2 * f[0] + z /\ ValueFrom(y, <<z>>) = f[1]
      BY <3>1, <3>2 DEF Values
    <3> QED
      BY <3>3
  <2>4. x * N \in Int /\ x * N + u \in Int
    BY <2>1
  <2>5. ValueFrom(x, b) = 2 * (x * N + u) + z
    BY <2>1, <2>2, <2>3, <2>4
  <2> QED
    BY <1>2, <2>1, <2>4, <2>5
<1>4. u \in Int /\ 0 <= u /\ u < N
  <2>1. 0 \in Int
    OBVIOUS
  <2> QED
    BY <1>1, <2>1 DEF Times
<1>5. Unsigned(b) = 2 * u + z
  <2>1. 0 * N = 0
    OBVIOUS
  <2> HIDE DEF u
  <2> QED
    BY <1>2, <1>3, <1>4, <2>1 DEF Unsigned
<1>6. v * (2 * N) = 2 * (v * N) /\ v * N \in Int
  OBVIOUS
<1> HIDE DEF u
<1>7. ValueFrom(v, b) = 2 * (v * N) + 2 * u + z
  BY <1>3
<1> QED
  BY <1>2, <1>4, <1>5, <1>6, <1>7

\* The numbers of the widths that fields have.
LEMMA TimesTable ==
    /\ Times(1, 2) /\ Times(2, 4) /\ Times(3, 8) /\ Times(7, 128) /\ Times(8, 256)
    /\ Times(15, 32768) /\ Times(16, 65536)
<1>1. Times(1, 2) /\ Times(2, 4) /\ Times(3, 8) /\ Times(4, 16)
  <2>1. Times(0 + 1, 2 * 1)
    BY TimesNone, TimesNext
  <2>2. Times(1 + 1, 2 * 2)
    BY <2>1, TimesNext
  <2>3. Times(2 + 1, 2 * 4)
    BY <2>2, TimesNext
  <2>4. Times(3 + 1, 2 * 8)
    BY <2>3, TimesNext
  <2> QED
    BY <2>1, <2>2, <2>3, <2>4
<1>2. Times(5, 32) /\ Times(6, 64) /\ Times(7, 128) /\ Times(8, 256)
  <2>1. Times(4 + 1, 2 * 16)
    BY <1>1, TimesNext
  <2>2. Times(5 + 1, 2 * 32)
    BY <2>1, TimesNext
  <2>3. Times(6 + 1, 2 * 64)
    BY <2>2, TimesNext
  <2>4. Times(7 + 1, 2 * 128)
    BY <2>3, TimesNext
  <2> QED
    BY <2>1, <2>2, <2>3, <2>4
<1>3. Times(9, 512) /\ Times(10, 1024) /\ Times(11, 2048) /\ Times(12, 4096)
  <2>1. Times(8 + 1, 2 * 256)
    BY <1>2, TimesNext
  <2>2. Times(9 + 1, 2 * 512)
    BY <2>1, TimesNext
  <2>3. Times(10 + 1, 2 * 1024)
    BY <2>2, TimesNext
  <2>4. Times(11 + 1, 2 * 2048)
    BY <2>3, TimesNext
  <2> QED
    BY <2>1, <2>2, <2>3, <2>4
<1>4. Times(13, 8192) /\ Times(14, 16384) /\ Times(15, 32768) /\ Times(16, 65536)
  <2>1. Times(12 + 1, 2 * 4096)
    BY <1>3, TimesNext
  <2>2. Times(13 + 1, 2 * 8192)
    BY <2>1, TimesNext
  <2>3. Times(14 + 1, 2 * 16384)
    BY <2>2, TimesNext
  <2>4. Times(15 + 1, 2 * 32768)
    BY <2>3, TimesNext
  <2> QED
    BY <2>1, <2>2, <2>3, <2>4
<1> QED
  BY <1>1, <1>2, <1>4

\* The bits of a number that was made of bits are those bits.
LEMMA BitsKept ==
    ASSUME NEW v \in Int, NEW b \in Seq(BitSet)
    PROVE  LowBits(ValueFrom(v, b), Len(b)) = b
<1> DEFINE w == Len(b)
           n == ValueFrom(v, b)
<1>1. w \in Nat /\ b = [i \in 1 .. w |-> b[i]] /\ \A i \in 1 .. w : b[i] \in 0 .. 1
  BY DEF BitSet
<1>2. PICK f \in [0 .. w -> Int] : f[0] = v /\ (\A k \in 1 .. w : f[k] = 2 * f[k - 1] + b[k]) /\ n = f[w]
  <2>1. PICK f : Values(f, v, b)
    BY BitsAreNumbers, ValueFromDef
  <2> QED
    BY <2>1 DEF Values
<1>3. n \in Int
  BY <1>1, <1>2
<1> HIDE DEF w, n
<1> DEFINE T == {j \in 0 .. w : Shifted(n, j) = f[w - j]}
<1>4. 0 \in T
  BY <1>1, <1>2, <1>3, ShiftedDef, SMTT(30)
<1>5. ASSUME NEW j \in 1 .. w, j - 1 \in T PROVE j \in T
  <2>1. j - 1 \in Nat /\ (j - 1) + 1 = j /\ w - (j - 1) = (w - j) + 1 /\ (w - j) + 1 \in 1 .. w
        /\ ((w - j) + 1) - 1 = w - j /\ w - j \in 0 .. w /\ j \in 0 .. w
    BY <1>1
  <2>2. Shifted(n, j) = Shifted(n, j - 1) \div 2
    BY <1>3, <2>1, ShiftedDef
  <2>3. Shifted(n, j - 1) = f[(w - j) + 1]
    BY <1>5, <2>1
  <2>4. f[(w - j) + 1] = 2 * f[w - j] + b[(w - j) + 1] /\ b[(w - j) + 1] \in 0 .. 1 /\ f[w - j] \in Int
    BY <1>1, <1>2, <2>1
  <2>5. Shifted(n, j) = f[w - j]
    <3> DEFINE x == f[w - j]
               z == b[(w - j) + 1]
    <3>1. Shifted(n, j) = (2 * x + z) \div 2 /\ x \in Int /\ z \in 0 .. 1
      BY <2>2, <2>3, <2>4
    <3> HIDE DEF x, z
    <3>2. (2 * x + z) \div 2 = x
      BY <3>1
    <3> QED
      BY <3>1, <3>2 DEF x
  <2> QED
    BY <2>1, <2>5
<1>6. 0 .. w \subseteq T
  <2> HIDE DEF T
  <2> QED
    BY <1>1, <1>4, <1>5, Upto
<1>7. ASSUME NEW i \in 1 .. w PROVE Shifted(n, w - i) % 2 = b[i]
  <2>1. w - i \in 0 .. w /\ w - (w - i) = i /\ i - 1 \in 0 .. w
    BY <1>1
  <2>2. Shifted(n, w - i) = f[i]
    BY <1>6, <2>1
  <2>3. f[i] = 2 * f[i - 1] + b[i] /\ f[i - 1] \in Int /\ b[i] \in 0 .. 1
    BY <1>1, <1>2, <2>1
  <2> QED
    BY <2>2, <2>3
<1>8. LowBits(n, w) = [i \in 1 .. w |-> b[i]]
  BY <1>7 DEF LowBits
<1> QED
  BY <1>1, <1>8 DEF n, w

LEMMA NoMultiple ==
    ASSUME NEW N \in Nat, NEW s \in Int, 0 - N < s * N, s * N < N
    PROVE  s = 0
<1>1. s >= 1 => s * N >= N
  <2> SUFFICES ASSUME s >= 1 PROVE s * N >= N
    OBVIOUS
  <2> DEFINE r == s - 1
  <2>1. r \in Nat /\ s = r + 1
    OBVIOUS
  <2> HIDE DEF r
  <2>2. (r + 1) * N = r * N + N /\ r * N \in Nat
    BY <2>1
  <2> QED
    BY <2>1, <2>2
<1>2. s <= 0 - 1 => s * N <= 0 - N
  <2> SUFFICES ASSUME s <= 0 - 1 PROVE s * N <= 0 - N
    OBVIOUS
  <2> DEFINE r == (0 - 1) - s
  <2>1. r \in Nat /\ s = 0 - (r + 1)
    OBVIOUS
  <2> HIDE DEF r
  <2>2. (0 - (r + 1)) * N = 0 - (r * N + N) /\ r * N \in Nat
    BY <2>1
  <2> QED
    BY <2>1, <2>2
<1> QED
  BY <1>1, <1>2

\* What w bits leave of a number.
LEMMA Remainder ==
    ASSUME NEW w \in Nat, NEW N \in Nat, Times(w, N), NEW n \in Int
    PROVE  \E s \in Int : /\ n = s * N + Unsigned(LowBits(n, w))
                          /\ Unsigned(LowBits(n, w)) \in 0 .. N - 1
<1> DEFINE b == LowBits(n, w)
           s == Shifted(n, w)
<1>1. b \in Seq(BitSet) /\ Len(b) = w
  BY LowBitsType
<1>2. s \in Int
  BY ShiftedDef
<1>3. ValueFrom(s, b) = n
  BY Reassembled
<1> HIDE DEF s, b
<1>4. ValueFrom(s, b) = s * N + Unsigned(b) /\ Unsigned(b) \in Int /\ 0 <= Unsigned(b) /\ Unsigned(b) < N
  BY <1>1, <1>2 DEF Times
<1>5. Unsigned(b) \in 0 .. N - 1
  BY <1>4
<1> QED
  BY <1>2, <1>3, <1>4, <1>5 DEF b

LEMMA UnsignedKept ==
    ASSUME NEW w \in Nat, NEW N \in Nat, Times(w, N), NEW n \in 0 .. N - 1
    PROVE  Unsigned(LowBits(n, w)) = n
<1> DEFINE u == Unsigned(LowBits(n, w))
<1>0. n \in Int
  OBVIOUS
<1>1. PICK s \in Int : n = s * N + u /\ u \in 0 .. N - 1
  BY <1>0, Remainder
<1> HIDE DEF u
<1>2. s * N \in Int /\ 0 - N < s * N /\ s * N < N
  BY <1>1
<1>3. s = 0
  BY <1>2, NoMultiple
<1>4. 0 * N = 0
  OBVIOUS
<1> QED
  BY <1>1, <1>3, <1>4 DEF u

\* Two's complement.
LEMMA SignedDef ==
    ASSUME NEW w \in Nat, NEW N \in Nat, Times(w, N), NEW b \in Seq(BitSet), Len(b) = w + 1
    PROVE  Signed(b) = IF Unsigned(b) >= N THEN Unsigned(b) - 2 * N ELSE Unsigned(b)
<1> DEFINE h == Head(b)
           t == Tail(b)
           u == Unsigned(t)
<1>1. h \in BitSet /\ t \in Seq(BitSet) /\ Len(t) = w /\ b = <<h>> \o t
  OBVIOUS
<1>2. h \in 0 .. 1
  BY <1>1 DEF BitSet
<1> HIDE DEF h, t
<1>3. u \in Int /\ 0 <= u /\ u < N /\ \A x \in Int : ValueFrom(x, t) = x * N + u
  <2>1. 0 \in Int
    OBVIOUS
  <2> QED
    BY <1>1, <2>1 DEF Times
<1> HIDE DEF u
<1>4. Signed(b) = (0 - h) * N + u
  <2>1. Signed(b) = ValueFrom(0 - h, t)
    BY DEF Signed, h, t
  <2>2. 0 - h \in Int
    BY <1>2
  <2> QED
    BY <1>3, <2>1, <2>2
<1>5. Unsigned(b) = h * N + u
  <2>1. <<h>> \in Seq(Int) /\ t \in Seq(Int)
    BY <1>1, <1>2, BitsAreNumbers
  <2>0. 0 \in Int
    OBVIOUS
  <2>2. Unsigned(b) = ValueFrom(ValueFrom(0, <<h>>), t)
    BY <1>1, <2>0, <2>1, ValueFromJoined DEF Unsigned
  <2>3. ValueFrom(0, <<h>>) = h
    <3>1. PICK f : Values(f, 0, <<h>>)
      BY <2>0, <2>1, ValueFromDef
    <3>2. Len(<<h>>) = 1 /\ <<h>>[1] = h
      OBVIOUS
    <3>3. f[0] = 0 /\ f[1] = 2 * f[0] + h /\ ValueFrom(0, <<h>>) = f[1]
      BY <3>1, <3>2 DEF Values
    <3> QED
      BY <1>2, <3>3
  <2> QED
    BY <1>2, <1>3, <2>2, <2>3
<1>6. CASE h = 0
  <2>1. Signed(b) = u /\ Unsigned(b) = u
    BY <1>3, <1>4, <1>5, <1>6
  <2> QED
    BY <1>3, <2>1
<1>7. CASE h = 1
  <2>1. Signed(b) = u - N /\ Unsigned(b) = N + u
    BY <1>3, <1>4, <1>5, <1>7
  <2> QED
    BY <1>3, <2>1
<1> QED
  BY <1>2, <1>6, <1>7

LEMMA SignedKept ==
    ASSUME NEW w \in Nat, NEW N \in Nat, Times(w, N), NEW n \in 0 - N .. N - 1
    PROVE  Signed(LowBits(n, w + 1)) = n
<1> DEFINE b == LowBits(n, w + 1)
           u == Unsigned(b)
<1>1. Times(w + 1, 2 * N) /\ w + 1 \in Nat /\ 2 * N \in Nat /\ n \in Int
  BY TimesNext
<1>2. b \in Seq(BitSet) /\ Len(b) = w + 1
  BY <1>1, LowBitsType
<1>3. PICK s \in Int : n = s * (2 * N) + u /\ u \in 0 .. 2 * N - 1
  BY <1>1, Remainder
<1>4. Signed(b) = IF u >= N THEN u - 2 * N ELSE u
  BY <1>2, SignedDef
<1> HIDE DEF b, u
<1>5. CASE n >= 0
  <2>1. 0 - (2 * N) < s * (2 * N) /\ s * (2 * N) < 2 * N
    BY <1>3, <1>5
  <2>2. s = 0
    BY <1>1, <2>1, NoMultiple
  <2>3. u = n
    BY <1>3, <2>2
  <2> QED
    BY <1>4, <1>5, <2>3 DEF b
<1>6. CASE n < 0
  <2>1. (s + 1) * (2 * N) = s * (2 * N) + 2 * N /\ s * (2 * N) \in Int
    OBVIOUS
  <2>2. 0 - (2 * N) < (s + 1) * (2 * N) /\ (s + 1) * (2 * N) < 2 * N
    BY <1>3, <1>6, <2>1
  <2>3. s + 1 = 0
    BY <1>1, <2>2, NoMultiple
  <2>4. s = 0 - 1
    BY <2>3
  <2>5. u = n + 2 * N
    BY <1>3, <2>4
  <2> QED
    BY <1>4, <1>6, <2>5 DEF b
<1> QED
  BY <1>5, <1>6

-----------------------------------------------------------------------------
(* The bits of octets                                                      *)

LEMMA OctetBits ==
    ASSUME NEW o \in Seq(Int), NEW k \in 1 .. Len(o)
    PROVE  /\ \A j \in 1 .. 8 : BitsOf(o)[8 * (k - 1) + j] = LowBits(o[k], 8)[j]
           /\ SubSeq(BitsOf(o), 8 * (k - 1) + 1, 8 * k) = LowBits(o[k], 8)
<1> DEFINE n == Len(o)
           bits == [i \in DOMAIN o |-> LowBits(o[i], 8)]
           B == BitsOf(o)
           L == LowBits(o[k], 8)
<1>1. n \in Nat /\ k \in 1 .. n /\ DOMAIN o = 1 .. n /\ o[k] \in Int
  OBVIOUS
<1>2. B = [p \in 1 .. 8 * n |-> bits[((p - 1) \div 8) + 1][((p - 1) % 8) + 1]]
  BY DEF BitsOf
<1>3. bits[k] = L
  BY <1>1
<1>4. B \in Seq(BitSet) /\ Len(B) = 8 * n
  BY BitsOfType
<1>5. L \in [1 .. 8 -> BitSet] /\ L \in Seq(BitSet) /\ Len(L) = 8
  BY <1>1, LowBitsType
<1> HIDE DEF bits, n, B, L
<1>6. ASSUME NEW j \in 1 .. 8 PROVE B[8 * (k - 1) + j] = L[j]
  <2> DEFINE p == 8 * (k - 1) + j
  <2>1. p \in 1 .. 8 * n /\ (p - 1) \div 8 = k - 1 /\ (p - 1) % 8 = j - 1
    BY <1>1
  <2> HIDE DEF p
  <2>2. ((p - 1) \div 8) + 1 = k /\ ((p - 1) % 8) + 1 = j
    BY <1>1, <2>1
  <2> QED
    BY <1>2, <1>3, <2>1, <2>2 DEF p
<1> DEFINE S == SubSeq(B, 8 * (k - 1) + 1, 8 * k)
<1>7. S \in Seq(BitSet) /\ Len(S) = 8 /\ \A j \in 1 .. 8 : S[j] = B[8 * (k - 1) + j]
  <2> DEFINE f == 8 * (k - 1) + 1
             g == 8 * k
  <2>1. f \in 1 .. 8 * n /\ g \in 1 .. 8 * n /\ g - f + 1 = 8 /\ f <= g
    BY <1>1
  <2>2. \A j \in 1 .. 8 : f + j - 1 = 8 * (k - 1) + j
    BY <1>1
  <2> HIDE DEF f, g
  <2>3. SubSeq(B, f, g) \in Seq(BitSet) /\ Len(SubSeq(B, f, g)) = 8 /\ \A j \in 1 .. 8 : SubSeq(B, f, g)[j] = B[f + j - 1]
    BY <1>4, <2>1
  <2> QED
    BY <2>2, <2>3 DEF f, g
<1> HIDE DEF S
<1>8. S = L
  <2>1. \A j \in 1 .. 8 : S[j] = L[j]
    BY <1>6, <1>7
  <2>2. S \in [1 .. 8 -> BitSet]
    BY <1>7, SequenceIsFunction
  <2>3. S = [j \in 1 .. 8 |-> S[j]] /\ L = [j \in 1 .. 8 |-> L[j]]
    BY <1>5, <2>2
  <2>4. [j \in 1 .. 8 |-> S[j]] = [j \in 1 .. 8 |-> L[j]]
    BY <2>1
  <2> QED
    BY <2>3, <2>4
<1> QED
  BY <1>6, <1>8 DEF S, B, L

LEMMA OctetNumber == ASSUME NEW n \in ByteSet PROVE Unsigned(LowBits(n, 8)) = n
<1>1. n \in 0 .. 256 - 1
  BY DEF ByteSet
<1> QED
  BY <1>1, TimesTable, UnsignedKept

\* A string of whole octets is read from the octets as it was.
LEMMA OctetsKept ==
    ASSUME NEW n \in Nat, NEW b \in [1 .. 8 * n -> BitSet]
    PROVE  BitsOf(OctetsOf(b)) = b
<1> DEFINE o == OctetsOf(b)
           part(k) == SubSeq(b, 8 * k - 7, 8 * k)
<1>1. b \in Seq(BitSet) /\ Len(b) = 8 * n /\ (8 * n) \div 8 = n
  OBVIOUS
<1>2. o \in Seq(ByteSet) /\ Len(o) = n
  BY OctetsOfType
<1>3. o = [k \in 1 .. n |-> Unsigned(part(k))]
  BY <1>1 DEF OctetsOf
<1>4. ASSUME NEW k \in 1 .. n
      PROVE  part(k) \in Seq(BitSet) /\ Len(part(k)) = 8 /\ \A j \in 1 .. 8 : part(k)[j] = b[8 * (k - 1) + j]
  <2> DEFINE f == 8 * k - 7
             g == 8 * k
  <2>1. f \in 1 .. 8 * n /\ g \in 1 .. 8 * n /\ g - f + 1 = 8 /\ f <= g
    OBVIOUS
  <2>2. \A j \in 1 .. 8 : f + j - 1 = 8 * (k - 1) + j
    OBVIOUS
  <2> HIDE DEF f, g
  <2>3. SubSeq(b, f, g) \in Seq(BitSet) /\ Len(SubSeq(b, f, g)) = 8 /\ \A j \in 1 .. 8 : SubSeq(b, f, g)[j] = b[f + j - 1]
    BY <1>1, <2>1
  <2> QED
    BY <2>2, <2>3 DEF f, g
<1> HIDE DEF part
<1>5. o \in Seq(Int)
  BY <1>2, SeqWiden, SMTT(30) DEF ByteSet
<1> HIDE DEF o
<1>6. ASSUME NEW k \in 1 .. n, NEW j \in 1 .. 8 PROVE BitsOf(o)[8 * (k - 1) + j] = b[8 * (k - 1) + j]
  <2>1. BitsOf(o)[8 * (k - 1) + j] = LowBits(o[k], 8)[j]
    BY <1>2, <1>5, OctetBits
  <2>2. LowBits(Unsigned(part(k)), 8) = part(k)
    <3>1. 0 \in Int
      OBVIOUS
    <3> QED
      BY <1>4, <3>1, BitsKept DEF Unsigned
  <2>3. o[k] = Unsigned(part(k))
    BY <1>3
  <2> QED
    BY <1>4, <2>1, <2>2, <2>3
<1>7. BitsOf(o) \in [1 .. 8 * n -> BitSet]
  BY <1>2, <1>5, BitsOfType
<1>8. ASSUME NEW p \in 1 .. 8 * n PROVE BitsOf(o)[p] = b[p]
  <2> DEFINE k == ((p - 1) \div 8) + 1
             j == ((p - 1) % 8) + 1
  <2>1. k \in 1 .. n /\ j \in 1 .. 8 /\ p = 8 * (k - 1) + j
    OBVIOUS
  <2> HIDE DEF k, j
  <2> QED
    BY <1>6, <2>1
<1> QED
  BY <1>7, <1>8 DEF o

-----------------------------------------------------------------------------
(* Fields                                                                  *)

\* Fields that do not overlap, inside a payload of `size` octets.
Laid(fields, size) ==
    /\ \A i \in DOMAIN fields : /\ fields[i].at \in Nat /\ fields[i].width \in Nat
                                /\ fields[i].at + fields[i].width <= 8 * size
    /\ \A i, j \in DOMAIN fields : i # j => \/ fields[i].at + fields[i].width <= fields[j].at
                                            \/ fields[j].at + fields[j].width <= fields[i].at

LEMMA Part ==
    ASSUME NEW S, NEW s \in Seq(S), NEW f \in Nat, NEW w \in Nat, f + w <= Len(s)
    PROVE  /\ SubSeq(s, f + 1, f + w) \in Seq(S) /\ Len(SubSeq(s, f + 1, f + w)) = w
           /\ \A j \in 1 .. w : SubSeq(s, f + 1, f + w)[j] = s[f + j]
<1> DEFINE a == f + 1
           z == f + w
<1>1. a \in Nat /\ z \in Nat /\ a >= 1 /\ z <= Len(s) /\ z - a + 1 = w /\ \A j \in 1 .. w : a + j - 1 = f + j /\ f + j \in 1 .. Len(s)
  OBVIOUS
<1> HIDE DEF a, z
<1>2. CASE w = 0
  <2>1. z < a
    BY <1>1, <1>2
  <2>2. SubSeq(s, a, z) = <<>>
    BY <1>1, <2>1
  <2> QED
    BY <1>2, <2>2 DEF a, z
<1>3. CASE w > 0
  <2>1. a <= z /\ a \in 1 .. Len(s) /\ z \in 1 .. Len(s)
    BY <1>1, <1>3
  <2>2. SubSeq(s, a, z) \in Seq(S) /\ Len(SubSeq(s, a, z)) = z - a + 1
    BY <1>1, <2>1
  <2>3. \A j \in 1 .. w : SubSeq(s, a, z)[j] = s[a + j - 1]
    BY <1>1, <2>1
  <2> QED
    BY <1>1, <2>2, <2>3 DEF a, z
<1> QED
  BY <1>2, <1>3

\* A field of a payload holds the bits that were put there.
LEMMA FieldKept ==
    ASSUME NEW fields, NEW size \in Nat, Laid(fields, size),
           NEW bits, \A i \in DOMAIN fields : bits[i] \in [1 .. fields[i].width -> BitSet],
           NEW i \in DOMAIN fields
    PROVE  FieldBits(BitsOf(Assemble(fields, bits, size)), fields[i]) = bits[i]
<1> DEFINE In(p, k) == p \in fields[k].at .. fields[k].at + fields[k].width - 1
           C(p) == CHOOSE k \in DOMAIN fields : In(p, k)
           BitAt(p) == IF \E k \in DOMAIN fields : In(p, k) THEN bits[C(p)][p - fields[C(p)].at + 1] ELSE 0
           B == [p \in 1 .. 8 * size |-> BitAt(p - 1)]
           at == fields[i].at
           w == fields[i].width
<1>1. Assemble(fields, bits, size) = OctetsOf(B)
  BY DEF Assemble
<1>2. \A k \in DOMAIN fields : fields[k].at \in Nat /\ fields[k].width \in Nat
  BY DEF Laid
<1>3. ASSUME NEW p \in Int PROVE BitAt(p) \in BitSet
  <2>1. CASE \E k \in DOMAIN fields : In(p, k)
    <3>1. C(p) \in DOMAIN fields /\ In(p, C(p))
      BY <2>1
    <3> HIDE DEF C
    <3>2. p - fields[C(p)].at + 1 \in 1 .. fields[C(p)].width
      BY <1>2, <3>1
    <3>3. bits[C(p)][p - fields[C(p)].at + 1] \in BitSet
      BY <3>1, <3>2
    <3> QED
      BY <2>1, <3>3
  <2>2. CASE ~ \E k \in DOMAIN fields : In(p, k)
    BY <2>2 DEF BitSet
  <2> QED
    BY <2>1, <2>2
<1>4. ASSUME NEW j \in 1 .. w PROVE BitAt(at + j - 1) = bits[i][j]
  <2> DEFINE p == at + j - 1
  <2>1. p \in Int /\ In(p, i) /\ p - at + 1 = j
    BY <1>2
  <2>2. C(p) \in DOMAIN fields /\ In(p, C(p))
    BY <2>1
  <2>3. C(p) = i
    <3> HIDE DEF C
    <3> SUFFICES ASSUME C(p) # i PROVE FALSE
      OBVIOUS
    <3>1. \/ fields[C(p)].at + fields[C(p)].width <= at
          \/ at + w <= fields[C(p)].at
      BY <2>2 DEF Laid
    <3> QED
      BY <1>2, <2>1, <2>2, <3>1, SMTT(30)
  <2> HIDE DEF C
  <2> QED
    BY <2>1, <2>3
<1> HIDE DEF BitAt
<1>5. B \in [1 .. 8 * size -> BitSet]
  BY <1>3
<1>6. \A p \in 1 .. 8 * size : B[p] = BitAt(p - 1)
  OBVIOUS
<1> HIDE DEF B
<1>7. BitsOf(OctetsOf(B)) = B
  BY <1>5, OctetsKept
<1>8. B \in Seq(BitSet) /\ Len(B) = 8 * size
  BY <1>5
<1>9. at \in Nat /\ w \in Nat /\ at + w <= 8 * size
  BY DEF Laid
<1> HIDE DEF at, w
<1> DEFINE S == SubSeq(B, at + 1, at + w)
<1>10. S \in Seq(BitSet) /\ Len(S) = w /\ \A j \in 1 .. w : S[j] = B[at + j]
  BY <1>8, <1>9, Part
<1> HIDE DEF S
<1>11. ASSUME NEW j \in 1 .. w PROVE S[j] = bits[i][j]
  <2>1. at + j \in 1 .. 8 * size /\ (at + j) - 1 = at + j - 1
    BY <1>9
  <2> QED
    BY <1>4, <1>6, <1>10, <2>1
<1>12. S = [j \in 1 .. w |-> S[j]] /\ bits[i] = [j \in 1 .. w |-> bits[i][j]]
  <2>1. bits[i] \in [1 .. w -> BitSet]
    BY DEF w
  <2>2. S \in [1 .. w -> BitSet]
    BY <1>10, SequenceIsFunction
  <2> QED
    BY <2>1, <2>2
<1>13. S = bits[i]
  <2>1. [j \in 1 .. w |-> S[j]] = [j \in 1 .. w |-> bits[i][j]]
    BY <1>11
  <2> QED
    BY <1>12, <2>1
<1> QED
  BY <1>1, <1>7, <1>13 DEF FieldBits, S, at, w

-----------------------------------------------------------------------------
(* What fields read from a payload                                         *)

LEMMA Digits ==
    ASSUME NEW n \in Int
    PROVE  /\ LowBits(n, 8)[8] = n % 2 /\ LowBits(n, 8)[7] = (n \div 2) % 2
           /\ LowBits(n, 8)[6] = ((n \div 2) \div 2) % 2 /\ LowBits(n, 8)[5] = (((n \div 2) \div 2) \div 2) % 2
<1>1. Shifted(n, 0) = n /\ Shifted(n, 1) = n \div 2 /\ Shifted(n, 2) = (n \div 2) \div 2 /\ Shifted(n, 3) = ((n \div 2) \div 2) \div 2
  <2>1. 0 \in Nat /\ 1 \in Nat /\ 2 \in Nat /\ 0 + 1 = 1 /\ 1 + 1 = 2 /\ 2 + 1 = 3
    OBVIOUS
  <2>2. Shifted(n, 0) = n
    BY ShiftedDef
  <2>3. Shifted(n, 0 + 1) = Shifted(n, 0) \div 2
    BY <2>1, ShiftedDef
  <2>4. Shifted(n, 1 + 1) = Shifted(n, 1) \div 2
    BY <2>1, ShiftedDef
  <2>5. Shifted(n, 2 + 1) = Shifted(n, 2) \div 2
    BY <2>1, ShiftedDef
  <2> QED
    BY <2>1, <2>2, <2>3, <2>4, <2>5
<1>2. \A i \in 1 .. 8 : LowBits(n, 8)[i] = Shifted(n, 8 - i) % 2
  BY DEF LowBits
<1>3. 8 - 8 = 0 /\ 8 - 7 = 1 /\ 8 - 6 = 2 /\ 8 - 5 = 3
  OBVIOUS
<1> QED
  BY <1>1, <1>2, <1>3

LEMMA OneBit == ASSUME NEW x \in BitSet PROVE Unsigned(<<x>>) = x
<1>1. <<x>> \in Seq(Int) /\ Len(<<x>>) = 1 /\ <<x>>[1] = x /\ 0 \in Int /\ x \in Int
  BY DEF BitSet
<1>2. PICK f : Values(f, 0, <<x>>)
  BY <1>1, ValueFromDef
<1>3. f[0] = 0 /\ f[1] = 2 * f[0] + x /\ ValueFrom(0, <<x>>) = f[1]
  BY <1>1, <1>2 DEF Values
<1> QED
  BY <1>1, <1>3 DEF Unsigned

LEMMA ThreeBits ==
    ASSUME NEW b \in Seq(BitSet), Len(b) = 3
    PROVE  Unsigned(b) = 4 * b[1] + 2 * b[2] + b[3]
<1>1. b \in Seq(Int) /\ 0 \in Int
  BY BitsAreNumbers
<1>2. PICK f : Values(f, 0, b)
  BY <1>1, ValueFromDef
<1>3. f[0] = 0 /\ f[1] = 2 * f[0] + b[1] /\ f[2] = 2 * f[1] + b[2] /\ f[3] = 2 * f[2] + b[3] /\ ValueFrom(0, b) = f[3]
  BY <1>2 DEF Values
<1>4. b[1] \in Int /\ b[2] \in Int /\ b[3] \in Int
  <2>1. b \in [1 .. 3 -> Int]
    BY <1>1, SequenceIsFunction
  <2> QED
    BY <2>1
<1> QED
  BY <1>3, <1>4 DEF Unsigned

LEMMA Singleton == ASSUME NEW S, NEW s \in Seq(S), Len(s) = 1 PROVE s = <<s[1]>> /\ s[1] \in S
<1>1. s \in [1 .. 1 -> S] /\ 1 \in 1 .. 1
  BY SequenceIsFunction
<1>2. s[1] \in S
  BY <1>1
<1> DEFINE x == s[1]
<1>3. <<x>> = [j \in 1 .. 1 |-> x]
  OBVIOUS
<1>4. s = [j \in 1 .. 1 |-> s[j]]
  BY <1>1
<1>5. \A j \in 1 .. 1 : s[j] = x
  OBVIOUS
<1> HIDE DEF x
<1>6. s = <<x>>
  BY <1>3, <1>4, <1>5
<1> QED
  BY <1>2, <1>6 DEF x

\* The octet that shares the telegram's with the APCI.
LEMMA SharedOctetBits ==
    ASSUME NEW p \in Seq(ByteSet), Len(p) >= 1
    PROVE  /\ Unsigned(SubSeq(BitsOf(p), 8, 8)) = p[1] % 2
           /\ Unsigned(SubSeq(BitsOf(p), 7, 7)) = (p[1] \div 2) % 2
           /\ Unsigned(SubSeq(BitsOf(p), 5, 5)) = (p[1] \div 8) % 2
           /\ Unsigned(SubSeq(BitsOf(p), 6, 8)) = p[1] % 8
<1> DEFINE B == BitsOf(p)
           n == p[1]
           L == LowBits(n, 8)
<1>1. p \in Seq(Int) /\ 1 \in 1 .. Len(p) /\ n \in 0 .. 255 /\ n \in Int
  <2>1. ByteSet \subseteq Int
    BY DEF ByteSet
  <2>2. p \in Seq(Int)
    BY <2>1, SeqWiden
  <2>3. 1 \in 1 .. Len(p)
    OBVIOUS
  <2>4. n \in ByteSet
    BY <2>3
  <2> QED
    BY <2>2, <2>3, <2>4 DEF ByteSet
<1>2. \A j \in 1 .. 8 : B[j] = L[j]
  <2>1. \A j \in 1 .. 8 : B[8 * (1 - 1) + j] = L[j]
    BY <1>1, OctetBits
  <2>2. \A j \in 1 .. 8 : 8 * (1 - 1) + j = j
    OBVIOUS
  <2> HIDE DEF B, L
  <2> QED
    BY <2>1, <2>2
<1>3. B \in Seq(BitSet) /\ Len(B) >= 8
  BY <1>1, BitsOfType
<1>4. /\ L[8] = n % 2 /\ L[7] = (n \div 2) % 2
      /\ L[6] = ((n \div 2) \div 2) % 2 /\ L[5] = (((n \div 2) \div 2) \div 2) % 2
  <2> HIDE DEF n
  <2> QED
    BY <1>1, Digits
<1> HIDE DEF B, L, n
<1>5. B[5] = L[5] /\ B[6] = L[6] /\ B[7] = L[7] /\ B[8] = L[8]
  BY <1>2
<1>6. ASSUME NEW i \in 1 .. 8 PROVE SubSeq(B, i, i) = <<B[i]>> /\ B[i] \in BitSet
  <2> DEFINE S == SubSeq(B, (i - 1) + 1, (i - 1) + 1)
  <2>1. i - 1 \in Nat /\ (i - 1) + 1 = i /\ i \in 1 .. Len(B)
    BY <1>3
  <2>2. S \in Seq(BitSet) /\ Len(S) = 1 /\ S[1] = B[i]
    <3>1. 1 \in Nat /\ (i - 1) + 1 <= Len(B) /\ 1 \in 1 .. 1
      BY <2>1
    <3> QED
      BY <1>3, <2>1, <3>1, Part
  <2> HIDE DEF S
  <2>3. S = <<B[i]>> /\ B[i] \in BitSet
    <3>1. S = <<S[1]>> /\ S[1] \in BitSet
      BY <2>2, Singleton
    <3> QED
      BY <2>2, <3>1
  <2> QED
    BY <2>1, <2>3 DEF S
<1>7. Unsigned(SubSeq(B, 8, 8)) = B[8] /\ Unsigned(SubSeq(B, 7, 7)) = B[7] /\ Unsigned(SubSeq(B, 5, 5)) = B[5]
  <2>1. 8 \in 1 .. 8 /\ 7 \in 1 .. 8 /\ 5 \in 1 .. 8
    OBVIOUS
  <2>2. \A i \in 1 .. 8 : Unsigned(SubSeq(B, i, i)) = B[i]
    BY <1>6, OneBit
  <2> QED
    BY <2>1, <2>2
<1>8. Unsigned(SubSeq(B, 6, 8)) = 4 * B[6] + 2 * B[7] + B[8]
  <2> DEFINE S == SubSeq(B, 6, 8)
  <2>1. S \in Seq(BitSet) /\ Len(S) = 3 /\ S[1] = B[6] /\ S[2] = B[7] /\ S[3] = B[8]
    BY <1>3
  <2> HIDE DEF S
  <2> QED
    BY <2>1, ThreeBits DEF S
<1>9. ((n \div 2) \div 2) \div 2 = n \div 8
  BY <1>1
<1>10. 4 * (((n \div 2) \div 2) % 2) + 2 * ((n \div 2) % 2) + (n % 2) = n % 8
  BY <1>1
<1> QED
  BY <1>4, <1>5, <1>7, <1>8, <1>9, <1>10 DEF B, n

\* An octet after others.
LEMMA OctetAfter ==
    ASSUME NEW v \in Int, NEW n \in ByteSet
    PROVE  ValueFrom(v, LowBits(n, 8)) = 256 * v + n
<1>1. n \in Int
  BY DEF ByteSet
<1>2. LowBits(n, 8) \in Seq(BitSet) /\ Len(LowBits(n, 8)) = 8
  BY <1>1, LowBitsType
<1>3. ValueFrom(v, LowBits(n, 8)) = v * 256 + Unsigned(LowBits(n, 8))
  BY <1>2, TimesTable DEF Times
<1> QED
  BY <1>1, <1>3, OctetNumber

LEMMA SignedJoined ==
    ASSUME NEW s \in Seq(BitSet), s # <<>>, NEW t \in Seq(BitSet)
    PROVE  Signed(s \o t) = ValueFrom(Signed(s), t)
<1> DEFINE n == 0 - Head(s)
           r == Tail(s)
<1>0. Head(s \o t) = Head(s) /\ Tail(s \o t) = Tail(s) \o t
  OBVIOUS
<1>1. Signed(s \o t) = ValueFrom(n, r \o t)
  BY <1>0, Zenon DEF Signed
<1>2. n \in Int
  <2>1. Head(s) \in BitSet
    OBVIOUS
  <2> QED
    BY <2>1 DEF BitSet
<1>3. r \in Seq(Int) /\ t \in Seq(Int)
  BY BitsAreNumbers
<1>4. Signed(s) = ValueFrom(n, r)
  BY DEF Signed
<1> HIDE DEF n, r
<1>5. ValueFrom(n, r \o t) = ValueFrom(ValueFrom(n, r), t)
  BY <1>2, <1>3, ValueFromJoined
<1> QED
  BY <1>1, <1>4, <1>5

LEMMA Split ==
    ASSUME NEW S, NEW s \in Seq(S), NEW a \in Nat, NEW b \in Nat, NEW c \in Nat, a <= b, b <= c, c <= Len(s)
    PROVE  SubSeq(s, a + 1, c) = SubSeq(s, a + 1, b) \o SubSeq(s, b + 1, c)
OBVIOUS

LEMMA Byte == ASSUME NEW n \in ByteSet PROVE n \in Int /\ 0 <= n /\ n <= 255 /\ Negative(n, 128) \in Int
<1>1. n \in 0 .. 255
  BY DEF ByteSet
<1> QED
  BY <1>1 DEF Negative

LEMMA OctetAt ==
    ASSUME NEW p \in Seq(ByteSet), NEW k \in 1 .. Len(p)
    PROVE  /\ p[k] \in ByteSet /\ p[k] \in Int /\ p \in Seq(Int)
           /\ SubSeq(BitsOf(p), 8 * (k - 1) + 1, 8 * k) = LowBits(p[k], 8)
           /\ LowBits(p[k], 8) \in Seq(BitSet) /\ Len(LowBits(p[k], 8)) = 8
           /\ BitsOf(p) \in Seq(BitSet) /\ Len(BitsOf(p)) = 8 * Len(p)
<1>1. p[k] \in ByteSet
  OBVIOUS
<1>2. ByteSet \subseteq Int
  BY Byte
<1>3. p \in Seq(Int) /\ p[k] \in Int
  BY <1>1, <1>2, SeqWiden
<1> QED
  BY <1>1, <1>3, OctetBits, LowBitsType, BitsOfType

LEMMA NotEmpty == ASSUME NEW S, NEW s \in Seq(S), Len(s) > 0 PROVE s # <<>>
<1>1. Len(<<>>) = 0
  OBVIOUS
<1> QED
  BY <1>1

LEMMA OneOctet ==
    ASSUME NEW p \in Seq(ByteSet), Len(p) >= 2
    PROVE  /\ Unsigned(SubSeq(BitsOf(p), 9, 16)) = p[2]
           /\ Signed(SubSeq(BitsOf(p), 9, 16)) = Negative(p[2], 128)
<1> DEFINE L == LowBits(p[2], 8)
<1>1. 2 \in 1 .. Len(p) /\ 8 * (2 - 1) + 1 = 9 /\ 8 * 2 = 16
  OBVIOUS
<1>2. p[2] \in ByteSet /\ SubSeq(BitsOf(p), 9, 16) = L /\ L \in Seq(BitSet) /\ Len(L) = 7 + 1
  <2>1. SubSeq(BitsOf(p), 8 * (2 - 1) + 1, 8 * 2) = L
    BY <1>1, OctetAt
  <2>2. p[2] \in ByteSet /\ L \in Seq(BitSet) /\ Len(L) = 8
    BY <1>1, OctetAt
  <2> HIDE DEF L
  <2> QED
    BY <1>1, <2>1, <2>2
<1>3. Unsigned(L) = p[2]
  BY <1>2, OctetNumber
<1> HIDE DEF L
<1>4. Signed(L) = IF Unsigned(L) >= 128 THEN Unsigned(L) - 2 * 128 ELSE Unsigned(L)
  <2> DEFINE w == 7
             N == 128
  <2>1. w \in Nat /\ N \in Nat
    OBVIOUS
  <2>2. Times(w, N) /\ Len(L) = w + 1
    BY <1>2, TimesTable
  <2> HIDE DEF w, N
  <2>3. Signed(L) = IF Unsigned(L) >= N THEN Unsigned(L) - 2 * N ELSE Unsigned(L)
    BY <1>2, <2>1, <2>2, SignedDef
  <2> QED
    BY <2>3 DEF N
<1> QED
  BY <1>2, <1>3, <1>4 DEF Negative

LEMMA TwoOctets ==
    ASSUME NEW p \in Seq(ByteSet), Len(p) >= 3
    PROVE  /\ Unsigned(SubSeq(BitsOf(p), 9, 24)) = 256 * p[2] + p[3]
           /\ Signed(SubSeq(BitsOf(p), 9, 24)) = 256 * Negative(p[2], 128) + p[3]
<1> DEFINE B == BitsOf(p)
           K == SubSeq(B, 9, 16)
           L == SubSeq(B, 17, 24)
<1>1. 3 \in 1 .. Len(p) /\ 8 * (3 - 1) + 1 = 17 /\ 8 * 3 = 24 /\ 2 \in 1 .. Len(p) /\ 8 * (2 - 1) + 1 = 9 /\ 8 * 2 = 16
  OBVIOUS
<1>2. p[2] \in ByteSet /\ K \in Seq(BitSet) /\ K # <<>>
  <2>1. SubSeq(B, 8 * (2 - 1) + 1, 8 * 2) = LowBits(p[2], 8)
    BY <1>1, OctetAt
  <2>2. LowBits(p[2], 8) \in Seq(BitSet) /\ Len(LowBits(p[2], 8)) = 8 /\ p[2] \in ByteSet
    BY <1>1, OctetAt
  <2>3. K = LowBits(p[2], 8)
    BY <1>1, <2>1
  <2> HIDE DEF B, K, L
  <2>6. K \in Seq(BitSet) /\ Len(K) = 8
    BY <2>2, <2>3, Zenon
  <2>4. K \in Seq(BitSet) /\ Len(K) > 0
    BY <2>6
  <2>5. K # <<>>
    BY <2>4, NotEmpty
  <2> QED
    BY <2>2, <2>4, <2>5
<1>3. p[3] \in ByteSet /\ L = LowBits(p[3], 8) /\ L \in Seq(BitSet)
  <2>1. SubSeq(B, 8 * (3 - 1) + 1, 8 * 3) = LowBits(p[3], 8)
    BY <1>1, OctetAt
  <2>2. LowBits(p[3], 8) \in Seq(BitSet) /\ p[3] \in ByteSet
    BY <1>1, OctetAt
  <2> QED
    BY <1>1, <2>1, <2>2, Zenon
<1>4. B \in Seq(BitSet) /\ Len(B) = 8 * Len(p)
  BY <1>1, OctetAt
<1>5. SubSeq(B, 8 + 1, 24) = SubSeq(B, 8 + 1, 16) \o SubSeq(B, 16 + 1, 24)
  <2>1. 24 <= Len(B)
    BY <1>4
  <2> HIDE DEF B
  <2> QED
    BY <1>4, <2>1, Split
<1>6. SubSeq(B, 9, 24) = K \o L
  <2> HIDE DEF B
  <2> QED
    BY <1>5
<1>7. Unsigned(K) = p[2] /\ Signed(K) = Negative(p[2], 128)
  BY OneOctet
<1> HIDE DEF B, K, L
<1>8. K \in Seq(Int) /\ L \in Seq(Int) /\ 0 \in Int
  BY <1>2, <1>3, BitsAreNumbers
<1>9. p[2] \in Int /\ Negative(p[2], 128) \in Int
  BY <1>2, Byte
<1>10. Unsigned(K \o L) = ValueFrom(p[2], L) /\ Signed(K \o L) = ValueFrom(Negative(p[2], 128), L)
  <2>1. Unsigned(K \o L) = ValueFrom(Unsigned(K), L)
    BY <1>8, ValueFromJoined DEF Unsigned
  <2>2. Signed(K \o L) = ValueFrom(Signed(K), L)
    BY <1>2, <1>3, <1>8, SignedJoined
  <2> QED
    BY <1>7, <2>1, <2>2
<1> QED
  BY <1>3, <1>6, <1>9, <1>10, OctetAfter, ZenonT(30) DEF B

LEMMA FourOctets ==
    ASSUME NEW p \in Seq(ByteSet), Len(p) >= 5
    PROVE  /\ Unsigned(SubSeq(BitsOf(p), 9, 40)) = 256 * (256 * (256 * p[2] + p[3]) + p[4]) + p[5]
           /\ Signed(SubSeq(BitsOf(p), 9, 40)) = 256 * (256 * (256 * Negative(p[2], 128) + p[3]) + p[4]) + p[5]
<1> DEFINE B == BitsOf(p)
           K == SubSeq(B, 9, 24)
           L == SubSeq(B, 25, 32)
           M == SubSeq(B, 33, 40)
           u == 256 * p[2] + p[3]
           s == 256 * Negative(p[2], 128) + p[3]
<1>1. /\ 4 \in 1 .. Len(p) /\ 8 * (4 - 1) + 1 = 25 /\ 8 * 4 = 32
      /\ 5 \in 1 .. Len(p) /\ 8 * (5 - 1) + 1 = 33 /\ 8 * 5 = 40
      /\ 2 \in 1 .. Len(p) /\ 3 \in 1 .. Len(p)
  OBVIOUS
<1>2. p[4] \in ByteSet /\ L = LowBits(p[4], 8) /\ L \in Seq(BitSet)
  <2>1. SubSeq(B, 8 * (4 - 1) + 1, 8 * 4) = LowBits(p[4], 8)
    BY <1>1, OctetAt
  <2>2. LowBits(p[4], 8) \in Seq(BitSet) /\ p[4] \in ByteSet
    BY <1>1, OctetAt
  <2> QED
    BY <1>1, <2>1, <2>2, Zenon
<1>3. p[5] \in ByteSet /\ M = LowBits(p[5], 8) /\ M \in Seq(BitSet)
  <2>1. SubSeq(B, 8 * (5 - 1) + 1, 8 * 5) = LowBits(p[5], 8)
    BY <1>1, OctetAt
  <2>2. LowBits(p[5], 8) \in Seq(BitSet) /\ p[5] \in ByteSet
    BY <1>1, OctetAt
  <2> QED
    BY <1>1, <2>1, <2>2, Zenon
<1>4. B \in Seq(BitSet) /\ Len(B) = 8 * Len(p) /\ p[2] \in ByteSet /\ p[3] \in ByteSet
  BY <1>1, OctetAt
<1>5. Unsigned(K) = u /\ Signed(K) = s
  BY TwoOctets
<1>6. u \in Int /\ s \in Int
  <2>1. p[2] \in Int /\ Negative(p[2], 128) \in Int /\ p[3] \in Int
    BY <1>4, Byte
  <2> QED
    BY <2>1
<1> HIDE DEF B
<1>7. SubSeq(B, 9, 40) = (K \o L) \o M /\ K \in Seq(BitSet) /\ K # <<>>
  <2>1. 40 <= Len(B)
    BY <1>4
  <2>2. SubSeq(B, 8 + 1, 40) = SubSeq(B, 8 + 1, 32) \o SubSeq(B, 32 + 1, 40)
    BY <1>4, <2>1, Split
  <2>3. SubSeq(B, 8 + 1, 32) = SubSeq(B, 8 + 1, 24) \o SubSeq(B, 24 + 1, 32)
    BY <1>4, <2>1, Split
  <2>4. SubSeq(B, 8 + 1, 8 + 16) \in Seq(BitSet) /\ Len(SubSeq(B, 8 + 1, 8 + 16)) = 16
    BY <1>4, <2>1, Part, SMTT(30)
  <2>5. K \in Seq(BitSet) /\ Len(K) = 16
    BY <2>4
  <2>6. SubSeq(B, 9, 40) = SubSeq(B, 9, 32) \o M /\ SubSeq(B, 9, 32) = K \o L
    BY <2>2, <2>3
  <2> HIDE DEF K, L, M
  <2>7. Len(K) > 0
    BY <2>5
  <2>8. K # <<>>
    BY <2>5, <2>7, NotEmpty
  <2> QED
    BY <2>5, <2>6, <2>8
<1> HIDE DEF K, L, M, u, s
<1>8. K \in Seq(Int) /\ L \in Seq(Int) /\ M \in Seq(Int) /\ K \o L \in Seq(Int) /\ 0 \in Int
  <2>1. K \in Seq(Int) /\ L \in Seq(Int) /\ M \in Seq(Int)
    BY <1>2, <1>3, <1>7, BitsAreNumbers
  <2> QED
    BY <2>1
<1>9. Unsigned((K \o L) \o M) = ValueFrom(ValueFrom(u, L), M)
  <2>1. Unsigned(K \o L) = ValueFrom(u, L)
    BY <1>5, <1>8, ValueFromJoined DEF Unsigned
  <2>2. Unsigned((K \o L) \o M) = ValueFrom(Unsigned(K \o L), M)
    BY <1>8, ValueFromJoined DEF Unsigned
  <2> QED
    BY <2>1, <2>2
<1>10. Signed((K \o L) \o M) = ValueFrom(ValueFrom(s, L), M)
  <2>1. Signed(K \o L) = ValueFrom(s, L)
    BY <1>2, <1>5, <1>7, SignedJoined
  <2>2. K \o L \in Seq(BitSet) /\ K \o L # <<>>
    BY <1>2, <1>7
  <2>3. Signed((K \o L) \o M) = ValueFrom(Signed(K \o L), M)
    BY <1>3, <2>2, SignedJoined
  <2> QED
    BY <2>1, <2>3
<1>11. \A v \in Int : ValueFrom(ValueFrom(v, L), M) = 256 * (256 * v + p[4]) + p[5]
  <2> TAKE v \in Int
  <2>1. ValueFrom(v, L) = 256 * v + p[4]
    BY <1>2, OctetAfter
  <2>2. 256 * v + p[4] \in Int
    BY <1>2, Byte
  <2> QED
    BY <1>3, <2>1, <2>2, OctetAfter
<1>12. Unsigned(SubSeq(B, 9, 40)) = 256 * (256 * u + p[4]) + p[5] /\ Signed(SubSeq(B, 9, 40)) = 256 * (256 * s + p[4]) + p[5]
  BY <1>6, <1>7, <1>9, <1>10, <1>11, ZenonT(30)
<1> QED
  BY <1>12 DEF B, u, s

\* A float of two octets: the program's shifts are the document's arithmetic.
LEMMA Float16Read ==
    ASSUME NEW h \in ByteSet, NEW l \in ByteSet
    PROVE  RawToFloat16(256 * h + l) = Hundredths(h, l)
<1> DEFINE raw == 256 * h + l
<1>1. h \in 0 .. 255 /\ l \in 0 .. 255
  BY DEF ByteSet
<1>2. raw % 2048 = (h % 8) * 256 + l
  BY <1>1
<1>3. raw >= 32768 <=> h >= 128
  BY <1>1
<1>4. (raw \div 2048) % 16 = Exponent(h)
  BY <1>1 DEF Exponent
<1>7. raw \in Int /\ raw % 2048 \in Int /\ h \in Int /\ l \in Int
  BY <1>1
<1> HIDE DEF raw
<1> DEFINE x == raw % 2048
           y == (h % 8) * 256
           s == IF raw >= 32768 THEN 2048 ELSE 0
           t == IF h >= 128 THEN 2048 ELSE 0
           e == (raw \div 2048) % 16
<1>8. RawToFloat16(raw) = (x - s) * 2 ^ e
  BY DEF RawToFloat16
<1>9. Hundredths(h, l) = (y + l - t) * 2 ^ Exponent(h)
  BY Zenon DEF Hundredths
<1>10. s = t
  <2>1. CASE h >= 128
    BY <1>3, <2>1
  <2>2. CASE ~ (h >= 128)
    BY <1>3, <2>2
  <2> QED
    BY <2>1, <2>2
<1>11. x = y + l /\ y \in Int /\ t \in Int /\ e = Exponent(h)
  BY <1>1, <1>2, <1>4
<1> HIDE DEF x, y, s, t, e
<1>6. RawToFloat16(raw) = Hundredths(h, l)
  <2>1. x - s = y + l - t
    BY <1>7, <1>10, <1>11
  <2> QED
    BY <1>8, <1>9, <1>11, <2>1, Zenon
<1> QED
  BY <1>6 DEF raw

\* A class reads every payload of its length as the documents say.
Reads(d) ==
    \A p \in Seq(ByteSet) : Len(p) = d.size =>
        \A i \in DOMAIN d.fields :
            Decode(d.fields[i].as, FieldBits(BitsOf(p), d.fields[i])) = MeaningOfMqtt(d.main, p)[i]

LEMMA ReadsOne ==
    ASSUME NEW main, NEW size, NEW control, NEW at, NEW width, NEW as, NEW cast,
           \A p \in Seq(ByteSet) : Len(p) = size =>
               Decode(as, SubSeq(BitsOf(p), at + 1, at + width)) = MeaningOfMqtt(main, p)[1]
    PROVE  Reads(Class(main, size, <<Field(control, at, width, as, cast)>>))
<1> DEFINE f == Field(control, at, width, as, cast)
           d == Class(main, size, <<f>>)
<1>1. f.as = as /\ f.at = at /\ f.width = width
  BY DEF Field
<1>2. d.size = size /\ d.main = main /\ d.fields = <<f>>
  BY DEF Class
<1> HIDE DEF f, d
<1>3. DOMAIN d.fields = {1} /\ d.fields[1] = f
  BY <1>2
<1> SUFFICES ASSUME NEW p \in Seq(ByteSet), Len(p) = size
             PROVE  Decode(f.as, FieldBits(BitsOf(p), f)) = MeaningOfMqtt(main, p)[1]
  BY <1>2, <1>3 DEF Reads, d, f
<1> QED
  BY <1>1 DEF FieldBits

LEMMA Payload ==
    ASSUME NEW p \in Seq(ByteSet)
    PROVE  \A k \in 1 .. Len(p) : p[k] \in Int /\ 0 <= p[k] /\ p[k] <= 255 /\ p[k] \in ByteSet
<1> TAKE k \in 1 .. Len(p)
<1>1. p[k] \in ByteSet
  OBVIOUS
<1> QED
  BY <1>1, Byte

LEMMA Reads1 == Reads(Dpt1)
<1>1. ASSUME NEW p \in Seq(ByteSet), Len(p) = 1
      PROVE  Decode("bit", SubSeq(BitsOf(p), 7 + 1, 7 + 1)) = MeaningOfMqtt(1, p)[1]
  <2>1. Unsigned(SubSeq(BitsOf(p), 8, 8)) = p[1] % 2
    BY <1>1, SharedOctetBits
  <2>2. MeaningOfMqtt(1, p) = <<p[1] % 2>>
    BY DEF MeaningOfMqtt
  <2> QED
    BY <2>1, <2>2 DEF Decode
<1> QED
  BY <1>1, ReadsOne DEF Dpt1, Switch

LEMMA Reads2 == Reads(Dpt2)
<1>1. /\ Dpt2.size = 1 /\ Dpt2.main = 2 /\ DOMAIN Dpt2.fields = {1, 2}
      /\ Dpt2.fields[1] = Switch(6) /\ Dpt2.fields[2] = Switch(7)
  BY DEF Dpt2, Class
<1>2. \A at : Switch(at).at = at /\ Switch(at).width = 1 /\ Switch(at).as = "bit"
  BY DEF Switch, Field
<1>3. ASSUME NEW p \in Seq(ByteSet), Len(p) = 1
      PROVE  /\ Decode("bit", FieldBits(BitsOf(p), Switch(6))) = MeaningOfMqtt(2, p)[1]
             /\ Decode("bit", FieldBits(BitsOf(p), Switch(7))) = MeaningOfMqtt(2, p)[2]
  <2>1. Unsigned(SubSeq(BitsOf(p), 7, 7)) = (p[1] \div 2) % 2 /\ Unsigned(SubSeq(BitsOf(p), 8, 8)) = p[1] % 2
    BY <1>3, SharedOctetBits, SMTT(30)
  <2>2. MeaningOfMqtt(2, p) = <<(p[1] \div 2) % 2, p[1] % 2>>
    BY DEF MeaningOfMqtt
  <2>3. 6 + 1 = 7 /\ 7 + 1 = 8
    OBVIOUS
  <2> QED
    BY <1>2, <2>1, <2>2, <2>3 DEF Decode, FieldBits
<1> QED
  BY <1>1, <1>2, <1>3 DEF Reads

LEMMA Reads3 == Reads(Dpt3)
<1> DEFINE f == UnsignedField(5, 3, 8)
<1>1. /\ Dpt3.size = 1 /\ Dpt3.main = 3 /\ DOMAIN Dpt3.fields = {1, 2}
      /\ Dpt3.fields[1] = Switch(4) /\ Dpt3.fields[2] = f
  BY DEF Dpt3, Class
<1>2. /\ Switch(4).at = 4 /\ Switch(4).width = 1 /\ Switch(4).as = "bit"
      /\ f.at = 5 /\ f.width = 3 /\ f.as = "unsigned"
  BY DEF Switch, UnsignedField, Field
<1> HIDE DEF f
<1>3. ASSUME NEW p \in Seq(ByteSet), Len(p) = 1
      PROVE  /\ Decode("bit", FieldBits(BitsOf(p), Switch(4))) = MeaningOfMqtt(3, p)[1]
             /\ Decode("unsigned", FieldBits(BitsOf(p), f)) = MeaningOfMqtt(3, p)[2]
  <2>1. Unsigned(SubSeq(BitsOf(p), 5, 5)) = (p[1] \div 8) % 2 /\ Unsigned(SubSeq(BitsOf(p), 6, 8)) = p[1] % 8
    BY <1>3, SharedOctetBits
  <2>2. MeaningOfMqtt(3, p) = <<(p[1] \div 8) % 2, p[1] % 8>>
    BY DEF MeaningOfMqtt
  <2>3. 4 + 1 = 5 /\ 5 + 1 = 6 /\ 5 + 3 = 8
    OBVIOUS
  <2> QED
    BY <1>2, <2>1, <2>2, <2>3 DEF Decode, FieldBits
<1> QED
  BY <1>1, <1>2, <1>3 DEF Reads

LEMMA ReadsOctet ==
    /\ Reads(Dpt4) /\ Reads(Dpt5) /\ Reads(Dpt20) /\ Reads(Dpt6)
<1>1. ASSUME NEW p \in Seq(ByteSet), Len(p) = 2
      PROVE  /\ \A main \in {4, 5, 20}, as \in {"char", "unsigned"} :
                    Decode(as, SubSeq(BitsOf(p), 8 + 1, 8 + 8)) = MeaningOfMqtt(main, p)[1]
             /\ Decode("signed", SubSeq(BitsOf(p), 8 + 1, 8 + 8)) = MeaningOfMqtt(6, p)[1]
  <2>1. Unsigned(SubSeq(BitsOf(p), 8 + 1, 8 + 8)) = p[2] /\ Signed(SubSeq(BitsOf(p), 8 + 1, 8 + 8)) = Negative(p[2], 128)
    <3>1. 8 + 1 = 9 /\ 8 + 8 = 16
      OBVIOUS
    <3>2. Unsigned(SubSeq(BitsOf(p), 9, 16)) = p[2] /\ Signed(SubSeq(BitsOf(p), 9, 16)) = Negative(p[2], 128)
      <4>1. Len(p) >= 2
        BY <1>1
      <4> QED
        BY <4>1, OneOctet
    <3> QED
      BY <3>1, <3>2
  <2>2. MeaningOfMqtt(6, p) = <<Negative(p[2], 128)>> /\ \A main \in {4, 5, 20} : MeaningOfMqtt(main, p) = <<p[2]>>
    BY DEF MeaningOfMqtt
  <2>3. \A b : Decode("char", b) = Unsigned(b) /\ Decode("unsigned", b) = Unsigned(b) /\ Decode("signed", b) = Signed(b)
    BY DEF Decode
  <2> QED
    BY <2>1, <2>2, <2>3
<1>2. Reads(Dpt4)
  <2>1. \A p \in Seq(ByteSet) : Len(p) = 2 => Decode("char", SubSeq(BitsOf(p), 8 + 1, 8 + 8)) = MeaningOfMqtt(4, p)[1]
    BY <1>1
  <2> QED
    BY <2>1, ReadsOne, Zenon DEF Dpt4
<1>3. Reads(Dpt5)
  <2>1. \A p \in Seq(ByteSet) : Len(p) = 2 => Decode("unsigned", SubSeq(BitsOf(p), 8 + 1, 8 + 8)) = MeaningOfMqtt(5, p)[1]
    BY <1>1
  <2> QED
    BY <2>1, ReadsOne, Zenon DEF Dpt5, DptBaseU8, UnsignedField
<1>4. Reads(Dpt20)
  <2>1. \A p \in Seq(ByteSet) : Len(p) = 2 => Decode("unsigned", SubSeq(BitsOf(p), 8 + 1, 8 + 8)) = MeaningOfMqtt(20, p)[1]
    BY <1>1
  <2> QED
    BY <2>1, ReadsOne, Zenon DEF Dpt20, DptBaseU8, UnsignedField
<1>5. Reads(Dpt6)
  <2>1. \A p \in Seq(ByteSet) : Len(p) = 2 => Decode("signed", SubSeq(BitsOf(p), 8 + 1, 8 + 8)) = MeaningOfMqtt(6, p)[1]
    BY <1>1
  <2> QED
    BY <2>1, ReadsOne, Zenon DEF Dpt6, SignedField
<1> QED
  BY <1>2, <1>3, <1>4, <1>5

LEMMA ReadsWord ==
    /\ Reads(Dpt7) /\ Reads(Dpt8) /\ Reads(Dpt9)
<1>1. ASSUME NEW p \in Seq(ByteSet), Len(p) = 3
      PROVE  /\ Decode("unsigned", SubSeq(BitsOf(p), 8 + 1, 8 + 16)) = MeaningOfMqtt(7, p)[1]
             /\ Decode("signed", SubSeq(BitsOf(p), 8 + 1, 8 + 16)) = MeaningOfMqtt(8, p)[1]
             /\ Decode("float16", SubSeq(BitsOf(p), 8 + 1, 8 + 16)) = MeaningOfMqtt(9, p)[1]
  <2> DEFINE b == SubSeq(BitsOf(p), 8 + 1, 8 + 16)
  <2>1. Unsigned(b) = 256 * p[2] + p[3] /\ Signed(b) = 256 * Negative(p[2], 128) + p[3]
    <3>1. 8 + 1 = 9 /\ 8 + 16 = 24
      OBVIOUS
    <3>2. /\ Unsigned(SubSeq(BitsOf(p), 9, 24)) = 256 * p[2] + p[3]
          /\ Signed(SubSeq(BitsOf(p), 9, 24)) = 256 * Negative(p[2], 128) + p[3]
      BY <1>1, TwoOctets
    <3> QED
      BY <3>1, <3>2
  <2> HIDE DEF b
  <2>2. 2 \in 1 .. Len(p) /\ 3 \in 1 .. Len(p)
    BY <1>1
  <2>3. p[2] \in Int /\ 0 <= p[2] /\ p[2] <= 255 /\ p[3] \in Int /\ 0 <= p[3] /\ p[3] <= 255 /\ p[2] \in ByteSet /\ p[3] \in ByteSet
    BY <2>2, Payload
  <2>4. /\ MeaningOfMqtt(7, p) = <<Word(p)>> /\ MeaningOfMqtt(8, p) = <<Negative(Word(p), 32768)>>
        /\ MeaningOfMqtt(9, p) = <<Hundredths(p[2], p[3])>>
    BY DEF MeaningOfMqtt
  <2>5. Decode("unsigned", b) = Unsigned(b) /\ Decode("signed", b) = Signed(b) /\ Decode("float16", b) = RawToFloat16(Unsigned(b))
    BY DEF Decode
  <2>6. Word(p) = 256 * p[2] + p[3]
    BY <2>3 DEF Word
  <2>7. Negative(Word(p), 32768) = 256 * Negative(p[2], 128) + p[3]
    BY <2>3, <2>6 DEF Negative
  <2>8. RawToFloat16(Unsigned(b)) = Hundredths(p[2], p[3])
    BY <2>1, <2>3, Float16Read
  <2>9. Decode("unsigned", b) = MeaningOfMqtt(7, p)[1]
    BY <2>1, <2>4, <2>5, <2>6
  <2>10. Decode("signed", b) = MeaningOfMqtt(8, p)[1]
    BY <2>1, <2>4, <2>5, <2>7
  <2>11. Decode("float16", b) = MeaningOfMqtt(9, p)[1]
    BY <2>4, <2>5, <2>8
  <2> QED
    BY <2>9, <2>10, <2>11 DEF b
<1>2. Reads(Dpt7)
  <2>1. \A p \in Seq(ByteSet) : Len(p) = 3 => Decode("unsigned", SubSeq(BitsOf(p), 8 + 1, 8 + 16)) = MeaningOfMqtt(7, p)[1]
    BY <1>1
  <2> QED
    BY <2>1, ReadsOne, Zenon DEF Dpt7, UnsignedField
<1>3. Reads(Dpt8)
  <2>1. \A p \in Seq(ByteSet) : Len(p) = 3 => Decode("signed", SubSeq(BitsOf(p), 8 + 1, 8 + 16)) = MeaningOfMqtt(8, p)[1]
    BY <1>1
  <2> QED
    BY <2>1, ReadsOne, Zenon DEF Dpt8, SignedField
<1>4. Reads(Dpt9)
  <2>1. \A p \in Seq(ByteSet) : Len(p) = 3 => Decode("float16", SubSeq(BitsOf(p), 8 + 1, 8 + 16)) = MeaningOfMqtt(9, p)[1]
    BY <1>1
  <2> QED
    BY <2>1, ReadsOne, Zenon DEF Dpt9
<1> QED
  BY <1>2, <1>3, <1>4

LEMMA ReadsDoubleWord ==
    /\ Reads(Dpt12) /\ Reads(Dpt13) /\ Reads(Dpt14)
<1>1. ASSUME NEW p \in Seq(ByteSet), Len(p) = 5
      PROVE  /\ Decode("unsigned", SubSeq(BitsOf(p), 8 + 1, 8 + 32)) = MeaningOfMqtt(12, p)[1]
             /\ Decode("signed", SubSeq(BitsOf(p), 8 + 1, 8 + 32)) = MeaningOfMqtt(13, p)[1]
             /\ Decode("float32", SubSeq(BitsOf(p), 8 + 1, 8 + 32)) = MeaningOfMqtt(14, p)[1]
  <2> DEFINE b == SubSeq(BitsOf(p), 8 + 1, 8 + 32)
             s == Negative(p[2], 128)
  <2>1. /\ Unsigned(b) = 256 * (256 * (256 * p[2] + p[3]) + p[4]) + p[5]
        /\ Signed(b) = 256 * (256 * (256 * s + p[3]) + p[4]) + p[5]
    <3>1. 8 + 1 = 9 /\ 8 + 32 = 40
      OBVIOUS
    <3>2. /\ Unsigned(SubSeq(BitsOf(p), 9, 40)) = 256 * (256 * (256 * p[2] + p[3]) + p[4]) + p[5]
          /\ Signed(SubSeq(BitsOf(p), 9, 40)) = 256 * (256 * (256 * s + p[3]) + p[4]) + p[5]
      <4>1. Len(p) >= 5
        BY <1>1
      <4> QED
        BY <4>1, FourOctets
    <3> HIDE DEF s
    <3> QED
      BY <3>1, <3>2
  <2>2. 2 \in 1 .. Len(p) /\ 3 \in 1 .. Len(p) /\ 4 \in 1 .. Len(p) /\ 5 \in 1 .. Len(p)
    BY <1>1
  <2>3. p[2] \in Int /\ p[3] \in Int /\ p[4] \in Int /\ p[5] \in Int /\ p[2] \in ByteSet
    BY <2>2, Payload
  <2>4. s \in Int
    BY <2>3, Byte
  <2> HIDE DEF b, s
  <2>5. /\ MeaningOfMqtt(12, p) = <<DoubleWord(p[2], p)>>
        /\ MeaningOfMqtt(13, p) = <<DoubleWord(s, p)>> /\ MeaningOfMqtt(14, p) = <<DoubleWord(s, p)>>
    BY DEF MeaningOfMqtt, s
  <2>6. Decode("unsigned", b) = Unsigned(b) /\ Decode("signed", b) = Signed(b) /\ Decode("float32", b) = Signed(b)
    BY DEF Decode
  <2>7. DoubleWord(p[2], p) = Unsigned(b)
    BY <2>1, <2>3 DEF DoubleWord
  <2>8. DoubleWord(s, p) = Signed(b)
    BY <2>1, <2>3, <2>4 DEF DoubleWord
  <2> QED
    BY <2>5, <2>6, <2>7, <2>8 DEF b
<1>2. Reads(Dpt12)
  <2>1. \A p \in Seq(ByteSet) : Len(p) = 5 => Decode("unsigned", SubSeq(BitsOf(p), 8 + 1, 8 + 32)) = MeaningOfMqtt(12, p)[1]
    BY <1>1
  <2> QED
    BY <2>1, ReadsOne, Zenon DEF Dpt12, UnsignedField
<1>3. Reads(Dpt13)
  <2>1. \A p \in Seq(ByteSet) : Len(p) = 5 => Decode("signed", SubSeq(BitsOf(p), 8 + 1, 8 + 32)) = MeaningOfMqtt(13, p)[1]
    BY <1>1
  <2> QED
    BY <2>1, ReadsOne, Zenon DEF Dpt13, SignedField
<1>4. Reads(Dpt14)
  <2>1. \A p \in Seq(ByteSet) : Len(p) = 5 => Decode("float32", SubSeq(BitsOf(p), 8 + 1, 8 + 32)) = MeaningOfMqtt(14, p)[1]
    BY <1>1
  <2> QED
    BY <2>1, ReadsOne, Zenon DEF Dpt14
<1> QED
  BY <1>2, <1>3, <1>4


-----------------------------------------------------------------------------
(* Floats of two octets                                                    *)

Powers16 == {1, 2, 4, 8, 16, 32, 64, 128, 256, 512, 1024, 2048, 4096, 8192, 16384, 32768}

LEMMA PowerOf == ASSUME NEW e \in 0 .. 15 PROVE 2 ^ e \in Powers16
<1>1. e = 0 => 2 ^ e = 1
  BY SMT
<1>2. e = 1 => 2 ^ e = 2
  BY SMT
<1>3. e = 2 => 2 ^ e = 4
  BY SMT
<1>4. e = 3 => 2 ^ e = 8
  BY SMT
<1>5. e = 4 => 2 ^ e = 16
  BY SMT
<1>6. e = 5 => 2 ^ e = 32
  BY SMT
<1>7. e = 6 => 2 ^ e = 64
  BY SMT
<1>8. e = 7 => 2 ^ e = 128
  BY SMT
<1>9. e = 8 => 2 ^ e = 256
  BY SMT
<1>10. e = 9 => 2 ^ e = 512
  BY SMT
<1>11. e = 10 => 2 ^ e = 1024
  BY SMT
<1>12. e = 11 => 2 ^ e = 2048
  BY SMT
<1>13. e = 12 => 2 ^ e = 4096
  BY SMT
<1>14. e = 13 => 2 ^ e = 8192
  BY SMT
<1>15. e = 14 => 2 ^ e = 16384
  BY SMT
<1>16. e = 15 => 2 ^ e = 32768
  BY SMT
<1>17. \/ e = 0 \/ e = 1 \/ e = 2 \/ e = 3 \/ e = 4 \/ e = 5 \/ e = 6 \/ e = 7
       \/ e = 8 \/ e = 9 \/ e = 10 \/ e = 11 \/ e = 12 \/ e = 13 \/ e = 14 \/ e = 15
  BY SMT
<1> DEFINE p == 2 ^ e
<1> HIDE DEF p
<1>18. p \in {1, 2, 4, 8, 16, 32, 64, 128} \cup {256, 512, 1024, 2048, 4096, 8192, 16384, 32768}
  BY <1>1, <1>2, <1>3, <1>4, <1>5, <1>6, <1>7, <1>8, <1>9, <1>10, <1>11, <1>12, <1>13, <1>14, <1>15, <1>16, <1>17, SMT DEF p
<1> QED
  BY <1>18, SMT DEF p, Powers16

LEMMA FitsRange == \A m : Fits(m) <=> m \in Int /\ -2048 <= m /\ m <= 2047
<1> DEFINE A == -2048
           B == 2047
<1>1. A \in Int /\ B \in Int
  OBVIOUS
<1>2. \A m : Fits(m) <=> m \in A .. B
  BY DEF Fits
<1> HIDE DEF A, B
<1>3. \A m : m \in A .. B <=> m \in Int /\ A <= m /\ m <= B
  BY <1>1
<1> QED
  BY <1>2, <1>3 DEF A, B

\* The exponent the code stops at.
Stops(h, e) == e \in 0 .. 20 /\ Fits(h \div 2 ^ e) /\ \A j \in 0 .. e - 1 : ~ Fits(h \div 2 ^ j)

LEMMA Stopped == ASSUME NEW h, Representable(h) PROVE \E e : Stops(h, e)
<1> DEFINE S == {k \in 0 .. 20 : Fits(h \div 2 ^ k)}
<1>1. S \in SUBSET Nat /\ S # {}
  <2>1. S # {}
    BY DEF Representable
  <2>2. \A k \in 0 .. 20 : k \in Nat
    OBVIOUS
  <2> QED
    BY <2>1, <2>2, Zenon
<1>2. PICK e \in S : \A m \in S : e <= m
  <2> HIDE DEF S
  <2> QED
    BY <1>1, LeastNumber
<1>3. \A j \in 0 .. e - 1 : ~ Fits(h \div 2 ^ j)
  <2> SUFFICES ASSUME NEW j \in 0 .. e - 1, Fits(h \div 2 ^ j) PROVE FALSE
    OBVIOUS
  <2>1. e \in 0 .. 20
    OBVIOUS
  <2>2. j \in 0 .. 20 /\ ~ (e <= j)
    BY <2>1
  <2>3. j \in S
    BY <2>2
  <2> QED
    BY <1>2, <2>2, <2>3
<1> QED
  BY <1>2, <1>3 DEF Stops

LEMMA FloatWritten ==
    ASSUME NEW h, Representable(h)
    PROVE  \E e : /\ Stops(h, e)
                  /\ FloatToRaw16(h) = (IF h < 0 THEN 32768 ELSE 0) + (e % 16) * 2048 + ((h \div 2 ^ e) % 2048)
<1> DEFINE E == CHOOSE k \in 0 .. 20 : Fits(h \div 2 ^ k) /\ \A j \in 0 .. k - 1 : ~ Fits(h \div 2 ^ j)
<1>1. PICK e : Stops(h, e)
  BY Stopped
<1>2. Stops(h, E)
  BY <1>1, Zenon DEF Stops
<1>3. FloatToRaw16(h) = (IF h < 0 THEN 32768 ELSE 0) + (E % 16) * 2048 + ((h \div 2 ^ E) % 2048)
  BY DEF FloatToRaw16
<1> HIDE DEF E
<1> QED
  BY <1>2, <1>3

LEMMA Raw16Type ==
    ASSUME NEW h, Representable(h)
    PROVE  FloatToRaw16(h) \in Int /\ 0 <= FloatToRaw16(h) /\ FloatToRaw16(h) <= 65535
<1>1. PICK e : /\ Stops(h, e)
               /\ FloatToRaw16(h) = (IF h < 0 THEN 32768 ELSE 0) + (e % 16) * 2048 + ((h \div 2 ^ e) % 2048)
  BY FloatWritten
<1> DEFINE m == h \div 2 ^ e
           s == IF h < 0 THEN 32768 ELSE 0
<1>2. e \in Int /\ m \in Int
  BY <1>1, FitsRange DEF Stops
<1>3. s \in {0, 32768}
  OBVIOUS
<1>4. FloatToRaw16(h) = s + (e % 16) * 2048 + (m % 2048)
  BY <1>1
<1> HIDE DEF m, s
<1> DEFINE x == e % 16
           y == m % 2048
<1>5. x \in 0 .. 15 /\ y \in 0 .. 2047
  BY <1>2
<1> HIDE DEF x, y
<1>6. FloatToRaw16(h) = s + x * 2048 + y
  BY <1>4 DEF x, y
<1> DEFINE z == x * 2048
<1>8. z \in Int /\ 0 <= z /\ z <= 30720 /\ y \in Int /\ 0 <= y /\ y <= 2047
  BY <1>5
<1> HIDE DEF z
<1>9. FloatToRaw16(h) = s + z + y
  BY <1>6 DEF z
<1>10. CASE s = 0
  BY <1>8, <1>9, <1>10
<1>11. CASE s = 32768
  BY <1>8, <1>9, <1>11
<1> QED
  BY <1>3, <1>10, <1>11

\* A float that is written and read again is off by less than one step.
StepOff(h, raw, e) == (raw \div 2048) % 16 = e /\ h - RawToFloat16(raw) \in 0 .. 2 ^ e - 1

LEMMA FloatKept ==
    ASSUME NEW h \in Int, Fits(h \div 2 ^ 15)
    PROVE  Representable(h) /\ \E e \in 0 .. 15 : StepOff(h, FloatToRaw16(h), e)
<1>2. Representable(h)
  <2>1. 15 \in 0 .. 20
    OBVIOUS
  <2> QED
    BY <2>1 DEF Representable
<1>3. PICK e : /\ Stops(h, e)
               /\ FloatToRaw16(h) = (IF h < 0 THEN 32768 ELSE 0) + (e % 16) * 2048 + ((h \div 2 ^ e) % 2048)
  BY <1>2, FloatWritten
<1>4. e \in 0 .. 15
  <2>1. e \in 0 .. 20 /\ \A j \in 0 .. e - 1 : ~ Fits(h \div 2 ^ j)
    BY <1>3 DEF Stops
  <2>2. ~ (15 \in 0 .. e - 1)
    BY <2>1, Zenon
  <2> QED
    BY <2>1, <2>2
<1>20. 2 ^ e \in Powers16
  BY <1>4, PowerOf, Zenon
<1> DEFINE P == 2 ^ e
           m == h \div P
           raw == FloatToRaw16(h)
           s == IF h < 0 THEN 32768 ELSE 0
<1>5. P \in Powers16
  BY <1>20
<1>6. m \in Int /\ -2048 <= m /\ m <= 2047
  BY <1>3, FitsRange DEF Stops
<1>7. raw = s + (e % 16) * 2048 + (m % 2048)
  BY <1>3
<1>8. RawToFloat16(raw) = ((raw % 2048) - (IF raw >= 32768 THEN 2048 ELSE 0)) * 2 ^ ((raw \div 2048) % 16)
  BY DEF RawToFloat16
<1> HIDE DEF P, raw
<1>9. (h < 0 <=> m < 0) /\ h - m * P \in 0 .. P - 1
  BY <1>5 DEF Powers16
<1> HIDE DEF m
<1>10. (raw \div 2048) % 16 = e /\ raw % 2048 = m % 2048 /\ (raw >= 32768 <=> h < 0)
  <2>1. CASE h < 0
    <3>1. raw = 32768 + e * 2048 + (m % 2048)
      BY <1>4, <1>7, <2>1
    <3> QED
      BY <1>4, <1>6, <2>1, <3>1
  <2>2. CASE ~ (h < 0)
    <3>1. raw = 0 + e * 2048 + (m % 2048)
      BY <1>4, <1>7, <2>2
    <3> QED
      BY <1>4, <1>6, <2>2, <3>1
  <2> QED
    BY <2>1, <2>2
<1>11. (raw % 2048) - (IF raw >= 32768 THEN 2048 ELSE 0) = m
  <2>1. CASE h < 0
    BY <1>6, <1>9, <1>10, <2>1
  <2>2. CASE ~ (h < 0)
    BY <1>6, <1>9, <1>10, <2>2
  <2> QED
    BY <2>1, <2>2
<1>12. RawToFloat16(raw) = m * P
  BY <1>8, <1>10, <1>11 DEF P
<1> DEFINE off == h - RawToFloat16(raw)
           x == (raw \div 2048) % 16
<1>13. off \in 0 .. P - 1
  BY <1>9, <1>12
<1> HIDE DEF off, x
<1>14. x = e /\ off \in 0 .. 2 ^ e - 1
  BY <1>10, <1>13 DEF P, x
<1>15. StepOff(h, raw, e)
  BY <1>14 DEF StepOff, off, x
<1> QED
  BY <1>2, <1>4, <1>15 DEF raw

-----------------------------------------------------------------------------
(* The classes, their fields and what is cached for them                   *)

WbClasses == {Dpt1, Dpt2, Dpt3, Dpt4, Dpt5, Dpt6, Dpt7, Dpt8, Dpt9, Dpt12, Dpt13, Dpt14, Dpt20}

FieldKinds ==
    {<<"switch", "bit", 1, 1>>, <<"text", "char", 8, 8>>,
     <<"value", "unsigned", 3, 8>>, <<"value", "unsigned", 8, 8>>, <<"value", "unsigned", 16, 16>>,
     <<"value", "unsigned", 32, 32>>, <<"value", "signed", 8, 8>>, <<"value", "signed", 16, 16>>,
     <<"value", "signed", 32, 32>>, <<"value", "float16", 16, 64>>, <<"value", "float32", 32, 32>>}

Known(f) == <<f.control, f.as, f.width, f.cast>> \in FieldKinds

ClassMade(d) ==
    /\ d.kind = "wb" /\ d.size \in 1 .. 15 /\ d.size = LengthOfMqtt(d.main)
    /\ d.fields \in Seq({d.fields[i] : i \in DOMAIN d.fields}) /\ 1 \in DOMAIN d.fields
    /\ \A i \in DOMAIN d.fields : Known(d.fields[i])
    /\ Laid(d.fields, d.size)
    /\ Reads(d)

LEMMA MadeOne ==
    ASSUME NEW main, NEW size \in 1 .. 15, size = LengthOfMqtt(main),
           NEW control, NEW at \in Nat, NEW width \in Nat, NEW as, NEW cast,
           <<control, as, width, cast>> \in FieldKinds, at + width <= 8 * size,
           NEW d, d = Class(main, size, <<Field(control, at, width, as, cast)>>), Reads(d)
    PROVE  ClassMade(d)
<1> DEFINE f == Field(control, at, width, as, cast)
<1>1. f.as = as /\ f.at = at /\ f.width = width /\ f.control = control /\ f.cast = cast
  BY DEF Field
<1>2. d.size = size /\ d.main = main /\ d.kind = "wb" /\ d.fields = <<f>>
  BY DEF Class
<1> HIDE DEF f
<1>3. DOMAIN d.fields = {1} /\ d.fields[1] = f /\ d.fields \in Seq({f})
  <2>1. <<f>> \in Seq({f})
    OBVIOUS
  <2>2. DOMAIN <<f>> = {1} /\ <<f>>[1] = f
    OBVIOUS
  <2> QED
    BY <1>2, <2>1, <2>2, Zenon
<1>4. Known(f)
  BY <1>1 DEF Known
<1>5. Laid(d.fields, d.size)
  BY <1>1, <1>2, <1>3, ZenonT(30) DEF Laid
<1>6. {d.fields[i] : i \in DOMAIN d.fields} = {f}
  BY <1>3
<1> QED
  BY <1>2, <1>3, <1>4, <1>5, <1>6 DEF ClassMade

LEMMA Lengths ==
    /\ 1 = LengthOfMqtt(1) /\ 1 = LengthOfMqtt(2) /\ 1 = LengthOfMqtt(3)
    /\ 2 = LengthOfMqtt(4) /\ 2 = LengthOfMqtt(5) /\ 2 = LengthOfMqtt(6) /\ 2 = LengthOfMqtt(20)
    /\ 3 = LengthOfMqtt(7) /\ 3 = LengthOfMqtt(8) /\ 3 = LengthOfMqtt(9)
    /\ 5 = LengthOfMqtt(12) /\ 5 = LengthOfMqtt(13) /\ 5 = LengthOfMqtt(14)
BY DEF LengthOfMqtt

LEMMA MadeTwo ==
    ASSUME NEW main, LengthOfMqtt(main) = 1, NEW f, NEW g, Known(f), Known(g),
           f.at \in Nat, f.width \in Nat, g.at \in Nat, g.width \in Nat,
           f.at + f.width <= g.at, g.at + g.width <= 8,
           NEW d, d = Class(main, 1, <<f, g>>), Reads(d)
    PROVE  ClassMade(d)
<1>1. d.size = 1 /\ d.main = main /\ d.kind = "wb" /\ d.fields = <<f, g>>
  BY DEF Class
<1>2. DOMAIN d.fields = {1, 2} /\ d.fields[1] = f /\ d.fields[2] = g /\ d.fields \in Seq({f, g})
  <2>1. <<f, g>> \in Seq({f, g})
    OBVIOUS
  <2>2. DOMAIN <<f, g>> = {1, 2} /\ <<f, g>>[1] = f /\ <<f, g>>[2] = g
    OBVIOUS
  <2> QED
    BY <1>1, <2>1, <2>2, Zenon
<1>3. Laid(d.fields, d.size)
  <2>1. f.at + f.width <= 8 * 1 /\ g.at + g.width <= 8 * 1
    OBVIOUS
  <2> QED
    BY <1>1, <1>2, <2>1 DEF Laid
<1>4. {d.fields[i] : i \in DOMAIN d.fields} = {f, g}
  BY <1>2
<1>5. \A i \in DOMAIN d.fields : Known(d.fields[i])
  BY <1>2
<1>6. d.size \in 1 .. 15 /\ d.size = LengthOfMqtt(d.main) /\ 1 \in DOMAIN d.fields
  BY <1>1, <1>2
<1>7. d.fields \in Seq({d.fields[i] : i \in DOMAIN d.fields})
  BY <1>2, <1>4
<1> QED
  BY <1>1, <1>3, <1>5, <1>6, <1>7, Zenon DEF ClassMade

LEMMA ClassesMade == \A d \in WbClasses : ClassMade(d)
<1>0. /\ <<"switch", "bit", 1, 1>> \in FieldKinds /\ <<"text", "char", 8, 8>> \in FieldKinds
      /\ <<"value", "unsigned", 3, 8>> \in FieldKinds /\ <<"value", "unsigned", 8, 8>> \in FieldKinds
      /\ <<"value", "unsigned", 16, 16>> \in FieldKinds /\ <<"value", "unsigned", 32, 32>> \in FieldKinds
      /\ <<"value", "signed", 8, 8>> \in FieldKinds /\ <<"value", "signed", 16, 16>> \in FieldKinds
      /\ <<"value", "signed", 32, 32>> \in FieldKinds /\ <<"value", "float16", 16, 64>> \in FieldKinds
      /\ <<"value", "float32", 32, 32>> \in FieldKinds
  BY DEF FieldKinds
<1>1. ClassMade(Dpt1)
  <2>1. Dpt1 = Class(1, 1, <<Field("switch", 7, 1, "bit", 1)>>)
    BY DEF Dpt1, Switch
  <2>2. 1 \in 1 .. 15 /\ 7 \in Nat /\ 1 \in Nat /\ 7 + 1 <= 8 * 1
    OBVIOUS
  <2> QED
    BY <1>0, <2>1, <2>2, Lengths, Reads1, MadeOne
<1>2. ClassMade(Dpt2)
  <2> DEFINE f == Switch(6)
             g == Switch(7)
  <2>1. f.at = 6 /\ g.at = 7 /\ f.width = 1 /\ g.width = 1 /\ Known(f) /\ Known(g)
    BY <1>0 DEF Switch, Field, Known
  <2>2. Dpt2 = Class(2, 1, <<f, g>>) /\ Reads(Dpt2)
    BY Reads2 DEF Dpt2
  <2> HIDE DEF f, g
  <2>3. /\ f.at \in Nat /\ f.width \in Nat /\ g.at \in Nat /\ g.width \in Nat
        /\ f.at + f.width <= g.at /\ g.at + g.width <= 8
    BY <2>1
  <2> QED
    BY <2>1, <2>2, <2>3, Lengths, MadeTwo
<1>3. ClassMade(Dpt3)
  <2> DEFINE f == Switch(4)
             g == UnsignedField(5, 3, 8)
  <2>1. f.at = 4 /\ g.at = 5 /\ f.width = 1 /\ g.width = 3 /\ Known(f) /\ Known(g)
    BY <1>0 DEF Switch, UnsignedField, Field, Known
  <2>2. Dpt3 = Class(3, 1, <<f, g>>) /\ Reads(Dpt3)
    BY Reads3 DEF Dpt3
  <2> HIDE DEF f, g
  <2>3. /\ f.at \in Nat /\ f.width \in Nat /\ g.at \in Nat /\ g.width \in Nat
        /\ f.at + f.width <= g.at /\ g.at + g.width <= 8
    BY <2>1
  <2> QED
    BY <2>1, <2>2, <2>3, Lengths, MadeTwo
<1>4. 2 \in 1 .. 15 /\ 8 \in Nat /\ 8 + 8 <= 8 * 2
  OBVIOUS
<1>5. 3 \in 1 .. 15 /\ 8 \in Nat /\ 16 \in Nat /\ 8 + 16 <= 8 * 3
  OBVIOUS
<1>6. 5 \in 1 .. 15 /\ 8 \in Nat /\ 32 \in Nat /\ 8 + 32 <= 8 * 5
  OBVIOUS
<1>7. ClassMade(Dpt4)
  BY <1>0, <1>4, Lengths, ReadsOctet, MadeOne, Zenon DEF Dpt4
<1>8. ClassMade(Dpt5)
  BY <1>0, <1>4, Lengths, ReadsOctet, MadeOne, Zenon DEF Dpt5, DptBaseU8, UnsignedField
<1>9. ClassMade(Dpt20)
  BY <1>0, <1>4, Lengths, ReadsOctet, MadeOne, Zenon DEF Dpt20, DptBaseU8, UnsignedField
<1>10. ClassMade(Dpt6)
  BY <1>0, <1>4, Lengths, ReadsOctet, MadeOne, Zenon DEF Dpt6, SignedField
<1>11. ClassMade(Dpt7)
  BY <1>0, <1>5, Lengths, ReadsWord, MadeOne, Zenon DEF Dpt7, UnsignedField
<1>12. ClassMade(Dpt8)
  BY <1>0, <1>5, Lengths, ReadsWord, MadeOne, Zenon DEF Dpt8, SignedField
<1>13. ClassMade(Dpt9)
  BY <1>0, <1>5, Lengths, ReadsWord, MadeOne, Zenon DEF Dpt9
<1>14. ClassMade(Dpt12)
  BY <1>0, <1>6, Lengths, ReadsDoubleWord, MadeOne, Zenon DEF Dpt12, UnsignedField
<1>15. ClassMade(Dpt13)
  BY <1>0, <1>6, Lengths, ReadsDoubleWord, MadeOne, Zenon DEF Dpt13, SignedField
<1>16. ClassMade(Dpt14)
  BY <1>0, <1>6, Lengths, ReadsDoubleWord, MadeOne, Zenon DEF Dpt14
<1> QED
  BY <1>1, <1>2, <1>3, <1>7, <1>8, <1>9, <1>10, <1>11, <1>12, <1>13, <1>14, <1>15, <1>16 DEF WbClasses

\* A number that may be cached for a field, and the cache of a data point.
FieldTyped(f, c) == c \in Int /\ (f.as = "float16" => Representable(c))

WbTyped(d, cached) ==
    /\ cached \in [DOMAIN d.fields -> Int]
    /\ \A i \in DOMAIN d.fields : FieldTyped(d.fields[i], cached[i])

LEMMA ZeroTyped == \A f : FieldTyped(f, 0)
<1>1. Representable(0)
  <2>1. 0 \in 0 .. 20 /\ Fits(0 \div 2 ^ 0)
    BY DEF Fits
  <2> QED
    BY <2>1 DEF Representable
<1> QED
  BY <1>1 DEF FieldTyped

LEMMA InitialTyped == ASSUME NEW d PROVE WbTyped(d, Initial(d))
BY ZeroTyped DEF WbTyped, Initial

LEMMA SignedType ==
    ASSUME NEW bits \in Seq(BitSet), Len(bits) >= 1
    PROVE  Signed(bits) \in Int /\ Unsigned(bits) \in Int
<1>1. Head(bits) \in BitSet /\ Tail(bits) \in Seq(BitSet)
  OBVIOUS
<1>2. 0 - Head(bits) \in Int /\ 0 \in Int
  BY <1>1 DEF BitSet
<1>3. Tail(bits) \in Seq(Int) /\ bits \in Seq(Int)
  BY <1>1, BitsAreNumbers
<1> QED
  BY <1>2, <1>3, ValueFromType DEF Signed, Unsigned

LEMMA ScaledRepresentable ==
    ASSUME NEW m \in Int, Fits(m), NEW e \in 0 .. 15
    PROVE  Representable(m * 2 ^ e)
<1> DEFINE P == 2 ^ e
<1>1. 2 ^ e \in Powers16
  BY PowerOf, Zenon
<1> HIDE DEF P
<1>2. P \in Powers16
  BY <1>1 DEF P
<1>3. m * P \in Int /\ (m * P) \div P = m
  BY <1>2 DEF Powers16
<1>4. e \in 0 .. 20
  OBVIOUS
<1>5. Fits((m * P) \div P)
  BY <1>3
<1> QED
  BY <1>3, <1>4, <1>5 DEF Representable, P

LEMMA ReadRepresentable ==
    ASSUME NEW raw \in Int
    PROVE  Representable(RawToFloat16(raw))
<1> DEFINE e == (raw \div 2048) % 16
           x == raw % 2048
           s == IF raw >= 32768 THEN 2048 ELSE 0
           m == x - s
<1>1. e \in 0 .. 15 /\ x \in 0 .. 2047 /\ s \in {0, 2048}
  OBVIOUS
<1>2. RawToFloat16(raw) = m * 2 ^ e
  BY DEF RawToFloat16
<1> HIDE DEF x, s, e
<1>3. m \in Int /\ Fits(m)
  BY <1>1 DEF Fits
<1> HIDE DEF m
<1>4. e \in 0 .. 15
  BY <1>1
<1>5. Representable(m * 2 ^ e)
  BY <1>3, <1>4, ScaledRepresentable, Zenon
<1> QED
  BY <1>2, <1>5

LEMMA KnownAs ==
    ASSUME NEW f, Known(f)
    PROVE  /\ f.as \in {"bit", "char", "unsigned", "signed", "float16", "float32"}
           /\ f.width \in Nat /\ f.width >= 1 /\ f.width \in {1, 3, 8, 16, 32}
           /\ f.as = "float16" => f.width = 16
BY DEF Known, FieldKinds

LEMMA DecodeTyped ==
    ASSUME NEW f, Known(f), NEW bits \in Seq(BitSet), Len(bits) = f.width
    PROVE  FieldTyped(f, Decode(f.as, bits))
<1>1. Len(bits) >= 1
  BY KnownAs
<1>2. Signed(bits) \in Int /\ Unsigned(bits) \in Int
  BY <1>1, SignedType
<1>3. CASE f.as \in {"bit", "unsigned", "char"}
  <2>1. Decode(f.as, bits) = Unsigned(bits)
    BY <1>3 DEF Decode
  <2> QED
    BY <1>2, <1>3, <2>1 DEF FieldTyped
<1>4. CASE f.as \in {"signed", "float32"}
  <2>1. Decode(f.as, bits) = Signed(bits)
    BY <1>4 DEF Decode
  <2> QED
    BY <1>2, <1>4, <2>1 DEF FieldTyped
<1>5. CASE f.as = "float16"
  <2>1. Decode(f.as, bits) = RawToFloat16(Unsigned(bits))
    BY <1>5 DEF Decode
  <2>4. Representable(RawToFloat16(Unsigned(bits)))
    BY <1>2, ReadRepresentable
  <2> QED
    BY <2>1, <2>4 DEF FieldTyped, Representable
<1> QED
  BY <1>3, <1>4, <1>5, KnownAs

LEMMA EncodeType ==
    ASSUME NEW f, Known(f), NEW c, FieldTyped(f, c)
    PROVE  Encode(f, c) \in [1 .. f.width -> BitSet]
<1> DEFINE n == IF f.as = "float16" THEN FloatToRaw16(c) ELSE c
<1>1. Encode(f, c) = LowBits(n, f.width)
  BY DEF Encode
<1>2. n \in Int
  <2>1. CASE f.as = "float16"
    BY <2>1, Raw16Type DEF FieldTyped
  <2>2. CASE f.as # "float16"
    BY <2>2 DEF FieldTyped
  <2> QED
    BY <2>1, <2>2
<1> HIDE DEF n
<1>3. f.width \in Nat
  BY KnownAs
<1> QED
  BY <1>1, <1>2, <1>3, LowBitsType

\* The bits of each field of a payload of the right length.
LEMMA FieldBitsType ==
    ASSUME NEW fields, NEW size \in Nat, Laid(fields, size), NEW i \in DOMAIN fields,
           NEW p \in Seq(ByteSet), Len(p) = size
    PROVE  /\ FieldBits(BitsOf(p), fields[i]) \in Seq(BitSet)
           /\ Len(FieldBits(BitsOf(p), fields[i])) = fields[i].width
<1>1. p \in Seq(Int)
  BY Byte, SeqWiden
<1>2. BitsOf(p) \in Seq(BitSet) /\ Len(BitsOf(p)) = 8 * size
  BY <1>1, BitsOfType
<1> DEFINE B == BitsOf(p)
           at == fields[i].at
           w == fields[i].width
<1>3. at \in Nat /\ w \in Nat /\ at + w <= 8 * size
  BY DEF Laid
<1>4. FieldBits(B, fields[i]) = SubSeq(B, at + 1, at + w)
  BY DEF FieldBits
<1> HIDE DEF B, at, w
<1>5. SubSeq(B, at + 1, at + w) \in Seq(BitSet) /\ Len(SubSeq(B, at + 1, at + w)) = w
  BY <1>2, <1>3, Part, SMTT(30) DEF B
<1> QED
  BY <1>4, <1>5 DEF B, w

LEMMA FromKnxTyped ==
    ASSUME NEW d, ClassMade(d), NEW p \in Seq(ByteSet), NEW c \in FromKnx(d, p)
    PROVE  /\ WbTyped(d, c) /\ Len(p) = LengthOfMqtt(d.main)
           /\ \A i \in DOMAIN d.fields : c[i] = MeaningOfMqtt(d.main, p)[i]
<1>1. Len(p) = d.size /\ d.size \in Nat /\ Laid(d.fields, d.size) /\ d.size = LengthOfMqtt(d.main)
  BY DEF FromKnx, ClassMade
<1>2. c = [i \in DOMAIN d.fields |-> Decode(d.fields[i].as, FieldBits(BitsOf(p), d.fields[i]))]
  BY <1>1 DEF FromKnx
<1>3. \A i \in DOMAIN d.fields : FieldTyped(d.fields[i], c[i])
  <2> TAKE i \in DOMAIN d.fields
  <2>1. Known(d.fields[i])
    BY DEF ClassMade
  <2>2. FieldTyped(d.fields[i], Decode(d.fields[i].as, FieldBits(BitsOf(p), d.fields[i])))
    BY <1>1, <2>1, FieldBitsType, DecodeTyped
  <2> QED
    BY <1>2, <2>2
<1>4. c \in [DOMAIN d.fields -> Int]
  BY <1>2, <1>3 DEF FieldTyped
<1>5. \A i \in DOMAIN d.fields : c[i] = MeaningOfMqtt(d.main, p)[i]
  BY <1>1, <1>2 DEF ClassMade, Reads
<1> QED
  BY <1>1, <1>3, <1>4, <1>5 DEF WbTyped

\* A payload is made of the cached numbers, each as its field writes it.
LEMMA ToKnxTyped ==
    ASSUME NEW d, ClassMade(d), NEW c, WbTyped(d, c)
    PROVE  /\ ToKnx(d, c) \in Seq(ByteSet) /\ Len(ToKnx(d, c)) = d.size
           /\ \A i \in DOMAIN d.fields : FieldBits(BitsOf(ToKnx(d, c)), d.fields[i]) = Encode(d.fields[i], c[i])
<1> DEFINE bits == [i \in DOMAIN d.fields |-> Encode(d.fields[i], c[i])]
<1>1. Laid(d.fields, d.size) /\ d.size \in Nat
  BY DEF ClassMade
<1>2. \A i \in DOMAIN d.fields : bits[i] \in [1 .. d.fields[i].width -> BitSet]
  BY EncodeType DEF ClassMade, WbTyped
<1>3. \A i \in DOMAIN d.fields : bits[i] = Encode(d.fields[i], c[i])
  OBVIOUS
<1>4. ToKnx(d, c) = Assemble(d.fields, bits, d.size)
  BY DEF ToKnx
<1> HIDE DEF bits
<1>5. \A i \in DOMAIN d.fields : d.fields[i].at \in Nat /\ d.fields[i].width \in Nat
  BY <1>1 DEF Laid
<1>6. Assemble(d.fields, bits, d.size) \in Seq(ByteSet) /\ Len(Assemble(d.fields, bits, d.size)) = d.size
  BY <1>1, <1>2, <1>5, AssembleType
<1>7. \A i \in DOMAIN d.fields : FieldBits(BitsOf(Assemble(d.fields, bits, d.size)), d.fields[i]) = bits[i]
  BY <1>1, <1>2, FieldKept
<1> QED
  BY <1>3, <1>4, <1>6, <1>7

LEMMA FirstIn == ASSUME NEW S, NEW s \in Seq(S), s # <<>> PROVE s[1] \in S /\ Len(s) \in Nat /\ Len(s) >= 1
<1>1. Len(s) \in Nat
  OBVIOUS
<1>2. Len(s) = 0 => s = <<>>
  OBVIOUS
<1>3. Len(s) >= 1
  BY <1>1, <1>2
<1>4. 1 \in 1 .. Len(s)
  BY <1>1, <1>3
<1>5. DOMAIN s = 1 .. Len(s) /\ s \in [1 .. Len(s) -> S]
  OBVIOUS
<1>6. s[1] \in S
  BY <1>4, <1>5, Zenon
<1> QED
  BY <1>1, <1>3, <1>6

LEMMA CastType ==
    ASSUME NEW n \in Int, NEW as, NEW width \in {8, 16, 32}
    PROVE  \A c \in Cast(n, as, width) : c \in Int
<1> DEFINE b == LowBits(n, width)
           p == 2 ^ (width - 1)
           q == 2 ^ width
<1>1. b \in Seq(BitSet) /\ Len(b) >= 1
  BY LowBitsType
<1>2. width - 1 \in Nat /\ width \in Nat
  OBVIOUS
<1>3. p \in Int /\ q \in Int
  BY <1>2
<1>4. Signed(b) \in Int /\ Unsigned(b) \in Int
  BY <1>1, SignedType
<1> DEFINE kept == IF as = "signed" THEN Signed(b) ELSE Unsigned(b)
<1>5. kept \in Int
  BY <1>4
<1>6. Cast(n, as, width) = IF kept = n THEN {n} ELSE IF as = "signed" THEN {kept, 0 - p, p - 1} ELSE {kept, 0, q - 1}
  BY DEF Cast
<1> HIDE DEF b, p, q, kept
<1>7. 0 - p \in Int /\ p - 1 \in Int /\ q - 1 \in Int /\ 0 \in Int
  BY <1>3
<1> DEFINE p0 == 0 - p  p1 == p - 1  q1 == q - 1
<1>8. p0 \in Int /\ p1 \in Int /\ q1 \in Int
  BY <1>7
<1>9. Cast(n, as, width) = IF kept = n THEN {n} ELSE IF as = "signed" THEN {kept, p0, p1} ELSE {kept, 0, q1}
  BY <1>6
<1> HIDE DEF p0, p1, q1
<1>10. CASE kept = n
  BY <1>9, <1>10
<1>11. CASE kept # n /\ as = "signed"
  BY <1>5, <1>8, <1>9, <1>11
<1>12. CASE kept # n /\ as # "signed"
  BY <1>5, <1>7, <1>8, <1>9, <1>12
<1> QED
  BY <1>10, <1>11, <1>12

LEMMA ReceivedTyped ==
    ASSUME NEW f, Known(f), NEW v, Input(f, v), NEW c \in Received(f, v)
    PROVE  FieldTyped(f, c)
<1>1. v.type = Types[f.control]
  BY DEF Received
<1>2. /\ Types["switch"] = "bool" /\ Types["value"] = "number" /\ Types["text"] = "chars"
  BY DEF Types
<1>3. CASE f.as = "bit"
  <2>1. f.control = "switch"
    BY <1>3 DEF Known, FieldKinds
  <2>2. c = v.value[1]
    BY <1>1, <1>3 DEF Received
  <2> QED
    BY <1>1, <1>2, <1>3, <2>1, <2>2 DEF Input, FieldTyped
<1>4. CASE f.as = "char"
  <2>1. f.control = "text"
    BY <1>4 DEF Known, FieldKinds
  <2>2. c = IF v.value = <<>> THEN 0 ELSE v.value[1]
    BY <1>1, <1>4 DEF Received
  <2>3. v.value \in Seq(0 .. 255)
    BY <1>1, <1>2, <2>1 DEF Input
  <2>4. v.value # <<>> => v.value[1] \in Int
    <3> DEFINE s == v.value
    <3>1. s \in Seq(0 .. 255)
      BY <2>3
    <3> HIDE DEF s
    <3>2. s # <<>> => s[1] \in 0 .. 255
      BY <3>1, FirstIn
    <3>3. s # <<>> => s[1] \in Int
      <4>1. \A x \in 0 .. 255 : x \in Int
        OBVIOUS
      <4> QED
        BY <3>2, <4>1, Zenon
    <3> QED
      BY <3>3 DEF s
  <2> QED
    BY <1>4, <2>2, <2>4 DEF FieldTyped
<1>5. ASSUME f.as \notin {"bit", "char"}
      PROVE  /\ v.value[1] \in Int /\ v.value[2] \in Int
             /\ f.as = "float16" => Representable(v.value[1] * 100 + v.value[2])
  <2>1. f.control = "value"
    BY <1>5 DEF Known, FieldKinds
  <2>2. v.value[1] \in Int /\ v.value[2] \in 0 .. 99
    BY <1>1, <1>2, <2>1 DEF Input
  <2>3. v.value[2] \in Int
    BY <2>2
  <2>4. f.as = "float16" => Representable(v.value[1] * 100 + v.value[2])
    BY <1>1, <1>2, <2>1 DEF Input
  <2> QED
    BY <2>2, <2>3, <2>4
<1>6. CASE f.as = "float16"
  <2>1. c = v.value[1] * 100 + v.value[2]
    BY <1>1, <1>6 DEF Received
  <2> QED
    BY <1>5, <1>6, <2>1 DEF FieldTyped, Representable
<1>7. CASE f.as = "float32"
  <2>1. c = v.value[1]
    BY <1>1, <1>7 DEF Received
  <2> QED
    BY <1>5, <1>7, <2>1 DEF FieldTyped
<1>8. CASE f.as \in {"unsigned", "signed"}
  <2>1. c \in Cast(Truncate(v.value), f.as, f.cast)
    BY <1>1, <1>8 DEF Received
  <2>2. Truncate(v.value) \in Int
    BY <1>5, <1>8 DEF Truncate
  <2>3. f.cast \in {8, 16, 32}
    BY <1>8 DEF Known, FieldKinds
  <2>4. c \in Int
    BY <2>1, <2>2, <2>3, CastType
  <2> QED
    BY <1>8, <2>4 DEF FieldTyped
<1> QED
  BY <1>3, <1>4, <1>6, <1>7, <1>8, KnownAs

LEMMA FromMqttTyped ==
    ASSUME NEW d, ClassMade(d), NEW cached, WbTyped(d, cached), NEW index, NEW v,
           \A i \in DOMAIN d.fields : Input(d.fields[i], v),
           NEW c \in FromMqtt(d, cached, index, v)
    PROVE  /\ WbTyped(d, c) /\ index + 1 \in DOMAIN d.fields
           /\ \E x \in Received(d.fields[index + 1], v) : c = [cached EXCEPT ![index + 1] = x]
<1> DEFINE k == index + 1
<1>1. k \in DOMAIN d.fields /\ \E x \in Received(d.fields[k], v) : c = [cached EXCEPT ![k] = x]
  BY DEF FromMqtt
<1> HIDE DEF k
<1>2. PICK x \in Received(d.fields[k], v) : c = [cached EXCEPT ![k] = x]
  BY <1>1
<1>3. FieldTyped(d.fields[k], x)
  <2>1. Known(d.fields[k]) /\ Input(d.fields[k], v)
    BY <1>1 DEF ClassMade
  <2> QED
    BY <2>1, ReceivedTyped
<1>4. x \in Int
  BY <1>3 DEF FieldTyped
<1>5. WbTyped(d, c)
  BY <1>1, <1>2, <1>3, <1>4 DEF WbTyped
<1> QED
  BY <1>1, <1>5 DEF k

-----------------------------------------------------------------------------
(* What a field can hold                                                   *)

Half32 == 32768 * 65536

LEMMA TimesLong == Half32 \in Nat /\ Times(31, Half32) /\ Times(32, 2 * Half32)
<1> DEFINE H == 65536
<1>1. H \in Nat /\ Times(16, H)
  BY TimesTable
<1> HIDE DEF H
<1>2. Times(17, 2 * H) /\ Times(18, 4 * H) /\ Times(19, 8 * H) /\ Times(20, 16 * H)
  <2>1. Times(16 + 1, 2 * H)
    BY <1>1, TimesNext
  <2>2. Times(17 + 1, 2 * (2 * H))
    BY <1>1, <2>1, TimesNext
  <2>3. Times(18 + 1, 2 * (4 * H))
    BY <1>1, <2>2, TimesNext
  <2>4. Times(19 + 1, 2 * (8 * H))
    BY <1>1, <2>3, TimesNext
  <2> QED
    BY <1>1, <2>1, <2>2, <2>3, <2>4
<1>3. Times(21, 32 * H) /\ Times(22, 64 * H) /\ Times(23, 128 * H) /\ Times(24, 256 * H)
  <2>1. Times(20 + 1, 2 * (16 * H))
    BY <1>1, <1>2, TimesNext
  <2>2. Times(21 + 1, 2 * (32 * H))
    BY <1>1, <2>1, TimesNext
  <2>3. Times(22 + 1, 2 * (64 * H))
    BY <1>1, <2>2, TimesNext
  <2>4. Times(23 + 1, 2 * (128 * H))
    BY <1>1, <2>3, TimesNext
  <2> QED
    BY <1>1, <2>1, <2>2, <2>3, <2>4
<1>4. Times(25, 512 * H) /\ Times(26, 1024 * H) /\ Times(27, 2048 * H) /\ Times(28, 4096 * H)
  <2>1. Times(24 + 1, 2 * (256 * H))
    BY <1>1, <1>3, TimesNext
  <2>2. Times(25 + 1, 2 * (512 * H))
    BY <1>1, <2>1, TimesNext
  <2>3. Times(26 + 1, 2 * (1024 * H))
    BY <1>1, <2>2, TimesNext
  <2>4. Times(27 + 1, 2 * (2048 * H))
    BY <1>1, <2>3, TimesNext
  <2> QED
    BY <1>1, <2>1, <2>2, <2>3, <2>4
<1>5. Times(29, 8192 * H) /\ Times(30, 16384 * H) /\ Times(31, 32768 * H) /\ Times(32, 65536 * H)
  <2>1. Times(28 + 1, 2 * (4096 * H))
    BY <1>1, <1>4, TimesNext
  <2>2. Times(29 + 1, 2 * (8192 * H))
    BY <1>1, <2>1, TimesNext
  <2>3. Times(30 + 1, 2 * (16384 * H))
    BY <1>1, <2>2, TimesNext
  <2>4. Times(31 + 1, 2 * (32768 * H))
    BY <1>1, <2>3, TimesNext
  <2> QED
    BY <1>1, <2>1, <2>2, <2>3, <2>4
<1>6. Half32 = 32768 * H /\ 2 * Half32 = 65536 * H
  BY DEF Half32, H
<1> QED
  BY <1>1, <1>5, <1>6

\* A number that a field holds unchanged, and so does the type that it is cast to;
\* a float of two octets is written in its steps.
InField(f, x) ==
    /\ x \in Int
    /\ f.as = "bit" => x \in BitSet
    /\ f.as = "char" => x \in ByteSet
    /\ f.as \in {"bit", "char", "unsigned"} => Unsigned(LowBits(x, f.width)) = x
    /\ f.as = "unsigned" => Unsigned(LowBits(x, f.cast)) = x
    /\ f.as = "signed" => Signed(LowBits(x, f.cast)) = x
    /\ f.as \in {"signed", "float32"} => Signed(LowBits(x, f.width)) = x
    /\ f.as = "float16" => Fits(x \div 2 ^ 15)

LEMMA InUnsigned ==
    ASSUME NEW f, Known(f), f.as \in {"bit", "char", "unsigned"},
           NEW N \in Nat, Times(f.width, N), NEW x \in 0 .. N - 1,
           f.as = "bit" => x \in BitSet, f.as = "char" => x \in ByteSet
    PROVE  InField(f, x)
<1>1. f.width \in Nat
  BY KnownAs
<1>2. Unsigned(LowBits(x, f.width)) = x
  BY <1>1, UnsignedKept
<1>3. f.as = "unsigned" => (f.width = f.cast \/ (f.width = 3 /\ f.cast = 8))
  BY DEF Known, FieldKinds
<1>4. CASE f.width = 3 /\ f.cast = 8
  <2>1. x \in Int
    OBVIOUS
  <2>2. LowBits(x, 3) \in Seq(BitSet) /\ Len(LowBits(x, 3)) = 3
    BY <2>1, LowBitsType
  <2>3. Unsigned(LowBits(x, 3)) \in Int /\ 0 <= Unsigned(LowBits(x, 3)) /\ Unsigned(LowBits(x, 3)) < 8
    <3>1. 0 \in Int
      OBVIOUS
    <3> QED
      BY <2>2, <3>1, TimesTable DEF Times
  <2>4. x \in ByteSet
    BY <1>2, <1>4, <2>3 DEF ByteSet
  <2> QED
    BY <1>2, <1>4, <2>1, <2>4, OctetNumber DEF InField
<1>5. CASE f.as = "unsigned" => f.width = f.cast
  BY <1>2, <1>5 DEF InField
<1> QED
  BY <1>3, <1>4, <1>5

LEMMA InSigned ==
    ASSUME NEW f, Known(f), f.as \in {"signed", "float32"},
           NEW w \in Nat, f.width = w + 1, NEW N \in Nat, Times(w, N), NEW x \in 0 - N .. N - 1
    PROVE  InField(f, x)
<1>1. Signed(LowBits(x, f.width)) = x
  BY SignedKept
<1>2. f.as = "signed" => f.cast = f.width
  BY DEF Known, FieldKinds
<1>3. x \in Int
  OBVIOUS
<1> QED
  BY <1>1, <1>2, <1>3 DEF InField

LEMMA WidthTimes ==
    /\ \A w \in {1, 3, 8, 16, 32} : \E N \in Nat : Times(w, N)
    /\ \A w \in {8, 16, 32} : \E N \in Nat : Times(w - 1, N)
<1>1. /\ \E N \in Nat : Times(1, N)
      /\ \E N \in Nat : Times(3, N)
      /\ \E N \in Nat : Times(7, N)
      /\ \E N \in Nat : Times(8, N)
  BY TimesTable
<1>2. (\E N \in Nat : Times(15, N)) /\ (\E N \in Nat : Times(16, N))
  BY TimesTable
<1>3. (\E N \in Nat : Times(31, N)) /\ (\E N \in Nat : Times(32, N))
  BY TimesLong
<1>4. 8 - 1 = 7 /\ 16 - 1 = 15 /\ 32 - 1 = 31
  OBVIOUS
<1>5. ASSUME NEW w \in {8, 16, 32} PROVE \E N \in Nat : Times(w - 1, N)
  <2>1. CASE w = 8
    BY <1>1, <1>4, <2>1
  <2>2. CASE w = 16
    BY <1>2, <1>4, <2>2
  <2>3. CASE w = 32
    BY <1>3, <1>4, <2>3
  <2> QED
    BY <2>1, <2>2, <2>3
<1>6. ASSUME NEW w \in {1, 3, 8, 16, 32} PROVE \E N \in Nat : Times(w, N)
  BY <1>1, <1>2, <1>3
<1> QED
  BY <1>5, <1>6

\* What is read of a field is a number that the field can hold.
LEMMA ReadFits ==
    ASSUME NEW raw \in Int
    PROVE  Fits(RawToFloat16(raw) \div 2 ^ 15)
<1> DEFINE e == (raw \div 2048) % 16
           x == raw % 2048
           s == IF raw >= 32768 THEN 2048 ELSE 0
           m == x - s
           P == 2 ^ e
<1>1. e \in 0 .. 15 /\ x \in 0 .. 2047 /\ s \in {0, 2048}
  OBVIOUS
<1>2. RawToFloat16(raw) = m * P
  BY DEF RawToFloat16
<1> HIDE DEF x, s, e
<1>0. e \in 0 .. 15
  BY <1>1
<1>3. 2 ^ e \in Powers16
  BY <1>0, PowerOf, Zenon
<1>4. P \in Powers16
  BY <1>3
<1>5. m \in Int /\ -2048 <= m /\ m <= 2047
  BY <1>1
<1> HIDE DEF m, P
<1> DEFINE Q == 2 ^ 15
           z == m * P
<1>6. Q = 32768
  BY SMT
<1> HIDE DEF Q
<1>7. z \in Int /\ -67108864 <= z /\ z <= 67076096
  BY <1>4, <1>5, SMT DEF Powers16
<1> HIDE DEF z
<1>8. z \div Q \in Int /\ -2048 <= z \div Q /\ z \div Q <= 2047
  BY <1>6, <1>7, SMT
<1>9. Fits(z \div Q)
  BY <1>8, FitsRange
<1> QED
  BY <1>2, <1>9, Zenon DEF Q, z

LEMMA DecodeInField ==
    ASSUME NEW f, Known(f), NEW bits \in Seq(BitSet), Len(bits) = f.width
    PROVE  InField(f, Decode(f.as, bits))
<1>1. f.width \in {1, 3, 8, 16, 32} /\ f.width \in Nat /\ Len(bits) >= 1
  BY KnownAs
<1>2. 0 \in Int
  OBVIOUS
<1>3. CASE f.as \in {"bit", "unsigned", "char"}
  <2> DEFINE u == Unsigned(bits)
  <2>1. Decode(f.as, bits) = u
    BY <1>3 DEF Decode
  <2>2. PICK N \in Nat : Times(f.width, N)
    BY <1>1, WidthTimes
  <2>3. u \in Int /\ 0 <= u /\ u < N
    BY <1>2, <2>2 DEF Times
  <2>4. f.as = "bit" => u \in BitSet
    <3> SUFFICES ASSUME f.as = "bit" PROVE u \in BitSet
      OBVIOUS
    <3>1. Len(bits) = 1
      BY DEF Known, FieldKinds
    <3>3. Times(1, 2)
      BY TimesTable
    <3>2. u \in Int /\ 0 <= u /\ u < 2
      BY <1>2, <3>1, <3>3 DEF Times
    <3> HIDE DEF u
    <3> QED
      BY <3>2 DEF BitSet
  <2>5. f.as = "char" => u \in ByteSet
    <3> SUFFICES ASSUME f.as = "char" PROVE u \in ByteSet
      OBVIOUS
    <3>1. Len(bits) = 8
      BY DEF Known, FieldKinds
    <3>3. Times(8, 256)
      BY TimesTable
    <3>2. u \in Int /\ 0 <= u /\ u < 256
      BY <1>2, <3>1, <3>3 DEF Times
    <3> HIDE DEF u
    <3> QED
      BY <3>2 DEF ByteSet
  <2> HIDE DEF u
  <2>6. u \in 0 .. N - 1
    BY <2>3
  <2> QED
    BY <1>3, <2>1, <2>2, <2>4, <2>5, <2>6, InUnsigned
<1>4. CASE f.as \in {"signed", "float32"}
  <2> DEFINE s == Signed(bits)
             u == Unsigned(bits)
             w == f.width - 1
  <2>1. Decode(f.as, bits) = s
    BY <1>4 DEF Decode
  <2>2. f.width \in {8, 16, 32}
    BY <1>4 DEF Known, FieldKinds
  <2>3. PICK N \in Nat : Times(w, N)
    BY <2>2, WidthTimes
  <2>4. w \in Nat /\ f.width = w + 1
    BY <2>2
  <2> HIDE DEF w
  <2>5. s = IF u >= N THEN u - 2 * N ELSE u
    BY <2>3, <2>4, SignedDef
  <2>6. u \in Int /\ 0 <= u /\ u < 2 * N
    <3>1. Times(w + 1, 2 * N)
      BY <2>3, <2>4, TimesNext
    <3> QED
      BY <1>2, <2>4, <3>1 DEF Times
  <2> HIDE DEF s, u
  <2>7. s \in 0 - N .. N - 1
    BY <2>5, <2>6
  <2> QED
    BY <1>4, <2>1, <2>3, <2>4, <2>7, InSigned
<1>5. CASE f.as = "float16"
  <2>1. Decode(f.as, bits) = RawToFloat16(Unsigned(bits))
    BY <1>5 DEF Decode
  <2>2. Unsigned(bits) \in Int
    BY <1>1, SignedType
  <2>3. Fits(RawToFloat16(Unsigned(bits)) \div 2 ^ 15)
    BY <2>2, ReadFits
  <2>4. RawToFloat16(Unsigned(bits)) \in Int
    BY <2>2, ReadRepresentable DEF Representable
  <2> QED
    BY <1>5, <2>1, <2>3, <2>4, Zenon DEF InField
<1> QED
  BY <1>3, <1>4, <1>5, KnownAs

LEMMA InFieldTyped ==
    ASSUME NEW f, NEW x, InField(f, x)
    PROVE  FieldTyped(f, x)
<1>1. x \in Int
  BY DEF InField
<1>2. f.as = "float16" => Representable(x)
  BY <1>1, FloatKept DEF InField
<1> QED
  BY <1>1, <1>2 DEF FieldTyped

\* A field reads what it has written, a float of two octets within one step.
Near(as, x, y) ==
    IF as = "float16" THEN \E raw : \E e \in 0 .. 15 : y = RawToFloat16(raw) /\ raw \in Int /\ StepOff(x, raw, e) ELSE y = x

LEMMA FieldWritten ==
    ASSUME NEW f, Known(f), NEW x, InField(f, x)
    PROVE  Near(f.as, x, Decode(f.as, Encode(f, x)))
<1>1. CASE f.as \in {"bit", "unsigned", "char"}
  <2>1. Encode(f, x) = LowBits(x, f.width)
    BY <1>1 DEF Encode
  <2>2. Decode(f.as, Encode(f, x)) = Unsigned(LowBits(x, f.width))
    BY <1>1, <2>1 DEF Decode
  <2> QED
    BY <1>1, <2>2 DEF InField, Near
<1>2. CASE f.as \in {"signed", "float32"}
  <2>1. Encode(f, x) = LowBits(x, f.width)
    BY <1>2 DEF Encode
  <2>2. Decode(f.as, Encode(f, x)) = Signed(LowBits(x, f.width))
    BY <1>2, <2>1 DEF Decode
  <2> QED
    BY <1>2, <2>2 DEF InField, Near
<1>3. CASE f.as = "float16"
  <2> DEFINE raw == FloatToRaw16(x)
  <2>1. Encode(f, x) = LowBits(raw, 16)
    BY <1>3, KnownAs DEF Encode
  <2>2. x \in Int /\ Fits(x \div 2 ^ 15)
    BY <1>3 DEF InField
  <2>3. Representable(x) /\ \E e \in 0 .. 15 : StepOff(x, raw, e)
    BY <2>2, FloatKept
  <2>4. raw \in Int /\ 0 <= raw /\ raw <= 65535
    BY <2>3, Raw16Type
  <2> HIDE DEF raw
  <2>5. Unsigned(LowBits(raw, 16)) = raw
    <3> DEFINE N == 65536
    <3>1. N \in Nat /\ Times(16, N)
      BY TimesTable
    <3>2. raw < N
      BY <2>4
    <3> HIDE DEF N
    <3>3. raw \in 0 .. N - 1
      BY <2>4, <3>1, <3>2
    <3> QED
      BY <3>1, <3>3, UnsignedKept
  <2>6. Decode(f.as, Encode(f, x)) = RawToFloat16(raw)
    BY <1>3, <2>1, <2>5 DEF Decode
  <2>7. PICK e \in 0 .. 15 : StepOff(x, raw, e)
    BY <2>3
  <2>8. raw \in Int
    BY <2>4
  <2> DEFINE y == Decode(f.as, Encode(f, x))
  <2>9. y = RawToFloat16(raw)
    BY <2>6
  <2> HIDE DEF y
  <2>10. Near("float16", x, y)
    BY <2>7, <2>8, <2>9, Zenon DEF Near
  <2> QED
    BY <1>3, <2>10 DEF y
<1> QED
  BY <1>1, <1>2, <1>3, KnownAs

LEMMA CastKeeps ==
    ASSUME NEW f, f.as \in {"unsigned", "signed"}, NEW x, InField(f, x)
    PROVE  Cast(x, f.as, f.cast) = {x}
<1>1. f.as = "signed" => Signed(LowBits(x, f.cast)) = x
  BY DEF InField
<1>2. f.as # "signed" => Unsigned(LowBits(x, f.cast)) = x
  BY DEF InField
<1> DEFINE kept == IF f.as = "signed" THEN Signed(LowBits(x, f.cast)) ELSE Unsigned(LowBits(x, f.cast))
<1>3. kept = x
  BY <1>1, <1>2
<1> QED
  BY <1>3, Zenon DEF Cast

-----------------------------------------------------------------------------
(* The classes and what the documents say of them                          *)

\* A class's controls are of the documented types, and its fields can hold every
\* number the documents allow.
AsDocumented(d) ==
    \A i \in DOMAIN d.fields :
        /\ Types[d.fields[i].control] = ControlType(d.main, i)
        /\ d.fields[i].as = "float16" <=> d.main = 9
        /\ \A x \in AllowedMqtt(d.main, i) : InField(d.fields[i], x)

LEMMA DocumentedOne ==
    ASSUME NEW main, NEW size, NEW control, NEW at, NEW width, NEW as, NEW cast,
           Types[control] = ControlType(main, 1), as = "float16" <=> main = 9,
           <<control, as, width, cast>> \in FieldKinds,
           \A x \in AllowedMqtt(main, 1) : \A f : f = Field(control, at, width, as, cast) /\ Known(f) => InField(f, x),
           NEW d, d = Class(main, size, <<Field(control, at, width, as, cast)>>)
    PROVE  AsDocumented(d)
<1> DEFINE f == Field(control, at, width, as, cast)
<1>1. f.as = as /\ f.width = width /\ f.control = control /\ f.cast = cast
  BY DEF Field
<1>2. d.main = main /\ d.fields = <<f>>
  BY DEF Class
<1>3. Known(f)
  BY <1>1 DEF Known
<1>4. \A x \in AllowedMqtt(main, 1) : InField(f, x)
  BY <1>3
<1> HIDE DEF f
<1>5. DOMAIN d.fields = {1} /\ d.fields[1] = f
  <2>1. DOMAIN <<f>> = {1} /\ <<f>>[1] = f
    OBVIOUS
  <2> QED
    BY <1>2, <2>1, Zenon
<1> QED
  BY <1>1, <1>2, <1>4, <1>5 DEF AsDocumented

LEMMA UnsignedAllowed ==
    ASSUME NEW w, NEW N \in Nat, Times(w, N), NEW x \in 0 .. N - 1, NEW f, Known(f), f.width = w,
           f.as \in {"unsigned"} \/ (f.as = "char" /\ N = 2 ^ 8) \/ (f.as = "bit" /\ N = 2 ^ 1)
    PROVE  InField(f, x)
<1>1. 2 ^ 1 = 2 /\ 2 ^ 8 = 256
  BY SMT
<1>2. f.as = "bit" \/ f.as = "char" \/ f.as = "unsigned"
  OBVIOUS
<1>3. f.as = "bit" => x \in BitSet
  BY <1>1 DEF BitSet
<1>4. f.as = "char" => x \in ByteSet
  BY <1>1 DEF ByteSet
<1> QED
  BY <1>2, <1>3, <1>4, InUnsigned

LEMMA SignedAllowed ==
    ASSUME NEW w \in Nat, NEW N \in Nat, Times(w, N), NEW x \in 0 - N .. N - 1, NEW f, Known(f), f.width = w + 1,
           f.as \in {"signed", "float32"}
    PROVE  InField(f, x)
BY InSigned

LEMMA TypesDef == Types["switch"] = "bool" /\ Types["value"] = "number" /\ Types["text"] = "chars"
BY DEF Types

LEMMA PowersOfTwo == 2 ^ 1 = 2 /\ 2 ^ 3 = 8 /\ 2 ^ 7 = 128 /\ 2 ^ 8 = 256
BY SMT

LEMMA LargePowers == 2 ^ 15 = 32768 /\ 2 ^ 16 = 65536
BY SMT

LEMMA TimesPower ==
    /\ Times(1, 2 ^ 1) /\ Times(3, 2 ^ 3) /\ Times(7, 2 ^ 7) /\ Times(8, 2 ^ 8) /\ Times(15, 2 ^ 15) /\ Times(16, 2 ^ 16)
    /\ 2 ^ 1 \in Nat /\ 2 ^ 3 \in Nat /\ 2 ^ 7 \in Nat /\ 2 ^ 8 \in Nat /\ 2 ^ 15 \in Nat /\ 2 ^ 16 \in Nat
BY TimesTable, PowersOfTwo, LargePowers, SMT

\* 32 bits, by their upper half.
LEMMA LongAllowed ==
    /\ \A x \in Nat : x \div 2 ^ 16 \in 0 .. 2 ^ 16 - 1 => x \in 0 .. 2 * Half32 - 1
    /\ \A x \in Int : x \div 2 ^ 16 \in 0 - 2 ^ 15 .. 2 ^ 15 - 1 => x \in 0 - Half32 .. Half32 - 1
<1> DEFINE h == 2 ^ 16
           g == 2 ^ 15
           H == Half32
           D == 2 * Half32
<1>1. h = 65536 /\ g = 32768
  BY LargePowers, SMT
<1>2. H \in Int /\ H = 32768 * 65536 /\ D = H + H
  BY SMT DEF Half32
<1> HIDE DEF h, g, H, D
<1>3. ASSUME NEW x \in Nat, x \div h \in 0 .. h - 1 PROVE x \in 0 .. D - 1
  <2>0. h \in Int
    BY <1>1
  <2> DEFINE y == x \div h
  <2>1. y \in 0 .. h - 1
    BY <1>3
  <2> HIDE DEF y
  <2>4. 0 <= y /\ y <= h - 1
    BY <2>0, <2>1
  <2>5. 0 <= x \div h /\ x \div h <= h - 1
    BY <2>4 DEF y
  <2>2. 0 <= x /\ x <= D - 1
    BY <1>1, <1>2, <2>5, SMT
  <2>3. D \in Int
    BY <1>2, SMT
  <2> QED
    BY <2>2, <2>3, SMT
<1>4. ASSUME NEW x \in Int, x \div h \in 0 - g .. g - 1 PROVE x \in 0 - H .. H - 1
  <2>0. x \div h \in Int
    BY <1>1, SMT
  <2> DEFINE y == x \div h
  <2>1. 0 - g <= y /\ y <= g - 1
    <3>1. y \in Int
      BY <2>0
    <3>2. g \in Int
      BY <1>1, SMT
    <3>3. y \in 0 - g .. g - 1
      BY <1>4
    <3> HIDE DEF y
    <3> QED
      BY <3>1, <3>2, <3>3, SMT
  <2>2. 0 - H <= x /\ x <= H - 1
    BY <1>1, <1>2, <2>1, SMT
  <2>3. H \in Int
    BY <1>2, SMT
  <2> QED
    BY <2>2, <2>3, SMT
<1> QED
  BY <1>3, <1>4 DEF h, g, H, D

LEMMA FloatAllowed ==
    ASSUME NEW x \in FloatValues
    PROVE  x \in Int /\ Fits(x \div 2 ^ 15)
<1> DEFINE h == 2 ^ 15
<1>1. h = 32768
  BY LargePowers, SMT
<1> HIDE DEF h
<1>2. x \in Int /\ -2048 * h <= x /\ x <= 2047 * h
  BY <1>1, SMT DEF h, FloatValues
<1>3. x \div h \in Int /\ -2048 <= x \div h /\ x \div h <= 2047
  BY <1>1, <1>2, SMT
<1> DEFINE y == x \div h
<1>4. y \in Int /\ -2048 <= y /\ y <= 2047
  BY <1>3
<1> HIDE DEF y
<1>5. Fits(y)
  BY <1>4, SMT DEF Fits
<1> QED
  BY <1>2, <1>5 DEF h, y

LEMMA ClassesDocumented == \A d \in WbClasses : AsDocumented(d)
<1>0. /\ <<"switch", "bit", 1, 1>> \in FieldKinds /\ <<"text", "char", 8, 8>> \in FieldKinds
      /\ <<"value", "unsigned", 3, 8>> \in FieldKinds /\ <<"value", "unsigned", 8, 8>> \in FieldKinds
      /\ <<"value", "unsigned", 16, 16>> \in FieldKinds /\ <<"value", "unsigned", 32, 32>> \in FieldKinds
      /\ <<"value", "signed", 8, 8>> \in FieldKinds /\ <<"value", "signed", 16, 16>> \in FieldKinds
      /\ <<"value", "signed", 32, 32>> \in FieldKinds /\ <<"value", "float16", 16, 64>> \in FieldKinds
      /\ <<"value", "float32", 32, 32>> \in FieldKinds
  BY DEF FieldKinds
<1> DEFINE Lim32 == 2 * Half32
<1>t1. Times(31, Half32) /\ Times(32, Lim32) /\ Half32 \in Nat /\ Lim32 \in Nat
  BY TimesLong
<1> HIDE DEF Lim32
<1>1. AsDocumented(Dpt1)
  <2>1. Dpt1 = Class(1, 1, <<Field("switch", 7, 1, "bit", 1)>>)
    BY DEF Dpt1, Switch
  <2>2. Types["switch"] = ControlType(1, 1) /\ AllowedMqtt(1, 1) = 0 .. 2 ^ 1 - 1
    BY PowersOfTwo, TypesDef DEF ControlType, AllowedMqtt
  <2>3. \A x \in AllowedMqtt(1, 1) : \A f : f = Field("switch", 7, 1, "bit", 1) /\ Known(f) => InField(f, x)
    BY TimesPower, <2>2, UnsignedAllowed DEF Field
  <2> QED
    BY <1>0, <2>1, <2>2, <2>3, DocumentedOne
<1>2. AsDocumented(Dpt4)
  <2>1. Dpt4 = Class(4, 2, <<Field("text", 8, 8, "char", 8)>>)
    BY DEF Dpt4
  <2>2. Types["text"] = ControlType(4, 1) /\ AllowedMqtt(4, 1) = 0 .. 2 ^ 8 - 1
    BY TypesDef DEF ControlType, AllowedMqtt
  <2>3. \A x \in AllowedMqtt(4, 1) : \A f : f = Field("text", 8, 8, "char", 8) /\ Known(f) => InField(f, x)
    BY TimesPower, <2>2, UnsignedAllowed DEF Field
  <2> QED
    BY <1>0, <2>1, <2>2, <2>3, DocumentedOne
<1>3. ASSUME NEW main \in {5, 20} PROVE AsDocumented(DptBaseU8(main))
  <2>1. DptBaseU8(main) = Class(main, 2, <<Field("value", 8, 8, "unsigned", 8)>>)
    BY DEF DptBaseU8, UnsignedField
  <2>4. Types["value"] = ControlType(main, 1)
    BY TypesDef DEF ControlType
  <2>2. Types["value"] = ControlType(main, 1) /\ AllowedMqtt(main, 1) = 0 .. 2 ^ 8 - 1
    <3>1. AllowedMqtt(5, 1) = 0 .. 2 ^ 8 - 1
      BY DEF AllowedMqtt
    <3>2. AllowedMqtt(20, 1) = 0 .. 2 ^ 8 - 1
      BY DEF AllowedMqtt
    <3> QED
      BY <2>4, <3>1, <3>2
  <2>3. \A x \in AllowedMqtt(main, 1) : \A f : f = Field("value", 8, 8, "unsigned", 8) /\ Known(f) => InField(f, x)
    BY TimesPower, <2>2, UnsignedAllowed DEF Field
  <2> QED
    BY <1>0, <2>1, <2>2, <2>3, DocumentedOne
<1>4. AsDocumented(Dpt6)
  <2>1. Dpt6 = Class(6, 2, <<Field("value", 8, 8, "signed", 8)>>)
    BY DEF Dpt6, SignedField
  <2>2. Types["value"] = ControlType(6, 1) /\ AllowedMqtt(6, 1) = 0 - 2 ^ 7 .. 2 ^ 7 - 1
    BY TypesDef DEF ControlType, AllowedMqtt
  <2>3. \A x \in AllowedMqtt(6, 1) : \A f : f = Field("value", 8, 8, "signed", 8) /\ Known(f) => InField(f, x)
    BY TimesPower, <2>2, SignedAllowed, SMTT(30) DEF Field
  <2> QED
    BY <1>0, <2>1, <2>2, <2>3, DocumentedOne
<1>5. AsDocumented(Dpt7)
  <2>1. Dpt7 = Class(7, 3, <<Field("value", 8, 16, "unsigned", 16)>>)
    BY DEF Dpt7, UnsignedField
  <2>3. AllowedMqtt(7, 1) = 0 .. 2 ^ 16 - 1
    BY DEF AllowedMqtt
  <2>4. Types["value"] = ControlType(7, 1)
    BY TypesDef DEF ControlType
  <2>5. \A x \in AllowedMqtt(7, 1) : \A f : f = Field("value", 8, 16, "unsigned", 16) /\ Known(f) => InField(f, x)
    BY TimesPower, <2>3, UnsignedAllowed DEF Field
  <2> QED
    BY <1>0, <2>1, <2>4, <2>5, DocumentedOne
<1>6. AsDocumented(Dpt8)
  <2>1. Dpt8 = Class(8, 3, <<Field("value", 8, 16, "signed", 16)>>)
    BY DEF Dpt8, SignedField
  <2>3. AllowedMqtt(8, 1) = 0 - 2 ^ 15 .. 2 ^ 15 - 1
    BY DEF AllowedMqtt
  <2>4. Types["value"] = ControlType(8, 1)
    BY TypesDef DEF ControlType
  <2>5. \A x \in AllowedMqtt(8, 1) : \A f : f = Field("value", 8, 16, "signed", 16) /\ Known(f) => InField(f, x)
    <3>1. 15 + 1 = 16 /\ 15 \in Nat
      OBVIOUS
    <3>2. Field("value", 8, 16, "signed", 16).width = 16 /\ Field("value", 8, 16, "signed", 16).as = "signed"
      BY DEF Field
    <3> QED
      BY TimesPower, <2>3, <3>1, <3>2, SignedAllowed
  <2> QED
    BY <1>0, <2>1, <2>4, <2>5, DocumentedOne
<1>7. AsDocumented(Dpt9)
  <2>1. Dpt9 = Class(9, 3, <<Field("value", 8, 16, "float16", 64)>>)
    BY DEF Dpt9
  <2>2. Types["value"] = ControlType(9, 1)
    BY TypesDef DEF ControlType
  <2>3. \A x \in AllowedMqtt(9, 1) : x \in Int /\ Fits(x \div 2 ^ 15)
    BY FloatAllowed DEF AllowedMqtt
  <2>4. \A x \in AllowedMqtt(9, 1) : \A f : f = Field("value", 8, 16, "float16", 64) /\ Known(f) => InField(f, x)
    BY <2>3 DEF Field, InField
  <2> QED
    BY <1>0, <2>1, <2>2, <2>4, DocumentedOne
<1>8. AsDocumented(Dpt12)
  <2>1. Dpt12 = Class(12, 5, <<Field("value", 8, 32, "unsigned", 32)>>)
    BY DEF Dpt12, UnsignedField
  <2>2. Types["value"] = ControlType(12, 1)
    BY TypesDef DEF ControlType
  <2>3. \A x \in AllowedMqtt(12, 1) : x \in 0 .. Lim32 - 1
    BY LongAllowed DEF AllowedMqtt, Lim32
  <2>4. \A x \in AllowedMqtt(12, 1) : \A f : f = Field("value", 8, 32, "unsigned", 32) /\ Known(f) => InField(f, x)
    BY <1>t1, <2>3, UnsignedAllowed DEF Field
  <2> QED
    BY <1>0, <2>1, <2>2, <2>4, DocumentedOne
<1>9. AsDocumented(Dpt13)
  <2>1. Dpt13 = Class(13, 5, <<Field("value", 8, 32, "signed", 32)>>)
    BY DEF Dpt13, SignedField
  <2>2. Types["value"] = ControlType(13, 1)
    BY TypesDef DEF ControlType
  <2>3. \A x \in AllowedMqtt(13, 1) : x \in 0 - Half32 .. Half32 - 1
    BY LongAllowed DEF AllowedMqtt
  <2>4. \A x \in AllowedMqtt(13, 1) : \A f : f = Field("value", 8, 32, "signed", 32) /\ Known(f) => InField(f, x)
    BY <1>t1, <2>3, SignedAllowed DEF Field
  <2> QED
    BY <1>0, <2>1, <2>2, <2>4, DocumentedOne
<1>10. AsDocumented(Dpt14)
  <2>1. Dpt14 = Class(14, 5, <<Field("value", 8, 32, "float32", 32)>>)
    BY DEF Dpt14
  <2>2. Types["value"] = ControlType(14, 1)
    BY TypesDef DEF ControlType
  <2>3. \A x \in AllowedMqtt(14, 1) : x \in 0 - Half32 .. Half32 - 1
    BY LongAllowed DEF AllowedMqtt
  <2>4. \A x \in AllowedMqtt(14, 1) : \A f : f = Field("value", 8, 32, "float32", 32) /\ Known(f) => InField(f, x)
    BY <1>t1, <2>3, SignedAllowed DEF Field
  <2> QED
    BY <1>0, <2>1, <2>2, <2>4, DocumentedOne
<1>11. AsDocumented(Dpt2)
  <2> DEFINE f == Field("switch", 6, 1, "bit", 1)
             g == Field("switch", 7, 1, "bit", 1)
  <2>1. Dpt2.fields = <<f, g>> /\ Dpt2.main = 2
    BY DEF Dpt2, Switch, Class
  <2>2. Known(f) /\ Known(g) /\ f.as = "bit" /\ g.as = "bit" /\ f.width = 1 /\ g.width = 1
        /\ f.control = "switch" /\ g.control = "switch"
    BY <1>0 DEF Field, Known
  <2> HIDE DEF f, g
  <2>3. \A i \in {1, 2} : Types["switch"] = ControlType(2, i) /\ AllowedMqtt(2, i) = 0 .. 2 ^ 1 - 1
    BY PowersOfTwo, TypesDef DEF ControlType, AllowedMqtt
  <2>4. \A x \in 0 .. 2 ^ 1 - 1 : InField(f, x) /\ InField(g, x)
    BY TimesPower, <2>2, UnsignedAllowed
  <2>5. DOMAIN Dpt2.fields = {1, 2} /\ Dpt2.fields[1] = f /\ Dpt2.fields[2] = g
    BY <2>1
  <2> QED
    BY <2>1, <2>2, <2>3, <2>4, <2>5 DEF AsDocumented
<1>12. AsDocumented(Dpt3)
  <2> DEFINE f == Field("switch", 4, 1, "bit", 1)
             g == Field("value", 5, 3, "unsigned", 8)
  <2>1. Dpt3.fields = <<f, g>> /\ Dpt3.main = 3
    BY DEF Dpt3, Switch, UnsignedField, Class
  <2>2. Known(f) /\ Known(g) /\ f.as = "bit" /\ g.as = "unsigned" /\ f.width = 1 /\ g.width = 3
        /\ f.control = "switch" /\ g.control = "value"
    BY <1>0 DEF Field, Known
  <2> HIDE DEF f, g
  <2>3. /\ Types["switch"] = ControlType(3, 1) /\ AllowedMqtt(3, 1) = 0 .. 2 ^ 1 - 1
        /\ Types["value"] = ControlType(3, 2) /\ AllowedMqtt(3, 2) = 0 .. 2 ^ 3 - 1
    BY PowersOfTwo, TypesDef DEF ControlType, AllowedMqtt
  <2>4. \A x \in 0 .. 2 ^ 1 - 1 : InField(f, x)
    BY TimesPower, <2>2, UnsignedAllowed
  <2>5. \A x \in 0 .. 2 ^ 3 - 1 : InField(g, x)
    BY TimesPower, <2>2, UnsignedAllowed
  <2>6. DOMAIN Dpt3.fields = {1, 2} /\ Dpt3.fields[1] = f /\ Dpt3.fields[2] = g
    BY <2>1
  <2> QED
    BY <2>1, <2>2, <2>3, <2>4, <2>5, <2>6 DEF AsDocumented
<1>13. AsDocumented(Dpt5) /\ AsDocumented(Dpt20)
  BY <1>3 DEF Dpt5, Dpt20
<1> QED
  BY <1>1, <1>2, <1>4, <1>5, <1>6, <1>7, <1>8, <1>9, <1>10, <1>11, <1>12, <1>13 DEF WbClasses

\* The first octet of a payload is not sent whole, but what its fields mean does
\* not depend on the two bits that are not sent.
LEMMA SixBitsEnough ==
    ASSUME NEW main, NEW p \in Seq(ByteSet), Len(p) >= 1, Len(p) = LengthOfMqtt(main),
           main \in {1, 2, 3} \/ (main \in {4, 5, 6, 20} /\ Len(p) = 2) \/ (main \in {7, 8, 9} /\ Len(p) = 3)
               \/ (main \in {12, 13, 14} /\ Len(p) = 5),
           NEW q, q = [k \in DOMAIN p |-> IF k = 1 THEN p[k] % 64 ELSE p[k]]
    PROVE  MeaningOfMqtt(main, q) = MeaningOfMqtt(main, p)
<1>1. p[1] \in Int /\ DOMAIN p = 1 .. Len(p) /\ Len(p) \in Nat
  BY OctetAt
<1>2. q[1] = p[1] % 64
  BY <1>1
<1>3. q[1] % 2 = p[1] % 2 /\ (q[1] \div 2) % 2 = (p[1] \div 2) % 2 /\ (q[1] \div 8) % 2 = (p[1] \div 8) % 2 /\ q[1] % 8 = p[1] % 8
  <2>1. \A n \in Int : /\ (n % 64) % 2 = n % 2 /\ ((n % 64) \div 2) % 2 = (n \div 2) % 2
                       /\ ((n % 64) \div 8) % 2 = (n \div 8) % 2 /\ (n % 64) % 8 = n % 8
    <3> TAKE n \in Int
    <3>1. (n % 64) % 2 = n % 2
      BY SMT
    <3>2. ((n % 64) \div 2) % 2 = (n \div 2) % 2
      BY SMT
    <3>3. ((n % 64) \div 8) % 2 = (n \div 8) % 2
      BY SMT
    <3>4. (n % 64) % 8 = n % 8
      BY SMT
    <3> QED
      BY <3>1, <3>2, <3>3, <3>4
  <2> QED
    BY <1>1, <1>2, <2>1, ZenonT(30)
<1>4. \A k : k # 1 /\ k \in DOMAIN p => q[k] = p[k]
  BY <1>1
<1>5. CASE main \in {1, 2, 3}
  BY <1>3, <1>5, SMTT(30) DEF MeaningOfMqtt
<1>6. CASE main \in {4, 5, 6, 20} /\ Len(p) = 2
  <2>1. q[2] = p[2]
    BY <1>1, <1>4, <1>6
  <2> QED
    BY <1>6, <2>1 DEF MeaningOfMqtt
<1>7. CASE main \in {7, 8, 9} /\ Len(p) = 3
  <2>1. q[2] = p[2] /\ q[3] = p[3]
    BY <1>1, <1>4, <1>7
  <2>2. Word(q) = Word(p)
    BY <2>1 DEF Word
  <2> QED
    BY <1>7, <2>1, <2>2 DEF MeaningOfMqtt
<1>8. CASE main \in {12, 13, 14} /\ Len(p) = 5
  <2>1. q[2] = p[2] /\ q[3] = p[3] /\ q[4] = p[4] /\ q[5] = p[5]
    BY <1>1, <1>4, <1>8
  <2>2. \A high : DoubleWord(high, q) = DoubleWord(high, p)
    BY <2>1 DEF DoubleWord
  <2> QED
    BY <1>8, <2>1, <2>2 DEF MeaningOfMqtt
<1> QED
  BY <1>5, <1>6, <1>7, <1>8

\* A value that is shown is received as itself.
LEMMA ShownReceived ==
    ASSUME NEW f, Known(f), NEW x, InField(f, x)
    PROVE  Received(f, Published(f, x)) = {x}
<1> DEFINE v == Published(f, x)
<1>1. v.type = Types[f.control]
  BY DEF Published
<1>2. x \in Int
  BY DEF InField
<1>3. CASE f.as = "bit"
  <2>1. v.value = <<x>>
    BY <1>3 DEF Published
  <2> QED
    BY <1>1, <1>3, <2>1 DEF Received
<1>4. CASE f.as = "char"
  <2>1. v.value = IF x = 0 THEN <<>> ELSE <<x>>
    BY <1>4 DEF Published
  <2> HIDE DEF v
  <2>2. (IF v.value = <<>> THEN 0 ELSE v.value[1]) = x
    BY <2>1
  <2> QED
    BY <1>1, <1>4, <2>2 DEF Received, v
<1>5. CASE f.as = "float16"
  <2>1. v.value = <<x \div 100, x % 100>>
    BY <1>5 DEF Published
  <2> HIDE DEF v
  <2>2. v.value[1] * 100 + v.value[2] = x
    <3> DEFINE a == x \div 100
               b == x % 100
    <3>1. a * 100 + b = x
      BY <1>2, SMT
    <3>2. v.value = <<a, b>>
      BY <2>1
    <3> HIDE DEF a, b
    <3>3. <<a, b>>[1] = a /\ <<a, b>>[2] = b
      OBVIOUS
    <3>4. v.value[1] = a /\ v.value[2] = b
      BY <3>2, <3>3
    <3> QED
      BY <3>1, <3>4
  <2> QED
    BY <1>1, <1>5, <2>2 DEF Received, v
<1>6. CASE f.as = "float32"
  <2>1. v.value = <<x, 0>>
    BY <1>6 DEF Published
  <2> QED
    BY <1>1, <1>6, <2>1 DEF Received
<1>7. CASE f.as \in {"unsigned", "signed"}
  <2>1. v.value = <<x, 0>>
    BY <1>7 DEF Published
  <2>2. Truncate(<<x, 0>>) = x
    BY DEF Truncate
  <2>3. Cast(x, f.as, f.cast) = {x}
    BY <1>7, CastKeeps
  <2> HIDE DEF v
  <2>4. Received(f, v) = Cast(Truncate(v.value), f.as, f.cast)
    BY <1>1, <1>7 DEF Received
  <2> QED
    BY <2>1, <2>2, <2>3, <2>4 DEF v
<1> QED
  BY <1>3, <1>4, <1>5, <1>6, <1>7, KnownAs

\* What a value of MQTT means for a field.
Means(f, v, x) ==
    /\ v.type = Types[f.control]
    /\ f.as = "bit" => x = v.value[1]
    /\ f.as = "char" => x = IF v.value = <<>> THEN 0 ELSE v.value[1]
    /\ f.as = "float16" => x = v.value[1] * 100 + v.value[2]
    /\ f.as = "float32" => x = v.value[1]
    /\ f.as \in {"unsigned", "signed"} => x = Truncate(v.value)

LEMMA MeantReceived ==
    ASSUME NEW f, Known(f), NEW v, NEW x, Means(f, v, x), InField(f, x)
    PROVE  Received(f, v) = {x}
<1>1. CASE f.as = "bit"
  BY <1>1 DEF Received, Means
<1>2. CASE f.as = "char"
  BY <1>2 DEF Received, Means
<1>3. CASE f.as = "float16"
  BY <1>3 DEF Received, Means
<1>4. CASE f.as = "float32"
  BY <1>4 DEF Received, Means
<1>5. CASE f.as \in {"unsigned", "signed"}
  <2>1. Cast(x, f.as, f.cast) = {x}
    BY <1>5, CastKeeps
  <2>2. Received(f, v) = Cast(Truncate(v.value), f.as, f.cast)
    BY <1>5 DEF Received, Means
  <2> QED
    BY <1>5, <2>1, <2>2 DEF Means
<1> QED
  BY <1>1, <1>2, <1>3, <1>4, <1>5, KnownAs

\* What is read of a payload can be written.
LEMMA ReadInField ==
    ASSUME NEW d, ClassMade(d), NEW p \in Seq(ByteSet), NEW c \in FromKnx(d, p), NEW i \in DOMAIN d.fields
    PROVE  InField(d.fields[i], c[i])
<1>1. Len(p) = d.size /\ c[i] = Decode(d.fields[i].as, FieldBits(BitsOf(p), d.fields[i]))
  BY DEF FromKnx
<1>2. d.size \in Nat /\ Laid(d.fields, d.size) /\ Known(d.fields[i])
  BY DEF ClassMade
<1>3. /\ FieldBits(BitsOf(p), d.fields[i]) \in Seq(BitSet)
      /\ Len(FieldBits(BitsOf(p), d.fields[i])) = d.fields[i].width
  BY <1>1, <1>2, FieldBitsType
<1> QED
  BY <1>1, <1>2, <1>3, DecodeInField

LEMMA OnlyDpt9 == \A d \in WbClasses : d.main = 9 => d = Dpt9
BY DEF WbClasses, Class, Dpt1, Dpt2, Dpt3, Dpt4, DptBaseU8, Dpt5, Dpt6, Dpt7, Dpt8, Dpt9, Dpt12, Dpt13, Dpt14, Dpt20

\* A float of two octets and its exponent.
LEMMA FloatOctets ==
    ASSUME NEW c, WbTyped(Dpt9, c), InField(Dpt9.fields[1], c[1]), NEW p, p = ToKnx(Dpt9, c)
    PROVE  \E e \in 0 .. 15 : Exponent(p[2]) = e /\ c[1] - MeaningOfMqtt(9, p)[1] \in 0 .. 2 ^ e - 1
<1> DEFINE f == Field("value", 8, 16, "float16", 64)
           x == c[1]
           raw == FloatToRaw16(x)
<1>1. Dpt9.fields = <<f>> /\ Dpt9.size = 3 /\ Dpt9.main = 9
  BY DEF Dpt9, Class
<1>2. DOMAIN Dpt9.fields = {1} /\ Dpt9.fields[1] = f
  <2> HIDE DEF f
  <2>1. DOMAIN <<f>> = {1} /\ <<f>>[1] = f
    OBVIOUS
  <2> QED
    BY <1>1, <2>1, Zenon
<1>3. f.as = "float16" /\ f.at = 8 /\ f.width = 16
  BY DEF Field
<1>4. ClassMade(Dpt9)
  BY ClassesMade DEF WbClasses
<1>5. p \in Seq(ByteSet) /\ Len(p) = 3 /\ FieldBits(BitsOf(p), f) = Encode(f, x)
  <2>1. 1 \in DOMAIN Dpt9.fields
    BY <1>2
  <2> QED
    BY <1>1, <1>2, <1>4, <2>1, ToKnxTyped, ZenonT(30)
<1>6. x \in Int /\ Fits(x \div 2 ^ 15)
  BY <1>2, <1>3 DEF InField
<1> HIDE DEF f, x
<1>7. Representable(x) /\ \E e \in 0 .. 15 : StepOff(x, raw, e)
  BY <1>6, FloatKept
<1>8. PICK e \in 0 .. 15 : StepOff(x, raw, e)
  BY <1>7
<1>9. raw \in Int /\ 0 <= raw /\ raw <= 65535
  BY <1>7, Raw16Type
<1> HIDE DEF raw
<1>10. Unsigned(LowBits(raw, 16)) = raw
  <2> DEFINE N == 65536
  <2>1. N \in Nat /\ Times(16, N)
    BY TimesTable, SMT
  <2>2. raw < N
    BY <1>9, SMT
  <2> HIDE DEF N
  <2>3. raw \in 0 .. N - 1
    <3>1. raw \in Int /\ 0 <= raw
      BY <1>9
    <3> QED
      BY <2>1, <2>2, <3>1, SMT
  <2> QED
    BY <2>1, <2>3, UnsignedKept
<1>11. Encode(f, x) = LowBits(raw, 16)
  BY <1>3 DEF Encode, raw
<1>12. FieldBits(BitsOf(p), f) = SubSeq(BitsOf(p), 9, 24)
  <2>1. 8 + 1 = 9 /\ 8 + 16 = 24
    OBVIOUS
  <2> QED
    BY <1>3, <2>1, Zenon DEF FieldBits
<1>13. raw = 256 * p[2] + p[3]
  <2>1. Unsigned(SubSeq(BitsOf(p), 9, 24)) = 256 * p[2] + p[3]
    <3>1. Len(p) >= 3
      BY <1>5
    <3> QED
      BY <1>5, <3>1, TwoOctets
  <2> QED
    BY <1>5, <1>10, <1>11, <1>12, <2>1
<1>14. p[2] \in ByteSet /\ p[3] \in ByteSet
  <2>1. 2 \in 1 .. Len(p) /\ 3 \in 1 .. Len(p)
    BY <1>5
  <2> QED
    BY <1>5, <2>1, OctetAt
<1>15. RawToFloat16(raw) = Hundredths(p[2], p[3])
  BY <1>13, <1>14, Float16Read
<1>16. MeaningOfMqtt(9, p)[1] = Hundredths(p[2], p[3])
  <2> DEFINE h == Hundredths(p[2], p[3])
  <2>1. MeaningOfMqtt(9, p) = <<h>>
    BY DEF MeaningOfMqtt
  <2> HIDE DEF h
  <2> QED
    BY <2>1 DEF h
<1>17. Exponent(p[2]) = (raw \div 2048) % 16
  <2> DEFINE h == p[2]
             l == p[3]
  <2>1. h \in Int /\ 0 <= h /\ l \in Int /\ 0 <= l /\ l <= 255
    BY <1>14 DEF ByteSet
  <2>2. raw = 256 * h + l
    BY <1>13
  <2> HIDE DEF h, l
  <2>3. raw \div 2048 = h \div 8
    BY <2>1, <2>2, SMT
  <2> QED
    BY <2>3, SMT DEF Exponent, h
<1>18. Exponent(p[2]) = e /\ x - RawToFloat16(raw) \in 0 .. 2 ^ e - 1
  BY <1>8, <1>17, Zenon DEF StepOff
<1> QED
  BY <1>15, <1>16, <1>18, Zenon DEF x

\* What is sent for typed values means what was cached, by the documents; a float
\* is off by less than one step.
Conveys(d, x, p, i) ==
    /\ d.main # 9 => MeaningOfMqtt(d.main, p)[i] = x
    /\ d.main = 9 => \E e \in 0 .. 15 : Exponent(p[2]) = e /\ x - MeaningOfMqtt(9, p)[1] \in 0 .. 2 ^ e - 1

LEMMA WrittenMeans ==
    ASSUME NEW d \in WbClasses, NEW c, WbTyped(d, c), NEW i \in DOMAIN d.fields, InField(d.fields[i], c[i]),
           NEW p, p = ToKnx(d, c)
    PROVE  Conveys(d, c[i], p, i)
<1>1. ClassMade(d) /\ AsDocumented(d)
  BY ClassesMade, ClassesDocumented
<1>2. CASE d.main = 9
  <2>1. d = Dpt9
    BY <1>2, OnlyDpt9
  <2> DEFINE f == Field("value", 8, 16, "float16", 64)
  <2>2. Dpt9.fields = <<f>>
    BY DEF Dpt9, Class
  <2> HIDE DEF f
  <2>3. DOMAIN <<f>> = {1}
    OBVIOUS
  <2>4. i = 1
    BY <2>1, <2>2, <2>3
  <2> QED
    BY <1>2, <2>1, <2>4, FloatOctets DEF Conveys
<1>3. CASE d.main # 9
  <2> DEFINE f == d.fields[i]
  <2>1. Known(f) /\ f.as # "float16"
    BY <1>1, <1>3 DEF ClassMade, AsDocumented
  <2>2. Decode(f.as, Encode(f, c[i])) = c[i]
    BY <2>1, FieldWritten DEF Near
  <2>3. p \in Seq(ByteSet) /\ Len(p) = d.size /\ FieldBits(BitsOf(p), f) = Encode(f, c[i])
    BY <1>1, ToKnxTyped
  <2>4. Decode(f.as, FieldBits(BitsOf(p), f)) = MeaningOfMqtt(d.main, p)[i]
    BY <1>1, <2>3 DEF ClassMade, Reads
  <2> QED
    BY <1>3, <2>2, <2>3, <2>4 DEF Conveys
<1> QED
  BY <1>2, <1>3

\* The octets that are sent, without the first two bits, mean the same.
LEMMA SixBitsMean ==
    ASSUME NEW d \in WbClasses, NEW p \in Seq(ByteSet), Len(p) = d.size,
           NEW q, q = [k \in DOMAIN p |-> IF k = 1 THEN p[k] % 64 ELSE p[k]]
    PROVE  MeaningOfMqtt(d.main, q) = MeaningOfMqtt(d.main, p) /\ (d.main = 9 => q[2] = p[2])
<1>1. d.size \in 1 .. 15 /\ d.size = LengthOfMqtt(d.main)
  BY ClassesMade DEF ClassMade
<1>2. \/ d.main \in {1, 2, 3} \/ (d.main \in {4, 5, 6, 20} /\ d.size = 2) \/ (d.main \in {7, 8, 9} /\ d.size = 3)
      \/ (d.main \in {12, 13, 14} /\ d.size = 5)
  BY DEF WbClasses, Class, Dpt1, Dpt2, Dpt3, Dpt4, DptBaseU8, Dpt5, Dpt6, Dpt7, Dpt8, Dpt9, Dpt12, Dpt13, Dpt14, Dpt20
<1>3. MeaningOfMqtt(d.main, q) = MeaningOfMqtt(d.main, p)
  <2>1. Len(p) >= 1
    BY <1>1
  <2> QED
    BY <1>1, <1>2, <2>1, SixBitsEnough
<1>4. d.main = 9 => q[2] = p[2]
  <2>1. d.main = 9 => Len(p) = 3
    BY <1>2
  <2>2. DOMAIN p = 1 .. Len(p)
    OBVIOUS
  <2> QED
    BY <2>1, <2>2
<1> QED
  BY <1>3, <1>4

-----------------------------------------------------------------------------
(* Raw data                                                                *)

\* The words that are read are the first ones.
FirstOf(n, good, m, first) ==
    first = 1 .. m /\ Cardinality(first) = m /\ ((\A k \in 1 .. n : k \in good) => m = n)

LEMMA FirstRead ==
    ASSUME NEW n \in Nat, NEW Good,
           NEW readable, readable = {k \in 1 .. n : \A j \in 1 .. k : j \in Good}
    PROVE  \E m \in 0 .. n : FirstOf(n, Good, m, readable)
<1>1. ASSUME NEW m \in 0 .. n, readable = 1 .. m PROVE Cardinality(readable) = m
  <2>1. m \in Int /\ 0 <= m /\ 1 \in Int
    OBVIOUS
  <2>2. Cardinality(1 .. m) = IF 1 > m THEN 0 ELSE m - 1 + 1
    BY <2>1, FS_Interval
  <2>3. Cardinality(1 .. m) = m
    BY <2>1, <2>2
  <2> QED
    BY <1>1, <2>3
<1>2. CASE \A k \in 1 .. n : k \in Good
  <2>1. readable = 1 .. n /\ n \in 0 .. n
    BY <1>2
  <2> QED
    BY <1>1, <1>2, <2>1 DEF FirstOf
<1>3. CASE \E k \in 1 .. n : k \notin Good
  <2> DEFINE bad == {k \in 1 .. n : k \notin Good}
  <2>1. bad \in SUBSET Nat /\ bad # {}
    BY <1>3
  <2>2. PICK b \in bad : \A k \in bad : b <= k
    BY <2>1, LeastNumber
  <2> DEFINE m == b - 1
  <2>3. b \in 1 .. n /\ b \notin Good /\ m \in 0 .. n /\ m # n
    BY <2>2
  <2>4. readable = 1 .. m
    BY <2>2, <2>3
  <2> QED
    BY <1>1, <1>3, <2>3, <2>4 DEF FirstOf
<1> QED
  BY <1>2, <1>3

LEMMA ByteRead ==
    ASSUME NEW word \in SUBSET Int
    PROVE  /\ StringValueToByte(word) # {} => Only(StringValueToByte(word)) \in ByteSet
           /\ \A x \in ByteSet : word = {x} => StringValueToByte(word) = {x}
<1>1. StringValueToByte(word) \subseteq ByteSet
  BY DEF StringValueToByte, ByteSet
<1>2. ASSUME NEW x \in ByteSet, word = {x} PROVE StringValueToByte(word) = {x}
  <2>1. x % 256 = x
    BY DEF ByteSet
  <2> QED
    BY <1>2, <2>1 DEF StringValueToByte
<1> QED
  BY <1>1, <1>2 DEF Only

\* Whatever words a text has, octets are cached of it.
LEMMA RawTyped ==
    ASSUME NEW words \in Seq(SUBSET Int)
    PROVE  RawFromMqtt(words).cached \in Seq(ByteSet)
<1> DEFINE n == Len(words)
           Good == {k \in 1 .. n : StringValueToByte(words[k]) # {}}
           readable == {k \in DOMAIN words : \A j \in 1 .. k : StringValueToByte(words[j]) # {}}
           read == IF Cardinality(readable) > RawMaxSize THEN RawMaxSize + 1 ELSE Cardinality(readable)
           cached == [k \in 1 .. read |-> Only(StringValueToByte(words[k]))]
<1>1. n \in Nat /\ DOMAIN words = 1 .. n
  OBVIOUS
<1>2. readable = {k \in 1 .. n : \A j \in 1 .. k : j \in Good}
  BY <1>1
<1>3. \A k \in Good : Only(StringValueToByte(words[k])) \in ByteSet
  BY <1>1, ByteRead
<1>4. RawFromMqtt(words).cached = cached
  BY DEF RawFromMqtt
<1> HIDE DEF n, Good, readable
<1>5. PICK m \in 0 .. n : readable = 1 .. m /\ Cardinality(readable) = m
  <2>1. \E m \in 0 .. n : FirstOf(n, Good, m, readable)
    BY <1>1, <1>2, FirstRead, Zenon
  <2> QED
    BY <2>1 DEF FirstOf
<1>6. read \in Nat /\ read <= m
  BY <1>1, <1>5 DEF RawMaxSize
<1> HIDE DEF read
<1>7. \A k \in 1 .. read : k \in Good
  <2> TAKE k \in 1 .. read
  <2>1. k \in 1 .. m
    BY <1>1, <1>5, <1>6
  <2>2. k \in readable /\ k \in 1 .. k
    BY <1>5, <2>1
  <2> QED
    BY <1>2, <2>2
<1>8. cached \in [1 .. read -> ByteSet]
  BY <1>3, <1>7
<1> HIDE DEF cached
<1> QED
  BY <1>4, <1>6, <1>8, FunctionIsSequence

\* At most 15 octets are taken as they are written.
LEMMA RawTaken ==
    ASSUME NEW x \in Seq(ByteSet), Len(x) <= 15, NEW words \in Seq(SUBSET Int), words = [k \in DOMAIN x |-> {x[k]}]
    PROVE  RawFromMqtt(words).cached = x /\ ~ RawFromMqtt(words).throws
<1> DEFINE n == Len(x)
           Good == {k \in 1 .. n : StringValueToByte(words[k]) # {}}
           readable == {k \in DOMAIN words : \A j \in 1 .. k : StringValueToByte(words[j]) # {}}
           read == IF Cardinality(readable) > RawMaxSize THEN RawMaxSize + 1 ELSE Cardinality(readable)
           cached == [k \in 1 .. read |-> Only(StringValueToByte(words[k]))]
<1>1. n \in Nat /\ DOMAIN x = 1 .. n /\ DOMAIN words = 1 .. n /\ Len(words) = n /\ n <= 15
  <2>1. n \in Nat /\ DOMAIN x = 1 .. n /\ n <= 15
    OBVIOUS
  <2>2. DOMAIN words = DOMAIN x
    OBVIOUS
  <2>3. DOMAIN words = 1 .. Len(words) /\ Len(words) \in Nat
    OBVIOUS
  <2> HIDE DEF n
  <2>4. Len(words) = n
    BY <2>1, <2>2, <2>3
  <2> QED
    BY <2>1, <2>2, <2>4
<1>2. readable = {k \in 1 .. n : \A j \in 1 .. k : j \in Good}
  <2>1. \A k \in 1 .. n : \A j \in 1 .. k : j \in Good <=> StringValueToByte(words[j]) # {}
    <3> HIDE DEF n
    <3> TAKE k \in 1 .. n
    <3> TAKE j \in 1 .. k
    <3>1. j \in 1 .. n
      BY <1>1
    <3> QED
      BY <3>1
  <2> QED
    BY <1>1, <2>1
<1>3. \A k \in 1 .. n : StringValueToByte(words[k]) = {x[k]}
  <2> TAKE k \in 1 .. n
  <2>1. x[k] \in ByteSet /\ words[k] = {x[k]} /\ words[k] \in SUBSET Int
    BY <1>1
  <2> QED
    BY <2>1, ByteRead
<1>4. RawFromMqtt(words).cached = cached /\ (RawFromMqtt(words).throws <=> read # Len(words) \/ read > RawMaxSize)
  BY DEF RawFromMqtt
<1>5. \A k \in 1 .. n : k \in Good /\ Only(StringValueToByte(words[k])) = x[k]
  <2>1. \A y : Only({y}) = y
    BY DEF Only
  <2> QED
    BY <1>3, <2>1
<1> HIDE DEF n, Good, readable
<1>6. PICK m \in 0 .. n : FirstOf(n, Good, m, readable)
  BY <1>1, <1>2, FirstRead, Zenon
<1>7. m = n /\ Cardinality(readable) = m
  BY <1>5, <1>6 DEF FirstOf
<1>8. read = n /\ ~ (read > RawMaxSize)
  BY <1>1, <1>6, <1>7 DEF RawMaxSize
<1> HIDE DEF read
<1>9. cached = [k \in 1 .. n |-> x[k]]
  BY <1>5, <1>8
<1>10. x = [k \in 1 .. n |-> x[k]]
  BY <1>1
<1> HIDE DEF cached
<1>11. cached = x
  BY <1>9, <1>10
<1> QED
  BY <1>1, <1>4, <1>8, <1>11
=============================================================================
