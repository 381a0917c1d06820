------------------------- MODULE KnxConverter_proofs -------------------------
(* Theorems of the address and telegram formats, for all addresses, frames *)
(* and texts: the notations of an address agree with each other and with   *)
(* the number on the bus, what is sent is read as what it was, and a frame *)
(* with one wrong bit is not read at all.                                  *)
EXTENDS KnxConverter, Datapoints_proofs, TLAPS

-----------------------------------------------------------------------------
(* Addresses                                                               *)

\* The parts of a number make it.
LEMMA EibSplit ==
    ASSUME NEW e \in Int, 0 <= e, e <= 65535
    PROVE  /\ (e \div 2048) % 32 \in 0 .. 31
           /\ (e \div 256) % 8 \in 0 .. 7
           /\ e % 256 \in 0 .. 255
           /\ ((e \div 2048) % 32) * 2048 + ((e \div 256) % 8) * 256 + (e % 256) = e
<1>1. (e \div 2048) % 32 \in 0 .. 31 /\ (e \div 256) % 8 \in 0 .. 7 /\ e % 256 \in 0 .. 255
  OBVIOUS
<1>2. ((e \div 2048) % 32) * 2048 + ((e \div 256) % 8) * 256 + (e % 256) = e
  OBVIOUS
<1> QED
  BY <1>1, <1>2

LEMMA AddressParts ==
    ASSUME NEW a \in GroupAddresses
    PROVE  /\ a = GroupAddress(a.main, a.middle, a.sub)
           /\ a.main \in Int /\ 0 <= a.main /\ a.main <= 31
           /\ a.middle \in Int /\ 0 <= a.middle /\ a.middle <= 7
           /\ a.sub \in Int /\ 0 <= a.sub /\ a.sub <= 255
BY DEF GroupAddresses, MainGroups, MiddleGroups, SubGroups, GroupAddress

\* The number of an address has its parts.
LEMMA EibJoin ==
    ASSUME NEW a \in GroupAddresses, NEW e, e = GetEibAddress(a)
    PROVE  /\ e \in Int /\ 0 <= e /\ e <= 65535
           /\ (e \div 2048) % 32 = a.main
           /\ (e \div 256) % 8 = a.middle
           /\ e % 256 = a.sub
<1> DEFINE m == a.main
           n == a.middle
           s == a.sub
<1>1. /\ m \in Int /\ 0 <= m /\ m <= 31
      /\ n \in Int /\ 0 <= n /\ n <= 7
      /\ s \in Int /\ 0 <= s /\ s <= 255
  BY AddressParts
<1>2. e = (m % 32) * 2048 + (n % 8) * 256 + (s % 256)
  BY DEF GetEibAddress
<1> HIDE DEF m, n, s
<1>3. m % 32 = m /\ n % 8 = n /\ s % 256 = s
  BY <1>1
<1>4. e = m * 2048 + n * 256 + s
  BY <1>2, <1>3
<1>5. e \in Int /\ 0 <= e /\ e <= 65535
  BY <1>1, <1>4
<1>6. e \div 2048 = m
  BY <1>1, <1>4
<1>7. (e \div 256) % 8 = n
  BY <1>1, <1>4
<1>8. e % 256 = s
  BY <1>1, <1>4
<1> QED
  BY <1>3, <1>5, <1>6, <1>7, <1>8 DEF m, n, s

LEMMA EibRange == \A e : e \in EibAddresses <=> e \in Int /\ 0 <= e /\ e <= 65535
<1> DEFINE N == 65535
<1>1. N \in Int
  OBVIOUS
<1> HIDE DEF N
<1>2. \A e : e \in 0 .. N <=> e \in Int /\ 0 <= e /\ e <= N
  BY <1>1
<1>3. EibAddresses = 0 .. N
  BY DEF N, EibAddresses
<1>4. \A e : e \in EibAddresses <=> e \in Int /\ 0 <= e /\ e <= N
  BY <1>2, <1>3, Zenon
<1> QED
  BY <1>4 DEF N

LEMMA EibInRange == ASSUME NEW e \in Int, 0 <= e, e <= 65535 PROVE e \in EibAddresses
BY EibRange

\* The number of an address fits into knxd's eibaddr_t (knxgroupaddress.cpp:83).
THEOREM EibType == \A a \in GroupAddresses : GetEibAddress(a) \in EibAddresses
<1> TAKE a \in GroupAddresses
<1> DEFINE e == GetEibAddress(a)
<1>0. e = GetEibAddress(a)
  OBVIOUS
<1> HIDE DEF e
<1>1. e \in Int /\ 0 <= e /\ e <= 65535
  BY <1>0, EibJoin
<1>2. e \in EibAddresses
  BY <1>1, EibInRange
<1> QED
  BY <1>2 DEF e

\* What is sent to an address comes back with that address: the number of the
\* bus is read as the address it was written for (knxgroupaddress.cpp:67-86).
THEOREM AddressRoundTrip == \A a \in GroupAddresses : InitEib(GetEibAddress(a)) = {a}
<1> TAKE a \in GroupAddresses
<1> DEFINE e == GetEibAddress(a)
<1>0. e = GetEibAddress(a)
  OBVIOUS
<1>2. e \in EibAddresses
  BY EibType
<1> HIDE DEF e
<1>1. /\ (e \div 2048) % 32 = a.main
      /\ (e \div 256) % 8 = a.middle
      /\ e % 256 = a.sub
  BY <1>0, EibJoin
<1>3. InitEib(e) = {GroupAddress(a.main, a.middle, a.sub)}
  BY <1>1, <1>2 DEF InitEib
<1> QED
  BY <1>3, AddressParts DEF e

\* Every number of the bus is the number of exactly the address it is read as.
THEOREM EibRoundTrip ==
    \A n \in EibAddresses : \A a \in InitEib(n) : a \in GroupAddresses /\ GetEibAddress(a) = n
<1> TAKE n \in EibAddresses
<1> TAKE a \in InitEib(n)
<1>1. n \in Int /\ 0 <= n /\ n <= 65535
  BY EibRange
<1> DEFINE m == (n \div 2048) % 32
           k == (n \div 256) % 8
           s == n % 256
<1>2. m \in 0 .. 31 /\ k \in 0 .. 7 /\ s \in 0 .. 255 /\ m * 2048 + k * 256 + s = n
  BY <1>1, EibSplit
<1>3. a = GroupAddress(m, k, s)
  BY DEF InitEib
<1> HIDE DEF m, k, s
<1>4. m % 32 = m /\ k % 8 = k /\ s % 256 = s
  BY <1>2
<1>5. GetEibAddress(a) = n
  BY <1>2, <1>3, <1>4 DEF GetEibAddress, GroupAddress
<1>6. a \in GroupAddresses
  BY <1>2, <1>3 DEF GroupAddresses, MainGroups, MiddleGroups, SubGroups, GroupAddress
<1> QED
  BY <1>5, <1>6

\* The two-part notation names the address whose last two parts its second number
\* holds (knxgroupaddress.cpp:58-65).
THEOREM DoubleIsTriple ==
    \A m \in Int : \A s \in SubGroupsDouble : InitDouble(m, s) = InitTriple(m, s \div 256, s % 256)
<1> TAKE m \in Int
<1> TAKE s \in SubGroupsDouble
<1>1. s \in Int /\ 0 <= s /\ s <= 2047
  BY DEF SubGroupsDouble
<1>2. s \div 256 \in 0 .. 7 /\ (s \div 256) % 8 = s \div 256 /\ s % 256 \in 0 .. 255
  BY <1>1
<1> QED
  BY <1>2 DEF InitDouble, InitTriple, MiddleGroups, SubGroups

\* The controller's map finds an object under an address that is equal: what the
\* map's order takes for the same key is the same address (knxgroupaddress.cpp:88-96).
THEOREM OrderAgrees ==
    \A a, b \in GroupAddresses :
        AddressEqual(a, b) <=> ~ AddressLess(a, b) /\ ~ AddressLess(b, a)
<1> TAKE a, b \in GroupAddresses
<1>1. AddressEqual(a, b) <=> a = b
  BY AddressParts DEF AddressEqual
<1>2. GetEibAddress(a) = GetEibAddress(b) => a = b
  BY AddressRoundTrip
<1>3. GetEibAddress(a) \in Int /\ GetEibAddress(b) \in Int
  BY EibJoin
<1> QED
  BY <1>1, <1>2, <1>3 DEF AddressLess

\* The individual address of a telegram's source is that of the sender: the
\* number knxd gives has the parts it was made of (knxindinvidualaddress.cpp:14-91).
THEOREM IndividualRoundTrip ==
    \A i \in IndividualAddresses : IndividualAddress(GetIndividualEib(i)) = i
<1> TAKE i \in IndividualAddresses
<1> DEFINE e == GetIndividualEib(i)
           a == i.area
           l == i.line
           d == i.device
<1>1. /\ i = [area |-> a, line |-> l, device |-> d]
      /\ a \in Int /\ 0 <= a /\ a <= 15
      /\ l \in Int /\ 0 <= l /\ l <= 15
      /\ d \in Int /\ 0 <= d /\ d <= 255
  BY DEF IndividualAddresses
<1>2. e = (a % 16) * 4096 + (l % 16) * 256 + (d % 256)
  BY DEF GetIndividualEib
<1> HIDE DEF a, l, d, e
<1>3. a % 16 = a /\ l % 16 = l /\ d % 256 = d
  BY <1>1
<1>4. e = a * 4096 + l * 256 + d
  BY <1>2, <1>3
<1>5. e \div 4096 = a
  BY <1>1, <1>4
<1>6. (e \div 256) % 16 = l
  BY <1>1, <1>4
<1>7. e % 256 = d
  BY <1>1, <1>4
<1>8. IndividualAddress(e) = i
  BY <1>1, <1>3, <1>5, <1>6, <1>7 DEF IndividualAddress
<1> QED
  BY <1>8 DEF e

-----------------------------------------------------------------------------
(* Telegrams                                                               *)

LEMMA PayloadParts ==
    ASSUME NEW p \in Payloads
    PROVE  /\ p \in Seq(Octets)
           /\ Len(p) \in Int /\ 1 <= Len(p) /\ Len(p) <= 15
           /\ p[1] \in Int /\ 0 <= p[1] /\ p[1] <= 63
<1> DEFINE n == Len(p)
           h == p[1]
<1>1. p \in Seq(Octets) /\ n \in 1 .. 15 /\ h < 64
  BY DEF Payloads, MaxPayloadSize
<1> HIDE DEF n, h
<1>2. n \in Int /\ 1 <= n /\ n <= 15
  BY <1>1
<1>3. h \in Octets
  BY <1>1, <1>2 DEF n, h
<1>4. h \in Int /\ 0 <= h /\ h <= 63
  BY <1>1, <1>3 DEF Octets
<1> QED
  BY <1>1, <1>2, <1>4 DEF n, h

LEMMA TpduParts ==
    ASSUME NEW u \in Tpdus, IsData(u)
    PROVE  /\ u.type \in Int /\ 0 <= u.type /\ u.type <= 3 /\ u.type \in {UDP, NDP}
           /\ u.seq \in Int /\ 0 <= u.seq /\ u.seq <= 15
           /\ u.apci \in Int /\ 0 <= u.apci /\ u.apci <= 15
           /\ u.payload \in Payloads
           /\ u = Tpdu(u.type, u.seq, u.apci, u.control, u.payload)
BY DEF Tpdus, IsData, UDP, NDP, Tpdu

FirstOctet(u)  == (u.type * 64 + (u.seq % 16) * 4) + (u.apci \div 4)
SecondOctet(u) == (u.apci % 4) * 64 + (u.payload[1] % 64)

\* The two octets that hold the type, the sequence number, the APCI and six bits.
LEMMA TpduHeader ==
    ASSUME NEW u \in Tpdus, IsData(u), NEW x, x = FirstOctet(u), NEW y, y = SecondOctet(u)
    PROVE  /\ x \in Int /\ y \in Int
           /\ x \div 64 = u.type
           /\ (x \div 4) % 16 = u.seq
           /\ (x % 4) * 4 + (y \div 64) = u.apci
           /\ y % 64 = u.payload[1]
<1> DEFINE t == u.type
           s == u.seq
           a == u.apci
           b == u.payload[1]
           q == a \div 4
           r == a % 4
<1>0. /\ t \in Int /\ 0 <= t /\ t <= 3
      /\ s \in Int /\ 0 <= s /\ s <= 15
      /\ a \in Int /\ 0 <= a /\ a <= 15
      /\ b \in Int /\ 0 <= b /\ b <= 63
  BY TpduParts, PayloadParts
<1>1. x = (t * 64 + (s % 16) * 4) + q /\ y = r * 64 + (b % 64)
  BY DEF FirstOctet, SecondOctet
<1> HIDE DEF t, s, a, b
<1>2. /\ q \in Int /\ 0 <= q /\ q <= 3
      /\ r \in Int /\ 0 <= r /\ r <= 3
      /\ q * 4 + r = a
  BY <1>0
<1>3. s % 16 = s /\ b % 64 = b
  BY <1>0
<1> HIDE DEF q, r
<1>4. x = t * 64 + s * 4 + q /\ y = r * 64 + b
  BY <1>1, <1>3
<1>5. x \in Int /\ y \in Int
  BY <1>0, <1>2, <1>4
<1>6. x \div 64 = t
  BY <1>0, <1>2, <1>4
<1>7. (x \div 4) % 16 = s
  BY <1>0, <1>2, <1>4
<1>8. x % 4 = q /\ y \div 64 = r /\ y % 64 = b
  BY <1>0, <1>2, <1>4
<1>9. (x % 4) * 4 + (y \div 64) = a
  BY <1>2, <1>8
<1> QED
  BY <1>5, <1>6, <1>7, <1>8, <1>9 DEF t, s, a, b

\* The octets after the first, when the six bits are put back.
LEMMA TpduRest ==
    ASSUME NEW u \in Tpdus, IsData(u), NEW o, o = GetRaw(u)
    PROVE  /\ Len(o) = Len(u.payload) + 1
           /\ o[1] = FirstOctet(u) /\ o[2] = SecondOctet(u)
           /\ Len(Tail(o)) = Len(u.payload)
           /\ SixBits(Tail(o)) = u.payload
<1> DEFINE p == u.payload
           x == FirstOctet(u)
           y == SecondOctet(u)
<1>a. /\ p \in Seq(Octets) /\ Len(p) \in Int /\ 1 <= Len(p)
      /\ x \in Int /\ y \in Int /\ y % 64 = p[1]
  BY TpduParts, PayloadParts, TpduHeader
<1>b. o = <<x, y>> \o Tail(p)
  BY DEF GetRaw, FirstOctet, SecondOctet
<1> HIDE DEF p, x, y
<1>1. /\ Tail(p) \in Seq(Octets) /\ Len(Tail(p)) = Len(p) - 1
      /\ \A k \in 1 .. Len(p) - 1 : Tail(p)[k] = p[k + 1]
  BY <1>a
<1> DEFINE T == Octets \cup {x, y}
<1>2. Tail(p) \in Seq(T) /\ <<x, y>> \in Seq(T) /\ Len(<<x, y>>) = 2
  BY <1>a, <1>1
<1> HIDE DEF T
<1>3. o \in Seq(T) /\ Len(o) = Len(p) + 1
  BY <1>a, <1>b, <1>1, <1>2
<1>4. o[1] = x /\ o[2] = y
  BY <1>a, <1>b, <1>1, <1>2
<1>5. \A k \in 3 .. Len(p) + 1 : o[k] = p[k - 1]
  BY <1>a, <1>b, <1>1, <1>2
<1> DEFINE w == Tail(o)
<1>6. w \in Seq(T) /\ Len(w) = Len(p) /\ DOMAIN w = 1 .. Len(p)
  BY <1>a, <1>3
<1>7. \A k \in 1 .. Len(p) : w[k] = o[k + 1]
  BY <1>a, <1>3
<1> HIDE DEF w
<1>8. w[1] = y /\ \A k \in 2 .. Len(p) : w[k] = p[k]
  <2>1. w[1] = y
    BY <1>a, <1>4, <1>7
  <2>2. ASSUME NEW k \in 2 .. Len(p) PROVE w[k] = p[k]
    <3>1. k \in 1 .. Len(p) /\ k + 1 \in 3 .. Len(p) + 1 /\ (k + 1) - 1 = k
      BY <1>a
    <3>2. w[k] = o[k + 1] /\ o[k + 1] = p[(k + 1) - 1]
      BY <1>5, <1>7, <3>1
    <3> QED
      BY <3>1, <3>2
  <2> QED
    BY <2>1, <2>2
<1>9. SixBits(w) = [k \in 1 .. Len(p) |-> IF k = 1 THEN w[k] % 64 ELSE w[k]]
  BY <1>6 DEF SixBits
<1>10. \A k \in 1 .. Len(p) : (IF k = 1 THEN w[k] % 64 ELSE w[k]) = p[k]
  BY <1>a, <1>8
<1>11. p = [k \in 1 .. Len(p) |-> p[k]]
  BY <1>a
<1>12. SixBits(w) = p
  BY <1>9, <1>10, <1>11
<1> QED
  BY <1>3, <1>4, <1>6, <1>12 DEF w, p, x, y

\* The octets of a data telegram are read as the telegram: type, sequence number,
\* APCI and payload, whatever its length (knxtelegramtpdu.cpp:7-131).
THEOREM TpduRoundTrip == \A u \in Tpdus : IsData(u) /\ u.control = Connect => SetRaw(GetRaw(u)) = {u}
<1> SUFFICES ASSUME NEW u \in Tpdus, IsData(u), u.control = Connect
             PROVE  SetRaw(GetRaw(u)) = {u}
  OBVIOUS
<1> DEFINE o == GetRaw(u)
           x == FirstOctet(u)
           y == SecondOctet(u)
           n == Len(u.payload)
           v == Tpdu(u.type, u.seq, u.apci, Connect, <<0>>)
<1>1. n \in Int /\ 1 <= n /\ n <= 15
  BY TpduParts, PayloadParts
<1>2. Len(o) = n + 1 /\ o[1] = x /\ o[2] = y /\ Len(Tail(o)) = n /\ SixBits(Tail(o)) = u.payload
  BY TpduRest
<1>3. x \div 64 = u.type /\ (x \div 4) % 16 = u.seq /\ (x % 4) * 4 + (y \div 64) = u.apci
  BY TpduHeader
<1>4. u.type \in {UDP, NDP} /\ u = Tpdu(u.type, u.seq, u.apci, Connect, u.payload)
  BY TpduParts
<1>5. v.type = u.type /\ v.seq = u.seq /\ v.apci = u.apci /\ v.control = Connect
  BY DEF Tpdu
<1> HIDE DEF x, y, o, n
<1>6. SetRaw(o) = SetPayload(v, Tail(o))
  <2>1. Len(o) # 1
    BY <1>1, <1>2
  <2> QED
    BY <1>2, <1>3, <1>4, <2>1 DEF SetRaw
<1> HIDE DEF v
<1>7. n \in 1 .. MaxPayloadSize
  BY <1>1 DEF MaxPayloadSize
<1>8. SetPayload(v, Tail(o)) = {Tpdu(u.type, u.seq, u.apci, Connect, u.payload)}
  BY <1>2, <1>5, <1>7 DEF SetPayload
<1> QED
  BY <1>4, <1>6, <1>8 DEF o

-----------------------------------------------------------------------------
(* Frames                                                                  *)

LEMMA Powers ==
    /\ 2 ^ 0 = 1 /\ 2 ^ 1 = 2 /\ 2 ^ 2 = 4 /\ 2 ^ 3 = 8
    /\ 2 ^ 4 = 16 /\ 2 ^ 5 = 32 /\ 2 ^ 6 = 64 /\ 2 ^ 7 = 128
OBVIOUS

LEMMA PowerOfBit == ASSUME NEW i \in 0 .. 7 PROVE 2 ^ i \in {1, 2, 4, 8, 16, 32, 64, 128}
<1>1. i = 0 => 2 ^ i = 1
  OBVIOUS
<1>2. i = 1 => 2 ^ i = 2
  OBVIOUS
<1>3. i = 2 => 2 ^ i = 4
  OBVIOUS
<1>4. i = 3 => 2 ^ i = 8
  OBVIOUS
<1>5. i = 4 => 2 ^ i = 16
  OBVIOUS
<1>6. i = 5 => 2 ^ i = 32
  OBVIOUS
<1>7. i = 6 => 2 ^ i = 64
  OBVIOUS
<1>8. i = 7 => 2 ^ i = 128
  OBVIOUS
<1>9. i = 0 \/ i = 1 \/ i = 2 \/ i = 3 \/ i = 4 \/ i = 5 \/ i = 6 \/ i = 7
  OBVIOUS
<1> QED
  BY <1>1, <1>2, <1>3, <1>4, <1>5, <1>6, <1>7, <1>8, <1>9, Zenon

LEMMA BitType == ASSUME NEW n \in Int, NEW i \in 0 .. 7 PROVE Bit(n, i) \in BitSet
<1>1. \A p \in {1, 2, 4, 8, 16, 32, 64, 128} : (n \div p) % 2 \in {0, 1}
  OBVIOUS
<1> QED
  BY <1>1, PowerOfBit DEF Bit, BitSet

\* Whether the octets up to each of them have the bit an odd number of times.
Parities(f, o, i) ==
    /\ f \in [0 .. Len(o) -> BitSet]
    /\ f[0] = 0 /\ \A k \in 1 .. Len(o) : f[k] = (f[k - 1] + Bit(o[k], i)) % 2
    /\ Odd(o, i) = f[Len(o)]

LEMMA OddDef ==
    ASSUME NEW o \in Seq(Int), NEW i \in 0 .. 7
    PROVE  \E f : Parities(f, o, i)
<1> DEFINE n == Len(o)
           b(k) == Bit(o[k], i)
           step == [k \in 1 .. n |-> [v \in BitSet |-> (v + b(k)) % 2]]
           Def(v) == [k \in 0 .. n |-> IF k = 0 THEN 0 ELSE (v[k - 1] + b(k)) % 2]
           F == CHOOSE v : v = Def(v)
<1>1. n \in Nat /\ \A k \in 1 .. n : b(k) \in BitSet
  <2>1. n \in Nat /\ \A k \in 1 .. n : o[k] \in Int
    OBVIOUS
  <2> QED
    BY <2>1, BitType
<1>2. Odd(o, i) = F[n]
  BY DEF Odd
<1> HIDE DEF n, b
<1>3. step \in [1 .. n -> [BitSet -> BitSet]]
  BY <1>1 DEF BitSet
<1>4. PICK f : Steps(f, n, BitSet, 0, step)
  <2>1. 0 \in BitSet
    BY DEF BitSet
  <2> HIDE DEF step
  <2> QED
    BY <1>1, <1>3, <2>1, Recursion DEF Defined
<1>5. ASSUME NEW k \in 1 .. n PROVE f[k] = (f[k - 1] + b(k)) % 2
  <2>1. k - 1 \in 0 .. n
    BY <1>1
  <2>2. f[k - 1] \in BitSet
    BY <1>4, <2>1 DEF Steps
  <2> QED
    BY <1>4, <2>2 DEF Steps
<1>6. f \in [0 .. n -> BitSet] /\ f[0] = 0
  BY <1>4 DEF Steps
<1>7. f = Def(f)
  <2>1. \A k \in 0 .. n : f[k] = IF k = 0 THEN 0 ELSE (f[k - 1] + b(k)) % 2
    BY <1>1, <1>5, <1>6
  <2>2. f = [k \in 0 .. n |-> f[k]]
    BY <1>6
  <2> QED
    BY <2>1, <2>2
<1>8. F = Def(F)
  <2> HIDE DEF Def
  <2> QED
    BY <1>7
<1> HIDE DEF F
<1>9. F[0] = 0 /\ \A k \in 1 .. n : F[k] = (F[k - 1] + b(k)) % 2
  BY <1>1, <1>8
<1>10. F \in [0 .. n -> BitSet]
  <2> DEFINE T == {k \in 0 .. n : F[k] \in BitSet}
  <2>1. 0 \in T
    BY <1>1, <1>9 DEF BitSet
  <2>2. ASSUME NEW k \in 1 .. n, k - 1 \in T PROVE k \in T
    <3>1. F[k] = (F[k - 1] + b(k)) % 2 /\ F[k - 1] \in BitSet /\ b(k) \in BitSet /\ k \in 0 .. n
      BY <1>1, <1>9, <2>2
    <3> QED
      BY <3>1 DEF BitSet
  <2>3. 0 .. n \subseteq T
    <3> HIDE DEF T
    <3> QED
      BY <1>1, <2>1, <2>2, Upto
  <2>4. F = [k \in 0 .. n |-> F[k]]
    BY <1>8
  <2> QED
    BY <2>3, <2>4
<1>11. Parities(F, o, i)
  BY <1>2, <1>9, <1>10 DEF n, b, Parities
<1> QED
  BY <1>11

LEMMA OddType == ASSUME NEW o \in Seq(Int), NEW i \in 0 .. 7 PROVE Odd(o, i) \in BitSet
<1>1. PICK f : Parities(f, o, i)
  BY OddDef
<1>2. Len(o) \in 0 .. Len(o)
  OBVIOUS
<1> QED
  BY <1>1, <1>2 DEF Parities

LEMMA OddAppend ==
    ASSUME NEW o \in Seq(Int), NEW c \in Int, NEW i \in 0 .. 7
    PROVE  Odd(Append(o, c), i) = (Odd(o, i) + Bit(c, i)) % 2
<1> DEFINE n == Len(o)
           q == Append(o, c)
<1>1. q \in Seq(Int) /\ n \in Nat /\ Len(q) = n + 1 /\ q[n + 1] = c /\ \A k \in 1 .. n : q[k] = o[k]
  OBVIOUS
<1>2. PICK f : Parities(f, o, i)
  BY OddDef
<1> HIDE DEF q
<1>3. PICK g : Parities(g, q, i)
  BY <1>1, OddDef
<1>4. /\ f[0] = 0 /\ (\A k \in 1 .. n : f[k] = (f[k - 1] + Bit(o[k], i)) % 2) /\ Odd(o, i) = f[n]
      /\ g[0] = 0 /\ (\A k \in 1 .. n + 1 : g[k] = (g[k - 1] + Bit(q[k], i)) % 2) /\ Odd(q, i) = g[n + 1]
  BY <1>1, <1>2, <1>3 DEF Parities
<1> HIDE DEF n
<1> DEFINE T == {k \in 0 .. n : f[k] = g[k]}
<1>5. 0 \in T
  BY <1>1, <1>4
<1>6. ASSUME NEW k \in 1 .. n, k - 1 \in T PROVE k \in T
  <2>1. k \in 1 .. n + 1 /\ q[k] = o[k] /\ k \in 0 .. n
    BY <1>1
  <2>2. f[k - 1] = g[k - 1]
    BY <1>6
  <2> QED
    BY <1>4, <2>1, <2>2
<1> HIDE DEF T
<1>7. 0 .. n \subseteq T
  BY <1>1, <1>5, <1>6, Upto
<1>8. f[n] = g[n]
  BY <1>1, <1>7 DEF T
<1>9. g[n + 1] = (g[n] + Bit(q[n + 1], i)) % 2
  <2>1. n + 1 \in 1 .. n + 1 /\ (n + 1) - 1 = n
    BY <1>1
  <2> QED
    BY <1>4, <2>1
<1> QED
  BY <1>1, <1>4, <1>8, <1>9 DEF q

\* When one octet changes, the parity of a bit changes if the bit does.
LEMMA OddChanged ==
    ASSUME NEW o \in Seq(Int), NEW j \in DOMAIN o, NEW c \in Int, NEW i \in 0 .. 7
    PROVE  Odd([o EXCEPT ![j] = c], i) = (Odd(o, i) + Bit(o[j], i) + Bit(c, i)) % 2
<1> DEFINE n == Len(o)
           q == [o EXCEPT ![j] = c]
<1>1. /\ q \in Seq(Int) /\ n \in Nat /\ Len(q) = n /\ j \in 1 .. n
      /\ q[j] = c /\ \A k \in 1 .. n : o[k] \in Int /\ (k # j => q[k] = o[k])
  OBVIOUS
<1>2. PICK f : Parities(f, o, i)
  BY OddDef
<1> HIDE DEF q
<1>3. PICK g : Parities(g, q, i)
  BY <1>1, OddDef
<1>4. /\ f[0] = 0 /\ (\A k \in 1 .. n : f[k] = (f[k - 1] + Bit(o[k], i)) % 2) /\ Odd(o, i) = f[n]
      /\ g[0] = 0 /\ (\A k \in 1 .. n : g[k] = (g[k - 1] + Bit(q[k], i)) % 2) /\ Odd(q, i) = g[n]
      /\ f \in [0 .. n -> BitSet] /\ g \in [0 .. n -> BitSet]
  BY <1>1, <1>2, <1>3 DEF Parities
<1> DEFINE x == Bit(o[j], i)
           y == Bit(c, i)
<1>5. x \in BitSet /\ y \in BitSet
  BY <1>1, BitType
<1> HIDE DEF n, x, y
<1> DEFINE T == {k \in 0 .. n : g[k] = IF k < j THEN f[k] ELSE (f[k] + x + y) % 2}
<1>6. 0 \in T
  BY <1>1, <1>4
<1>7. ASSUME NEW k \in 1 .. n, k - 1 \in T PROVE k \in T
  <2>1. k \in 0 .. n /\ k - 1 \in 0 .. n
    BY <1>1
  <2>2. f[k - 1] \in {0, 1} /\ x \in {0, 1} /\ y \in {0, 1}
    BY <1>4, <1>5, <2>1 DEF BitSet
  <2>3. g[k - 1] = IF k - 1 < j THEN f[k - 1] ELSE (f[k - 1] + x + y) % 2
    BY <1>7
  <2>4. f[k] = (f[k - 1] + Bit(o[k], i)) % 2 /\ g[k] = (g[k - 1] + Bit(q[k], i)) % 2
    BY <1>4
  <2>5. CASE k < j
    <3>1. g[k - 1] = f[k - 1] /\ q[k] = o[k]
      BY <1>1, <2>3, <2>5
    <3> QED
      BY <2>1, <2>4, <2>5, <3>1
  <2>6. CASE k = j
    <3>1. g[k - 1] = f[k - 1] /\ ~ (k < j)
      BY <1>1, <2>3, <2>6
    <3>2. f[k] = (f[k - 1] + x) % 2 /\ g[k] = (f[k - 1] + y) % 2
      BY <1>1, <2>4, <2>6, <3>1 DEF x, y
    <3>3. g[k] = (f[k] + x + y) % 2
      BY <2>2, <3>2
    <3> QED
      BY <2>1, <3>1, <3>3
  <2>7. CASE k > j
    <3>1. g[k - 1] = (f[k - 1] + x + y) % 2 /\ q[k] = o[k] /\ ~ (k < j)
      BY <1>1, <2>3, <2>7
    <3>2. Bit(o[k], i) \in {0, 1}
      BY <1>1, BitType DEF BitSet
    <3>3. g[k] = (f[k] + x + y) % 2
      BY <2>2, <2>4, <3>1, <3>2
    <3> QED
      BY <2>1, <3>1, <3>3
  <2> QED
    BY <1>1, <2>5, <2>6, <2>7
<1> HIDE DEF T
<1>8. 0 .. n \subseteq T
  BY <1>1, <1>6, <1>7, Upto
<1>9. g[n] = (f[n] + x + y) % 2
  <2>1. n \in T /\ ~ (n < j)
    BY <1>1, <1>8
  <2> QED
    BY <2>1 DEF T
<1> QED
  BY <1>4, <1>9 DEF q, x, y

EightSum(y0, y1, y2, y3, y4, y5, y6, y7) ==
    y0 + 2 * y1 + 4 * y2 + 8 * y3 + 16 * y4 + 32 * y5 + 64 * y6 + 128 * y7
EightOf(y0, y1, y2, y3, y4, y5, y6, y7) ==
    /\ y0 \in BitSet /\ y1 \in BitSet /\ y2 \in BitSet /\ y3 \in BitSet
    /\ y4 \in BitSet /\ y5 \in BitSet /\ y6 \in BitSet /\ y7 \in BitSet
Sums(c, y0, y1, y2, y3, y4, y5, y6, y7) ==
    /\ EightOf(y0, y1, y2, y3, y4, y5, y6, y7)
    /\ c = EightSum(y0, y1, y2, y3, y4, y5, y6, y7)

\* A number of eight bits has them.
LEMMA BitsOfOctet ==
    ASSUME NEW c, NEW y0, NEW y1, NEW y2, NEW y3, NEW y4, NEW y5, NEW y6, NEW y7,
           Sums(c, y0, y1, y2, y3, y4, y5, y6, y7)
    PROVE  /\ Bit(c, 0) = y0 /\ Bit(c, 1) = y1 /\ Bit(c, 2) = y2 /\ Bit(c, 3) = y3
           /\ Bit(c, 4) = y4 /\ Bit(c, 5) = y5 /\ Bit(c, 6) = y6 /\ Bit(c, 7) = y7
<1>1. /\ y0 \in 0 .. 1 /\ y1 \in 0 .. 1 /\ y2 \in 0 .. 1 /\ y3 \in 0 .. 1
      /\ y4 \in 0 .. 1 /\ y5 \in 0 .. 1 /\ y6 \in 0 .. 1 /\ y7 \in 0 .. 1
  BY DEF Sums, EightOf, BitSet
<1>0. c = y0 + 2 * y1 + 4 * y2 + 8 * y3 + 16 * y4 + 32 * y5 + 64 * y6 + 128 * y7
  BY DEF Sums, EightSum
<1>2. /\ Bit(c, 0) = (c \div 1) % 2 /\ Bit(c, 1) = (c \div 2) % 2 /\ Bit(c, 2) = (c \div 4) % 2
      /\ Bit(c, 3) = (c \div 8) % 2 /\ Bit(c, 4) = (c \div 16) % 2 /\ Bit(c, 5) = (c \div 32) % 2
      /\ Bit(c, 6) = (c \div 64) % 2 /\ Bit(c, 7) = (c \div 128) % 2
  BY Powers DEF Bit
<1>3. c \div 1 = c
  BY <1>0, <1>1
<1>4. c \div 2 = y1 + 2 * y2 + 4 * y3 + 8 * y4 + 16 * y5 + 32 * y6 + 64 * y7
  BY <1>0, <1>1
<1>5. c \div 4 = y2 + 2 * y3 + 4 * y4 + 8 * y5 + 16 * y6 + 32 * y7
  BY <1>0, <1>1
<1>6. c \div 8 = y3 + 2 * y4 + 4 * y5 + 8 * y6 + 16 * y7
  BY <1>0, <1>1
<1>7. c \div 16 = y4 + 2 * y5 + 4 * y6 + 8 * y7
  BY <1>0, <1>1
<1>8. c \div 32 = y5 + 2 * y6 + 4 * y7
  BY <1>0, <1>1
<1>9. c \div 64 = y6 + 2 * y7
  BY <1>0, <1>1
<1>10. c \div 128 = y7
  BY <1>0, <1>1
<1>11. (c \div 1) % 2 = y0 /\ (c \div 2) % 2 = y1
  <2>1. c % 2 = y0
    BY <1>0, <1>1
  <2>2. (c \div 2) % 2 = y1
    BY <1>1, <1>4
  <2> QED
    BY <1>3, <2>1, <2>2
<1>12. (c \div 4) % 2 = y2 /\ (c \div 8) % 2 = y3
  BY <1>1, <1>5, <1>6
<1>13. (c \div 16) % 2 = y4 /\ (c \div 32) % 2 = y5 /\ (c \div 64) % 2 = y6 /\ (c \div 128) % 2 = y7
  BY <1>1, <1>7, <1>8, <1>9, <1>10
<1> QED
  BY <1>2, <1>11, <1>12, <1>13

\* Its complement to 255.
LEMMA ParitySum ==
    ASSUME NEW c, NEW x0, NEW x1, NEW x2, NEW x3, NEW x4, NEW x5, NEW x6, NEW x7,
           EightOf(x0, x1, x2, x3, x4, x5, x6, x7),
           c = 255 - EightSum(x0, x1, x2, x3, x4, x5, x6, x7)
    PROVE  /\ c \in 0 .. 255
           /\ c = 0 <=> /\ x0 = 1 /\ x1 = 1 /\ x2 = 1 /\ x3 = 1 /\ x4 = 1 /\ x5 = 1 /\ x6 = 1 /\ x7 = 1
           /\ Bit(c, 0) = 1 - x0 /\ Bit(c, 1) = 1 - x1 /\ Bit(c, 2) = 1 - x2 /\ Bit(c, 3) = 1 - x3
           /\ Bit(c, 4) = 1 - x4 /\ Bit(c, 5) = 1 - x5 /\ Bit(c, 6) = 1 - x6 /\ Bit(c, 7) = 1 - x7
<1>1. /\ x0 \in 0 .. 1 /\ x1 \in 0 .. 1 /\ x2 \in 0 .. 1 /\ x3 \in 0 .. 1
      /\ x4 \in 0 .. 1 /\ x5 \in 0 .. 1 /\ x6 \in 0 .. 1 /\ x7 \in 0 .. 1
  BY DEF EightOf, BitSet
<1>2. /\ 1 - x0 \in BitSet /\ 1 - x1 \in BitSet /\ 1 - x2 \in BitSet /\ 1 - x3 \in BitSet
      /\ 1 - x4 \in BitSet /\ 1 - x5 \in BitSet /\ 1 - x6 \in BitSet /\ 1 - x7 \in BitSet
  BY DEF EightOf, BitSet
<1>3. c \in 0 .. 255
  BY <1>1 DEF EightSum
<1>4. c = 0 <=> /\ x0 = 1 /\ x1 = 1 /\ x2 = 1 /\ x3 = 1 /\ x4 = 1 /\ x5 = 1 /\ x6 = 1 /\ x7 = 1
  BY <1>1 DEF EightSum
<1> DEFINE y0 == 1 - x0
           y1 == 1 - x1
           y2 == 1 - x2
           y3 == 1 - x3
           y4 == 1 - x4
           y5 == 1 - x5
           y6 == 1 - x6
           y7 == 1 - x7
<1>5. c = EightSum(y0, y1, y2, y3, y4, y5, y6, y7)
  BY <1>1 DEF EightSum
<1>6. Sums(c, y0, y1, y2, y3, y4, y5, y6, y7)
  BY <1>2, <1>5 DEF Sums, EightOf
<1> HIDE DEF y0, y1, y2, y3, y4, y5, y6, y7
<1>7. /\ Bit(c, 0) = y0 /\ Bit(c, 1) = y1 /\ Bit(c, 2) = y2 /\ Bit(c, 3) = y3
      /\ Bit(c, 4) = y4 /\ Bit(c, 5) = y5 /\ Bit(c, 6) = y6 /\ Bit(c, 7) = y7
  BY <1>6, BitsOfOctet
<1> QED
  BY <1>3, <1>4, <1>7 DEF y0, y1, y2, y3, y4, y5, y6, y7

LEMMA EightBitNumbers == \A i \in 0 .. 7 : i \in {0, 1, 2, 3, 4, 5, 6, 7}
OBVIOUS

\* The parity octet has the bits that the others have an even number of times, and
\* it is zero when there are none.
LEMMA ParityBits ==
    ASSUME NEW o \in Seq(Int)
    PROVE  /\ CalculateParity(o) \in 0 .. 255
           /\ \A i \in 0 .. 7 : Bit(CalculateParity(o), i) = 1 - Odd(o, i)
           /\ CalculateParity(o) = 0 <=> \A i \in 0 .. 7 : Odd(o, i) = 1
<1> DEFINE x(i) == Odd(o, i)
           c == CalculateParity(o)
<1>1. \A i \in 0 .. 7 : x(i) \in BitSet
  BY OddType
<1>2. EightOf(x(0), x(1), x(2), x(3), x(4), x(5), x(6), x(7))
  BY <1>1 DEF EightOf
<1>3. c = 255 - EightSum(x(0), x(1), x(2), x(3), x(4), x(5), x(6), x(7))
  BY DEF CalculateParity, Xor, EightSum
<1> HIDE DEF x, c
<1>5. /\ c \in 0 .. 255
      /\ c = 0 <=> /\ x(0) = 1 /\ x(1) = 1 /\ x(2) = 1 /\ x(3) = 1
                   /\ x(4) = 1 /\ x(5) = 1 /\ x(6) = 1 /\ x(7) = 1
      /\ Bit(c, 0) = 1 - x(0) /\ Bit(c, 1) = 1 - x(1) /\ Bit(c, 2) = 1 - x(2) /\ Bit(c, 3) = 1 - x(3)
      /\ Bit(c, 4) = 1 - x(4) /\ Bit(c, 5) = 1 - x(5) /\ Bit(c, 6) = 1 - x(6) /\ Bit(c, 7) = 1 - x(7)
  BY <1>2, <1>3, ParitySum
<1>6. 0 \in 0 .. 7 /\ 1 \in 0 .. 7 /\ 2 \in 0 .. 7 /\ 3 \in 0 .. 7 /\ 4 \in 0 .. 7 /\ 5 \in 0 .. 7
      /\ 6 \in 0 .. 7 /\ 7 \in 0 .. 7
  OBVIOUS
<1>7. \A i \in 0 .. 7 : Bit(c, i) = 1 - x(i)
  BY <1>5, EightBitNumbers, Zenon
<1>8. (\A i \in 0 .. 7 : x(i) = 1) <=>
           x(0) = 1 /\ x(1) = 1 /\ x(2) = 1 /\ x(3) = 1 /\ x(4) = 1 /\ x(5) = 1 /\ x(6) = 1 /\ x(7) = 1
  BY <1>6, EightBitNumbers, Zenon
<1> QED
  BY <1>5, <1>7, <1>8 DEF c, x

\* One wrong bit, in whatever octet, makes the parity wrong.
LEMMA FlipChanges ==
    ASSUME NEW n \in Int, NEW i \in 0 .. 7
    PROVE  LET c == IF Bit(n, i) = 1 THEN n - 2 ^ i ELSE n + 2 ^ i
           IN  c \in Int /\ Bit(c, i) = 1 - Bit(n, i)
<1> DEFINE p == 2 ^ i
           c == IF Bit(n, i) = 1 THEN n - p ELSE n + p
<1>1. p \in {1, 2, 4, 8, 16, 32, 64, 128}
  BY PowerOfBit
<1>2. Bit(n, i) = (n \div p) % 2 /\ Bit(c, i) = (c \div p) % 2
  BY DEF Bit
<1> HIDE DEF p
<1>3. p \in Int /\ c \in Int
  BY <1>1
<1>4. (n - p) \div p = (n \div p) - 1 /\ (n + p) \div p = (n \div p) + 1 /\ n \div p \in Int
  BY <1>1
<1>5. \A m \in Int : (m % 2 = 1 => (m - 1) % 2 = 1 - (m % 2)) /\ (m % 2 # 1 => (m + 1) % 2 = 1 - (m % 2))
  OBVIOUS
<1>6. Bit(c, i) = 1 - Bit(n, i)
  <2>1. CASE Bit(n, i) = 1
    BY <1>2, <1>4, <1>5, <2>1
  <2>2. CASE Bit(n, i) # 1
    BY <1>2, <1>4, <1>5, <2>2
  <2> QED
    BY <2>1, <2>2
<1> QED
  BY <1>3, <1>6 DEF p

\* The octets of a telegram before its parity, named.
ControlOctet(t) == 128 + (IF t.repeated THEN 0 ELSE 32) + 16 + (t.priority % 4) * 4
NpduOctet(t) == (IF t.group THEN 128 ELSE 0) + (t.routing % 8) * 16 + Len(t.tpdu.payload)
FrameHeader(t) ==
    <<ControlOctet(t), t.src \div 256, t.src % 256, t.dst \div 256, t.dst % 256, NpduOctet(t)>>

LEMMA TelegramParts ==
    ASSUME NEW t \in Telegrams
    PROVE  /\ t.repeated \in BOOLEAN /\ t.group \in BOOLEAN /\ t.src \in Int /\ t.dst \in Int
           /\ t.priority \in Int /\ 0 <= t.priority /\ t.priority <= 3
           /\ t.routing \in Int /\ 0 <= t.routing /\ t.routing <= 7
           /\ t.tpdu \in Tpdus /\ t.tpdu.payload \in Payloads
           /\ Len(t.tpdu.payload) \in Int /\ 1 <= Len(t.tpdu.payload) /\ Len(t.tpdu.payload) <= 15
           /\ t = [repeated |-> t.repeated, priority |-> t.priority, src |-> t.src, dst |-> t.dst,
                   group |-> t.group, routing |-> t.routing, tpdu |-> t.tpdu]
<1>1. /\ t.repeated \in BOOLEAN /\ t.group \in BOOLEAN /\ t.priority \in 0 .. 3 /\ t.routing \in 0 .. 7
      /\ t.src \in EibAddresses /\ t.dst \in EibAddresses /\ t.tpdu \in Tpdus
      /\ t = [repeated |-> t.repeated, priority |-> t.priority, src |-> t.src, dst |-> t.dst,
              group |-> t.group, routing |-> t.routing, tpdu |-> t.tpdu]
  BY DEF Telegrams
<1>2. t.tpdu.payload \in Payloads
  BY <1>1 DEF Tpdus
<1>3. Len(t.tpdu.payload) \in Int /\ 1 <= Len(t.tpdu.payload) /\ Len(t.tpdu.payload) <= 15
  BY <1>2, PayloadParts
<1>4. t.src \in Int /\ t.dst \in Int
  <2>1. \A e \in EibAddresses : e \in Int
    BY EibRange
  <2> QED
    BY <1>1, <2>1
<1>5. t.priority \in Int /\ 0 <= t.priority /\ t.priority <= 3 /\ t.routing \in Int /\ 0 <= t.routing /\ t.routing <= 7
  BY <1>1
<1> QED
  BY <1>1, <1>2, <1>3, <1>4, <1>5

\* What the octets of the header say again.
LEMMA HeaderRead ==
    ASSUME NEW t \in Telegrams
    PROVE  LET c == ControlOctet(t)
               p == NpduOctet(t)
           IN  /\ c \in Int /\ p \in Int
               /\ FixedControlBits(c) = 144
               /\ Bit(c, 5) = 0 <=> t.repeated
               /\ (c \div 4) % 4 = t.priority
               /\ p % 16 = Len(t.tpdu.payload)
               /\ Bit(p, 7) = 1 <=> t.group
               /\ (p % 128) \div 16 = t.routing
               /\ (t.src \div 256) * 256 + (t.src % 256) = t.src
               /\ (t.dst \div 256) * 256 + (t.dst % 256) = t.dst
<1> DEFINE c == ControlOctet(t)
           p == NpduOctet(t)
           w == t.priority
           r == t.routing
           n == Len(t.tpdu.payload)
           a == t.src
           b == t.dst
<1>1. /\ t.repeated \in BOOLEAN /\ t.group \in BOOLEAN
      /\ w \in Int /\ 0 <= w /\ w <= 3 /\ r \in Int /\ 0 <= r /\ r <= 7
      /\ n \in Int /\ 1 <= n /\ n <= 15
      /\ a \in Int /\ b \in Int
  BY TelegramParts
<1>2. /\ c = 128 + (IF t.repeated THEN 0 ELSE 32) + 16 + (w % 4) * 4
      /\ p = (IF t.group THEN 128 ELSE 0) + (r % 8) * 16 + n
  BY DEF ControlOctet, NpduOctet
<1>3. /\ Bit(c, 5) = (c \div 32) % 2 /\ Bit(p, 7) = (p \div 128) % 2
      /\ FixedControlBits(c) = c - Bit(c, 5) * 32 - ((c \div 4) % 4) * 4
  BY Powers DEF Bit, FixedControlBits
<1> HIDE DEF c, p, w, r, n, a, b
<1>4. w % 4 = w /\ r % 8 = r
  BY <1>1
<1>5. /\ c \in Int /\ (c \div 4) % 4 = w
      /\ c = 144 + ((c \div 32) % 2) * 32 + w * 4
      /\ (c \div 32) % 2 = 0 <=> t.repeated
  <2>1. CASE t.repeated
    <3>1. c = 144 + w * 4
      BY <1>1, <1>2, <1>4, <2>1
    <3> QED
      BY <1>1, <2>1, <3>1
  <2>2. CASE ~ t.repeated
    <3>1. c = 176 + w * 4
      BY <1>1, <1>2, <1>4, <2>2
    <3> QED
      BY <1>1, <2>2, <3>1
  <2> QED
    BY <2>1, <2>2
<1>6. /\ p \in Int /\ p % 16 = n /\ (p % 128) \div 16 = r
      /\ (p \div 128) % 2 = 1 <=> t.group
  <2>1. CASE t.group
    <3>1. p = 128 + r * 16 + n
      BY <1>1, <1>2, <1>4, <2>1
    <3> QED
      BY <1>1, <2>1, <3>1
  <2>2. CASE ~ t.group
    <3>1. p = r * 16 + n
      BY <1>1, <1>2, <1>4, <2>2
    <3> QED
      BY <1>1, <2>2, <3>1
  <2> QED
    BY <2>1, <2>2
<1>7. FixedControlBits(c) = 144
  BY <1>1, <1>3, <1>5
<1>8. (a \div 256) * 256 + (a % 256) = a /\ (b \div 256) * 256 + (b % 256) = b
  BY <1>1
<1> QED
  BY <1>3, <1>5, <1>6, <1>7, <1>8 DEF c, p, w, r, n, a, b

\* What knxd is given are octets.
LEMMA RawType ==
    ASSUME NEW u \in Tpdus
    PROVE  /\ GetRaw(u) \in Seq(Octets) /\ Len(GetRaw(u)) >= 1
           /\ ~ IsData(u) => Len(GetRaw(u)) = 1
<1> DEFINE ty == u.type
           se == u.seq
           ap == u.apci
           co == u.control
           pa == u.payload
           h == pa[1]
           first == ty * 64 + (se % 16) * 4
           x == first + (ap \div 4)
           y == (ap % 4) * 64 + (h % 64)
           z == first + co
<1>1. /\ ty \in 0 .. 3 /\ se \in 0 .. 15 /\ ap \in 0 .. 15 /\ co \in 0 .. 3 /\ pa \in Payloads
  BY DEF Tpdus
<1>2. pa \in Seq(Octets) /\ Len(pa) >= 1 /\ h \in Int
  BY <1>1, PayloadParts
<1>3. GetRaw(u) = IF IsData(u) THEN <<x, y>> \o Tail(pa) ELSE <<z>>
  BY DEF GetRaw
<1> HIDE DEF ty, se, ap, co, pa, h
<1>4. first \in 0 .. 252
  <2>1. se % 16 = se
    BY <1>1
  <2> QED
    BY <1>1, <2>1
<1> HIDE DEF first
<1>5. x \in 0 .. 255 /\ y \in 0 .. 255 /\ z \in 0 .. 255
  <2>1. ap \div 4 \in 0 .. 3 /\ ap % 4 \in 0 .. 3 /\ h % 64 \in 0 .. 63
    BY <1>1, <1>2
  <2> QED
    BY <1>1, <1>4, <2>1
<1> HIDE DEF x, y, z
<1>6. <<x, y>> \in Seq(Octets) /\ Len(<<x, y>>) = 2 /\ <<z>> \in Seq(Octets) /\ Len(<<z>>) = 1
  BY <1>5 DEF Octets
<1>7. Tail(pa) \in Seq(Octets)
  BY <1>2
<1>8. <<x, y>> \o Tail(pa) \in Seq(Octets) /\ Len(<<x, y>> \o Tail(pa)) >= 1
  BY <1>6, <1>7
<1> QED
  BY <1>3, <1>6, <1>8

\* The frame around them.
LEMMA FrameParts ==
    ASSUME NEW t \in Telegrams
    PROVE  LET o == GetRawTelegram(t)
               r == GetRaw(t.tpdu)
           IN  /\ o \in Seq(Int) /\ Len(o) = Len(r) + 7
               /\ o[1] = ControlOctet(t) /\ o[6] = NpduOctet(t)
               /\ o[2] = t.src \div 256 /\ o[3] = t.src % 256
               /\ o[4] = t.dst \div 256 /\ o[5] = t.dst % 256
               /\ SubSeq(o, 7, Len(o) - 1) = r
               /\ CalculateParity(o) = 0
<1> DEFINE r == GetRaw(t.tpdu)
           h == FrameHeader(t)
           q == h \o r
           o == Append(q, CalculateParity(q))
           n == Len(r)
<1>1. r \in Seq(Int) /\ n \in Nat
  <2>1. r \in Seq(Octets)
    BY TelegramParts, RawType
  <2>2. Octets \subseteq Int
    BY DEF Octets
  <2> HIDE DEF r
  <2>3. r \in Seq(Int)
    BY <2>1, <2>2, SeqWiden
  <2> QED
    BY <2>3
<1>2. /\ h \in Seq(Int) /\ Len(h) = 6
      /\ h[1] = ControlOctet(t) /\ h[6] = NpduOctet(t)
      /\ h[2] = t.src \div 256 /\ h[3] = t.src % 256
      /\ h[4] = t.dst \div 256 /\ h[5] = t.dst % 256
  <2>1. /\ ControlOctet(t) \in Int /\ NpduOctet(t) \in Int
        /\ t.src \div 256 \in Int /\ t.src % 256 \in Int /\ t.dst \div 256 \in Int /\ t.dst % 256 \in Int
    <3>1. \A m \in Int : m \div 256 \in Int /\ m % 256 \in Int
      OBVIOUS
    <3>2. t.src \in Int /\ t.dst \in Int
      BY TelegramParts
    <3>3. ControlOctet(t) \in Int /\ NpduOctet(t) \in Int
      BY HeaderRead
    <3> QED
      BY <3>1, <3>2, <3>3, Zenon
  <2> QED
    BY <2>1 DEF FrameHeader
<1>3. GetRawTelegram(t) = o
  BY DEF GetRawTelegram, FrameHeader, ControlOctet, NpduOctet
<1> HIDE DEF r, h
<1>4. /\ q \in Seq(Int) /\ Len(q) = n + 6
      /\ \A k \in 1 .. 6 : q[k] = h[k]
      /\ \A k \in 1 .. n : q[k + 6] = r[k]
  <2>1. h \in Seq(Int) /\ Len(h) = 6
    BY <1>2
  <2>0. r \in Seq(Int)
    BY <1>1
  <2> HIDE DEF n
  <2>a. Joined(h, r, Int)
    BY <2>0, <2>1, Concatenated
  <2> HIDE DEF q
  <2>2. /\ q \in Seq(Int) /\ Len(q) = 6 + n
        /\ \A k \in 1 .. 6 : q[k] = h[k]
        /\ \A k \in 1 .. n : q[6 + k] = r[k]
    BY <2>1, <2>a DEF Joined, q, n
  <2> HIDE DEF q, n
  <2>3. 6 + n = n + 6 /\ \A k \in 1 .. n : 6 + k = k + 6
    BY <1>1
  <2> QED
    BY <2>2, <2>3
<1> HIDE DEF q
<1>5. CalculateParity(q) \in Int
  <2>1. q \in Seq(Int)
    BY <1>4
  <2>2. CalculateParity(q) \in 0 .. 255
    BY <2>1, ParityBits
  <2> QED
    BY <2>2
<1>6. /\ o \in Seq(Int) /\ Len(o) = n + 7
      /\ \A k \in 1 .. n + 6 : o[k] = q[k]
  BY <1>1, <1>4, <1>5
<1>7. CalculateParity(o) = 0
  <2>1. ASSUME NEW i \in 0 .. 7 PROVE Odd(o, i) = 1
    <3>1. Odd(o, i) = (Odd(q, i) + Bit(CalculateParity(q), i)) % 2
      BY <1>4, <1>5, OddAppend
    <3>2. Bit(CalculateParity(q), i) = 1 - Odd(q, i)
      BY <1>4, ParityBits
    <3>3. Odd(q, i) \in 0 .. 1
      BY <1>4, OddType DEF BitSet
    <3> QED
      BY <3>1, <3>2, <3>3
  <2> HIDE DEF o
  <2> QED
    BY <1>6, <2>1, ParityBits
<1> HIDE DEF o
<1>8. SubSeq(o, 7, Len(o) - 1) = r
  <2> DEFINE w == SubSeq(o, 7, Len(o) - 1)
  <2>1. w \in Seq(Int) /\ Len(w) = n /\ \A k \in 1 .. n : w[k] = o[k + 6]
    BY <1>1, <1>6
  <2>2. \A k \in 1 .. n : o[k + 6] = r[k]
    <3> TAKE k \in 1 .. n
    <3>1. k + 6 \in 1 .. n + 6
      BY <1>1
    <3> QED
      BY <1>4, <1>6, <3>1
  <2> HIDE DEF w
  <2>3. \A k \in 1 .. n : w[k] = r[k]
    BY <2>1, <2>2
  <2>4. r = [k \in 1 .. n |-> r[k]] /\ w = [k \in 1 .. n |-> w[k]]
    BY <1>1, <2>1
  <2>5. w = r
    BY <2>3, <2>4
  <2> QED
    BY <2>5 DEF w
<1>9. \A k \in 1 .. 6 : o[k] = h[k]
  <2>1. \A k \in 1 .. 6 : k \in 1 .. n + 6
    BY <1>1
  <2> QED
    BY <1>4, <1>6, <2>1
<1>10. /\ o[1] = h[1] /\ o[2] = h[2] /\ o[3] = h[3] /\ o[4] = h[4] /\ o[5] = h[5] /\ o[6] = h[6]
  BY <1>9
<1> QED
  BY <1>2, <1>3, <1>6, <1>7, <1>8, <1>10 DEF r

\* The frame of a telegram that carries data is read as that telegram
\* (knxtelegram.cpp:37-154).
THEOREM FrameRoundTrip ==
    ASSUME NEW t \in Telegrams, IsData(t.tpdu), t.tpdu.control = Connect
    PROVE  SetRawTelegram(GetRawTelegram(t)) = {t}
<1> DEFINE o == GetRawTelegram(t)
           r == GetRaw(t.tpdu)
           p == t.tpdu.payload
<1>1. /\ o \in Seq(Int) /\ Len(o) = Len(r) + 7
      /\ o[1] = ControlOctet(t) /\ o[6] = NpduOctet(t)
      /\ o[2] = t.src \div 256 /\ o[3] = t.src % 256
      /\ o[4] = t.dst \div 256 /\ o[5] = t.dst % 256
      /\ SubSeq(o, 7, Len(o) - 1) = r
      /\ CalculateParity(o) = 0
  BY FrameParts
<1>2. t.tpdu \in Tpdus /\ Len(p) \in Int /\ 1 <= Len(p) /\ Len(p) <= 15
  BY TelegramParts
<1>3. o[6] % 16 = Len(p)
  BY <1>1, HeaderRead
<1> HIDE DEF o, r, p
<1>4. Len(r) = Len(p) + 1
  BY <1>2, TpduRest DEF r, p
<1> DEFINE l == Len(o)
           n == Len(p)
           e == o[6] % 16
<1>a. l = Len(r) + 7 /\ Len(r) = n + 1 /\ n \in Int /\ 1 <= n /\ n <= 15 /\ e = n
  BY <1>1, <1>2, <1>3, <1>4
<1> HIDE DEF l, n, e
<1>b. l \in 8 .. 8 + 15 /\ l = 8 + e
  BY <1>a
<1>5. Len(o) \in 8 .. 8 + 15 /\ Len(o) = 8 + (o[6] % 16)
  BY <1>b DEF l, e
<1>6. SetRaw(r) = {t.tpdu}
  BY <1>2, TpduRoundTrip DEF r
<1>7. /\ FixedControlBits(o[1]) = 128 + 16
      /\ (Bit(o[1], 5) = 0) = t.repeated
      /\ (o[1] \div 4) % 4 = t.priority
      /\ o[2] * 256 + o[3] = t.src /\ o[4] * 256 + o[5] = t.dst
      /\ (Bit(o[6], 7) = 1) = t.group
      /\ (o[6] % 128) \div 16 = t.routing
  <2>1. t.repeated \in BOOLEAN /\ t.group \in BOOLEAN
    BY TelegramParts
  <2>2. FixedControlBits(o[1]) = 144 /\ (Bit(o[1], 5) = 0 <=> t.repeated) /\ (Bit(o[6], 7) = 1 <=> t.group)
    BY <1>1, HeaderRead
  <2>3. /\ (o[1] \div 4) % 4 = t.priority
        /\ o[2] * 256 + o[3] = t.src /\ o[4] * 256 + o[5] = t.dst
        /\ (o[6] % 128) \div 16 = t.routing
    BY <1>1, HeaderRead
  <2> QED
    BY <2>1, <2>2, <2>3
<1> DEFINE read(u) == [repeated |-> Bit(o[1], 5) = 0,
                       priority |-> (o[1] \div 4) % 4,
                       src      |-> o[2] * 256 + o[3],
                       dst      |-> o[4] * 256 + o[5],
                       group    |-> Bit(o[6], 7) = 1,
                       routing  |-> (o[6] % 128) \div 16,
                       tpdu     |-> u]
<1>8. SetRawTelegram(o) = {read(u) : u \in SetRaw(SubSeq(o, 7, Len(o) - 1))}
  BY <1>1, <1>5, <1>7 DEF SetRawTelegram, SizeWithoutPayload, MaxPayloadSize
<1>9. read(t.tpdu) = t
  BY <1>7, TelegramParts
<1> HIDE DEF read
<1>10. SetRaw(SubSeq(o, 7, Len(o) - 1)) = {t.tpdu}
  BY <1>1, <1>6
<1>11. SetRawTelegram(o) = {read(u) : u \in {t.tpdu}}
  BY <1>8, <1>10
<1> QED
  BY <1>9, <1>11 DEF o

\* A frame of which the line has changed one bit, whichever, is not read
\* (knxtelegram.cpp:139-154).
THEOREM FlippedIsRefused ==
    ASSUME NEW t \in Telegrams, NEW k \in DOMAIN GetRawTelegram(t), NEW i \in 0 .. 7
    PROVE  LET o == GetRawTelegram(t)
               c == IF Bit(o[k], i) = 1 THEN o[k] - 2 ^ i ELSE o[k] + 2 ^ i
           IN  SetRawTelegram([o EXCEPT ![k] = c]) = {}
<1> DEFINE o == GetRawTelegram(t)
           c == IF Bit(o[k], i) = 1 THEN o[k] - 2 ^ i ELSE o[k] + 2 ^ i
           q == [o EXCEPT ![k] = c]
<1>1. o \in Seq(Int) /\ CalculateParity(o) = 0 /\ k \in DOMAIN o
  BY FrameParts
<1> HIDE DEF o
<1>2. o[k] \in Int
  BY <1>1
<1>3. c \in Int /\ Bit(c, i) = 1 - Bit(o[k], i)
  BY <1>2, FlipChanges
<1> HIDE DEF c
<1>4. q \in Seq(Int)
  BY <1>1, <1>3
<1>5. Odd(q, i) = (Odd(o, i) + Bit(o[k], i) + Bit(c, i)) % 2
  BY <1>1, <1>3, OddChanged
<1>6. Odd(o, i) = 1
  BY <1>1, ParityBits
<1>7. Bit(o[k], i) \in 0 .. 1
  BY <1>2, BitType DEF BitSet
<1>8. Odd(q, i) = 0
  BY <1>3, <1>5, <1>6, <1>7
<1> HIDE DEF q
<1>9. CalculateParity(q) # 0
  BY <1>4, <1>8, ParityBits
<1>10. SetRawTelegram(q) = {}
  BY <1>9 DEF SetRawTelegram
<1> QED
  BY <1>10 DEF q, c, o

-----------------------------------------------------------------------------
(* Texts                                                                   *)

\* The element of a set of one.
LEMMA OnlyOne == \A r : Only({r}) = r
BY DEF Only

\* A text stands for one address at most, a group address.
LEMMA OneAddress ==
    ASSUME NEW tokens \in Seq(WordValues), NEW a \in GroupAddressOf(tokens)
    PROVE  a \in GroupAddresses /\ GroupAddressOf(tokens) = {a}
<1>1. \A k \in 1 .. Len(tokens) : \A m, n \in tokens[k] : m \in Int /\ m = n
  BY DEF WordValues
<1>2. Len(tokens) \in {1, 2, 3}
  BY DEF GroupAddressOf
<1>3. CASE Len(tokens) = 3
  <2>1. \A b \in GroupAddressOf(tokens) :
            \E m \in tokens[1], n \in tokens[2], s \in tokens[3] : b \in InitTriple(m, n, s)
    BY <1>3 DEF GroupAddressOf
  <2>2. \A m, n, s : \A b \in InitTriple(m, n, s) : b \in GroupAddresses /\ b = GroupAddress(m, n, s)
    BY DEF InitTriple, GroupAddress, GroupAddresses
  <2> QED
    BY <1>1, <1>3, <2>1, <2>2
<1>4. CASE Len(tokens) = 2
  <2>1. \A b \in GroupAddressOf(tokens) : \E m \in tokens[1], s \in tokens[2] : b \in InitDouble(m, s)
    BY <1>4 DEF GroupAddressOf
  <2>2. \A m \in Int, s \in Int : \A b \in InitDouble(m, s) : b \in GroupAddresses
    <3> TAKE m \in Int, s \in Int
    <3>1. CASE s \in SubGroupsDouble
      BY <3>1, DoubleIsTriple DEF InitTriple, GroupAddress, GroupAddresses
    <3>2. CASE s \notin SubGroupsDouble
      BY <3>2 DEF InitDouble
    <3> QED
      BY <3>1, <3>2
  <2>3. \A m, s : \A b, e \in InitDouble(m, s) : b = e
    BY DEF InitDouble
  <2> QED
    BY <1>1, <1>4, <2>1, <2>2, <2>3
<1>5. CASE Len(tokens) = 1
  <2>1. \A b \in GroupAddressOf(tokens) : \E n \in tokens[1] : b \in InitEib(n)
    BY <1>5 DEF GroupAddressOf
  <2>2. \A n : \A b \in InitEib(n) : n \in EibAddresses
    BY DEF InitEib
  <2>3. \A n : \A b, e \in InitEib(n) : b = e
    BY DEF InitEib
  <2> QED
    BY <1>1, <1>5, <2>1, <2>2, <2>3, EibRoundTrip
<1> QED
  BY <1>2, <1>3, <1>4, <1>5

\* The APCI of a message's word is one of the sixteen, the one it names.
LEMMA OneApci ==
    ASSUME NEW word, word.number \in WordValues, NEW c \in StringToKnxApci(word)
    PROVE  /\ c \in 0 .. 15
           /\ ApciString[c + 1] = word.name \/ {c} = {n % 16 : n \in word.number}
<1> DEFINE named == {k \in DOMAIN ApciString : ApciString[k] = word.name}
<1>1. DOMAIN ApciString = 1 .. 16
  BY DEF ApciString
<1>2. CASE named # {}
  <2>1. PICK k \in named : c = k - 1
    BY <1>2 DEF StringToKnxApci
  <2>2. k \in 1 .. 16 /\ c + 1 = k
    BY <1>1, <2>1
  <2> QED
    BY <2>1, <2>2
<1>3. CASE named = {}
  <2>1. PICK n \in word.number : c = (n % 256) % 16
    BY <1>3 DEF StringToKnxApci, StringValueToByte
  <2>2. n \in Int /\ \A m \in word.number : m = n
    BY <2>1 DEF WordValues
  <2>3. (n % 256) % 16 = n % 16 /\ n % 16 \in 0 .. 15
    BY <2>2
  <2>4. {m % 16 : m \in word.number} = {n % 16}
    BY <2>1, <2>2
  <2> QED
    BY <2>1, <2>3, <2>4
<1> QED
  BY <1>2, <1>3

\* The octets of a message's words, as Shows takes them.
OctetsIn(words) ==
    [k \in DOMAIN words |-> Only(words[k]) % (IF k = 1 THEN 64 ELSE 256)]

\* The payload of a message is what its words stand for.
LEMMA OnePayload ==
    ASSUME NEW words \in Seq(WordValues), NEW d \in PayloadOf(words)
    PROVE  /\ d \in Payloads /\ SixBits(d) = d
           /\ d = IF words = <<>> THEN <<0>> ELSE OctetsIn(words)
<1>1. CASE words = <<>>
  <2>1. d = <<0>>
    BY <1>1 DEF PayloadOf
  <2>2. <<0>> \in Seq(Octets) /\ Len(<<0>>) = 1 /\ <<0>>[1] = 0
    BY DEF Octets
  <2>3. SixBits(<<0>>) = <<0>>
    BY <2>2 DEF SixBits
  <2> QED
    BY <1>1, <2>1, <2>2, <2>3 DEF Payloads, MaxPayloadSize
<1>2. CASE words # <<>>
  <2> DEFINE n == Len(words)
             b(k) == Only(StringValueToByte(words[k]))
             w(k) == Only(words[k])
  <2>1. n \in Nat /\ n > 0 /\ DOMAIN words = 1 .. n
    BY <1>2
  <2>2. /\ \A k \in 1 .. n : StringValueToByte(words[k]) # {}
        /\ n <= 15
        /\ d = [k \in 1 .. n |-> IF k = 1 THEN b(k) % 64 ELSE b(k)]
    BY <1>2, <2>1 DEF PayloadOf, MaxPayloadSize
  <2>3. \A k \in 1 .. n : w(k) \in Int /\ b(k) = w(k) % 256
    <3> TAKE k \in 1 .. n
    <3>1. PICK m \in words[k] : words[k] = {m} /\ m \in Int
      BY <2>1, <2>2 DEF WordValues, StringValueToByte
    <3>2. StringValueToByte(words[k]) = {m % 256}
      BY <3>1 DEF StringValueToByte
    <3> QED
      BY <3>1, <3>2, OnlyOne, ZenonT(30)
  <2> HIDE DEF b, w
  <2>4. \A m \in Int : (m % 256) % 64 = m % 64 /\ m % 64 \in 0 .. 63 /\ m % 256 \in 0 .. 255
    OBVIOUS
  <2>5. \A k \in 1 .. n : d[k] = (IF k = 1 THEN w(k) % 64 ELSE w(k) % 256)
    <3> TAKE k \in 1 .. n
    <3>1. d[k] = IF k = 1 THEN b(k) % 64 ELSE b(k)
      BY <2>2
    <3>2. w(k) \in Int /\ b(k) = w(k) % 256
      BY <2>3
    <3>3. (w(k) % 256) % 64 = w(k) % 64
      BY <2>4, <3>2, SMTT(30)
    <3> QED
      BY <3>1, <3>2, <3>3
  <2>6. d = OctetsIn(words)
    <3>1. OctetsIn(words) = [k \in 1 .. n |-> w(k) % (IF k = 1 THEN 64 ELSE 256)]
      BY <2>1 DEF OctetsIn, w
    <3>2. \A k \in 1 .. n : d[k] = w(k) % (IF k = 1 THEN 64 ELSE 256)
      BY <2>5
    <3>3. d = [k \in 1 .. n |-> d[k]]
      BY <2>2
    <3> QED
      BY <3>1, <3>2, <3>3
  <2>7. \A k \in 1 .. n : d[k] \in 0 .. 255 /\ (k = 1 => d[k] \in 0 .. 63)
    <3> TAKE k \in 1 .. n
    <3>1. d[k] = (IF k = 1 THEN w(k) % 64 ELSE w(k) % 256) /\ w(k) \in Int
      BY <2>3, <2>5
    <3>2. w(k) % 64 \in 0 .. 63 /\ w(k) % 256 \in 0 .. 255
      <4>1. w(k) \in Int
        BY <3>1
      <4> DEFINE v == w(k)
      <4>2. v \in Int
        BY <4>1
      <4> HIDE DEF v
      <4>3. v % 64 \in 0 .. 63 /\ v % 256 \in 0 .. 255
        BY <4>2
      <4> QED
        BY <4>3 DEF v
    <3>3. 0 .. 63 \subseteq 0 .. 255
      OBVIOUS
    <3> QED
      BY <3>1, <3>2, <3>3
  <2>8. d \in Seq(Octets) /\ Len(d) = n /\ DOMAIN d = 1 .. n /\ d = [k \in 1 .. n |-> d[k]]
    BY <2>1, <2>2, <2>7 DEF Octets
  <2>9. d[1] < 64 /\ d[1] % 64 = d[1]
    <3>1. 1 \in 1 .. n
      BY <2>1
    <3>2. d[1] \in 0 .. 63
      BY <2>7, <3>1
    <3>3. \A m \in 0 .. 63 : m < 64 /\ m % 64 = m
      OBVIOUS
    <3> QED
      BY <3>2, <3>3, Zenon
  <2>10. SixBits(d) = d
    BY <2>8, <2>9 DEF SixBits
  <2>11. d \in Payloads
    <3> HIDE DEF n
    <3>1. n \in 1 .. MaxPayloadSize
      <4>1. n \in Nat /\ n > 0 /\ n <= 15
        BY <2>1, <2>2, Zenon
      <4> QED
        BY <4>1 DEF MaxPayloadSize
    <3> QED
      BY <2>8, <2>9, <3>1, Zenon DEF Payloads
  <2> QED
    BY <1>2, <2>6, <2>10, <2>11
<1> QED
  BY <1>1, <1>2
=============================================================================
