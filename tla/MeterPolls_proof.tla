-------------------------- MODULE MeterPolls_proof --------------------------
(***************************************************************************)
(* Proofs about MeterPolls for every set of polls, every game list, every  *)
(* number of increments by other threads and every save.                   *)
(*                                                                         *)
(* What a handler has read of a meter is a value the meter had since the   *)
(* poll came, in the order of its accesses: an invariant of the steps.     *)
(* The rest is layout: where a report has the number, and so where the     *)
(* host finds it, for every report, that decoding undoes encoding, and     *)
(* that the checksum four bits at a time is the one bit by bit.            *)
(***************************************************************************)
EXTENDS MeterPolls, SequenceTheorems, WellFoundedInduction, TLAPS

-----------------------------------------------------------------------------
(* Counting up                                                             *)

\* Induction up to a number, for a set of numbers.
LEMMA UpToN ==
  ASSUME NEW n \in Nat, NEW S,
         0 \in S, \A i \in 0..(n - 1) : i \in S => i + 1 \in S
  PROVE  \A i \in 0..n : i \in S
<1>. DEFINE Out == {i \in 0..n : i \notin S}
<1>1. SUFFICES ASSUME Out # {}
               PROVE  FALSE
  OBVIOUS
<1>2. Out \in SUBSET Nat
  OBVIOUS
<1>. HIDE DEF Out
<1>3. PICK m \in Out : \A j \in Out : ~(<<j, m>> \in OpToRel(<, Nat))
  BY <1>1, <1>2, NatLessThanWellFounded, WFMin
<1>4. \A j \in Out : ~(j < m)
  BY <1>2, <1>3 DEF OpToRel
<1>5. m \in 1..n /\ m - 1 \in 0..(n - 1) /\ m - 1 \in 0..n /\ m - 1 < m /\ (m - 1) + 1 = m
  BY DEF Out
<1>6. m - 1 \in S
  BY <1>4, <1>5 DEF Out
<1>7. m \in S
  BY <1>5, <1>6
<1>. QED
  BY <1>7 DEF Out

\* f starts from b and follows the n steps; step[i] is a function on S.
Follows(f, n, b, step) == f[0] = b /\ \A i \in 1..n : f[i] = step[i][f[i - 1]]
Steps(step, n, S) == \A i \in 1..n : \A r \in S : step[i][r] \in S

\* There is such a function: what is defined step by step exists.
LEMMA Iterate ==
  ASSUME NEW S, NEW n \in Nat, NEW b \in S, NEW step, Steps(step, n, S)
  PROVE  \E f \in [0..n -> S] : Follows(f, n, b, step)
<1>. USE DEF Follows, Steps
<1>. DEFINE Upto(k, f) == f[0] = b /\ \A i \in 1..k : f[i] = step[i][f[i - 1]]
            T == {k \in 0..n : \E f \in [0..k -> S] : Upto(k, f)}
<1>1. 0 \in T
  <2>. DEFINE f == [i \in 0..0 |-> b]
  <2>1. f \in [0..0 -> S]
    OBVIOUS
  <2>2. f[0] = b /\ \A i \in 1..0 : f[i] = step[i][f[i - 1]]
    OBVIOUS
  <2>. HIDE DEF f
  <2>. QED
    BY <2>1, <2>2
<1>2. ASSUME NEW k \in 0..(n - 1), k \in T
      PROVE  k + 1 \in T
  <2>1. PICK f \in [0..k -> S] : Upto(k, f)
    BY <1>2
  <2>2. k \in Nat /\ k + 1 \in 1..n /\ k \in 0..k /\ k + 1 \in 0..n
    OBVIOUS
  <2>3. step[k + 1][f[k]] \in S
    BY <2>1, <2>2
  <2>. DEFINE g == [i \in 0..(k + 1) |-> IF i = k + 1 THEN step[k + 1][f[k]] ELSE f[i]]
  <2>4. g \in [0..(k + 1) -> S]
    BY <2>1, <2>2, <2>3
  <2>5. g[0] = b
    BY <2>1, <2>2
  <2>6. ASSUME NEW i \in 1..(k + 1)
        PROVE  g[i] = step[i][g[i - 1]]
    <3>1. i - 1 \in 0..k /\ i - 1 \in 0..(k + 1) /\ i \in 0..(k + 1)
      BY <2>2
    <3>2. g[i - 1] = f[i - 1]
      BY <2>2, <3>1
    <3>3. CASE i = k + 1
      BY <2>2, <3>1, <3>2, <3>3
    <3>4. CASE i # k + 1
      BY <2>1, <2>2, <3>1, <3>2, <3>4
    <3>. QED
      BY <3>3, <3>4
  <2>. HIDE DEF g
  <2>. QED
    BY <2>2, <2>4, <2>5, <2>6
<1>. HIDE DEF T
<1>3. n \in T
  <2>1. \A i \in 0..(n - 1) : i \in T => i + 1 \in T
    BY <1>2
  <2>2. \A i \in 0..n : i \in T
    BY <1>1, <2>1, UpToN
  <2>. QED
    BY <2>2
<1>. QED
  BY <1>3 DEF T

-----------------------------------------------------------------------------
(* Packed decimal                                                          *)

\* What is left of a value as its bytes are taken off.
LEMMA QuotientsAre ==
  ASSUME NEW v \in Int, NEW n \in Nat
  PROVE  /\ Quotients(v, n)[0] = v
         /\ \A k \in 1..n : Quotients(v, n)[k] = Quotients(v, n)[k - 1] \div 100
         /\ \A k \in 0..n : Quotients(v, n)[k] \in Int
<1>. DEFINE Q(q) == q = [k \in 0..n |-> IF k = 0 THEN v ELSE q[k - 1] \div 100]
            step == [k \in 1..n |-> [r \in Int |-> r \div 100]]
            h == Quotients(v, n)
<1>1. Steps(step, n, Int)
  BY DEF Steps
<1>2. PICK f \in [0..n -> Int] : Follows(f, n, v, step)
  <2>. HIDE DEF step
  <2>. QED
    BY <1>1, Iterate
<1>3. ASSUME NEW k \in 0..n PROVE f[k] = IF k = 0 THEN v ELSE f[k - 1] \div 100
  <2>1. k # 0 => k \in 1..n /\ k - 1 \in 0..n
    OBVIOUS
  <2>. QED
    BY <1>2, <2>1 DEF Follows
<1>4. Q(f)
  BY <1>3
<1>5. Q(CHOOSE q : Q(q))
  BY <1>4
<1>6. h = CHOOSE q : Q(q)
  BY DEF Quotients
<1>7. h = [k \in 0..n |-> IF k = 0 THEN v ELSE h[k - 1] \div 100]
  BY <1>5, <1>6
<1>. HIDE DEF h
<1>8. h[0] = v /\ \A k \in 1..n : h[k] = h[k - 1] \div 100
  BY <1>7
<1>. DEFINE T == {k \in 0..n : h[k] \in Int}
<1>9. 0 \in T /\ \A k \in 0..(n - 1) : k \in T => k + 1 \in T
  BY <1>8
<1>. HIDE DEF T
<1>10. \A k \in 0..n : k \in T
  BY <1>9, UpToN
<1>. QED
  BY <1>8, <1>10 DEF h, T

\* What fits, for the sizes in use: four, eight and ten digits.
LEMMA FitsAre ==
  ASSUME NEW v \in Int
  PROVE  /\ Fits(v, 2) <=> v >= 0 /\ v < 10000
         /\ Fits(v, 4) <=> v >= 0 /\ (v \div 10000) \div 10000 < 1
         /\ Fits(v, 5) <=> v >= 0 /\ (v \div 10000) \div 10000 < 100
<1>1. ASSUME NEW x \in Int
      PROVE  /\ x \div 100 \in Int /\ (x \div 100) \div 100 \in Int
             /\ (x \div 100) \div 100 = x \div 10000
             /\ x >= 0 => x \div 100 >= 0
             /\ x \div 100 = 0 <=> x \in 0..99
  OBVIOUS
<1>2. PICK a \in Int, b \in Int, c \in Int, d \in Int, e \in Int :
        /\ a = v \div 100 /\ b = a \div 100 /\ b = v \div 10000
        /\ c = b \div 100 /\ d = c \div 100 /\ d = b \div 10000 /\ e = d \div 100
        /\ v >= 0 => d >= 0
  BY <1>1
<1>3. ASSUME NEW n \in Nat, NEW q, q = Quotients(v, n)
      PROVE  /\ Fits(v, n) <=> v >= 0 /\ q[n] = 0
             /\ q[0] = v /\ \A k \in 1..n : q[k] = q[k - 1] \div 100
  BY <1>3, QuotientsAre DEF Fits
<1>4. Fits(v, 2) <=> v >= 0 /\ b = 0
  BY <1>2, <1>3
<1>5. Fits(v, 4) <=> v >= 0 /\ d = 0
  BY <1>2, <1>3
<1>6. Fits(v, 5) <=> v >= 0 /\ e = 0
  BY <1>2, <1>3
<1>7. v >= 0 /\ b = 0 <=> v >= 0 /\ v < 10000
  BY <1>2
<1>8. v >= 0 /\ d = 0 <=> v >= 0 /\ d < 1
  BY <1>2
<1>9. v >= 0 /\ e = 0 <=> v >= 0 /\ d < 100
  BY <1>2
<1>. QED
  BY <1>2, <1>4, <1>5, <1>6, <1>7, <1>8, <1>9

\* Bytes are numbers.
LEMMA ByteIs ==
  /\ \A x \in Byte : x \in Nat /\ x <= 255
  /\ \A x \in Nat : x <= 255 => x \in Byte
  /\ 0 \in Byte
BY DEF Byte

\* A pair of digits in a byte, and back.
LEMMA PackedIs ==
  ASSUME NEW d \in 0..99
  PROVE  Packed(d) \in Byte /\ Unpacked(Packed(d)) = d
<1>1. PICK t \in 0..9, u \in 0..9 : t = d \div 10 /\ u = d % 10 /\ d = 10 * t + u
  OBVIOUS
<1>2. Packed(d) = 16 * t + u
  BY <1>1 DEF Packed
<1>3. (16 * t + u) \div 16 = t /\ (16 * t + u) % 16 = u
  OBVIOUS
<1>4. 16 * t + u \in Byte
  <2>1. 16 * t + u \in Nat /\ 16 * t + u <= 255
    OBVIOUS
  <2>. QED
    BY <2>1, ByteIs
<1>. QED
  BY <1>1, <1>2, <1>3, <1>4 DEF Unpacked

\* An encoded value has as many bytes as were asked for.
LEMMA EncodeBytes ==
  ASSUME NEW v \in Int, NEW n \in Nat
  PROVE  Encode(v, n) \in Seq(Byte) /\ Len(Encode(v, n)) = n
<1>1. ASSUME NEW i \in 1..n
      PROVE  Packed(Quotients(v, n)[n - i] % 100) \in Byte
  <2>1. n - i \in 0..n
    OBVIOUS
  <2>2. Quotients(v, n)[n - i] \in Int
    BY <2>1, QuotientsAre
  <2>3. Quotients(v, n)[n - i] % 100 \in 0..99
    BY <2>2
  <2>. QED
    BY <2>3, PackedIs
<1>2. Encode(v, n) \in [1..n -> Byte]
  BY <1>1, ByteIs DEF Encode, Zeros
<1>. QED
  BY <1>2

\* A byte never counts for less than nothing.
LEMMA UnpackedIs ==
  ASSUME NEW b \in Byte
  PROVE  Unpacked(b) \in Nat
<1>1. b \in Nat
  BY ByteIs
<1>2. b \div 16 \in Nat /\ b % 16 \in Nat
  BY <1>1
<1>. QED
  BY <1>2 DEF Unpacked

\* The elements of a sequence.
LEMMA Elements ==
  ASSUME NEW S, NEW s \in Seq(S)
  PROVE  Len(s) \in Nat /\ DOMAIN s = 1..Len(s) /\ \A i \in 1..Len(s) : s[i] \in S
OBVIOUS

\* The host decodes byte by byte.
LEMMA DecodeIs ==
  ASSUME NEW s \in Seq(Byte)
  PROVE  \E f \in [0..Len(s) -> Nat] :
           /\ f[0] = 0 /\ \A i \in 1..Len(s) : f[i] = 100 * f[i - 1] + Unpacked(s[i])
           /\ Decode(s) = f[Len(s)]
<1>0. Len(s) \in Nat /\ \A i \in 1..Len(s) : s[i] \in Byte
  BY Elements, Zenon
<1>. DEFINE n == Len(s)
            u == [i \in 1..n |-> Unpacked(s[i])]
            D(f) == f = [i \in 0..n |-> IF i = 0 THEN 0 ELSE 100 * f[i - 1] + Unpacked(s[i])]
            step == [i \in 1..n |-> [r \in Nat |-> 100 * r + u[i]]]
            h == CHOOSE f : D(f)
<1>1. n \in Nat /\ \A i \in 1..n : u[i] \in Nat /\ u[i] = Unpacked(s[i])
  <2>1. ASSUME NEW i \in 1..n PROVE u[i] = Unpacked(s[i]) /\ Unpacked(s[i]) \in Nat
    BY <1>0, UnpackedIs
  <2>. QED
    BY <1>0, <2>1
<1>. HIDE DEF u
<1>2. Steps(step, n, Nat)
  BY <1>1 DEF Steps
<1>3. PICK f \in [0..n -> Nat] : Follows(f, n, 0, step)
  <2>. HIDE DEF step, n
  <2>. QED
    BY <1>1, <1>2, Iterate
<1>4. ASSUME NEW i \in 0..n
      PROVE  f[i] = IF i = 0 THEN 0 ELSE 100 * f[i - 1] + Unpacked(s[i])
  <2>1. i # 0 => i \in 1..n /\ i - 1 \in 0..n
    BY <1>1
  <2>. QED
    BY <1>1, <1>3, <2>1 DEF Follows
<1>5. D(f)
  BY <1>4
<1>6. D(h)
  BY <1>5
<1>7. Decode(s) = h[n]
  BY DEF Decode
<1>8. h = [i \in 0..n |-> IF i = 0 THEN 0 ELSE 100 * h[i - 1] + Unpacked(s[i])]
  BY <1>6
<1>. HIDE DEF h, n
<1>9. h[0] = 0 /\ \A i \in 1..n : h[i] = 100 * h[i - 1] + u[i]
  BY <1>1, <1>8
<1>. DEFINE T == {i \in 0..n : h[i] \in Nat}
<1>10. 0 \in T
  BY <1>1, <1>9
<1>11. ASSUME NEW i \in 0..(n - 1), i \in T
       PROVE  i + 1 \in T
  <2>1. i + 1 \in 1..n /\ (i + 1) - 1 = i
    BY <1>1
  <2>2. h[i + 1] = 100 * h[i] + u[i + 1]
    BY <1>9, <2>1
  <2>3. u[i + 1] \in Nat /\ h[i] \in Nat
    BY <1>1, <1>11, <2>1
  <2>. QED
    BY <1>1, <2>1, <2>2, <2>3
<1>. HIDE DEF T
<1>12. \A i \in 0..n : i \in T
  BY <1>1, <1>10, <1>11, UpToN
<1>13. h \in [0..n -> Nat]
  BY <1>8, <1>12 DEF T
<1>. QED
  BY <1>1, <1>7, <1>9, <1>13 DEF n

\* What fits comes out as it went in; what does not comes out as zero.
LEMMA DecodeEncode ==
  ASSUME NEW v \in Int, NEW n \in Nat
  PROVE  Decode(Encode(v, n)) = IF Fits(v, n) THEN v ELSE 0
<1>. DEFINE s == Encode(v, n)
            q == Quotients(v, n)
<1>1. s \in Seq(Byte) /\ Len(s) = n
  BY EncodeBytes
<1>2. PICK f \in [0..n -> Nat] :
        /\ f[0] = 0 /\ \A i \in 1..n : f[i] = 100 * f[i - 1] + Unpacked(s[i])
        /\ Decode(s) = f[n]
  <2>. HIDE DEF s
  <2>. QED
    BY <1>1, DecodeIs
<1>3. CASE Fits(v, n)
  <2>1. \A i \in 1..n : s[i] = Packed(q[n - i] % 100)
    BY <1>3 DEF Encode
  <2>2. /\ q[0] = v /\ q[n] = 0
        /\ \A k \in 1..n : q[k] = q[k - 1] \div 100
        /\ \A k \in 0..n : q[k] \in Int
    BY <1>3, QuotientsAre DEF Fits
  <2>. DEFINE T == {i \in 0..n : f[i] = q[n - i]}
  <2>. HIDE DEF s, q
  <2>3. 0 \in T
    BY <1>2, <2>2
  <2>4. ASSUME NEW i \in 0..(n - 1), i \in T
        PROVE  i + 1 \in T
    <3>1. i + 1 \in 1..n /\ (i + 1) - 1 = i /\ n - i \in 1..n /\ n - (i + 1) \in 0..n
          /\ (n - i) - 1 = n - (i + 1)
      OBVIOUS
    <3>2. PICK x \in Int : x = q[n - (i + 1)]
      BY <2>2, <3>1
    <3>3. q[n - i] = x \div 100
      BY <2>2, <3>1, <3>2
    <3>4. x % 100 \in 0..99 /\ x = 100 * (x \div 100) + (x % 100)
      OBVIOUS
    <3>5. Unpacked(s[i + 1]) = x % 100
      BY <2>1, <3>1, <3>2, <3>4, PackedIs
    <3>6. f[i + 1] = 100 * f[i] + Unpacked(s[i + 1])
      BY <1>2, <3>1
    <3>7. f[i + 1] = 100 * (x \div 100) + (x % 100)
      BY <2>4, <3>3, <3>5, <3>6
    <3>. QED
      BY <3>1, <3>2, <3>4, <3>7
  <2>. HIDE DEF T
  <2>5. \A i \in 0..n : i \in T
    BY <2>3, <2>4, UpToN
  <2>6. n \in 0..n /\ n - n = 0
    OBVIOUS
  <2>7. f[n] = q[0]
    BY <2>5, <2>6 DEF T
  <2>. QED
    BY <1>2, <1>3, <2>2, <2>7 DEF s
<1>4. CASE ~Fits(v, n)
  <2>1. \A i \in 1..n : s[i] = 0
    BY <1>4 DEF Encode, Zeros
  <2>2. Unpacked(0) = 0
    BY DEF Unpacked
  <2>. DEFINE T == {i \in 0..n : f[i] = 0}
  <2>. HIDE DEF s
  <2>3. 0 \in T
    BY <1>2
  <2>4. ASSUME NEW i \in 0..(n - 1), i \in T
        PROVE  i + 1 \in T
    <3>1. i + 1 \in 1..n /\ (i + 1) - 1 = i
      OBVIOUS
    <3>2. f[i + 1] = 100 * f[i] + Unpacked(s[i + 1])
      BY <1>2, <3>1
    <3>3. f[i] = 0 /\ Unpacked(s[i + 1]) = 0
      BY <2>1, <2>2, <2>4, <3>1
    <3>. QED
      BY <3>1, <3>2, <3>3
  <2>. HIDE DEF T
  <2>5. \A i \in 0..n : i \in T
    BY <2>3, <2>4, UpToN
  <2>6. f[n] = 0
    BY <2>5 DEF T
  <2>. QED
    BY <1>2, <1>4, <2>6 DEF s
<1>. QED
  BY <1>3, <1>4

-----------------------------------------------------------------------------
(* The checksum                                                            *)

\* Words are small numbers, and halves of them smaller.
LEMMA WordIs ==
  /\ Word \subseteq Nat /\ 0 \in Word
  /\ \A x \in Nat : x < 65536 => x \in Word
<1>1. Word \subseteq Nat
  BY SMT DEF Word
<1>2. 0 \in Word
  BY SMT DEF Word
<1>3. \A x \in Nat : x < 65536 => x \in Word
  BY SMT DEF Word
<1>. QED
  BY <1>1, <1>2, <1>3

\* The digits of a byte in hexadecimal.
LEMMA Halves ==
  ASSUME NEW x \in Nat
  PROVE  x \div 16 \in Nat /\ x % 16 \in 0..15 /\ (x <= 255 => x \div 16 \in 0..15)
OBVIOUS

\* The exclusive or of two half bytes is one, of two words a word.
LEMMA XorIs ==
  /\ \A a, b \in 0..15 : NibbleXor[a][b] \in 0..15
  /\ \A a, b \in Nat : Xor(a, b) \in Word
<1>1. ASSUME NEW a \in 0..15, NEW b \in 0..15
      PROVE  NibbleXor[a][b] \in 0..15
  <2>. DEFINE X(w) == IF Bit(a, w) = Bit(b, w) THEN 0 ELSE w
  <2>1. NibbleXor[a][b] = X(1) + X(2) + X(4) + X(8)
    BY DEF NibbleXor
  <2>2. X(1) \in {0, 1} /\ X(2) \in {0, 2} /\ X(4) \in {0, 4} /\ X(8) \in {0, 8}
    OBVIOUS
  <2>. HIDE DEF X
  <2>3. ASSUME NEW x \in {0, 1}, NEW y \in {0, 2}, NEW z \in {0, 4}, NEW t \in {0, 8}
        PROVE  x + y + z + t \in 0..15
    OBVIOUS
  <2>. QED
    BY <2>1, <2>2, <2>3
<1>2. ASSUME NEW a \in Nat, NEW w \in {1, 16, 256, 4096}
      PROVE  Nibble(a, w) \in 0..15
  <2>1. a \div w \in Nat
    BY SMT
  <2>. QED
    BY <2>1, Halves DEF Nibble
<1>3. ASSUME NEW a \in Nat, NEW b \in Nat
      PROVE  Xor(a, b) \in Word
  <2>. DEFINE N(w) == NibbleXor[Nibble(a, w)][Nibble(b, w)]
  <2>1. N(1) \in 0..15 /\ N(16) \in 0..15 /\ N(256) \in 0..15 /\ N(4096) \in 0..15
    BY <1>1, <1>2, SMT
  <2>2. Xor(a, b) = 1 * N(1) + 16 * N(16) + 256 * N(256) + 4096 * N(4096)
    BY SMT DEF Xor
  <2>. HIDE DEF N
  <2>3. ASSUME NEW x \in 0..15, NEW y \in 0..15, NEW z \in 0..15, NEW t \in 0..15
        PROVE  /\ 1 * x + 16 * y + 256 * z + 4096 * t \in Nat
               /\ 1 * x + 16 * y + 256 * z + 4096 * t < 65536
    BY SMT
  <2>. QED
    BY <2>1, <2>2, <2>3, WordIs, SMT
<1>. QED
  BY <1>1, <1>3

\* A shift of the register leaves a word in it.
LEMMA ShiftIs ==
  ASSUME NEW r \in Word, NEW b \in 0..15
  PROVE  Shift(r, b) \in Word
<1>1. r \div 16 \in Nat /\ r % 16 \in 0..15
  BY WordIs, Halves
<1>2. NibbleXor[r % 16][b] \in 0..15
  BY <1>1, XorIs
<1>3. ASSUME NEW x \in 0..15 PROVE (x * 4225) % 65536 \in Nat
  BY SMT
<1>. QED
  BY <1>1, <1>2, <1>3, XorIs, SMT DEF Shift

\* The checksum is a word.
LEMMA CrcIs ==
  ASSUME NEW s \in Seq(Byte)
  PROVE  Crc(s) \in Word
<1>0. Len(s) \in Nat /\ \A i \in 1..Len(s) : s[i] \in Byte
  BY Elements, Zenon
<1>. DEFINE n == Len(s)
            Next2(r, i) == IF r \in Word THEN Shift(Shift(r, s[i] % 16), s[i] \div 16) ELSE 0
            C(f) == f = [i \in 0..n |-> IF i = 0 THEN 0 ELSE Next2(f[i - 1], i)]
            step == [i \in 1..n |-> [r \in Word |-> Next2(r, i)]]
            h == CHOOSE f : C(f)
<1>1. 0 \in Word
  BY WordIs
<1>2. ASSUME NEW i \in 1..n, NEW r
      PROVE  Next2(r, i) \in Word
  <2>1. PICK x \in Byte : x = s[i]
    BY <1>0
  <2>2. x \in Nat /\ x <= 255
    BY ByteIs
  <2>3. s[i] % 16 \in 0..15 /\ s[i] \div 16 \in 0..15
    BY <2>1, <2>2, Halves
  <2>4. r \in Word => Shift(Shift(r, s[i] % 16), s[i] \div 16) \in Word
    BY <2>3, ShiftIs
  <2>. QED
    BY <1>1, <2>4
<1>. HIDE DEF Next2
<1>3. Steps(step, n, Word)
  BY <1>2 DEF Steps
<1>4. PICK f \in [0..n -> Word] : Follows(f, n, 0, step)
  <2>. HIDE DEF step
  <2>. QED
    BY <1>0, <1>1, <1>3, Iterate
<1>5. ASSUME NEW i \in 0..n
      PROVE  f[i] = IF i = 0 THEN 0 ELSE Next2(f[i - 1], i)
  <2>1. i # 0 => i \in 1..n /\ i - 1 \in 0..n
    BY <1>0
  <2>. QED
    BY <1>0, <1>4, <2>1 DEF Follows
<1>6. C(f)
  BY <1>5
<1>7. C(h)
  BY <1>6
<1>8. Crc(s) = h[n]
  BY DEF Crc, Next2
<1>9. h[n] = IF n = 0 THEN 0 ELSE Next2(h[n - 1], n)
  <2>1. h = [i \in 0..n |-> IF i = 0 THEN 0 ELSE Next2(h[i - 1], i)]
    BY <1>7
  <2>. HIDE DEF h
  <2>. QED
    BY <1>0, <2>1
<1>. QED
  BY <1>0, <1>1, <1>2, <1>8, <1>9

-----------------------------------------------------------------------------
(* Half bytes and bits                                                     *)

HalfByte == 0..15

\* A half byte from its bits, the highest first; a word from its half bytes.
Half(a, b, c, d) == 8 * a + 4 * b + 2 * c + d
OfHalves(p, q, s, t) == 4096 * p + 256 * q + 16 * s + t
BitXor(a, b) == IF a = b THEN 0 ELSE 1

\* Every half byte has bits.
LEMMA HalfHas ==
  /\ \A x \in HalfByte : \E a, b, c, d \in {0, 1} : x = Half(a, b, c, d)
  /\ \A a, b, c, d \in {0, 1} :
       /\ Half(a, b, c, d) \in HalfByte
       /\ Half(a, b, c, d) \div 2 = Half(0, a, b, c)
       /\ Half(a, b, c, d) % 2 = d
       /\ 8 * d = Half(d, 0, 0, 0)
<1>1. ASSUME NEW x \in HalfByte
      PROVE  \E a, b, c, d \in {0, 1} : x = Half(a, b, c, d)
  <2>1. PICK a \in {0, 1}, y \in 0..7 : x = 8 * a + y
    <3>1. x \div 8 \in {0, 1} /\ x % 8 \in 0..7 /\ x = 8 * (x \div 8) + (x % 8)
      BY DEF HalfByte
    <3>. QED
      BY <3>1
  <2>2. PICK b \in {0, 1}, z \in 0..3 : y = 4 * b + z
    <3>1. y \div 4 \in {0, 1} /\ y % 4 \in 0..3 /\ y = 4 * (y \div 4) + (y % 4)
      OBVIOUS
    <3>. QED
      BY <3>1
  <2>3. PICK c \in {0, 1}, d \in {0, 1} : z = 2 * c + d
    <3>1. z \div 2 \in {0, 1} /\ z % 2 \in {0, 1} /\ z = 2 * (z \div 2) + (z % 2)
      OBVIOUS
    <3>. QED
      BY <3>1
  <2>4. x = Half(a, b, c, d)
    BY <2>1, <2>2, <2>3 DEF Half
  <2>. QED
    BY <2>4
<1>2. ASSUME NEW a \in {0, 1}, NEW b \in {0, 1}, NEW c \in {0, 1}, NEW d \in {0, 1}
      PROVE  /\ Half(a, b, c, d) \in HalfByte
             /\ Half(a, b, c, d) \div 2 = Half(0, a, b, c)
             /\ Half(a, b, c, d) % 2 = d
             /\ 8 * d = Half(d, 0, 0, 0)
  BY DEF Half, HalfByte
<1>. QED
  BY <1>1, <1>2

\* The exclusive or of half bytes is that of their bits.
LEMMA HalfXor ==
  ASSUME NEW a \in {0, 1}, NEW b \in {0, 1}, NEW c \in {0, 1}, NEW d \in {0, 1},
         NEW e \in {0, 1}, NEW f \in {0, 1}, NEW g \in {0, 1}, NEW h \in {0, 1}
  PROVE  NibbleXor[Half(a, b, c, d)][Half(e, f, g, h)]
           = Half(BitXor(a, e), BitXor(b, f), BitXor(c, g), BitXor(d, h))
<1>1. ASSUME NEW u \in {0, 1}, NEW v \in {0, 1}, NEW w \in {0, 1}, NEW x \in {0, 1}
      PROVE  /\ Bit(Half(u, v, w, x), 1) = x
             /\ Bit(Half(u, v, w, x), 2) = w
             /\ Bit(Half(u, v, w, x), 4) = v
             /\ Bit(Half(u, v, w, x), 8) = u
  BY DEF Half, Bit
<1>2. Half(a, b, c, d) \in HalfByte /\ Half(e, f, g, h) \in HalfByte
  BY HalfHas
<1>. DEFINE l == Half(a, b, c, d)
            r == Half(e, f, g, h)
            X(w) == IF Bit(l, w) = Bit(r, w) THEN 0 ELSE w
<1>3. NibbleXor[l][r] = X(1) + X(2) + X(4) + X(8)
  <2>. HIDE DEF l, r
  <2>. QED
    BY <1>2 DEF NibbleXor, l, r, HalfByte
<1>4. /\ X(1) = BitXor(d, h) /\ X(2) = 2 * BitXor(c, g)
      /\ X(4) = 4 * BitXor(b, f) /\ X(8) = 8 * BitXor(a, e)
  BY <1>1 DEF BitXor
<1>. HIDE DEF X, l, r
<1>5. /\ BitXor(a, e) \in {0, 1} /\ BitXor(b, f) \in {0, 1}
      /\ BitXor(c, g) \in {0, 1} /\ BitXor(d, h) \in {0, 1}
  BY DEF BitXor
<1>6. ASSUME NEW u \in {0, 1}, NEW v \in {0, 1}, NEW w \in {0, 1}, NEW x \in {0, 1}
      PROVE  x + 2 * w + 4 * v + 8 * u = Half(u, v, w, x)
  BY DEF Half
<1>7. NibbleXor[l][r] = Half(BitXor(a, e), BitXor(b, f), BitXor(c, g), BitXor(d, h))
  BY <1>3, <1>4, <1>5, <1>6
<1>. QED
  BY <1>7 DEF l, r

\* It is a group.
LEMMA XorGroup ==
  /\ \A x, y \in HalfByte : NibbleXor[x][y] \in HalfByte
  /\ \A x \in HalfByte : NibbleXor[0][x] = x /\ NibbleXor[x][0] = x
  /\ \A x, y \in HalfByte : NibbleXor[x][y] = NibbleXor[y][x]
  /\ \A x, y, z \in HalfByte : NibbleXor[NibbleXor[x][y]][z] = NibbleXor[x][NibbleXor[y][z]]
<1>1. \A a, b \in {0, 1} : /\ BitXor(a, b) \in {0, 1}
                           /\ BitXor(a, b) = BitXor(b, a)
                           /\ BitXor(0, a) = a /\ BitXor(a, 0) = a
  BY DEF BitXor
<1>2. \A a, b, c \in {0, 1} : BitXor(BitXor(a, b), c) = BitXor(a, BitXor(b, c))
  BY DEF BitXor
<1>3. ASSUME NEW x \in HalfByte, NEW y \in HalfByte
      PROVE  /\ NibbleXor[x][y] \in HalfByte /\ NibbleXor[x][y] = NibbleXor[y][x]
             /\ NibbleXor[0][x] = x /\ NibbleXor[x][0] = x
  <2>1. PICK a, b, c, d \in {0, 1} : x = Half(a, b, c, d)
    BY HalfHas
  <2>2. PICK e, f, g, h \in {0, 1} : y = Half(e, f, g, h)
    BY HalfHas
  <2>3. 0 = Half(0, 0, 0, 0) /\ 0 \in {0, 1}
    BY DEF Half
  <2>4. NibbleXor[x][y] = Half(BitXor(a, e), BitXor(b, f), BitXor(c, g), BitXor(d, h))
    BY <2>1, <2>2, HalfXor
  <2>5. NibbleXor[y][x] = Half(BitXor(e, a), BitXor(f, b), BitXor(g, c), BitXor(h, d))
    BY <2>1, <2>2, HalfXor
  <2>6. NibbleXor[Half(0, 0, 0, 0)][x] = Half(BitXor(0, a), BitXor(0, b), BitXor(0, c), BitXor(0, d))
    BY <2>1, <2>3, HalfXor
  <2>7. NibbleXor[x][Half(0, 0, 0, 0)] = Half(BitXor(a, 0), BitXor(b, 0), BitXor(c, 0), BitXor(d, 0))
    BY <2>1, <2>3, HalfXor
  <2>8. NibbleXor[x][y] \in HalfByte
    BY <1>1, <2>4, HalfHas
  <2>. QED
    BY <1>1, <2>1, <2>3, <2>4, <2>5, <2>6, <2>7, <2>8
<1>4. ASSUME NEW x \in HalfByte, NEW y \in HalfByte, NEW z \in HalfByte
      PROVE  NibbleXor[NibbleXor[x][y]][z] = NibbleXor[x][NibbleXor[y][z]]
  <2>1. PICK a, b, c, d \in {0, 1} : x = Half(a, b, c, d)
    BY HalfHas
  <2>2. PICK e, f, g, h \in {0, 1} : y = Half(e, f, g, h)
    BY HalfHas
  <2>3. PICK i, j, k, l \in {0, 1} : z = Half(i, j, k, l)
    BY HalfHas
  <2>4. NibbleXor[x][y] = Half(BitXor(a, e), BitXor(b, f), BitXor(c, g), BitXor(d, h))
    BY <2>1, <2>2, HalfXor
  <2>5. NibbleXor[y][z] = Half(BitXor(e, i), BitXor(f, j), BitXor(g, k), BitXor(h, l))
    BY <2>2, <2>3, HalfXor
  <2>6. NibbleXor[NibbleXor[x][y]][z]
          = Half(BitXor(BitXor(a, e), i), BitXor(BitXor(b, f), j),
                 BitXor(BitXor(c, g), k), BitXor(BitXor(d, h), l))
    BY <1>1, <2>3, <2>4, HalfXor
  <2>7. NibbleXor[x][NibbleXor[y][z]]
          = Half(BitXor(a, BitXor(e, i)), BitXor(b, BitXor(f, j)),
                 BitXor(c, BitXor(g, k)), BitXor(d, BitXor(h, l)))
    BY <1>1, <2>1, <2>5, HalfXor
  <2>. QED
    BY <1>2, <2>6, <2>7
<1>. QED
  BY <1>3, <1>4

\* Every word has half bytes.
LEMMA WordHas ==
  ASSUME NEW r \in Word
  PROVE  \E p, q, s, t \in HalfByte : r = OfHalves(p, q, s, t)
<1>. DEFINE p == r \div 4096
            x == r % 4096
            q == x \div 256
            y == x % 256
            s == y \div 16
            t == y % 16
<1>1. r \in Nat /\ r < 65536
  BY DEF Word
<1>2. p \in HalfByte /\ x \in Nat /\ x < 4096 /\ r = 4096 * p + x
  BY <1>1, SMT DEF HalfByte
<1>. HIDE DEF p, x
<1>3. q \in HalfByte /\ y \in Nat /\ y < 256 /\ x = 256 * q + y
  BY <1>2, SMT DEF HalfByte
<1>. HIDE DEF q, y
<1>4. s \in HalfByte /\ t \in HalfByte /\ y = 16 * s + t
  BY <1>3, SMT DEF HalfByte
<1>. HIDE DEF s, t
<1>5. r = OfHalves(p, q, s, t)
  BY <1>2, <1>3, <1>4, SMT DEF OfHalves, HalfByte
<1>6. p \in HalfByte /\ q \in HalfByte /\ s \in HalfByte /\ t \in HalfByte
  BY <1>2, <1>3, <1>4
<1>. QED
  BY <1>5, <1>6, Zenon

\* And this is where they are.
LEMMA HalvesAre ==
  ASSUME NEW p \in HalfByte, NEW q \in HalfByte, NEW s \in HalfByte, NEW t \in HalfByte
  PROVE  /\ OfHalves(p, q, s, t) \in Word
         /\ OfHalves(p, q, s, t) \div 16 = OfHalves(0, p, q, s)
         /\ OfHalves(p, q, s, t) % 16 = t
         /\ OfHalves(p, q, s, t) \div 256 = OfHalves(0, 0, p, q)
         /\ OfHalves(p, q, s, t) % 256 = OfHalves(0, 0, s, t)
<1>1. OfHalves(p, q, s, t) \in Word
  BY SMT DEF OfHalves, Word, HalfByte
<1>2. OfHalves(p, q, s, t) \div 16 = OfHalves(0, p, q, s)
  BY SMT DEF OfHalves, HalfByte
<1>3. OfHalves(p, q, s, t) % 16 = t
  BY SMT DEF OfHalves, HalfByte
<1>4. OfHalves(p, q, s, t) \div 256 = OfHalves(0, 0, p, q)
  BY SMT DEF OfHalves, HalfByte
<1>5. OfHalves(p, q, s, t) % 256 = OfHalves(0, 0, s, t)
  BY SMT DEF OfHalves, HalfByte
<1>. QED
  BY <1>1, <1>2, <1>3, <1>4, <1>5

\* They are its nibbles.
LEMMA NibblesAre ==
  ASSUME NEW p \in HalfByte, NEW q \in HalfByte, NEW s \in HalfByte, NEW t \in HalfByte,
         NEW r, r = OfHalves(p, q, s, t)
  PROVE  /\ Nibble(r, 1) = t /\ Nibble(r, 16) = s
         /\ Nibble(r, 256) = q /\ Nibble(r, 4096) = p
<1>1. Nibble(r, 1) = t
  BY SMT DEF OfHalves, Nibble, HalfByte
<1>2. Nibble(r, 16) = s
  BY SMT DEF OfHalves, Nibble, HalfByte
<1>3. Nibble(r, 256) = q
  BY SMT DEF OfHalves, Nibble, HalfByte
<1>4. Nibble(r, 4096) = p
  BY SMT DEF OfHalves, Nibble, HalfByte
<1>. QED
  BY <1>1, <1>2, <1>3, <1>4

\* The half bytes of a word.
Four(p, q, s, t) == p \in HalfByte /\ q \in HalfByte /\ s \in HalfByte /\ t \in HalfByte

\* The exclusive or of words is that of their half bytes.
LEMMA WordXor ==
  ASSUME NEW p, NEW q, NEW s, NEW t, NEW a, NEW b, NEW c, NEW d,
         Four(p, q, s, t), Four(a, b, c, d)
  PROVE  Xor(OfHalves(p, q, s, t), OfHalves(a, b, c, d))
           = OfHalves(NibbleXor[p][a], NibbleXor[q][b], NibbleXor[s][c], NibbleXor[t][d])
<1>. DEFINE l == OfHalves(p, q, s, t)
            r == OfHalves(a, b, c, d)
<1>. USE DEF Four
<1>1. Nibble(l, 1) = t /\ Nibble(l, 16) = s /\ Nibble(l, 256) = q /\ Nibble(l, 4096) = p
  BY NibblesAre
<1>2. Nibble(r, 1) = d /\ Nibble(r, 16) = c /\ Nibble(r, 256) = b /\ Nibble(r, 4096) = a
  BY NibblesAre
<1>. HIDE DEF l, r
<1>3. Xor(l, r) = 1 * NibbleXor[t][d] + 16 * NibbleXor[s][c]
                    + 256 * NibbleXor[q][b] + 4096 * NibbleXor[p][a]
  BY <1>1, <1>2 DEF Xor
<1>4. PICK u \in HalfByte, v \in HalfByte, w \in HalfByte, x \in HalfByte :
        /\ u = NibbleXor[p][a] /\ v = NibbleXor[q][b]
        /\ w = NibbleXor[s][c] /\ x = NibbleXor[t][d]
  BY XorGroup
<1>5. 1 * x + 16 * w + 256 * v + 4096 * u = OfHalves(u, v, w, x)
  BY SMT DEF OfHalves, HalfByte
<1>6. Xor(l, r) = OfHalves(u, v, w, x)
  BY <1>3, <1>4, <1>5
<1>. QED
  BY <1>4, <1>6 DEF l, r

-----------------------------------------------------------------------------
(* The register                                                            *)

\* Four shifts of the register at a time: what the handbook's table has for a
\* half byte x is OfHalves(x, x \div 2, 8 * (x % 2), x).
Mixed(p, q, s, x) ==
  OfHalves(x, NibbleXor[p][x \div 2], NibbleXor[q][8 * (x % 2)], NibbleXor[s][x])

\* x is a half byte, and so are its parts.
LEMMA Parts ==
  ASSUME NEW x \in HalfByte
  PROVE  x \div 2 \in HalfByte /\ 8 * (x % 2) \in HalfByte
BY DEF HalfByte

\* That is what a shift by a half byte does.
LEMMA ShiftMixes ==
  ASSUME NEW p, NEW q, NEW s, NEW t, Four(p, q, s, t), NEW n \in HalfByte
  PROVE  Shift(OfHalves(p, q, s, t), n) = Mixed(p, q, s, NibbleXor[t][n])
<1>0. p \in HalfByte /\ q \in HalfByte /\ s \in HalfByte /\ t \in HalfByte
  BY DEF Four
<1>. USE <1>0
<1>1. PICK x \in HalfByte : x = NibbleXor[t][n]
  BY XorGroup
<1>2. OfHalves(p, q, s, t) \div 16 = OfHalves(0, p, q, s) /\ OfHalves(p, q, s, t) % 16 = t
  BY HalvesAre
<1>3. (x * 4225) % 65536 = OfHalves(x, x \div 2, 8 * (x % 2), x)
  <2>1. x * 4225 = 4096 * x + 128 * x + x
    BY SMT DEF HalfByte
  <2>2. 128 * x = 256 * (x \div 2) + 16 * (8 * (x % 2))
    BY SMT DEF HalfByte
  <2>3. x * 4225 = OfHalves(x, x \div 2, 8 * (x % 2), x)
    BY <2>1, <2>2, SMT DEF OfHalves, HalfByte
  <2>4. (x * 4225) % 65536 = x * 4225
    BY SMT DEF HalfByte
  <2>. QED
    BY <2>3, <2>4
<1>4. Shift(OfHalves(p, q, s, t), n)
        = Xor(OfHalves(0, p, q, s), OfHalves(x, x \div 2, 8 * (x % 2), x))
  BY <1>1, <1>2, <1>3 DEF Shift
<1>5. PICK y \in HalfByte, z \in HalfByte : y = x \div 2 /\ z = 8 * (x % 2)
  BY Parts
<1>6. Xor(OfHalves(0, p, q, s), OfHalves(x, y, z, x))
        = OfHalves(NibbleXor[0][x], NibbleXor[p][y], NibbleXor[q][z], NibbleXor[s][x])
  <2>1. Four(0, p, q, s) /\ Four(x, y, z, x)
    BY DEF Four, HalfByte
  <2>. QED
    BY <2>1, WordXor
<1>7. NibbleXor[0][x] = x
  BY XorGroup
<1>. QED
  BY <1>1, <1>4, <1>5, <1>6, <1>7 DEF Mixed
-----------------------------------------------------------------------------
(* One bit at a time                                                       *)

\* What the definition does with a bit of the message.
OneShift(r) == IF r % 2 = 1 THEN Xor(r \div 2, 33800) ELSE r \div 2

\* The bits of a half byte.
Bits(x, a, b, c, d) ==
  a \in {0, 1} /\ b \in {0, 1} /\ c \in {0, 1} /\ d \in {0, 1} /\ x = Half(a, b, c, d)

\* Half of a word: every bit one place down.
LEMMA HalfOfWord ==
  ASSUME NEW p, NEW q, NEW s, NEW t,
         NEW p3, NEW p2, NEW p1, NEW p0, NEW q3, NEW q2, NEW q1, NEW q0,
         NEW s3, NEW s2, NEW s1, NEW s0, NEW t3, NEW t2, NEW t1, NEW t0,
         Bits(p, p3, p2, p1, p0), Bits(q, q3, q2, q1, q0),
         Bits(s, s3, s2, s1, s0), Bits(t, t3, t2, t1, t0)
  PROVE  /\ OfHalves(p, q, s, t) % 2 = t0
         /\ OfHalves(p, q, s, t) \div 2
              = OfHalves(Half(0, p3, p2, p1), Half(p0, q3, q2, q1),
                         Half(q0, s3, s2, s1), Half(s0, t3, t2, t1))
<1>. DEFINE u == OfHalves(Half(0, p3, p2, p1), Half(p0, q3, q2, q1),
                          Half(q0, s3, s2, s1), Half(s0, t3, t2, t1))
<1>1. u \in Nat /\ t0 \in {0, 1}
  BY SMT DEF Bits, OfHalves, Half
<1>2. OfHalves(p, q, s, t) = 2 * u + t0
  BY SMT DEF Bits, OfHalves, Half
<1>. HIDE DEF u
<1>3. (2 * u + t0) % 2 = t0 /\ (2 * u + t0) \div 2 = u
  BY <1>1, SMT
<1>4. OfHalves(p, q, s, t) % 2 = t0 /\ OfHalves(p, q, s, t) \div 2 = u
  BY <1>2, <1>3
<1>. QED
  BY <1>4 DEF u

\* So this is a shift by a bit.
LEMMA OneShiftIs ==
  ASSUME NEW p, NEW q, NEW s, NEW t,
         NEW p3, NEW p2, NEW p1, NEW p0, NEW q3, NEW q2, NEW q1, NEW q0,
         NEW s3, NEW s2, NEW s1, NEW s0, NEW t3, NEW t2, NEW t1, NEW t0,
         Bits(p, p3, p2, p1, p0), Bits(q, q3, q2, q1, q0),
         Bits(s, s3, s2, s1, s0), Bits(t, t3, t2, t1, t0)
  PROVE  OneShift(OfHalves(p, q, s, t))
           = OfHalves(Half(t0, p3, p2, p1), Half(p0, BitXor(q3, t0), q2, q1),
                      Half(q0, s3, s2, s1), Half(BitXor(s0, t0), t3, t2, t1))
<1>. DEFINE w == OfHalves(p, q, s, t)
            u == OfHalves(Half(0, p3, p2, p1), Half(p0, q3, q2, q1),
                          Half(q0, s3, s2, s1), Half(s0, t3, t2, t1))
<1>0. /\ p3 \in {0, 1} /\ p2 \in {0, 1} /\ p1 \in {0, 1} /\ p0 \in {0, 1}
      /\ q3 \in {0, 1} /\ q2 \in {0, 1} /\ q1 \in {0, 1} /\ q0 \in {0, 1}
      /\ s3 \in {0, 1} /\ s2 \in {0, 1} /\ s1 \in {0, 1} /\ s0 \in {0, 1}
      /\ t3 \in {0, 1} /\ t2 \in {0, 1} /\ t1 \in {0, 1} /\ t0 \in {0, 1}
  BY Zenon DEF Bits
<1>1. w % 2 = t0 /\ w \div 2 = u
  BY HalfOfWord
<1>. HIDE DEF w
<1>2. \A a \in {0, 1} : BitXor(a, 0) = a /\ BitXor(0, a) = a /\ BitXor(a, 1) \in {0, 1}
  BY DEF BitXor
<1>3. CASE t0 = 0
  <2>1. OneShift(w) = u
    BY <1>1, <1>3 DEF OneShift
  <2>2. BitXor(q3, t0) = q3 /\ BitXor(s0, t0) = s0
    BY <1>0, <1>2, <1>3
  <2>. QED
    BY <1>3, <2>1, <2>2 DEF w
<1>4. CASE t0 = 1
  <2>1. OneShift(w) = Xor(u, 33800)
    BY <1>1, <1>4 DEF OneShift
  <2>2. 33800 = OfHalves(Half(1, 0, 0, 0), Half(0, 1, 0, 0), Half(0, 0, 0, 0), Half(1, 0, 0, 0))
    BY SMT DEF OfHalves, Half
  <2>3. NibbleXor[Half(0, p3, p2, p1)][Half(1, 0, 0, 0)] = Half(1, p3, p2, p1)
    <3>1. NibbleXor[Half(0, p3, p2, p1)][Half(1, 0, 0, 0)]
            = Half(BitXor(0, 1), BitXor(p3, 0), BitXor(p2, 0), BitXor(p1, 0))
      BY <1>0, HalfXor
    <3>. QED
      BY <1>0, <1>2, <3>1
  <2>4. NibbleXor[Half(p0, q3, q2, q1)][Half(0, 1, 0, 0)] = Half(p0, BitXor(q3, 1), q2, q1)
    <3>1. NibbleXor[Half(p0, q3, q2, q1)][Half(0, 1, 0, 0)]
            = Half(BitXor(p0, 0), BitXor(q3, 1), BitXor(q2, 0), BitXor(q1, 0))
      BY <1>0, HalfXor
    <3>. QED
      BY <1>0, <1>2, <3>1
  <2>5. NibbleXor[Half(q0, s3, s2, s1)][Half(0, 0, 0, 0)] = Half(q0, s3, s2, s1)
    <3>1. NibbleXor[Half(q0, s3, s2, s1)][Half(0, 0, 0, 0)]
            = Half(BitXor(q0, 0), BitXor(s3, 0), BitXor(s2, 0), BitXor(s1, 0))
      BY <1>0, HalfXor
    <3>. QED
      BY <1>0, <1>2, <3>1
  <2>6. NibbleXor[Half(s0, t3, t2, t1)][Half(1, 0, 0, 0)] = Half(BitXor(s0, 1), t3, t2, t1)
    <3>1. NibbleXor[Half(s0, t3, t2, t1)][Half(1, 0, 0, 0)]
            = Half(BitXor(s0, 1), BitXor(t3, 0), BitXor(t2, 0), BitXor(t1, 0))
      BY <1>0, HalfXor
    <3>. QED
      BY <1>0, <1>2, <3>1
  <2>7. /\ Four(Half(0, p3, p2, p1), Half(p0, q3, q2, q1), Half(q0, s3, s2, s1), Half(s0, t3, t2, t1))
        /\ Four(Half(1, 0, 0, 0), Half(0, 1, 0, 0), Half(0, 0, 0, 0), Half(1, 0, 0, 0))
    BY <1>0, HalfHas DEF Four
  <2>8. Xor(u, OfHalves(Half(1, 0, 0, 0), Half(0, 1, 0, 0), Half(0, 0, 0, 0), Half(1, 0, 0, 0)))
          = OfHalves(Half(1, p3, p2, p1), Half(p0, BitXor(q3, 1), q2, q1),
                     Half(q0, s3, s2, s1), Half(BitXor(s0, 1), t3, t2, t1))
    BY <2>3, <2>4, <2>5, <2>6, <2>7, WordXor
  <2>. QED
    BY <1>4, <2>1, <2>2, <2>8 DEF w
<1>. QED
  BY <1>0, <1>3, <1>4

\* Four of them are the shift of a half byte.
LEMMA FourShifts ==
  ASSUME NEW p \in HalfByte, NEW q \in HalfByte, NEW s \in HalfByte, NEW t \in HalfByte
  PROVE  OneShift(OneShift(OneShift(OneShift(OfHalves(p, q, s, t))))) = Mixed(p, q, s, t)
<1>1. PICK p3, p2, p1, p0 \in {0, 1} : p = Half(p3, p2, p1, p0)
  BY HalfHas
<1>2. PICK q3, q2, q1, q0 \in {0, 1} : q = Half(q3, q2, q1, q0)
  BY HalfHas
<1>3. PICK s3, s2, s1, s0 \in {0, 1} : s = Half(s3, s2, s1, s0)
  BY HalfHas
<1>4. PICK t3, t2, t1, t0 \in {0, 1} : t = Half(t3, t2, t1, t0)
  BY HalfHas
<1>5. \A a, b \in {0, 1} : BitXor(a, b) \in {0, 1} /\ BitXor(a, 0) = a
  BY DEF BitXor
<1>. DEFINE x0 == BitXor(s0, t0)
            x1 == BitXor(s1, t1)
            x2 == BitXor(s2, t2)
            x3 == BitXor(s3, t3)
            y0 == BitXor(p0, t1)
            y1 == BitXor(p1, t2)
            y2 == BitXor(p2, t3)
            z == BitXor(q3, t0)
<1>6. /\ x0 \in {0, 1} /\ x1 \in {0, 1} /\ x2 \in {0, 1} /\ x3 \in {0, 1}
      /\ y0 \in {0, 1} /\ y1 \in {0, 1} /\ y2 \in {0, 1} /\ z \in {0, 1}
  BY <1>1, <1>2, <1>3, <1>4, <1>5
<1>7. OneShift(OfHalves(p, q, s, t))
        = OfHalves(Half(t0, p3, p2, p1), Half(p0, z, q2, q1),
                   Half(q0, s3, s2, s1), Half(x0, t3, t2, t1))
  <2>1. /\ Bits(p, p3, p2, p1, p0) /\ Bits(q, q3, q2, q1, q0)
        /\ Bits(s, s3, s2, s1, s0) /\ Bits(t, t3, t2, t1, t0)
    BY <1>1, <1>2, <1>3, <1>4 DEF Bits
  <2>. QED
    BY <2>1, OneShiftIs
<1>8. OneShift(OfHalves(Half(t0, p3, p2, p1), Half(p0, z, q2, q1),
                        Half(q0, s3, s2, s1), Half(x0, t3, t2, t1)))
        = OfHalves(Half(t1, t0, p3, p2), Half(p1, y0, z, q2),
                   Half(q1, q0, s3, s2), Half(x1, x0, t3, t2))
  <2>. HIDE DEF z, x0
  <2>1. /\ Bits(Half(t0, p3, p2, p1), t0, p3, p2, p1) /\ Bits(Half(p0, z, q2, q1), p0, z, q2, q1)
        /\ Bits(Half(q0, s3, s2, s1), q0, s3, s2, s1) /\ Bits(Half(x0, t3, t2, t1), x0, t3, t2, t1)
    BY <1>1, <1>2, <1>3, <1>4, <1>6 DEF Bits
  <2>. QED
    BY <2>1, OneShiftIs
<1>9. OneShift(OfHalves(Half(t1, t0, p3, p2), Half(p1, y0, z, q2),
                        Half(q1, q0, s3, s2), Half(x1, x0, t3, t2)))
        = OfHalves(Half(t2, t1, t0, p3), Half(p2, y1, y0, z),
                   Half(q2, q1, q0, s3), Half(x2, x1, x0, t3))
  <2>. HIDE DEF z, y0, x0, x1
  <2>1. /\ Bits(Half(t1, t0, p3, p2), t1, t0, p3, p2) /\ Bits(Half(p1, y0, z, q2), p1, y0, z, q2)
        /\ Bits(Half(q1, q0, s3, s2), q1, q0, s3, s2) /\ Bits(Half(x1, x0, t3, t2), x1, x0, t3, t2)
    BY <1>1, <1>2, <1>3, <1>4, <1>6 DEF Bits
  <2>. QED
    BY <2>1, OneShiftIs
<1>10. OneShift(OfHalves(Half(t2, t1, t0, p3), Half(p2, y1, y0, z),
                         Half(q2, q1, q0, s3), Half(x2, x1, x0, t3)))
        = OfHalves(Half(t3, t2, t1, t0), Half(p3, y2, y1, y0),
                   Half(z, q2, q1, q0), Half(x3, x2, x1, x0))
  <2>. HIDE DEF z, y0, y1, x0, x1, x2
  <2>1. /\ Bits(Half(t2, t1, t0, p3), t2, t1, t0, p3) /\ Bits(Half(p2, y1, y0, z), p2, y1, y0, z)
        /\ Bits(Half(q2, q1, q0, s3), q2, q1, q0, s3) /\ Bits(Half(x2, x1, x0, t3), x2, x1, x0, t3)
    BY <1>1, <1>2, <1>3, <1>4, <1>6 DEF Bits
  <2>. QED
    BY <2>1, OneShiftIs
<1>11. Half(x3, x2, x1, x0) = NibbleXor[s][t]
  BY <1>3, <1>4, HalfXor
<1>12. Half(p3, y2, y1, y0) = NibbleXor[p][t \div 2]
  <2>1. t \div 2 = Half(0, t3, t2, t1)
    BY <1>4, HalfHas
  <2>2. NibbleXor[p][Half(0, t3, t2, t1)]
          = Half(BitXor(p3, 0), BitXor(p2, t3), BitXor(p1, t2), BitXor(p0, t1))
    BY <1>1, <1>4, HalfXor
  <2>. QED
    BY <1>1, <1>5, <2>1, <2>2
<1>13. Half(z, q2, q1, q0) = NibbleXor[q][8 * (t % 2)]
  <2>1. 8 * (t % 2) = Half(t0, 0, 0, 0)
    BY <1>4, HalfHas
  <2>2. NibbleXor[q][Half(t0, 0, 0, 0)]
          = Half(BitXor(q3, t0), BitXor(q2, 0), BitXor(q1, 0), BitXor(q0, 0))
    BY <1>2, <1>4, HalfXor
  <2>. QED
    BY <1>2, <1>5, <2>1, <2>2
<1>. HIDE DEF x0, x1, x2, x3, y0, y1, y2, z
<1>14. Mixed(p, q, s, t) = OfHalves(Half(t3, t2, t1, t0), Half(p3, y2, y1, y0),
                                    Half(z, q2, q1, q0), Half(x3, x2, x1, x0))
  BY <1>4, <1>11, <1>12, <1>13 DEF Mixed
<1>. QED
  BY <1>7, <1>8, <1>9, <1>10, <1>14
\* A shift by a bit leaves a word.
LEMMA OneShiftWord ==
  ASSUME NEW r \in Word
  PROVE  OneShift(r) \in Word
<1>1. r \in Nat /\ r < 65536
  BY DEF Word
<1>2. r \div 2 \in Nat /\ r \div 2 < 65536
  BY <1>1, SMT
<1>3. r \div 2 \in Word /\ 33800 \in Nat
  BY <1>2, WordIs, SMT
<1>4. Xor(r \div 2, 33800) \in Word
  BY <1>2, <1>3, XorIs, SMT
<1>. QED
  BY <1>3, <1>4, SMT DEF OneShift

\* The shifts of a byte.
Eight(z) == OneShift(OneShift(OneShift(OneShift(
              OneShift(OneShift(OneShift(OneShift(z))))))))

\* What the definition does with a byte is eight of them.
LEMMA EightAre ==
  ASSUME NEW z \in Byte
  PROVE  EightShifts[z] = Eight(z)
<1>. DEFINE E(r) == IF r % 2 = 1 THEN Xor(r \div 2, 33800) ELSE r \div 2
            C(f) == f = [i \in 0..8 |-> IF i = 0 THEN z ELSE E(f[i - 1])]
            h == CHOOSE f : C(f)
            step == [i \in 1..8 |-> [r \in Word |-> OneShift(r)]]
<1>0. z \in Word
  <2>1. z \in Nat /\ z < 65536
    BY SMT DEF Byte
  <2>. QED
    BY <2>1, WordIs
<1>1. \A r : E(r) = OneShift(r)
  BY DEF OneShift
<1>2. Steps(step, 8, Word)
  BY OneShiftWord DEF Steps
<1>3. PICK f \in [0..8 -> Word] : Follows(f, 8, z, step)
  <2>. HIDE DEF step
  <2>. QED
    BY <1>0, <1>2, Iterate
<1>4. EightShifts[z] = h[8]
  BY DEF EightShifts
<1>. HIDE DEF E
<1>5. ASSUME NEW i \in 0..8
      PROVE  f[i] = IF i = 0 THEN z ELSE E(f[i - 1])
  <2>1. i # 0 => i \in 1..8 /\ i - 1 \in 0..8
    OBVIOUS
  <2>2. i # 0 => f[i - 1] \in Word
    BY <2>1
  <2>. QED
    BY <1>1, <1>3, <2>1, <2>2 DEF Follows
<1>6. C(f)
  BY <1>5
<1>7. C(h)
  BY <1>6
<1>8. h[0] = z /\ \A i \in 1..8 : h[i] = E(h[i - 1])
  <2>1. h = [i \in 0..8 |-> IF i = 0 THEN z ELSE E(h[i - 1])]
    BY <1>7
  <2>. HIDE DEF h
  <2>2. h[0] = z
    BY <2>1
  <2>3. ASSUME NEW i \in 1..8
        PROVE  h[i] = E(h[i - 1])
    <3>1. i \in 0..8 /\ i # 0
      OBVIOUS
    <3>. QED
      BY <2>1, <3>1
  <2>. QED
    BY <2>2, <2>3
<1>. HIDE DEF h
<1>9. /\ h[1] = E(h[0]) /\ h[2] = E(h[1]) /\ h[3] = E(h[2]) /\ h[4] = E(h[3])
      /\ h[5] = E(h[4]) /\ h[6] = E(h[5]) /\ h[7] = E(h[6]) /\ h[8] = E(h[7])
  BY <1>8
<1>. QED
  BY <1>1, <1>4, <1>8, <1>9 DEF Eight

\* And two shifts by no half byte.
LEMMA EightShift ==
  ASSUME NEW s \in HalfByte, NEW t \in HalfByte
  PROVE  EightShifts[OfHalves(0, 0, s, t)] = Mixed(t, t \div 2, 8 * (t % 2), NibbleXor[s][t])
<1>0. 0 \in HalfByte
  BY DEF HalfByte
<1>1. OfHalves(0, 0, s, t) \in Byte
  BY SMT DEF OfHalves, HalfByte, Byte
<1>2. PICK u \in HalfByte, v \in HalfByte, w \in HalfByte :
        u = t \div 2 /\ v = 8 * (t % 2) /\ w = NibbleXor[s][t]
  BY Parts, XorGroup
<1>3. OneShift(OneShift(OneShift(OneShift(OfHalves(0, 0, s, t))))) = Mixed(0, 0, s, t)
  BY <1>0, FourShifts
<1>4. Mixed(0, 0, s, t) = OfHalves(t, u, v, w)
  BY <1>2, XorGroup DEF Mixed
<1>5. OneShift(OneShift(OneShift(OneShift(OfHalves(t, u, v, w))))) = Mixed(t, u, v, w)
  BY <1>2, FourShifts
<1>6. EightShifts[OfHalves(0, 0, s, t)] = Mixed(t, u, v, w)
  BY <1>1, <1>3, <1>4, <1>5, EightAre DEF Eight
<1>. QED
  BY <1>2, <1>6

\* The low half of a byte and then the high half, as the code has it, or the
\* byte at once, as the definition does.
LEMMA ByteShift ==
  ASSUME NEW r \in Word, NEW b \in Byte
  PROVE  Shift(Shift(r, b % 16), b \div 16) = Xor(r \div 256, EightShifts[Xor(r % 256, b)])
<1>0. 0 \in HalfByte
  BY DEF HalfByte
<1>1. PICK p \in HalfByte, q \in HalfByte, s \in HalfByte, t \in HalfByte :
        r = OfHalves(p, q, s, t)
  BY WordHas, Zenon
<1>2. PICK m \in HalfByte, n \in HalfByte : m = b \div 16 /\ n = b % 16
  BY SMT DEF HalfByte, Byte
<1>3. b = OfHalves(0, 0, m, n)
  <2>1. b = 16 * (b \div 16) + (b % 16)
    BY SMT DEF Byte
  <2>. QED
    BY <1>2, <2>1, SMT DEF OfHalves, HalfByte
<1>4. PICK x \in HalfByte, c \in HalfByte : x = NibbleXor[t][n] /\ c = NibbleXor[s][m]
  BY XorGroup
<1>5. PICK y \in HalfByte : y = NibbleXor[c][x]
  BY XorGroup
<1>6. PICK d \in HalfByte, e \in HalfByte : d = x \div 2 /\ e = 8 * (x % 2)
  BY Parts
<1>7. PICK f \in HalfByte, g \in HalfByte : f = y \div 2 /\ g = 8 * (y % 2)
  BY Parts
\* The code.
<1>8. Shift(r, n) = OfHalves(x, NibbleXor[p][d], NibbleXor[q][e], NibbleXor[s][x])
  <2>0. Four(p, q, s, t)
    BY DEF Four
  <2>1. Shift(OfHalves(p, q, s, t), n) = Mixed(p, q, s, NibbleXor[t][n])
    BY <2>0, ShiftMixes
  <2>2. Mixed(p, q, s, x) = OfHalves(x, NibbleXor[p][d], NibbleXor[q][e], NibbleXor[s][x])
    BY <1>6, Zenon DEF Mixed
  <2>. QED
    BY <1>1, <1>4, <2>1, <2>2
<1>9. PICK i \in HalfByte, j \in HalfByte, k \in HalfByte :
        i = NibbleXor[p][d] /\ j = NibbleXor[q][e] /\ k = NibbleXor[s][x]
  BY XorGroup
<1>10. NibbleXor[k][m] = y
  <2>1. NibbleXor[NibbleXor[s][x]][m] = NibbleXor[s][NibbleXor[x][m]]
    BY XorGroup
  <2>2. NibbleXor[x][m] = NibbleXor[m][x]
    BY XorGroup
  <2>3. NibbleXor[NibbleXor[s][m]][x] = NibbleXor[s][NibbleXor[m][x]]
    BY XorGroup
  <2>. QED
    BY <1>4, <1>5, <1>9, <2>1, <2>2, <2>3
<1>11. Shift(OfHalves(x, i, j, k), m)
         = OfHalves(y, NibbleXor[x][f], NibbleXor[i][g], NibbleXor[j][y])
  <2>0. Four(x, i, j, k)
    BY DEF Four
  <2>1. Shift(OfHalves(x, i, j, k), m) = Mixed(x, i, j, NibbleXor[k][m])
    BY <2>0, ShiftMixes
  <2>2. Mixed(x, i, j, y) = OfHalves(y, NibbleXor[x][f], NibbleXor[i][g], NibbleXor[j][y])
    BY <1>7, Zenon DEF Mixed
  <2>. QED
    BY <1>10, <2>1, <2>2
<1>12. Shift(Shift(r, b % 16), b \div 16)
         = OfHalves(y, NibbleXor[x][f], NibbleXor[i][g], NibbleXor[j][y])
  BY <1>2, <1>8, <1>9, <1>11
\* The definition.
<1>13. r \div 256 = OfHalves(0, 0, p, q) /\ r % 256 = OfHalves(0, 0, s, t)
  BY <1>1, HalvesAre
<1>14. Xor(r % 256, b) = OfHalves(0, 0, c, x)
  <2>1. Four(0, 0, s, t) /\ Four(0, 0, m, n)
    BY <1>0 DEF Four
  <2>2. NibbleXor[0][0] = 0
    BY <1>0, XorGroup
  <2>. QED
    BY <1>3, <1>4, <1>13, <2>1, <2>2, WordXor
<1>15. EightShifts[OfHalves(0, 0, c, x)]
         = OfHalves(y, NibbleXor[x][f], NibbleXor[d][g], NibbleXor[e][y])
  BY <1>5, <1>6, <1>7, EightShift DEF Mixed
<1>16. PICK u \in HalfByte, v \in HalfByte, w \in HalfByte :
         u = NibbleXor[x][f] /\ v = NibbleXor[d][g] /\ w = NibbleXor[e][y]
  BY XorGroup
<1>17. Xor(OfHalves(0, 0, p, q), OfHalves(y, u, v, w))
         = OfHalves(y, u, NibbleXor[p][v], NibbleXor[q][w])
  <2>1. Four(0, 0, p, q) /\ Four(y, u, v, w)
    BY <1>0 DEF Four
  <2>2. NibbleXor[0][y] = y /\ NibbleXor[0][u] = u
    BY XorGroup
  <2>. QED
    BY <2>1, <2>2, WordXor
<1>18. NibbleXor[i][g] = NibbleXor[p][v]
  BY <1>9, <1>16, XorGroup
<1>19. NibbleXor[j][y] = NibbleXor[q][w]
  BY <1>9, <1>16, XorGroup
<1>. QED
  BY <1>12, <1>13, <1>14, <1>15, <1>16, <1>17, <1>18, <1>19
\* The checksum of the code is that of the definition.
LEMMA CrcIsByBits ==
  ASSUME NEW s \in Seq(Byte)
  PROVE  Crc(s) = CrcByBits(s)
<1>0. Len(s) \in Nat /\ \A i \in 1..Len(s) : s[i] \in Byte
  BY Elements, Zenon
<1>. DEFINE n == Len(s)
            A(r, i) == IF r \in Word THEN Shift(Shift(r, s[i] % 16), s[i] \div 16) ELSE 0
            B(r, i) == IF r \in Word THEN Xor(r \div 256, EightShifts[Xor(r % 256, s[i])]) ELSE 0
            C(f) == f = [i \in 0..n |-> IF i = 0 THEN 0 ELSE A(f[i - 1], i)]
            D(f) == f = [i \in 0..n |-> IF i = 0 THEN 0 ELSE B(f[i - 1], i)]
            step == [i \in 1..n |-> [r \in Word |-> A(r, i)]]
            g == CHOOSE f : C(f)
            h == CHOOSE f : D(f)
<1>1. 0 \in Word
  BY WordIs
<1>2. ASSUME NEW i \in 1..n, NEW r
      PROVE  A(r, i) \in Word /\ A(r, i) = B(r, i)
  <2>1. PICK x \in Byte : x = s[i]
    BY <1>0
  <2>2. x \in Nat /\ x <= 255
    BY ByteIs
  <2>3. s[i] % 16 \in 0..15 /\ s[i] \div 16 \in 0..15
    BY <2>1, <2>2, Halves
  <2>4. r \in Word => Shift(Shift(r, s[i] % 16), s[i] \div 16) \in Word
    BY <2>3, ShiftIs
  <2>5. r \in Word => Shift(Shift(r, s[i] % 16), s[i] \div 16)
                        = Xor(r \div 256, EightShifts[Xor(r % 256, s[i])])
    BY <2>1, ByteShift
  <2>. QED
    BY <1>1, <2>4, <2>5
<1>3. Crc(s) = g[n] /\ CrcByBits(s) = h[n]
  BY DEF Crc, CrcByBits
<1>. HIDE DEF A, B
<1>4. Steps(step, n, Word)
  BY <1>2 DEF Steps
<1>5. PICK f \in [0..n -> Word] : Follows(f, n, 0, step)
  <2>. HIDE DEF step
  <2>. QED
    BY <1>0, <1>1, <1>4, Iterate
<1>6. ASSUME NEW i \in 0..n
      PROVE  /\ f[i] = IF i = 0 THEN 0 ELSE A(f[i - 1], i)
             /\ f[i] = IF i = 0 THEN 0 ELSE B(f[i - 1], i)
  <2>1. i # 0 => i \in 1..n /\ i - 1 \in 0..n
    BY <1>0
  <2>2. f[i] = IF i = 0 THEN 0 ELSE A(f[i - 1], i)
    BY <1>0, <1>5, <2>1 DEF Follows
  <2>. QED
    BY <1>2, <2>1, <2>2
<1>7. C(f) /\ D(f)
  BY <1>6
<1>8. C(g) /\ D(h)
  BY <1>7
<1>9. /\ \A i \in 0..n : g[i] = IF i = 0 THEN 0 ELSE A(g[i - 1], i)
      /\ \A i \in 0..n : h[i] = IF i = 0 THEN 0 ELSE B(h[i - 1], i)
  <2>1. g = [i \in 0..n |-> IF i = 0 THEN 0 ELSE A(g[i - 1], i)]
    BY <1>8
  <2>2. h = [i \in 0..n |-> IF i = 0 THEN 0 ELSE B(h[i - 1], i)]
    BY <1>8
  <2>. HIDE DEF g, h
  <2>. QED
    BY <2>1, <2>2
<1>. HIDE DEF g, h
<1>10. \A i \in 0..n : g[i] = h[i]
  <2>. DEFINE S == {i \in 0..n : g[i] = h[i]}
  <2>1. 0 \in S
    BY <1>0, <1>9
  <2>2. ASSUME NEW i \in 0..(n - 1), i \in S
        PROVE  i + 1 \in S
    <3>1. i + 1 \in 1..n /\ i + 1 \in 0..n /\ i + 1 # 0 /\ (i + 1) - 1 = i
      BY <1>0
    <3>2. g[i + 1] = A(g[i], i + 1) /\ h[i + 1] = B(h[i], i + 1)
      BY <1>9, <3>1
    <3>3. g[i] = h[i]
      BY <2>2
    <3>4. A(h[i], i + 1) = B(h[i], i + 1)
      BY <1>2, <3>1
    <3>. QED
      BY <3>1, <3>2, <3>3, <3>4
  <2>. HIDE DEF S
  <2>3. \A i \in 0..n : i \in S
    BY <1>0, <2>1, <2>2, UpToN
  <2>. QED
    BY <2>3 DEF S
<1>. QED
  BY <1>0, <1>3, <1>10

-----------------------------------------------------------------------------
(* Where a sequence has another                                            *)

\* s has e from its p-th element on.
At(s, p, e) ==
  /\ p \in Nat \ {0} /\ p + Len(e) <= Len(s) + 1
  /\ \A j \in 1..Len(e) : s[(p + j) - 1] = e[j]

\* SubSeq finds it.
LEMMA AtSubSeq ==
  ASSUME NEW S, NEW s \in Seq(S), NEW e \in Seq(S), NEW p, At(s, p, e), Len(e) > 0
  PROVE  SubSeq(s, p, (p + Len(e)) - 1) = e
<1>. DEFINE q == (p + Len(e)) - 1
            t == SubSeq(s, p, q)
<1>1. /\ Len(e) \in Nat /\ Len(s) \in Nat /\ p \in Nat \ {0} /\ q <= Len(s)
      /\ \A j \in 1..Len(e) : s[(p + j) - 1] = e[j]
  BY DEF At
<1>2. t \in Seq(S) /\ Len(t) = Len(e)
  BY <1>1
<1>3. ASSUME NEW j \in 1..Len(e) PROVE t[j] = e[j]
  BY <1>1
<1>. HIDE DEF t, q
<1>4. t = e
  BY <1>2, <1>3, SeqEqual, Zenon
<1>. QED
  BY <1>4 DEF t, q

\* What is in the middle of three is there.
LEMMA AtMiddle ==
  ASSUME NEW S, NEW a \in Seq(S), NEW e \in Seq(S), NEW b \in Seq(S)
  PROVE  At((a \o e) \o b, Len(a) + 1, e)
<1>. DEFINE s == (a \o e) \o b
<1>1. /\ Len(a) \in Nat /\ Len(e) \in Nat /\ Len(b) \in Nat
      /\ s \in Seq(S) /\ Len(s) = Len(a) + Len(e) + Len(b)
  OBVIOUS
<1>2. ASSUME NEW j \in 1..Len(e) PROVE s[((Len(a) + 1) + j) - 1] = e[j]
  <2>1. ((Len(a) + 1) + j) - 1 = Len(a) + j
    BY <1>1
  <2>2. s[Len(a) + j] = (a \o e)[Len(a) + j]
    BY <1>1
  <2>3. (a \o e)[Len(a) + j] = e[j]
    BY <1>1
  <2>. QED
    BY <2>1, <2>2, <2>3
<1>. HIDE DEF s
<1>3. Len(a) + 1 \in Nat \ {0} /\ (Len(a) + 1) + Len(e) <= Len(s) + 1
  BY <1>1
<1>. QED
  BY <1>2, <1>3 DEF At, s

\* So is what is at the beginning of two, or at the end.
LEMMA AtEnds ==
  ASSUME NEW S, NEW a \in Seq(S), NEW b \in Seq(S)
  PROVE  At(a \o b, 1, a) /\ At(a \o b, Len(a) + 1, b)
<1>1. /\ Len(a) \in Nat /\ Len(b) \in Nat /\ Len(a \o b) = Len(a) + Len(b)
  OBVIOUS
<1>2. ASSUME NEW j \in 1..Len(a) PROVE (a \o b)[(1 + j) - 1] = a[j]
  BY <1>1
<1>3. ASSUME NEW j \in 1..Len(b) PROVE (a \o b)[((Len(a) + 1) + j) - 1] = b[j]
  <2>1. ((Len(a) + 1) + j) - 1 = Len(a) + j
    BY <1>1
  <2>. QED
    BY <1>1, <2>1
<1>. QED
  BY <1>1, <1>2, <1>3 DEF At

\* A part of a part is a part.
LEMMA AtInner ==
  ASSUME NEW S, NEW s \in Seq(S), NEW t \in Seq(S), NEW e \in Seq(S),
         NEW p, NEW q, At(s, p, t), At(t, q, e)
  PROVE  At(s, (p + q) - 1, e)
<1>1. /\ Len(s) \in Nat /\ Len(t) \in Nat /\ Len(e) \in Nat
      /\ p \in Nat \ {0} /\ p + Len(t) <= Len(s) + 1
      /\ q \in Nat \ {0} /\ q + Len(e) <= Len(t) + 1
      /\ \A j \in 1..Len(t) : s[(p + j) - 1] = t[j]
      /\ \A j \in 1..Len(e) : t[(q + j) - 1] = e[j]
  BY DEF At
<1>2. ASSUME NEW j \in 1..Len(e) PROVE s[(((p + q) - 1) + j) - 1] = e[j]
  <2>1. PICK k \in 1..Len(t) : k = (q + j) - 1
    BY <1>1
  <2>2. (((p + q) - 1) + j) - 1 = (p + k) - 1
    BY <1>1, <2>1
  <2>. QED
    BY <1>1, <2>1, <2>2
<1>3. (p + q) - 1 \in Nat \ {0} /\ ((p + q) - 1) + Len(e) <= Len(s) + 1
  BY <1>1
<1>. QED
  BY <1>2, <1>3 DEF At

\* The host decodes the value that was encoded there.
LEMMA AtDecode ==
  ASSUME NEW s \in Seq(Byte), NEW v \in Int, NEW n \in Nat \ {0}, NEW p,
         At(s, p, Encode(v, n))
  PROVE  Decode(SubSeq(s, p, (p + n) - 1)) = IF Fits(v, n) THEN v ELSE 0
<1>1. Encode(v, n) \in Seq(Byte) /\ Len(Encode(v, n)) = n /\ n > 0
  BY EncodeBytes
<1>2. SubSeq(s, p, (p + n) - 1) = Encode(v, n)
  BY <1>1, AtSubSeq
<1>. QED
  BY <1>2, DecodeEncode

-----------------------------------------------------------------------------
(* Rows of parts                                                           *)

\* f has what the first parts make together.
Rows(f, parts, S) ==
  /\ f \in [0..Len(parts) -> Seq(S)]
  /\ f[0] = <<>> /\ \A i \in 1..Len(parts) : f[i] = f[i - 1] \o parts[i]

\* Every sequence of parts has such an f, and the last of f is their row.
LEMMA FlattenIs ==
  ASSUME NEW S, NEW parts \in Seq(Seq(S))
  PROVE  \E f : Rows(f, parts, S) /\ FlattenSeq(parts) = f[Len(parts)]
<1>0. Len(parts) \in Nat /\ \A i \in 1..Len(parts) : parts[i] \in Seq(S)
  BY Elements, Zenon
<1>. DEFINE n == Len(parts)
            step == [i \in 1..n |-> [r \in Seq(S) |-> r \o parts[i]]]
            F(g) == g = [i \in 1..n |-> IF i = 1 THEN parts[i] ELSE g[i - 1] \o parts[i]]
            h == CHOOSE g : F(g)
<1>1. Steps(step, n, Seq(S))
  BY <1>0 DEF Steps
<1>2. PICK f \in [0..n -> Seq(S)] : Follows(f, n, <<>>, step)
  <2>1. <<>> \in Seq(S)
    OBVIOUS
  <2>. HIDE DEF step
  <2>. QED
    BY <1>0, <1>1, <2>1, Iterate
<1>3. \A i \in 1..n : f[i] = f[i - 1] \o parts[i]
  <2>1. ASSUME NEW i \in 1..n PROVE f[i] = f[i - 1] \o parts[i]
    <3>1. i - 1 \in 0..n
      BY <1>0
    <3>2. f[i - 1] \in Seq(S)
      BY <1>2, <3>1, Zenon
    <3>3. f[i] = step[i][f[i - 1]]
      BY <1>2, Zenon DEF Follows
    <3>. QED
      BY <3>2, <3>3, Zenon
  <2>. QED
    BY <2>1
<1>4. Rows(f, parts, S) /\ f[0] = <<>>
  BY <1>2, <1>3 DEF Rows, Follows
<1>10. n # 0 => f[1] = parts[1]
  <2>. SUFFICES ASSUME n # 0 PROVE f[1] = parts[1]
    OBVIOUS
  <2>1. 1 \in 1..n /\ 1 - 1 = 0
    BY <1>0
  <2>2. f[1] = <<>> \o parts[1]
    BY <1>3, <1>4, <2>1
  <2>3. parts[1] \in Seq(S)
    BY <1>0, <2>1, Zenon
  <2>. QED
    BY <2>2, <2>3
<1>5. CASE n = 0
  BY <1>4, <1>5 DEF Rows, FlattenSeq
<1>6. CASE n # 0
  <2>. DEFINE g == [i \in 1..n |-> f[i]]
  <2>1. ASSUME NEW i \in 1..n
        PROVE  g[i] = IF i = 1 THEN parts[i] ELSE g[i - 1] \o parts[i]
    <3>1. CASE i = 1
      BY <1>6, <1>10, <3>1
    <3>2. CASE i # 1
      <4>1. i - 1 \in 1..n
        BY <1>0, <3>2
      <4>. QED
        BY <1>3, <3>2, <4>1
    <3>. QED
      BY <3>1, <3>2
  <2>2. F(g)
    BY <2>1
  <2>3. F(h)
    BY <2>2
  <2>4. FlattenSeq(parts) = h[n]
    BY <1>6 DEF FlattenSeq
  <2>5. h = [i \in 1..n |-> IF i = 1 THEN parts[i] ELSE h[i - 1] \o parts[i]]
    BY <2>3
  <2>. HIDE DEF h, n
  <2>6. \A i \in 1..n : h[i] = IF i = 1 THEN parts[i] ELSE h[i - 1] \o parts[i]
    BY <2>5
  <2>. DEFINE T == {i \in 0..n : i # 0 => h[i] = f[i]}
  <2>7. 0 \in T
    BY <1>0 DEF n
  <2>8. ASSUME NEW i \in 0..(n - 1), i \in T
        PROVE  i + 1 \in T
    <3>1. i + 1 \in 1..n /\ (i + 1) - 1 = i /\ (i # 0 => i + 1 # 1)
      BY <1>0 DEF n
    <3>2. CASE i = 0
      <4>1. i + 1 = 1
        BY <3>2
      <4>2. h[1] = parts[1]
        BY <2>6, <3>1, <4>1
      <4>3. h[i + 1] = f[i + 1]
        BY <1>6, <1>10, <4>1, <4>2
      <4>. QED
        BY <3>1, <4>3
    <3>3. CASE i # 0
      <4>1. h[i + 1] = h[i] \o parts[i + 1] /\ f[i + 1] = f[i] \o parts[i + 1]
        BY <1>3, <2>6, <3>1, <3>3
      <4>2. h[i] = f[i]
        BY <2>8, <3>3
      <4>3. h[i + 1] = f[i + 1]
        BY <4>1, <4>2, Zenon
      <4>. QED
        BY <3>1, <4>3
    <3>. QED
      BY <3>2, <3>3
  <2>. HIDE DEF T
  <2>9. \A i \in 0..n : i \in T
    BY <1>0, <2>7, <2>8, UpToN DEF n
  <2>10. h[n] = f[n]
    BY <1>0, <1>6, <2>9 DEF T, n
  <2>. QED
    BY <1>4, <2>4, <2>10 DEF n
<1>. QED
  BY <1>5, <1>6

\* A row has each of its parts, behind the parts before it.
LEMMA RowsHave ==
  ASSUME NEW S, NEW parts \in Seq(Seq(S)), NEW f, Rows(f, parts, S),
         NEW i \in 1..Len(parts)
  PROVE  /\ Len(f[i]) = Len(f[i - 1]) + Len(parts[i])
         /\ At(f[Len(parts)], Len(f[i - 1]) + 1, parts[i])
<1>0. Len(parts) \in Nat /\ \A k \in 1..Len(parts) : parts[k] \in Seq(S)
  BY Elements, Zenon
<1>. DEFINE n == Len(parts)
            e == parts[i]
            p == Len(f[i - 1]) + 1
            T == {k \in 0..n : k >= i => At(f[k], p, e)}
<1>1. /\ \A k \in 0..n : f[k] \in Seq(S)
      /\ \A k \in 1..n : f[k] = f[k - 1] \o parts[k]
  BY DEF Rows
<1>7. i - 1 \in 0..n /\ i \in 0..n
  BY <1>0
<1>2. f[i - 1] \in Seq(S) /\ e \in Seq(S) /\ f[i] = f[i - 1] \o e
  BY <1>0, <1>1, <1>7, Zenon
<1>3. At(f[i], p, e) /\ Len(f[i]) = Len(f[i - 1]) + Len(e)
  BY <1>2, AtEnds
<1>. HIDE DEF n, e, p
<1>4. 0 \in T
  BY <1>0 DEF n
<1>5. ASSUME NEW k \in 0..(n - 1), k \in T
      PROVE  k + 1 \in T
  <2>1. k + 1 \in 1..n /\ (k + 1) - 1 = k /\ k \in 0..n
    BY <1>0 DEF n
  <2>2. CASE k + 1 < i
    BY <2>1, <2>2
  <2>3. CASE k + 1 = i
    BY <1>3, <2>1, <2>3
  <2>4. CASE k + 1 > i
    <3>1. At(f[k], p, e)
      BY <1>5, <2>1, <2>4
    <3>2. f[k + 1] = f[k] \o parts[k + 1] /\ f[k] \in Seq(S) /\ parts[k + 1] \in Seq(S)
      BY <1>0, <1>1, <2>1 DEF n
    <3>3. At(f[k + 1], 1, f[k]) /\ f[k + 1] \in Seq(S)
      BY <3>2, AtEnds
    <3>4. At(f[k + 1], (1 + p) - 1, e)
      BY <1>2, <3>1, <3>2, <3>3, AtInner
    <3>5. (1 + p) - 1 = p
      BY <3>1 DEF At
    <3>. QED
      BY <2>1, <3>4, <3>5
  <2>. QED
    BY <2>1, <2>2, <2>3, <2>4
<1>. HIDE DEF T
<1>6. \A k \in 0..n : k \in T
  BY <1>0, <1>4, <1>5, UpToN DEF n
<1>9. n \in 0..n /\ n >= i
  BY <1>0 DEF n
<1>8. At(f[n], p, e)
  BY <1>6, <1>9 DEF T
<1>. QED
  BY <1>3, <1>8 DEF n, e, p

\* In a row of parts of one length, each has its place.
LEMMA EvenRow ==
  ASSUME NEW S, NEW parts \in Seq(Seq(S)), NEW w \in Nat,
         \A i \in 1..Len(parts) : Len(parts[i]) = w
  PROVE  /\ FlattenSeq(parts) \in Seq(S)
         /\ Len(FlattenSeq(parts)) = w * Len(parts)
         /\ \A i \in 1..Len(parts) : At(FlattenSeq(parts), w * (i - 1) + 1, parts[i])
<1>0. Len(parts) \in Nat
  BY Elements, Zenon
<1>1. PICK f : Rows(f, parts, S) /\ FlattenSeq(parts) = f[Len(parts)]
  BY FlattenIs, Zenon
<1>. DEFINE n == Len(parts)
            T == {i \in 0..n : Len(f[i]) = w * i}
<1>2. \A k \in 0..n : f[k] \in Seq(S)
  BY <1>1 DEF Rows
<1>3. 0 \in T
  <2>1. f[0] = <<>>
    BY <1>1 DEF Rows
  <2>. QED
    BY <1>0, <2>1
<1>4. ASSUME NEW i \in 0..(n - 1), i \in T PROVE i + 1 \in T
  <2>1. i + 1 \in 1..n /\ (i + 1) - 1 = i
    BY <1>0
  <2>2. Len(f[i + 1]) = Len(f[i]) + w
    BY <1>1, <2>1, RowsHave
  <2>3. Len(f[i]) = w * i
    BY <1>4
  <2>4. w * (i + 1) = w * i + w
    OBVIOUS
  <2>. QED
    BY <2>1, <2>2, <2>3, <2>4
<1>. HIDE DEF T
<1>5. \A i \in 0..n : i \in T
  BY <1>0, <1>3, <1>4, UpToN
<1>6. \A i \in 0..n : Len(f[i]) = w * i
  BY <1>5 DEF T
<1>7. f[n] \in Seq(S) /\ Len(f[n]) = w * n
  BY <1>0, <1>2, <1>6
<1>8. ASSUME NEW i \in 1..n PROVE At(f[n], w * (i - 1) + 1, parts[i])
  <2>1. i - 1 \in 0..n
    BY <1>0
  <2>2. Len(f[i - 1]) = w * (i - 1)
    BY <1>6, <2>1
  <2>. QED
    BY <1>1, <2>2, RowsHave
<1>. QED
  BY <1>1, <1>7, <1>8

-----------------------------------------------------------------------------
(* Frames                                                                  *)

\* Two sequences of bytes make one.
LEMMA Joined ==
  ASSUME NEW a \in Seq(Byte), NEW b \in Seq(Byte)
  PROVE  a \o b \in Seq(Byte) /\ Len(a \o b) = Len(a) + Len(b)
OBVIOUS

\* The second of two sequences is behind the first.
LEMMA Behind ==
  ASSUME NEW S, NEW a \in Seq(S), NEW b \in Seq(S)
  PROVE  /\ Len(a \o b) = Len(a) + Len(b)
         /\ \A i \in 1..Len(a) : (a \o b)[i] = a[i]
         /\ \A i \in 1..Len(b) : (a \o b)[Len(a) + i] = b[i]
<1>1. Len(a) \in Nat /\ Len(b) \in Nat
  BY Elements, Zenon
<1>. QED
  BY <1>1

\* A frame has two bytes before its data and two behind it.
LEMMA SerializeIs ==
  ASSUME NEW c \in Byte, NEW data \in Seq(Byte)
  PROVE  /\ Serialize(1, c, data) \in Seq(Byte)
         /\ Len(Serialize(1, c, data)) = Len(data) + 4
         /\ At(Serialize(1, c, data), 3, data)
<1>. DEFINE head == <<1, c>>
            body == head \o data
            crc == Crc(body)
            tail == <<crc % 256, crc \div 256>>
<1>1. head \in Seq(Byte) /\ Len(head) = 2
  BY ByteIs
<1>2. body \in Seq(Byte) /\ Len(body) = Len(data) + 2 /\ Len(data) \in Nat
  <2>. HIDE DEF head
  <2>1. body \in Seq(Byte) /\ Len(body) = 2 + Len(data)
    BY <1>1, Joined
  <2>2. Len(data) \in Nat
    BY Elements, Zenon
  <2>. QED
    BY <2>1, <2>2
<1>3. tail \in Seq(Byte) /\ Len(tail) = 2
  <2>. HIDE DEF body
  <2>1. crc \in Word
    BY <1>2, CrcIs
  <2>. HIDE DEF crc
  <2>2. crc \in Nat /\ crc < 65536
    BY <2>1, SMT DEF Word
  <2>3. crc % 256 \in Nat /\ crc % 256 <= 255 /\ crc \div 256 \in Nat /\ crc \div 256 <= 255
    BY <2>2, SMT
  <2>4. crc % 256 \in Byte /\ crc \div 256 \in Byte
    BY <2>3, ByteIs
  <2>. QED
    BY <2>4
<1>4. Serialize(1, c, data) = body \o tail
  BY DEF Serialize
<1>5. At(body \o tail, 3, data)
  <2>. HIDE DEF head, tail
  <2>1. At((head \o data) \o tail, Len(head) + 1, data)
    BY <1>1, <1>3, AtMiddle
  <2>. QED
    BY <1>1, <2>1
<1>6. body \o tail \in Seq(Byte) /\ Len(body \o tail) = Len(body) + Len(tail)
  <2>. HIDE DEF body, tail
  <2>. QED
    BY <1>2, <1>3, Joined
<1>. HIDE DEF body, tail
<1>7. Len(body \o tail) = Len(data) + 4
  BY <1>2, <1>3, <1>6
<1>. QED
  BY <1>4, <1>5, <1>6, <1>7, Zenon

\* A part of the data is two bytes further on in the frame.
LEMMA InFrame ==
  ASSUME NEW c \in Byte, NEW data \in Seq(Byte), NEW e \in Seq(Byte), NEW q, At(data, q, e)
  PROVE  At(Serialize(1, c, data), q + 2, e)
<1>1. At(Serialize(1, c, data), (3 + q) - 1, e)
  BY SerializeIs, AtInner
<1>2. (3 + q) - 1 = q + 2
  BY DEF At
<1>. QED
  BY <1>1, <1>2

\* Meters in a row have four bytes each.
LEMMA FieldsIs ==
  ASSUME NEW values \in Seq(Int)
  PROVE  /\ Fields(values) \in Seq(Byte) /\ Len(Fields(values)) = 4 * Len(values)
         /\ \A i \in 1..Len(values) :
              At(Fields(values), 4 * (i - 1) + 1, Encode(values[i], 4))
<1>. DEFINE parts == [i \in 1..Len(values) |-> Encode(values[i], 4)]
<1>1. Len(values) \in Nat /\ \A i \in 1..Len(values) : values[i] \in Int
  BY Elements, Zenon
<1>2. \A i \in 1..Len(values) : Encode(values[i], 4) \in Seq(Byte) /\ Len(Encode(values[i], 4)) = 4
  BY <1>1, EncodeBytes
<1>3. parts \in Seq(Seq(Byte)) /\ Len(parts) = Len(values)
  BY <1>1, <1>2
<1>4. \A i \in 1..Len(values) : parts[i] = Encode(values[i], 4)
  OBVIOUS
<1>5. Fields(values) = FlattenSeq(parts)
  BY DEF Fields
<1>. HIDE DEF parts
<1>6. \A i \in 1..Len(parts) : Len(parts[i]) = 4
  BY <1>2, <1>3, <1>4
<1>7. /\ FlattenSeq(parts) \in Seq(Byte) /\ Len(FlattenSeq(parts)) = 4 * Len(parts)
      /\ \A i \in 1..Len(parts) : At(FlattenSeq(parts), 4 * (i - 1) + 1, parts[i])
  BY <1>3, <1>6, EvenRow
<1>. QED
  BY <1>3, <1>4, <1>5, <1>7

-----------------------------------------------------------------------------
(* Accesses                                                                *)

\* The commands that ask for a single meter.
Singles ==
  {\h10, \h11, \h12, \h13, \h14, \h15, \h16, \h1A, \h20, \h27, \h2A, \h2B, \h2D,
   \h31, \h32, \h33, \h34, \h35, \h36, \h37, \h38, \h39, \h3A, \h46}

\* A table has the codes of its lines, and for each what one of them says.
LEMMA TableIs ==
  ASSUME NEW lines
  PROVE  /\ DOMAIN Table(lines) = {l[1] : l \in lines}
         /\ \A x \in DOMAIN Table(lines) :
              \E l \in lines : l[1] = x /\ Table(lines)[x] = l[2]
<1>1. DOMAIN Table(lines) = {l[1] : l \in lines}
  BY DEF Table
<1>2. ASSUME NEW x \in DOMAIN Table(lines)
      PROVE  \E l \in lines : l[1] = x /\ Table(lines)[x] = l[2]
  <2>. DEFINE k == CHOOSE l \in lines : l[1] = x
  <2>1. k \in lines /\ k[1] = x
    BY <1>1
  <2>2. Table(lines)[x] = k[2]
    BY <1>1 DEF Table
  <2>. QED
    BY <2>1, <2>2
<1>. QED
  BY <1>1, <1>2, Zenon

\* What they say are meters, if all of them do.
LEMMA TableGives ==
  ASSUME NEW lines, \A l \in lines : l[2] \in Meters
  PROVE  \A x \in DOMAIN Table(lines) : Table(lines)[x] \in Meters
BY TableIs, Zenon

\* The polls for one meter have one.
LEMMA SinglesAre ==
  /\ DOMAIN SingleMeter = Singles
  /\ \A c \in Singles : SingleMeter[c] \in Meters
<1>. DEFINE lines == BasicMeter \cup FurtherMeter \cup BillMeter
               \cup {<<\h20, "billCredits">>, <<\h27, "promo">>, <<\h2D, "handpaid">>}
<1>1. \A l \in lines : l[2] \in Meters
  BY DEF BasicMeter, FurtherMeter, BillMeter, Meters, Bills
<1>2. {l[1] : l \in lines} = Singles
  BY DEF BasicMeter, FurtherMeter, BillMeter, Singles
<1>3. SingleMeter = Table(lines)
  BY DEF SingleMeter
<1>. HIDE DEF lines
<1>4. DOMAIN SingleMeter = Singles
  BY <1>2, <1>3, TableIs
<1>. QED
  BY <1>1, <1>3, <1>4, TableGives, Zenon

\* What stands in table C-7 for a code is what the handler reads for it; for
\* every code it reads a meter or nothing.
LEMMA CodesAre ==
  /\ \A x : Coded(GameCodes, x) \in Meters \cup {Unread}
  /\ \A x : Coded(ExtendedCodes, x) \in Meters \cup {Unread}
  /\ \A x \in DOMAIN TableC7(\h2F) :
       Coded(GameCodes, x) = TableC7(\h2F)[x] /\ TableC7(\h2F)[x] # Unread
  /\ \A c \in Extended : \A x \in DOMAIN TableC7(c) :
       /\ Coded(ExtendedCodes, x) = TableC7(c)[x] /\ TableC7(c)[x] # Unread
       /\ x \in Nat /\ x <= 255 /\ x \notin TicketCodes
<1>. DEFINE games == {<<0, "coinIn">>, <<1, "coinOut">>, <<2, "drop">>, <<3, "jackpot">>,
                      <<4, "played">>, <<5, "won">>, <<\h0C, "credits">>}
            ext == {<<0, "coinIn">>, <<\h0C, "credits">>, <<\h1C, "coinOut">>, <<5, "played">>,
                    <<\h1F, "jackpot">>, <<\h40, "1">>, <<\h42, "5">>, <<\h43, "10">>,
                    <<\h44, "20">>, <<\h45, "50">>, <<\h46, "100">>}
            gamesC7 == {<<0, "coinIn">>, <<1, "coinOut">>, <<\h0C, "credits">>}
            extC7 == {<<0, "coinIn">>, <<\h0C, "credits">>, <<5, "played">>, <<\h40, "1">>,
                      <<\h42, "5">>, <<\h43, "10">>, <<\h44, "20">>}
<1>1. /\ GameCodes = Table(games) /\ ExtendedCodes = Table(ext)
      /\ TableC7(\h2F) = Table(gamesC7)
      /\ \A c \in Extended : TableC7(c) = Table(extC7)
  BY DEF GameCodes, ExtendedCodes, TableC7, Extended
<1>2. \A l \in games \cup ext : l[2] \in Meters
  BY DEF Meters, Bills
<1>3. /\ \A l \in gamesC7 : l \in games /\ l[2] # Unread
      /\ \A l \in extC7 : l \in ext /\ l[2] # Unread
  BY DEF Unread
<1>4. \A l \in extC7 : l[1] \in Nat /\ l[1] <= 255 /\ l[1] \notin TicketCodes
  BY DEF TicketCodes
<1>5. \A k, l \in games : k[1] = l[1] => k[2] = l[2]
  OBVIOUS
<1>6. \A k, l \in ext : k[1] = l[1] => k[2] = l[2]
  OBVIOUS
<1>. HIDE DEF games, ext, gamesC7, extC7
<1>7. \A x : Coded(GameCodes, x) \in Meters \cup {Unread}
  <2>1. \A x \in DOMAIN Table(games) : Table(games)[x] \in Meters
    BY <1>2, TableGives, Zenon
  <2>. QED
    BY <1>1, <2>1 DEF Coded
<1>8. \A x : Coded(ExtendedCodes, x) \in Meters \cup {Unread}
  <2>1. \A x \in DOMAIN Table(ext) : Table(ext)[x] \in Meters
    BY <1>2, TableGives, Zenon
  <2>. QED
    BY <1>1, <2>1 DEF Coded
<1>9. ASSUME NEW x \in DOMAIN TableC7(\h2F)
      PROVE  Coded(GameCodes, x) = TableC7(\h2F)[x] /\ TableC7(\h2F)[x] # Unread
  <2>0. TableC7(\h2F) = Table(gamesC7) /\ x \in DOMAIN Table(gamesC7)
    BY <1>1
  <2>1. PICK l \in gamesC7 : l[1] = x /\ Table(gamesC7)[x] = l[2]
    BY <2>0, TableIs, Zenon
  <2>2. x \in DOMAIN Table(games)
    BY <1>3, <2>1, TableIs, Zenon
  <2>3. PICK k \in games : k[1] = x /\ Table(games)[x] = k[2]
    BY <2>2, TableIs, Zenon
  <2>. QED
    BY <1>1, <1>3, <1>5, <2>0, <2>1, <2>2, <2>3 DEF Coded
<1>10. ASSUME NEW c \in Extended, NEW x \in DOMAIN TableC7(c)
       PROVE  /\ Coded(ExtendedCodes, x) = TableC7(c)[x] /\ TableC7(c)[x] # Unread
              /\ x \in Nat /\ x <= 255 /\ x \notin TicketCodes
  <2>0. TableC7(c) = Table(extC7) /\ x \in DOMAIN Table(extC7)
    BY <1>1
  <2>1. PICK l \in extC7 : l[1] = x /\ Table(extC7)[x] = l[2]
    BY <2>0, TableIs, Zenon
  <2>2. x \in DOMAIN Table(ext)
    BY <1>3, <2>1, TableIs, Zenon
  <2>3. PICK k \in ext : k[1] = x /\ Table(ext)[x] = k[2]
    BY <2>2, TableIs, Zenon
  <2>. QED
    BY <1>1, <1>3, <1>4, <1>6, <2>0, <2>1, <2>2, <2>3 DEF Coded
<1>. QED
  BY <1>7, <1>8, <1>9, <1>10

\* What each handler accesses.
LEMMA AccessesAre ==
  ASSUME NEW r, NEW c, c = r.command
  PROVE  /\ c \in Singles => Accesses(r) = <<Get(SingleMeter[c])>>
         /\ c = \h17 => Accesses(r) = GetAll(LostReads)
         /\ c = \h1C => Accesses(r) = GetAll(MachineMeters)
         /\ c = \h1D => Accesses(r) = GetAll(AftMeters)
         /\ c = \h1E => Accesses(r) = GetAll(BillMeters)
         /\ c = \h52 => Accesses(r) = GetAll(GameMeters)
         /\ c = \h19 => Accesses(r) =
              [i \in 1..5 |-> [op |-> "set", meter |-> CoinInAndMeters[i],
                               value |-> TestValues[i]]]
                \o GetAll(CoinInAndMeters)
         /\ c = \h2F => Accesses(r) =
              [i \in 1..Len(AskedForGame(r.data)) |->
                 Get(Coded(GameCodes, AskedForGame(r.data)[i]))]
         /\ c \in Extended => Accesses(r) =
              [i \in 1..Len(Asked(r.data)) |-> Get(Coded(ExtendedCodes, Asked(r.data)[i]))]
         /\ c = \h1B => Accesses(r) = LocalTime("now") \o FieldsOf(Date \o Time)
         /\ c \in {\h7C, \h7F} => Accesses(r) = LocalTime("expiry") \o FieldsOf(Date)
         /\ c = \h74 => Accesses(r) = <<Get("credits")>>
         /\ c = \h71 => Accesses(r) = IF Granted(r.data) THEN <<Get("credits")>> ELSE <<>>
         /\ c \notin Singles \cup Extended \cup DatePolls
                \cup {\h17, \h19, \h1C, \h1D, \h1E, \h2F, \h52, \h71, \h74}
              => Accesses(r) = <<>>
<1>1. c \in Singles => Accesses(r) = <<Get(SingleMeter[c])>>
  <2>1. SUFFICES ASSUME c \in Singles PROVE Accesses(r) = <<Get(SingleMeter[c])>>
    OBVIOUS
  <2>2. c \in DOMAIN SingleMeter
    BY <2>1, SinglesAre
  <2>3. c \notin Extended \cup {\h17, \h19, \h1B, \h1C, \h1D, \h1E, \h2F, \h52, \h71, \h74, \h7C, \h7F}
    BY <2>1 DEF Singles, Extended
  <2>. QED
    BY <2>2, <2>3 DEF Accesses
<1>. USE SinglesAre DEF Accesses, Singles, Extended
<1>2. c = \h17 => Accesses(r) = GetAll(LostReads)
  OBVIOUS
<1>3. c = \h1C => Accesses(r) = GetAll(MachineMeters)
  OBVIOUS
<1>4. c = \h1D => Accesses(r) = GetAll(AftMeters)
  OBVIOUS
<1>5. c = \h1E => Accesses(r) = GetAll(BillMeters)
  OBVIOUS
<1>6. c = \h52 => Accesses(r) = GetAll(GameMeters)
  OBVIOUS
<1>7. c = \h1B => Accesses(r) = LocalTime("now") \o FieldsOf(Date \o Time)
  OBVIOUS
<1>8. /\ c = \h7C => Accesses(r) = LocalTime("expiry") \o FieldsOf(Date)
      /\ c = \h7F => Accesses(r) = LocalTime("expiry") \o FieldsOf(Date)
  OBVIOUS
<1>9. c = \h74 => Accesses(r) = <<Get("credits")>>
  OBVIOUS
<1>10. c = \h71 => Accesses(r) = IF Granted(r.data) THEN <<Get("credits")>> ELSE <<>>
  OBVIOUS
<1>12. c = \h19 => Accesses(r) =
         [i \in 1..5 |-> [op |-> "set", meter |-> CoinInAndMeters[i],
                          value |-> TestValues[i]]]
           \o GetAll(CoinInAndMeters)
  OBVIOUS
<1>13. c = \h2F => Accesses(r) =
         [i \in 1..Len(AskedForGame(r.data)) |->
            Get(Coded(GameCodes, AskedForGame(r.data)[i]))]
  OBVIOUS
<1>14. c \in Extended => Accesses(r) =
         [i \in 1..Len(Asked(r.data)) |-> Get(Coded(ExtendedCodes, Asked(r.data)[i]))]
  <2>. DEFINE all == [i \in 1..Len(Asked(r.data)) |-> Get(Coded(ExtendedCodes, Asked(r.data)[i]))]
  <2>1. c = \h6F => Accesses(r) = all
    OBVIOUS
  <2>2. c = \hAF => Accesses(r) = all
    OBVIOUS
  <2>. QED
    BY <2>1, <2>2
<1>11. c \notin Singles \cup Extended \cup DatePolls
               \cup {\h17, \h19, \h1C, \h1D, \h1E, \h2F, \h52, \h71, \h74}
         => Accesses(r) = <<>>
  BY DEF DatePolls
<1>. QED
  BY SinglesAre, <1>1, <1>2, <1>3, <1>4, <1>5, <1>6, <1>7, <1>8, <1>9, <1>10,
     <1>11, <1>12, <1>13, <1>14

\* One access: its record.
Access ==
  [op : {"get", "set", "localtime", "field"},
   meter : Meters \cup {Unread, "now", "expiry"} \cup TmFields, value : Int]

\* What a handler does before it reads: five test values, or localtime.
Before(c) == IF c = \h19 THEN 5 ELSE IF c \in DatePolls THEN 1 ELSE 0

\* a may be the i-th access of the handler of c.
IthAccess(a, i, c) ==
  /\ a \in Access
  /\ a.op \in {"set", "localtime"} <=> i <= Before(c)
  /\ a.op = "set" => c = \h19 /\ a.meter \in Meters
  /\ a.op = "localtime" => /\ c \in DatePolls /\ i = 1
                           /\ a.meter = "now" <=> c = \h1B
  /\ a.op = "field" => c \in DatePolls /\ a.meter \in TmFields
  /\ a.op = "get" => a.meter \in Meters \cup {Unread}

\* They are the accesses of such a handler, in order.
HandlerOf(c, s) ==
  /\ s \in Seq(Access) /\ Before(c) <= Len(s)
  /\ \A i \in 1..Len(s) : IthAccess(s[i], i, c)

\* A handler that only reads meters is one.
LEMMA ReadsMeters ==
  ASSUME NEW ms \in Seq(Meters \cup {Unread}), NEW c, Before(c) = 0
  PROVE  /\ Len([i \in 1..Len(ms) |-> Get(ms[i])]) = Len(ms)
         /\ HandlerOf(c, [i \in 1..Len(ms) |-> Get(ms[i])])
<1>. DEFINE s == [i \in 1..Len(ms) |-> Get(ms[i])]
<1>1. Len(ms) \in Nat /\ \A i \in 1..Len(ms) : ms[i] \in Meters \cup {Unread}
  BY Elements, Zenon
<1>2. Len(s) = Len(ms)
  BY <1>1
<1>3. ASSUME NEW i \in 1..Len(ms) PROVE IthAccess(s[i], i, c)
  <2>1. s[i] = Get(ms[i]) /\ ms[i] \in Meters \cup {Unread}
    BY <1>1
  <2>2. Get(ms[i]) \in Access /\ Get(ms[i]).op = "get" /\ Get(ms[i]).meter = ms[i]
    BY <2>1 DEF Get, Access
  <2>3. ~(i <= Before(c))
    OBVIOUS
  <2>. QED
    BY <2>1, <2>2, <2>3 DEF IthAccess
<1>4. s \in Seq(Access)
  <2>1. \A i \in 1..Len(ms) : Get(ms[i]) \in Access
    BY <1>1 DEF Get, Access
  <2>. QED
    BY <1>1, <2>1
<1>5. Before(c) <= Len(s)
  BY <1>1, <1>2
<1>. HIDE DEF s
<1>6. HandlerOf(c, s)
  BY <1>2, <1>3, <1>4, <1>5 DEF HandlerOf
<1>. QED
  BY <1>2, <1>6 DEF s

\* The lists of meters are such.
LEMMA ListsAre ==
  /\ \A m \in Meters \cup {Unread} : <<m>> \in Seq(Meters \cup {Unread})
  /\ {LostReads, MachineMeters, AftMeters, BillMeters, GameMeters, CoinInAndMeters}
       \subseteq Seq(Meters \cup {Unread})
  /\ "credits" \in Meters /\ \A i \in 1..5 : CoinInAndMeters[i] \in Meters
<1>. USE DEF Meters, Bills
<1>1. /\ LostReads \in Seq(Meters \cup {Unread})
      /\ AftMeters \in Seq(Meters \cup {Unread})
      /\ BillMeters \in Seq(Meters \cup {Unread})
      /\ GameMeters \in Seq(Meters \cup {Unread})
  BY DEF LostReads, AftMeters, BillMeters, GameMeters
<1>2. MachineMeters \in Seq(Meters \cup {Unread}) /\ CoinInAndMeters \in Seq(Meters \cup {Unread})
  BY DEF MachineMeters, CoinInAndMeters
<1>3. "credits" \in Meters /\ \A i \in 1..5 : CoinInAndMeters[i] \in Meters
  BY DEF CoinInAndMeters
<1>. HIDE DEF Meters
<1>4. \A m \in Meters \cup {Unread} : <<m>> \in Seq(Meters \cup {Unread})
  OBVIOUS
<1>. QED
  BY <1>1, <1>2, <1>3, <1>4

\* The polls are commands with bytes behind them.
LEMMA RequestsAre ==
  ASSUME NEW r \in Requests
  PROVE  /\ r.command \in Reporting \cup {0} /\ r.data \in Seq(Byte)
         /\ Len(r.data) \in Nat /\ \A i \in 1..Len(r.data) : r.data[i] \in Byte
<1>1. r.command \in Reporting \cup {0} /\ r.data \in Seq(Byte)
  BY PollsAssumption
<1>. QED
  BY <1>1, Elements, Zenon

\* How many codes a poll asks for.
LEMMA AskedAre ==
  ASSUME NEW data \in Seq(Byte)
  PROVE  /\ Len(data) >= 2 => /\ AskedForGame(data) \in Seq(Byte)
                              /\ Len(AskedForGame(data)) = Len(data) - 2
         /\ Len(data) >= 3 => Asked(data) \in Seq(Word) /\ Len(Asked(data)) <= 12
<1>1. Len(data) \in Nat /\ \A i \in 1..Len(data) : data[i] \in Byte
  BY Elements, Zenon
<1>2. \A i \in 1..Len(data) : data[i] \in Nat /\ data[i] <= 255
  BY <1>1, ByteIs
<1>3. ASSUME Len(data) >= 2
      PROVE  AskedForGame(data) \in Seq(Byte) /\ Len(AskedForGame(data)) = Len(data) - 2
  <2>1. Len(data) - 2 \in Nat
    BY <1>1, <1>3
  <2>2. \A i \in 1..(Len(data) - 2) : data[i + 2] \in Byte
    BY <1>1
  <2>. QED
    BY <2>1, <2>2 DEF AskedForGame
<1>4. ASSUME Len(data) >= 3
      PROVE  Asked(data) \in Seq(Word) /\ Len(Asked(data)) <= 12
  <2>. DEFINE n == IF Len(data) < 27 THEN (Len(data) - 3) \div 2 ELSE 12
  <2>1. n \in Nat /\ n <= 12 /\ 2 * n + 3 <= Len(data)
    BY <1>1, <1>4
  <2>2. Asked(data) = [i \in 1..n |-> data[2 * i + 2] + 256 * data[2 * i + 3]]
    BY DEF Asked
  <2>. HIDE DEF n
  <2>3. ASSUME NEW i \in 1..n PROVE data[2 * i + 2] + 256 * data[2 * i + 3] \in Word
    <3>1. 2 * i + 2 \in 1..Len(data) /\ 2 * i + 3 \in 1..Len(data)
      BY <1>1, <2>1
    <3>2. /\ data[2 * i + 2] \in Nat /\ data[2 * i + 3] \in Nat
          /\ data[2 * i + 2] <= 255 /\ data[2 * i + 3] <= 255
      BY <1>2, <3>1
    <3>3. /\ data[2 * i + 2] + 256 * data[2 * i + 3] \in Nat
          /\ data[2 * i + 2] + 256 * data[2 * i + 3] < 65536
      BY <3>2
    <3>. QED
      BY <3>3, WordIs
  <2>. QED
    BY <2>1, <2>2, <2>3
<1>. QED
  BY <1>3, <1>4

\* What a handler that answers does: what comes before its reads, then them.
LEMMA HandlersAre ==
  ASSUME NEW r \in Requests, Answers(r)
  PROVE  HandlerOf(r.command, Accesses(r))
<1>. DEFINE c == r.command
            data == r.data
<1>0. /\ c # 0 /\ c \in Reporting /\ data \in Seq(Byte) /\ Len(data) \in Nat
      /\ c = \h2F => Len(data) >= 2
      /\ c \in Extended => Len(data) >= 3
  BY RequestsAre DEF Answers
<1>1. ASSUME NEW m \in Meters, Before(c) = 0
      PROVE  HandlerOf(c, <<Get(m)>>)
  <2>1. <<m>> \in Seq(Meters \cup {Unread})
    BY ListsAre, Zenon
  <2>2. HandlerOf(c, [i \in 1..Len(<<m>>) |-> Get(<<m>>[i])])
    BY <1>1, <2>1, ReadsMeters, Zenon
  <2>3. [i \in 1..Len(<<m>>) |-> Get(<<m>>[i])] = <<Get(m)>>
    OBVIOUS
  <2>. QED
    BY <2>2, <2>3
<1>2. CASE c \in Singles
  <2>1. Before(c) = 0
    BY <1>2 DEF Before, Singles, DatePolls
  <2>2. SingleMeter[c] \in Meters /\ Accesses(r) = <<Get(SingleMeter[c])>>
    BY <1>2, SinglesAre, AccessesAre
  <2>. QED
    BY <1>1, <2>1, <2>2
<1>3. CASE c \in {\h17, \h1C, \h1D, \h1E, \h52}
  <2>1. Before(c) = 0
    BY <1>3 DEF Before, DatePolls
  <2>2. PICK ms \in Seq(Meters \cup {Unread}) : Accesses(r) = GetAll(ms)
    BY <1>3, AccessesAre, ListsAre
  <2>. QED
    BY <2>1, <2>2, ReadsMeters DEF GetAll
<1>4. CASE c = \h2F
  <2>. DEFINE A == AskedForGame(data)
              ms == [i \in 1..Len(A) |-> Coded(GameCodes, A[i])]
  <2>1. Before(c) = 0
    BY <1>4 DEF Before, DatePolls
  <2>2. Len(A) \in Nat
    BY <1>0, <1>4, AskedAre
  <2>3. Accesses(r) = [i \in 1..Len(A) |-> Get(Coded(GameCodes, A[i]))]
    BY <1>4, AccessesAre
  <2>. HIDE DEF A
  <2>4. ms \in Seq(Meters \cup {Unread}) /\ Len(ms) = Len(A)
    BY <2>2, CodesAre
  <2>5. Accesses(r) = [i \in 1..Len(ms) |-> Get(ms[i])]
    BY <2>3, <2>4
  <2>. QED
    BY <2>1, <2>4, <2>5, ReadsMeters, Zenon
<1>5. CASE c \in Extended
  <2>. DEFINE A == Asked(data)
              ms == [i \in 1..Len(A) |-> Coded(ExtendedCodes, A[i])]
  <2>1. Before(c) = 0
    BY <1>5 DEF Before, DatePolls, Extended
  <2>2. Len(A) \in Nat
    BY <1>0, <1>5, AskedAre
  <2>3. Accesses(r) = [i \in 1..Len(A) |-> Get(Coded(ExtendedCodes, A[i]))]
    BY <1>5, AccessesAre
  <2>. HIDE DEF A
  <2>4. ms \in Seq(Meters \cup {Unread}) /\ Len(ms) = Len(A)
    BY <2>2, CodesAre
  <2>5. Accesses(r) = [i \in 1..Len(ms) |-> Get(ms[i])]
    BY <2>3, <2>4
  <2>. QED
    BY <2>1, <2>4, <2>5, ReadsMeters, Zenon
<1>6. CASE c = \h74 \/ c = \h71
  <2>1. Before(c) = 0
    BY <1>6 DEF Before, DatePolls
  <2>2. Accesses(r) = <<Get("credits")>> \/ Accesses(r) = <<>>
    BY <1>6, AccessesAre
  <2>3. HandlerOf(c, <<>>)
    BY <2>1 DEF HandlerOf
  <2>. QED
    BY <1>1, <2>1, <2>2, <2>3, ListsAre
<1>7. CASE c = \h19
  <2>. DEFINE sets == [i \in 1..5 |-> [op |-> "set", meter |-> CoinInAndMeters[i],
                                       value |-> TestValues[i]]]
              gets == GetAll(CoinInAndMeters)
  <2>1. Before(c) = 5 /\ Accesses(r) = sets \o gets
    BY <1>7, AccessesAre DEF Before
  <2>2. Len(gets) = 5 /\ HandlerOf(\h1C, gets)
    <3>1. Before(\h1C) = 0
      BY DEF Before, DatePolls
    <3>2. Len(CoinInAndMeters) = 5 /\ CoinInAndMeters \in Seq(Meters \cup {Unread})
      BY ListsAre DEF CoinInAndMeters
    <3>. QED
      BY <3>1, <3>2, ReadsMeters DEF GetAll
  <2>3. ASSUME NEW i \in 1..5
        PROVE  /\ sets[i] \in Access /\ sets[i].op = "set" /\ sets[i].meter \in Meters
               /\ gets[i] \in Access /\ gets[i].op = "get" /\ gets[i].meter \in Meters
    <3>1. CoinInAndMeters[i] \in Meters /\ TestValues[i] \in Int
      BY ListsAre DEF TestValues
    <3>2. gets[i] = Get(CoinInAndMeters[i])
      BY DEF GetAll, CoinInAndMeters
    <3>. QED
      BY <3>1, <3>2 DEF Access, Get
  <2>. DEFINE s == sets \o gets
  <2>4. /\ Len(s) = 10
        /\ \A i \in 1..5 : s[i] = sets[i]
        /\ \A i \in 6..10 : i - 5 \in 1..5 /\ s[i] = gets[i - 5]
    <3>1. Len(sets) = 5
      OBVIOUS
    <3>2. gets = [i \in 1..5 |-> Get(CoinInAndMeters[i])]
      BY DEF GetAll, CoinInAndMeters
    <3>. QED
      BY <2>2, <3>1, <3>2
  <2>9. sets \in Seq(Access) /\ gets \in Seq(Access)
    <3>1. \A i \in 1..5 : [op |-> "set", meter |-> CoinInAndMeters[i],
                           value |-> TestValues[i]] \in Access
      BY <2>3
    <3>. QED
      BY <2>2, <3>1 DEF HandlerOf
  <2>. HIDE DEF sets, gets
  <2>10. s \in Seq(Access)
    BY <2>9
  <2>. HIDE DEF s
  <2>5. ASSUME NEW i \in 1..10 PROVE IthAccess(s[i], i, c)
    <3>1. CASE i \in 1..5
      BY <1>7, <2>1, <2>3, <2>4, <3>1 DEF IthAccess
    <3>2. CASE i \in 6..10
      BY <1>7, <2>1, <2>3, <2>4, <3>2 DEF IthAccess
    <3>. QED
      BY <3>1, <3>2
  <2>6. Accesses(r) = s
    BY <2>1 DEF s
  <2>7. Before(c) = 5 /\ Len(s) = 10
    BY <2>1, <2>4
  <2>8. HandlerOf(c, s)
    BY <2>5, <2>7, <2>10 DEF HandlerOf
  <2>. QED
    BY <2>6, <2>8, Zenon
<1>8. CASE c \in DatePolls
  <2>. DEFINE when == IF c = \h1B THEN "now" ELSE "expiry"
              names == IF c = \h1B THEN Date \o Time ELSE Date
              first == LocalTime(when)
              f == FieldsOf(names)
              s == first \o f
  <2>1. Before(c) = 1
    BY <1>8 DEF Before, DatePolls
  <2>2. Accesses(r) = s
    <3>1. CASE c = \h1B
      BY <3>1, AccessesAre
    <3>2. CASE c \in {\h7C, \h7F}
      BY <3>2, AccessesAre
    <3>. QED
      BY <1>8, <3>1, <3>2 DEF DatePolls
  <2>3. names \in Seq(TmFields)
    <3>1. Date \in Seq(TmFields) /\ Time \in Seq(TmFields)
      BY DEF Date, Time, TmFields
    <3>. QED
      BY <3>1
  <2>4. Len(names) \in Nat /\ \A i \in 1..Len(names) : names[i] \in TmFields
    BY <2>3, Elements, Zenon
  <2>. HIDE DEF names
  <2>5. Len(f) = Len(names) /\ f \in Seq([op : {"field"}, meter : TmFields, value : {0}])
    BY <2>4 DEF FieldsOf
  <2>6. \A i \in 1..Len(names) : f[i] \in [op : {"field"}, meter : TmFields, value : {0}]
    BY <2>5, Elements
  <2>7. /\ first \in Seq(Access) /\ Len(first) = 1 /\ first[1] \in Access
        /\ first[1].op = "localtime"
        /\ first[1].meter = "now" <=> c = \h1B
    BY DEF LocalTime, Access
  <2>10. f \in Seq(Access)
    BY <2>4 DEF FieldsOf, Access
  <2>. HIDE DEF f, first
  <2>8. /\ Len(s) = 1 + Len(names) /\ s[1] = first[1]
        /\ \A i \in 2..(1 + Len(names)) : i - 1 \in 1..Len(names) /\ s[i] = f[i - 1]
    <3>1. first \in Seq(Access) /\ f \in Seq(Access) /\ Len(first) = 1 /\ Len(f) = Len(names)
      BY <2>5, <2>7, <2>10
    <3>5. first \in Seq(Access) /\ f \in Seq(Access)
      BY <3>1
    <3>6. s = first \o f
      OBVIOUS
    <3>2. /\ Len(s) = Len(first) + Len(f)
          /\ \A i \in 1..Len(first) : s[i] = first[i]
          /\ \A i \in 1..Len(f) : s[Len(first) + i] = f[i]
      <4>1. Len(first \o f) = Len(first) + Len(f)
        BY <3>5, Behind
      <4>2. \A i \in 1..Len(first) : (first \o f)[i] = first[i]
        BY <3>5, Behind
      <4>3. \A i \in 1..Len(f) : (first \o f)[Len(first) + i] = f[i]
        BY <3>5, Behind
      <4>. HIDE DEF s
      <4>. QED
        BY <3>6, <4>1, <4>2, <4>3, Zenon
    <3>3. ASSUME NEW i \in 2..(1 + Len(names))
          PROVE  i - 1 \in 1..Len(names) /\ s[i] = f[i - 1]
      <4>. HIDE DEF s
      <4>1. i - 1 \in 1..Len(f) /\ Len(first) + (i - 1) = i
        BY <2>4, <3>1
      <4>. QED
        BY <3>1, <3>2, <4>1
    <3>4. Len(s) = 1 + Len(names) /\ s[1] = first[1]
      <4>. HIDE DEF s
      <4>1. 1 \in 1..Len(first)
        BY <3>1
      <4>. QED
        BY <3>1, <3>2, <4>1
    <3>. QED
      BY <3>3, <3>4, Zenon
  <2>11. s \in Seq(Access)
    BY <2>7, <2>10
  <2>. HIDE DEF s
  <2>9. ASSUME NEW i \in 1..(1 + Len(names)) PROVE IthAccess(s[i], i, c)
    <3>1. CASE i = 1
      BY <1>8, <2>1, <2>7, <2>8, <3>1 DEF IthAccess
    <3>2. CASE i \in 2..(1 + Len(names))
      <4>1. s[i] \in [op : {"field"}, meter : TmFields, value : {0}]
        BY <2>6, <2>8, <3>2
      <4>2. s[i] \in Access /\ s[i].op = "field" /\ s[i].meter \in TmFields
        BY <4>1 DEF Access
      <4>. QED
        BY <1>8, <2>1, <3>2, <4>2 DEF IthAccess
    <3>. QED
      BY <2>4, <3>1, <3>2
  <2>. QED
    BY <2>1, <2>2, <2>4, <2>8, <2>9, <2>11 DEF HandlerOf
<1>9. CASE c \notin Singles \cup Extended \cup DatePolls
              \cup {\h17, \h19, \h1C, \h1D, \h1E, \h2F, \h52, \h71, \h74}
  <2>1. Before(c) = 0 /\ Accesses(r) = <<>>
    BY <1>9, AccessesAre DEF Before
  <2>. QED
    BY <2>1 DEF HandlerOf
<1>. QED
  BY <1>2, <1>3, <1>4, <1>5, <1>6, <1>7, <1>8, <1>9

-----------------------------------------------------------------------------
(* The invariant                                                           *)

\* What the handler of the poll does from beginning to end, and how much of it
\* is done.
Accepted == IF Answers(poll) THEN Accesses(poll) ELSE <<>>
Done == Len(Accepted) - Len(todo)

\* The types of the variables; those of todo and frame follow from below.
Types ==
  /\ meter \in [Meters -> Int] /\ poll \in Requests \cup {NoPoll}
  /\ got \in Seq(Int)
  /\ tm \in [TmFields -> Nat] /\ struck \in BOOLEAN
  /\ during \in [Meters -> SUBSET Int] /\ lost \in Nat
  /\ polls \in 0..MaxPolls /\ changes \in 0..MaxChanges

\* What is still to be done is the rest of it.
TodoInv ==
  /\ todo \in Seq(Access) /\ Len(todo) <= Len(Accepted)
  /\ \A j \in 1..Len(todo) : todo[j] = Accepted[Done + j]

\* The time that a field of the C library's struct may show, and that a read
\* may have seen: that of the poll, or that of a save that came between.
AskedTime == IF poll.command = \h1B THEN Local ELSE Expiry
Shows(field, value) == value = AskedTime[field] \/ (struck /\ value = Utc[field])
ClockInv ==
  poll.command \in DatePolls /\ Done >= 1 => \A f \in TmFields : Shows(f, tm[f])

\* Every value that was read is one of its meter, since the poll came, or one
\* of its field of a date.
Saw(a, value) ==
  /\ a.op = "get" => IF a.meter = Unread THEN value = 0 ELSE value \in during[a.meter]
  /\ a.op = "field" => Shows(a.meter, value)
GotInv ==
  /\ Len(got) = IF Done > Before(poll.command) THEN Done - Before(poll.command) ELSE 0
  /\ \A i \in 1..Len(got) : Saw(Accepted[Before(poll.command) + i], got[i])
NowInv == poll # NoPoll => \A m \in Meters : meter[m] \in during[m]

\* Of the meters of 0x17 the one that is subtracted is read last, and grows: the
\* difference with the one that was read first only becomes smaller.
LostInv ==
  poll.command = \h17 =>
    /\ LostGames(meter["played"], meter["won"]) <= lost
    /\ Len(got) >= 1 => LostGames(got[1], meter["won"]) <= lost
    /\ Len(got) >= 2 => LostGames(got[1], got[2]) <= lost

\* A frame is the answer to the poll, with all that was read for it.
FrameInv ==
  frame # NoFrame =>
    /\ poll # NoPoll /\ todo = <<>> /\ Answers(poll)
    /\ frame = Serialize(1, ResponseCommand(poll.command), Report(poll, got))

\* The invariant.
IInv ==
  Types /\ TodoInv /\ ClockInv /\ GotInv /\ NowInv /\ LostInv /\ FrameInv

\* The times are those of a struct tm.
LEMMA TimesAre ==
  \A t \in {Local, Utc, Expiry} :
    /\ t \in [TmFields -> Nat]
    /\ \A f \in TmFields : t[f] <= 199 /\ (f # "year" => t[f] <= 59)
<1>1. ASSUME NEW t \in {Local, Utc, Expiry}
      PROVE  /\ t \in [TmFields -> Nat]
             /\ \A f \in TmFields : t[f] <= 199 /\ (f # "year" => t[f] <= 59)
  <2>1. t \in [TmFields -> 0..199] /\ \A f \in TmFields \ {"year"} : t[f] <= 59
    BY ClockAssumption, Zenon
  <2>2. \A f \in TmFields : t[f] \in 0..199
    BY <2>1, Zenon
  <2>3. 0..199 \subseteq Nat
    OBVIOUS
  <2>4. \A x \in 0..199 : x <= 199
    OBVIOUS
  <2>5. t \in [TmFields -> Nat]
    BY <2>1, <2>3, Zenon
  <2>. QED
    BY <2>1, <2>2, <2>4, <2>5, Zenon
<1>. QED
  BY <1>1, Zenon

\* An access is made of those that were left, and is in its place.
LEMMA AccessMade ==
  ASSUME Types, TodoInv, todo # <<>>, todo' = Tail(todo), poll' = poll
  PROVE  /\ TodoInv' /\ Done' = Done + 1 /\ Accepted' = Accepted
         /\ Done \in Nat /\ Answers(poll) /\ poll \in Requests
         /\ Head(todo) = Accepted[Done + 1] /\ Head(todo) \in Access
         /\ IthAccess(Head(todo), Done + 1, poll.command)
<1>1. Accepted' = Accepted
  BY DEF Accepted
<1>2. Len(todo) \in Nat /\ Len(todo) > 0 /\ todo \in Seq(Access)
  BY DEF TodoInv
<1>3. /\ Head(todo) = todo[1] /\ Head(todo) \in Access
      /\ Tail(todo) \in Seq(Access) /\ Len(Tail(todo)) = Len(todo) - 1
      /\ \A j \in 1..(Len(todo) - 1) : Tail(todo)[j] = todo[j + 1]
  BY <1>2
<1>4. Answers(poll) /\ poll \in Requests /\ Accepted = Accesses(poll)
  <2>1. Answers(poll)
    BY <1>2 DEF TodoInv, Accepted
  <2>2. poll # NoPoll
    BY <2>1 DEF Answers, NoPoll
  <2>. QED
    BY <2>1, <2>2 DEF Types, Accepted
<1>5. HandlerOf(poll.command, Accepted)
  BY <1>4, HandlersAre
<1>6. Len(Accepted) \in Nat /\ Len(todo) <= Len(Accepted)
  BY <1>5 DEF HandlerOf, TodoInv
<1>. DEFINE n == Len(Accepted)
            l == Len(todo)
<1>7. Done = n - l /\ Done' = n - (l - 1)
  BY <1>1, <1>3 DEF Done
<1>8. \A j \in 1..l : todo[j] = Accepted[Done + j]
  BY DEF TodoInv
<1>. HIDE DEF n, l
<1>9. Done \in Nat /\ Done' = Done + 1 /\ Done + 1 \in 1..n
  BY <1>2, <1>6, <1>7 DEF n, l
<1>10. Head(todo) = Accepted[Done + 1]
  BY <1>2, <1>3, <1>8 DEF l
<1>11. IthAccess(Head(todo), Done + 1, poll.command)
  BY <1>5, <1>9, <1>10 DEF HandlerOf, n
<1>12. ASSUME NEW j \in 1..(l - 1) PROVE Tail(todo)[j] = Accepted[(Done + 1) + j]
  <2>1. j + 1 \in 1..l /\ Done + (j + 1) = (Done + 1) + j
    BY <1>2, <1>9 DEF l
  <2>2. Tail(todo)[j] = todo[j + 1]
    BY <1>3 DEF l
  <2>. QED
    BY <1>8, <2>1, <2>2
<1>13. /\ todo' \in Seq(Access) /\ Len(todo') = l - 1 /\ Len(todo') <= Len(Accepted')
       /\ \A j \in 1..Len(todo') : todo'[j] = Accepted'[Done' + j]
  BY <1>1, <1>2, <1>3, <1>6, <1>9, <1>12 DEF l
<1>14. TodoInv'
  BY <1>13 DEF TodoInv
<1>. QED
  BY <1>1, <1>4, <1>3, <1>9, <1>10, <1>11, <1>14

\* What a read has seen it has seen, whatever comes.
LEMMA SeenIsSeen ==
  ASSUME poll' = poll, struck => struck', \A m \in Meters : during[m] \subseteq during'[m]
  PROVE  /\ \A f, v : Shows(f, v) => Shows(f, v)'
         /\ \A c, i, a : IthAccess(a, i, c) => \A v : Saw(a, v) => Saw(a, v)'
<1>1. ASSUME NEW f, NEW v, Shows(f, v) PROVE Shows(f, v)'
  BY <1>1 DEF Shows, AskedTime
<1>2. ASSUME NEW c, NEW i, NEW a, IthAccess(a, i, c), NEW v, Saw(a, v)
      PROVE  Saw(a, v)'
  <2>1. a.op = "get" => a.meter \in Meters \cup {Unread}
    BY <1>2 DEF IthAccess
  <2>2. (a.op = "get" => IF a.meter = Unread THEN v = 0 ELSE v \in during[a.meter])'
    BY <1>2, <2>1 DEF Saw
  <2>3. (a.op = "field" => Shows(a.meter, v))'
    BY <1>1, <1>2 DEF Saw
  <2>. QED
    BY <2>2, <2>3 DEF Saw
<1>. QED
  BY <1>1, <1>2

\* Every value that was read was read by an access of the handler.
LEMMA ReadBy ==
  ASSUME Types, TodoInv, GotInv
  PROVE  /\ Len(Accepted) \in Nat /\ Done \in Nat /\ Done <= Len(Accepted)
         /\ Before(poll.command) \in Nat /\ Len(got) \in Nat
         /\ \A i \in 1..Len(got) :
              /\ Before(poll.command) + i \in 1..Len(Accepted)
              /\ Before(poll.command) + i <= Done
              /\ IthAccess(Accepted[Before(poll.command) + i],
                           Before(poll.command) + i, poll.command)
<1>1. Before(poll.command) \in Nat /\ Len(got) \in Nat /\ Len(todo) \in Nat
  BY DEF Before, Types, TodoInv
<1>2. CASE ~Answers(poll)
  <2>1. Accepted = <<>>
    BY <1>2 DEF Accepted
  <2>2. Len(Accepted) = 0 /\ Done = 0
    BY <1>1, <2>1 DEF TodoInv, Done
  <2>3. Len(got) = 0
    BY <1>1, <2>2 DEF GotInv
  <2>. QED
    BY <1>1, <2>2, <2>3
<1>3. CASE Answers(poll)
  <2>1. poll \in Requests /\ Accepted = Accesses(poll)
    BY <1>3 DEF Types, Accepted, Answers, NoPoll
  <2>2. HandlerOf(poll.command, Accepted)
    BY <1>3, <2>1, HandlersAre
  <2>3. Len(Accepted) \in Nat /\ Done \in Nat /\ Done <= Len(Accepted)
    BY <1>1, <2>2 DEF HandlerOf, TodoInv, Done
  <2>4. ASSUME NEW i \in 1..Len(got)
        PROVE  /\ Before(poll.command) + i \in 1..Len(Accepted)
               /\ Before(poll.command) + i <= Done
    BY <1>1, <2>3 DEF GotInv
  <2>. QED
    BY <1>1, <2>2, <2>3, <2>4 DEF HandlerOf
<1>. QED
  BY <1>2, <1>3

\* What was read stays as it is while nothing is read.
LEMMA GotKept ==
  ASSUME Types, TodoInv, GotInv, poll' = poll, Accepted' = Accepted, got' = got,
         Done' = Done \/ (Done' = Done + 1 /\ Done + 1 <= Before(poll.command)),
         struck => struck', \A m \in Meters : during[m] \subseteq during'[m]
  PROVE  GotInv'
<1>1. /\ Done \in Nat /\ Before(poll.command) \in Nat
      /\ \A i \in 1..Len(got) : IthAccess(Accepted[Before(poll.command) + i],
                                          Before(poll.command) + i, poll.command)
  BY ReadBy
<1>2. Len(got') = IF Done' > Before(poll'.command) THEN Done' - Before(poll'.command) ELSE 0
  BY <1>1 DEF GotInv
<1>3. ASSUME NEW i \in 1..Len(got')
      PROVE  Saw(Accepted[Before(poll.command) + i], got[i])'
  <2>1. PICK a, v : a = Accepted[Before(poll.command) + i] /\ v = got[i]
    OBVIOUS
  <2>2. Saw(a, v) /\ IthAccess(a, Before(poll.command) + i, poll.command)
    BY <1>1, <2>1 DEF GotInv
  <2>3. Saw(a, v)'
    BY <2>2, SeenIsSeen
  <2>4. a = (Accepted[Before(poll.command) + i])' /\ v = (got[i])'
    BY <2>1
  <2>. QED
    BY <2>3, <2>4 DEF Saw, Shows
<1>. QED
  BY <1>2, <1>3 DEF GotInv

\* A read adds what it has seen.
LEMMA GotMore ==
  ASSUME Types, TodoInv, GotInv, poll' = poll, Accepted' = Accepted,
         NEW v, got' = Append(got, v), Done' = Done + 1, Done >= Before(poll.command),
         NEW a, a = Accepted[Done + 1], Saw(a, v)',
         struck' = struck, during' = during
  PROVE  GotInv'
<1>1. /\ Done \in Nat /\ Before(poll.command) \in Nat /\ Len(got) \in Nat /\ got \in Seq(Int)
      /\ Len(got) = Done - Before(poll.command)
  BY ReadBy DEF GotInv, Types
<1>2. /\ Len(got') = Len(got) + 1 /\ got'[Len(got) + 1] = v
      /\ \A i \in 1..Len(got) : got'[i] = got[i]
  BY <1>1
<1>3. Len(got') = IF Done' > Before(poll'.command) THEN Done' - Before(poll'.command) ELSE 0
  BY <1>1, <1>2
<1>4. ASSUME NEW i \in 1..Len(got')
      PROVE  Saw(Accepted[Before(poll.command) + i], got[i])'
  <2>1. CASE i = Len(got) + 1
    <3>1. a = (Accepted[Before(poll.command) + i])' /\ v = (got[i])'
      BY <1>1, <1>2, <2>1
    <3>. QED
      BY <3>1 DEF Saw, Shows
  <2>2. CASE i \in 1..Len(got)
    <3>1. Saw(Accepted[Before(poll.command) + i], got[i])
      BY <2>2 DEF GotInv
    <3>2. got[i] = (got[i])' /\ Accepted[Before(poll.command) + i] = (Accepted[Before(poll.command) + i])'
      BY <1>2, <2>2
    <3>. QED
      BY <3>1, <3>2 DEF Saw, Shows, AskedTime
  <2>. QED
    BY <1>1, <1>2, <2>1, <2>2
<1>. QED
  BY <1>3, <1>4 DEF GotInv

\* No poll, nothing to do.
LEMMA NothingToDo ==
  ASSUME ~Answers(poll), todo = <<>>, got = <<>>
  PROVE  TodoInv /\ GotInv /\ ClockInv
<1>1. Accepted = <<>> /\ Len(Accepted) = 0 /\ Len(todo) = 0 /\ Done = 0
  BY DEF Accepted, Done
<1>2. Before(poll.command) \in Nat
  BY DEF Before
<1>. QED
  BY <1>1, <1>2 DEF TodoInv, GotInv, ClockInv

\* It holds at the beginning: no poll has come.
LEMMA Beginning == Init => IInv
<1>. SUFFICES ASSUME Init PROVE IInv
  OBVIOUS
<1>. USE DEF Init
<1>1. Types
  <2>1. Utc \in [TmFields -> Nat]
    BY TimesAre
  <2>2. meter \in [Meters -> Int] /\ MaxPolls \in Nat /\ MaxChanges \in Nat
    BY PollsAssumption
  <2>5. during \in [Meters -> SUBSET Int]
    OBVIOUS
  <2>3. got \in Seq(Int)
    OBVIOUS
  <2>6. struck \in BOOLEAN
    BY Zenon
  <2>4. polls \in 0..MaxPolls /\ changes \in 0..MaxChanges /\ lost \in Nat
    BY <2>2
  <2>. QED
    BY <2>1, <2>2, <2>3, <2>4, <2>5, <2>6 DEF Types
<1>2. ~Answers(poll)
  BY DEF Answers, NoPoll
<1>3. TodoInv /\ GotInv /\ ClockInv
  BY <1>2, NothingToDo
<1>4. NowInv /\ LostInv /\ FrameInv
  BY DEF NowInv, LostInv, FrameInv, NoPoll
<1>. QED
  BY <1>1, <1>3, <1>4 DEF IInv

\* Games lost are a number.
LEMMA LostGamesAre ==
  ASSUME NEW p \in Int, NEW w \in Int
  PROVE  /\ LostGames(p, w) \in Nat
         /\ \A v \in Int : v >= w => LostGames(p, v) <= LostGames(p, w)
BY DEF LostGames

\* A poll comes: the histories begin with what the meters have now.
LEMMA AcceptKeeps ==
  ASSUME IInv, NEW request \in Requests, Accept(request)
  PROVE  IInv'
<1>. USE DEF Accept, IInv
<1>0. meter["played"] \in Int /\ meter["won"] \in Int
  BY DEF Types, Meters
<1>1. Types'
  <2>1. lost' \in Nat
    BY <1>0, LostGamesAre
  <2>2. \A m \in Meters : {meter[m]} \in SUBSET Int
    BY DEF Types
  <2>3. polls' \in 0..MaxPolls /\ changes' \in 0..MaxChanges /\ MaxPolls \in Nat
    BY PollsAssumption DEF Types
  <2>4. during' \in [Meters -> SUBSET Int]
    BY <2>2
  <2>5. /\ meter' \in [Meters -> Int] /\ tm' \in [TmFields -> Nat] /\ struck' \in BOOLEAN
    BY DEF Types
  <2>6. poll' \in Requests \cup {NoPoll} /\ got' \in Seq(Int)
    OBVIOUS
  <2>. QED
    BY <2>1, <2>3, <2>4, <2>5, <2>6 DEF Types
<1>2. todo' = Accepted' /\ poll' = request /\ got' = <<>>
  BY DEF Accepted
<1>3. Len(Accepted') \in Nat /\ Accepted' \in Seq(Access)
  <2>1. CASE Answers(request)
    <3>1. HandlerOf(request.command, Accesses(request))
      BY <2>1, HandlersAre
    <3>. QED
      BY <2>1, <3>1 DEF Accepted, HandlerOf
  <2>2. CASE ~Answers(request)
    BY <2>2 DEF Accepted
  <2>. QED
    BY <2>1, <2>2
<1>4. Done' = 0
  BY <1>2, <1>3 DEF Done
<1>5. TodoInv'
  <2>1. \A j \in 1..Len(todo') : todo'[j] = Accepted'[Done' + j]
    BY <1>2, <1>3, <1>4
  <2>. QED
    BY <1>2, <1>3, <2>1 DEF TodoInv
<1>6. GotInv' /\ ClockInv'
  <2>1. Before(poll'.command) \in Nat
    BY DEF Before
  <2>. QED
    BY <1>2, <1>4, <2>1 DEF GotInv, ClockInv
<1>7. NowInv'
  BY DEF NowInv
<1>8. LostInv'
  <2>1. lost' = LostGames(meter["played"], meter["won"])
    OBVIOUS
  <2>2. LostGames(meter["played"], meter["won"]) \in Nat
    BY <1>0, LostGamesAre
  <2>3. lost' <= lost' /\ Len(got') = 0 /\ meter' = meter
    BY <1>2, <2>1, <2>2
  <2>. QED
    BY <2>1, <2>3 DEF LostInv
<1>9. FrameInv'
  BY DEF FrameInv
<1>. QED
  BY <1>1, <1>5, <1>6, <1>7, <1>8, <1>9

\* While the handler has something left, the port has sent nothing.
LEMMA StillNoFrame ==
  ASSUME FrameInv, todo # <<>> \/ Handling, frame' = frame
  PROVE  FrameInv'
BY DEF FrameInv, Handling, NoFrame

\* What is appended to one value is the second.
LEMMA TheSecond ==
  ASSUME NEW s \in Seq(Int), Len(s) = 1, NEW w \in Int
  PROVE  Append(s, w)[1] = s[1] /\ Append(s, w)[2] = w
<1>1. \A i \in 1..Len(s) : Append(s, w)[i] = s[i]
  BY AppendProperties
<1>2. Append(s, w)[Len(s) + 1] = w
  BY AppendProperties
<1>3. Len(s) + 1 = 2 /\ 1 \in 1..Len(s)
  OBVIOUS
<1>. QED
  BY <1>1, <1>2, <1>3, Zenon

\* A meter is read: its value is one it has had.  For 0x17 the games won come
\* last, and have only grown since the games played were read.
LEMMA GetMeterKeeps ==
  ASSUME IInv, GetMeter
  PROVE  IInv'
<1>. USE DEF IInv, GetMeter, clock
<1>1. /\ TodoInv' /\ Done' = Done + 1 /\ Accepted' = Accepted /\ Done \in Nat
      /\ Head(todo) = Accepted[Done + 1] /\ Head(todo) \in Access
      /\ IthAccess(Head(todo), Done + 1, poll.command)
      /\ Answers(poll) /\ poll \in Requests
  BY AccessMade
<1>. DEFINE m == Head(todo).meter
            v == IF m = Unread THEN 0 ELSE meter[m]
<1>2. m \in Meters \cup {Unread} /\ ~(Done + 1 <= Before(poll.command))
  BY <1>1 DEF IthAccess
<1>3. poll # NoPoll
  BY <1>1 DEF Answers, NoPoll
<1>4. got' = Append(got, v) /\ v \in Int
  BY <1>2 DEF Types
<1>5. PICK w \in Int : w = v
  BY <1>4
<1>6. PICK a : a = Head(todo)
  OBVIOUS
<1>7. GotInv'
  <2>1. Saw(a, w)'
    BY <1>2, <1>3, <1>5, <1>6 DEF Saw, NowInv
  <2>2. Done >= Before(poll.command)
    BY <1>1, <1>2 DEF Before
  <2>3. got' = Append(got, w) /\ a = Accepted[Done + 1]
    BY <1>1, <1>4, <1>5, <1>6
  <2>. QED
    BY <1>1, <2>1, <2>2, <2>3, GotMore
<1>8. Types'
  <2>1. got' \in Seq(Int)
    BY <1>4, <1>5 DEF Types
  <2>. QED
    BY <2>1 DEF Types
<1>9. ClockInv'
  <2>1. poll.command \in DatePolls => Done >= 1
    BY <1>1, <1>2 DEF Before, DatePolls
  <2>. QED
    BY <2>1 DEF ClockInv, Shows, AskedTime
<1>10. NowInv'
  BY DEF NowInv
<1>11. LostInv'
  <2>. SUFFICES ASSUME poll.command = \h17 PROVE LostInv'
    BY DEF LostInv
  <2>1. Accepted = <<Get("played"), Get("won")>> /\ Before(poll.command) = 0
    <3>1. Accepted = GetAll(LostReads)
      BY <1>1, AccessesAre DEF Accepted
    <3>. QED
      BY <3>1 DEF GetAll, LostReads, Before, DatePolls
  <2>2. Len(got) = Done /\ Done + 1 \in 1..2 /\ got \in Seq(Int)
    <3>1. Len(got) = Done
      BY <1>1, <2>1 DEF GotInv
    <3>2. Len(todo') \in Nat /\ Len(todo') <= Len(Accepted') /\ Done' = Len(Accepted') - Len(todo')
      BY <1>1 DEF TodoInv, Done
    <3>3. Len(Accepted') = 2
      BY <1>1, <2>1
    <3>. QED
      BY <1>1, <3>1, <3>2, <3>3 DEF Types
  <2>3. meter["played"] \in Int /\ meter["won"] \in Int
    BY DEF Types, Meters
  <2>4. CASE Done = 0
    <3>1. m = "played" /\ m # Unread
      BY <1>1, <2>1, <2>4 DEF Get, Unread
    <3>2. Len(got') = 1 /\ got'[1] = meter["played"]
      BY <1>4, <2>2, <2>4, <3>1
    <3>. QED
      BY <3>2 DEF LostInv
  <2>5. CASE Done = 1
    <3>1. m = "won" /\ m # Unread
      BY <1>1, <2>1, <2>5 DEF Get, Unread
    <3>3. got' = Append(got, w) /\ w = meter["won"]
      BY <1>4, <1>5, <3>1
    <3>4. Len(got) = 1 /\ got \in Seq(Int) /\ w \in Int
      BY <2>2, <2>5
    <3>5. Append(got, w)[1] = got[1] /\ Append(got, w)[2] = w
      BY <3>4, TheSecond
    <3>2. got'[1] = got[1] /\ got'[2] = meter["won"]
      BY <3>3, <3>5, Zenon
    <3>. QED
      BY <2>2, <2>5, <3>2 DEF LostInv
  <2>. QED
    BY <1>1, <2>2, <2>4, <2>5
<1>12. FrameInv'
  BY StillNoFrame
<1>. QED
  BY <1>1, <1>7, <1>8, <1>9, <1>10, <1>11, <1>12

\* The histories have what is written, and what they had.
LEMMA WriteKeeps ==
  ASSUME Types, NEW values, values \in [Meters -> Int], Write(values), poll' = poll,
         got' = got, tm' = tm, struck' = struck, polls' = polls, changes' \in 0..MaxChanges
  PROVE  /\ Types' /\ NowInv' /\ lost <= lost'
         /\ \A m \in Meters : during[m] \subseteq during'[m]
         /\ LostGames(values["played"], values["won"]) <= lost'
<1>. USE DEF Write
<1>1. values["played"] \in Int /\ values["won"] \in Int
  BY DEF Meters
<1>2. LostGames(values["played"], values["won"]) \in Nat /\ lost \in Nat
  BY <1>1, LostGamesAre DEF Types
<1>3. lost' \in Nat /\ lost <= lost' /\ LostGames(values["played"], values["won"]) <= lost'
  BY <1>2
<1>4. \A m \in Meters : during[m] \subseteq Int /\ during'[m] = during[m] \cup {values[m]}
  BY DEF Types
<1>5. during' \in [Meters -> SUBSET Int]
  BY <1>4
<1>6. Types'
  BY <1>3, <1>5 DEF Types
<1>7. NowInv'
  BY <1>4 DEF NowInv
<1>. QED
  BY <1>3, <1>4, <1>6, <1>7

\* 0x19 sets a meter; no poll for the lost games is handled meanwhile.
LEMMA SetMeterKeeps ==
  ASSUME IInv, SetMeter
  PROVE  IInv'
<1>. USE DEF IInv, SetMeter, clock
<1>1. /\ TodoInv' /\ Done' = Done + 1 /\ Accepted' = Accepted /\ Done \in Nat
      /\ Head(todo) \in Access /\ IthAccess(Head(todo), Done + 1, poll.command)
  BY AccessMade
<1>. DEFINE a == Head(todo)
            values == [meter EXCEPT ![a.meter] = a.value]
<1>2. a.meter \in Meters /\ poll.command = \h19 /\ Done + 1 <= Before(poll.command) /\ a.value \in Int
  BY <1>1 DEF IthAccess, Access
<1>4. values \in [Meters -> Int]
  BY <1>2 DEF Types
<1>3. PICK new \in [Meters -> Int] : Write(new)
  BY <1>4
<1>9. changes' \in 0..MaxChanges
  BY DEF Types
<1>5. Types' /\ NowInv' /\ \A m \in Meters : during[m] \subseteq during'[m]
  BY <1>3, <1>9, WriteKeeps
<1>6. GotInv'
  BY <1>1, <1>2, <1>5, GotKept
<1>7. ClockInv' /\ LostInv'
  BY <1>2 DEF ClockInv, LostInv, DatePolls
<1>8. FrameInv'
  BY StillNoFrame
<1>. QED
  BY <1>1, <1>5, <1>6, <1>7, <1>8

\* localtime sets every field to the time that was asked for.
LEMMA CallLocaltimeKeeps ==
  ASSUME IInv, CallLocaltime
  PROVE  IInv'
<1>. USE DEF IInv, CallLocaltime, clock
<1>1. /\ TodoInv' /\ Done' = Done + 1 /\ Accepted' = Accepted /\ Done \in Nat
      /\ IthAccess(Head(todo), Done + 1, poll.command)
  BY AccessMade
<1>2. /\ poll.command \in DatePolls /\ Done + 1 <= Before(poll.command)
      /\ Head(todo).meter = "now" <=> poll.command = \h1B
  <2>1. PICK a : a = Head(todo) /\ a.op = "localtime"
    OBVIOUS
  <2>2. IthAccess(a, Done + 1, poll.command)
    BY <1>1, <2>1
  <2>3. a.op \in {"set", "localtime"}
    BY <2>1
  <2>4. poll.command \in DatePolls /\ Done + 1 <= Before(poll.command)
    BY <2>1, <2>2, <2>3 DEF IthAccess
  <2>5. a.meter = "now" <=> poll.command = \h1B
    BY <2>1, <2>2, Zenon DEF IthAccess
  <2>. QED
    BY <2>1, <2>4, <2>5
<1>3. tm' = AskedTime /\ AskedTime' = AskedTime /\ tm' \in [TmFields -> Nat]
  BY <1>2, TimesAre DEF AskedTime
<1>4. Types'
  BY <1>3 DEF Types
<1>5. ClockInv'
  BY <1>3 DEF ClockInv, Shows
<1>6. GotInv'
  BY <1>1, <1>2, GotKept
<1>7. NowInv' /\ LostInv'
  BY DEF NowInv, LostInv
<1>8. FrameInv'
  BY StillNoFrame
<1>. QED
  BY <1>1, <1>4, <1>5, <1>6, <1>7, <1>8

\* A field of the time is read: what it shows.
LEMMA ReadTmKeeps ==
  ASSUME IInv, ReadTm
  PROVE  IInv'
<1>. USE DEF IInv, ReadTm, clock
<1>1. /\ TodoInv' /\ Done' = Done + 1 /\ Accepted' = Accepted /\ Done \in Nat
      /\ Head(todo) = Accepted[Done + 1]
      /\ IthAccess(Head(todo), Done + 1, poll.command)
  BY AccessMade
<1>2. /\ poll.command \in DatePolls /\ Head(todo).meter \in TmFields
      /\ ~(Done + 1 <= Before(poll.command)) /\ Before(poll.command) = 1
  BY <1>1 DEF IthAccess, Before, DatePolls
<1>3. PICK a, w : a = Head(todo) /\ w = tm[Head(todo).meter]
  OBVIOUS
<1>4. got' = Append(got, w) /\ w \in Int
  BY <1>2, <1>3 DEF Types
<1>5. Done >= 1
  BY <1>1, <1>2
<1>6. Saw(a, w)'
  BY <1>2, <1>3, <1>5 DEF ClockInv, Saw, Shows, AskedTime
<1>7. GotInv'
  BY <1>1, <1>2, <1>3, <1>4, <1>5, <1>6, GotMore
<1>8. Types'
  BY <1>4 DEF Types
<1>9. ClockInv' /\ NowInv' /\ LostInv'
  BY <1>2, <1>5 DEF ClockInv, NowInv, LostInv, Shows, AskedTime, DatePolls
<1>10. FrameInv'
  BY StillNoFrame
<1>. QED
  BY <1>1, <1>7, <1>8, <1>9, <1>10

\* The answer is the frame FrameInv speaks of.
LEMMA AnswerKeeps ==
  ASSUME IInv, Answer
  PROVE  IInv'
<1>. USE DEF IInv, Answer, clock
<1>1. poll # NoPoll
  BY DEF Handling
<1>2. Types' /\ NowInv' /\ LostInv' /\ TodoInv' /\ Done' = Done /\ Accepted' = Accepted
  BY DEF Types, NowInv, LostInv, TodoInv, Done, Accepted
<1>3. GotInv'
  BY <1>2, GotKept
<1>4. ClockInv'
  BY <1>2 DEF ClockInv, Shows, AskedTime
<1>5. FrameInv'
  BY <1>1 DEF FrameInv
<1>. QED
  BY <1>2, <1>3, <1>4, <1>5

\* A poll that gets no answer is forgotten.
LEMMA NoAnswerKeeps ==
  ASSUME IInv, NoAnswer
  PROVE  IInv'
<1>. USE DEF IInv, NoAnswer, clock
<1>1. Types' /\ NowInv' /\ LostInv'
  BY DEF Types, NowInv, LostInv, NoPoll
<1>2. ~Answers(poll')
  BY DEF Answers, NoPoll
<1>3. todo = <<>> /\ got = <<>>
  <2>1. Accepted = <<>>
    BY DEF Accepted
  <2>2. Len(todo) = 0 /\ todo \in Seq(Access) /\ Done = 0
    BY <2>1 DEF TodoInv, Done
  <2>3. Len(got) = 0 /\ got \in Seq(Int)
    BY <2>2 DEF GotInv, Types, Before
  <2>. QED
    BY <2>2, <2>3
<1>4. TodoInv' /\ GotInv' /\ ClockInv'
  <2>1. Accepted' = <<>> /\ todo' = <<>> /\ got' = <<>>
    BY <1>2, <1>3 DEF Accepted
  <2>2. Done' = 0
    BY <2>1 DEF Done
  <2>. QED
    BY <2>1, <2>2 DEF TodoInv, GotInv, ClockInv, Before
<1>5. FrameInv'
  BY StillNoFrame
<1>. QED
  BY <1>1, <1>4, <1>5

\* Another thread counts: what was read stays a value the meter has had.
LEMMA IncrementMeterKeeps ==
  ASSUME IInv, NEW c \in Changes, IncrementMeter(c[1], c[2])
  PROVE  IInv'
<1>. USE DEF IInv, IncrementMeter, clock
<1>. DEFINE values == [meter EXCEPT ![c[1]] = @ + c[2]]
<1>1. c[1] \in Meters /\ c[2] \in Int /\ (c[1] = "won" => c[2] >= 0)
  BY PollsAssumption
<1>2. values \in [Meters -> Int] /\ values["won"] >= meter["won"]
  BY <1>1 DEF Types, Meters
<1>3. PICK new \in [Meters -> Int] :
        /\ Write(new) /\ new["won"] >= meter["won"]
  BY <1>2
<1>4. changes' \in 0..MaxChanges
  BY PollsAssumption DEF Types
<1>5. /\ Types' /\ NowInv' /\ lost <= lost'
      /\ \A m \in Meters : during[m] \subseteq during'[m]
      /\ LostGames(new["played"], new["won"]) <= lost'
  BY <1>3, <1>4, WriteKeeps
<1>6. TodoInv' /\ Done' = Done /\ Accepted' = Accepted
  BY DEF TodoInv, Done, Accepted
<1>7. GotInv'
  BY <1>5, <1>6, GotKept
<1>8. ClockInv'
  BY <1>6 DEF ClockInv, Shows, AskedTime
<1>9. LostInv'
  <2>. SUFFICES ASSUME poll.command = \h17 PROVE LostInv'
    BY DEF LostInv
  <2>1. meter' = new /\ "won" \in Meters /\ "played" \in Meters
    BY <1>3 DEF Write, Meters
  <2>2. LostGames(meter'["played"], meter'["won"]) <= lost'
    BY <1>5, <2>1
  <2>3. got \in Seq(Int) /\ Len(got) \in Nat /\ lost \in Nat /\ lost' \in Nat
    BY <1>5 DEF Types
  <2>4. Len(got) >= 1 => LostGames(got[1], new["won"]) <= lost'
    <3>. SUFFICES ASSUME Len(got) >= 1 PROVE LostGames(got[1], new["won"]) <= lost'
      OBVIOUS
    <3>1. got[1] \in Int /\ meter["won"] \in Int /\ new["won"] \in Int
      BY <1>3, <2>1, <2>3 DEF Types
    <3>2. LostGames(got[1], new["won"]) <= LostGames(got[1], meter["won"])
      BY <1>3, <3>1, LostGamesAre
    <3>3. LostGames(got[1], meter["won"]) <= lost
      BY DEF LostInv
    <3>4. LostGames(got[1], new["won"]) \in Nat /\ LostGames(got[1], meter["won"]) \in Nat
      BY <3>1, LostGamesAre
    <3>. QED
      BY <1>5, <2>3, <3>2, <3>3, <3>4
  <2>5. Len(got) >= 2 => LostGames(got[1], got[2]) <= lost'
    <3>. SUFFICES ASSUME Len(got) >= 2 PROVE LostGames(got[1], got[2]) <= lost'
      OBVIOUS
    <3>1. got[1] \in Int /\ got[2] \in Int
      BY <2>3
    <3>2. LostGames(got[1], got[2]) <= lost /\ LostGames(got[1], got[2]) \in Nat
      BY <3>1, LostGamesAre DEF LostInv
    <3>. QED
      BY <1>5, <2>3, <3>2
  <2>. QED
    BY <2>1, <2>2, <2>4, <2>5 DEF LostInv
<1>10. FrameInv'
  BY StillNoFrame
<1>. QED
  BY <1>5, <1>6, <1>7, <1>8, <1>9, <1>10

\* A save stamps its file: the fields it has overwritten show the UTC time.
LEMMA StampSaveKeeps ==
  ASSUME IInv, NEW fields \in SUBSET TmFields, StampSave(fields)
  PROVE  IInv'
<1>. USE DEF IInv, StampSave
<1>1. TodoInv' /\ Done' = Done /\ Accepted' = Accepted
  BY DEF TodoInv, Done, Accepted
<1>2. tm' \in [TmFields -> Nat]
  BY TimesAre DEF Types
<1>3. Types'
  BY <1>2 DEF Types
<1>4. GotInv'
  BY <1>1, GotKept
<1>5. ClockInv'
  BY <1>1 DEF ClockInv, Shows, AskedTime
<1>6. NowInv' /\ LostInv'
  BY DEF NowInv, LostInv
<1>7. FrameInv'
  BY StillNoFrame
<1>. QED
  BY <1>1, <1>3, <1>4, <1>5, <1>6, <1>7

\* Nothing happens.
LEMMA StutterKeeps ==
  ASSUME IInv, UNCHANGED vars
  PROVE  IInv'
<1>. USE DEF IInv, vars, clock
<1>1. Types' /\ TodoInv' /\ NowInv' /\ LostInv' /\ Done' = Done /\ Accepted' = Accepted
  BY DEF Types, TodoInv, NowInv, LostInv, Done, Accepted
<1>2. GotInv'
  BY <1>1, GotKept
<1>3. ClockInv' /\ FrameInv'
  BY <1>1 DEF ClockInv, Shows, AskedTime, FrameInv
<1>. QED
  BY <1>1, <1>2, <1>3

\* What is left to do, what was read and what the frame was made of stay what
\* they are said to be, in every step.
THEOREM PollsInvariant == Spec => []IInv
<1>1. Init => IInv
  BY Beginning
<1>2. IInv /\ [Next]_vars => IInv'
  <2>. SUFFICES ASSUME IInv, [Next]_vars PROVE IInv'
    OBVIOUS
  <2>1. CASE Next
    BY <2>1, AcceptKeeps, GetMeterKeeps, SetMeterKeeps, CallLocaltimeKeeps, ReadTmKeeps,
       AnswerKeeps, NoAnswerKeeps, IncrementMeterKeeps, StampSaveKeeps DEF Next
  <2>2. CASE UNCHANGED vars
    BY <2>2, StutterKeeps
  <2>. QED
    BY <2>1, <2>2
<1>. QED
  BY <1>1, <1>2, PTL DEF Spec

-----------------------------------------------------------------------------
(* Reports                                                                 *)

\* What each handler reports.
LEMMA ReportsAre ==
  ASSUME NEW r, NEW v, NEW c, c = r.command
  PROVE  /\ c \in Singles \cup {\h19, \h1D, \h1E} => Report(r, v) = Fields(v)
         /\ c = \h17 => Report(r, v) = LostReport(v)
         /\ c = \h1C => Report(r, v) = Fields(v) \o Encode(0, 4)
         /\ c = \h1F => Report(r, v) = GameConfiguration
         /\ c = \h2F => Report(r, v) = GameNReport(r.data, v)
         /\ c = \h51 => Report(r, v) = NumberOfGames
         /\ c = \h52 => Report(r, v) = Game(r.data) \o Fields(v)
         /\ c = \h53 => Report(r, v) = GameNConfiguration(r.data)
         /\ c = \h54 => Report(r, v) = MachineID
         /\ c = \h55 => Report(r, v) = SelectedGame
         /\ c = \h56 => Report(r, v) = EnabledGames
         /\ c \in Extended => Report(r, v) = ExtendedReport(r.data, v)
         /\ c = \h7B => Report(r, v) = LastTicket
         /\ c = \h1B => Report(r, v) = DateTime(v)
         /\ c = \h71 => Report(r, v) = LockReport(r.data, v)
         /\ c = \h74 => Report(r, v) = AftReport(v)
         /\ c \in {\h7C, \h7F} => Report(r, v) = EnhancedTicket(v)
         /\ c = \h7D => Report(r, v) = <<1>>
         /\ c = \h7E => Report(r, v) = TicketInfo
         /\ c = \hA0 => Report(r, v) = Capabilities(r.data)
<1>1. c \in Singles \cup {\h19, \h1D, \h1E} => Report(r, v) = Fields(v)
  <2>. SUFFICES ASSUME c \in Singles \cup {\h19, \h1D, \h1E} PROVE Report(r, v) = Fields(v)
    OBVIOUS
  <2>1. c \in DOMAIN SingleMeter \cup {\h19, \h1D, \h1E}
    BY SinglesAre
  <2>2. c \notin Extended \cup {\h17, \h1B, \h1C, \h1F, \h2F, \h51, \h52, \h53, \h54, \h55, \h56,
                               \h71, \h74, \h7B, \h7C, \h7D, \h7E, \h7F, \hA0}
    BY DEF Singles, Extended
  <2>. QED
    BY <2>1, <2>2 DEF Report
<1>2. ASSUME c \notin Singles \cup {\h19, \h1D, \h1E}
      PROVE  c \notin DOMAIN SingleMeter \cup {\h19, \h1D, \h1E}
  BY <1>2, SinglesAre
<1>3. c = \h17 => Report(r, v) = LostReport(v)
  BY <1>2 DEF Report, Singles, Extended
<1>4. c = \h1C => Report(r, v) = Fields(v) \o Encode(0, 4)
  BY <1>2 DEF Report, Singles, Extended
<1>5. c = \h1F => Report(r, v) = GameConfiguration
  BY <1>2 DEF Report, Singles, Extended
<1>6. c = \h2F => Report(r, v) = GameNReport(r.data, v)
  BY <1>2 DEF Report, Singles, Extended
<1>7. c = \h51 => Report(r, v) = NumberOfGames
  BY <1>2 DEF Report, Singles, Extended
<1>8. c = \h52 => Report(r, v) = Game(r.data) \o Fields(v)
  BY <1>2 DEF Report, Singles, Extended
<1>9. c = \h53 => Report(r, v) = GameNConfiguration(r.data)
  BY <1>2 DEF Report, Singles, Extended
<1>10. c = \h54 => Report(r, v) = MachineID
  BY <1>2 DEF Report, Singles, Extended
<1>11. c = \h55 => Report(r, v) = SelectedGame
  BY <1>2 DEF Report, Singles, Extended
<1>12. c = \h56 => Report(r, v) = EnabledGames
  BY <1>2 DEF Report, Singles, Extended
<1>13. c \in Extended => Report(r, v) = ExtendedReport(r.data, v)
  <2>1. c = \h6F => Report(r, v) = ExtendedReport(r.data, v)
    BY <1>2 DEF Report, Singles, Extended
  <2>2. c = \hAF => Report(r, v) = ExtendedReport(r.data, v)
    BY <1>2 DEF Report, Singles, Extended
  <2>. QED
    BY <2>1, <2>2 DEF Extended
<1>14. c = \h7B => Report(r, v) = LastTicket
  BY <1>2 DEF Report, Singles, Extended
<1>15. c = \h1B => Report(r, v) = DateTime(v)
  BY <1>2 DEF Report, Singles, Extended
<1>16. c = \h71 => Report(r, v) = LockReport(r.data, v)
  BY <1>2 DEF Report, Singles, Extended
<1>17. c = \h74 => Report(r, v) = AftReport(v)
  BY <1>2 DEF Report, Singles, Extended
<1>18. c \in {\h7C, \h7F} => Report(r, v) = EnhancedTicket(v)
  <2>1. c = \h7C => Report(r, v) = EnhancedTicket(v)
    BY <1>2 DEF Report, Singles, Extended
  <2>2. c = \h7F => Report(r, v) = EnhancedTicket(v)
    BY <1>2 DEF Report, Singles, Extended
  <2>. QED
    BY <2>1, <2>2 DEF Extended
<1>19. c = \h7D => Report(r, v) = <<1>>
  BY <1>2 DEF Report, Singles, Extended
<1>20. c = \h7E => Report(r, v) = TicketInfo
  BY <1>2 DEF Report, Singles, Extended
<1>21. c = \hA0 => Report(r, v) = Capabilities(r.data)
  BY <1>2 DEF Report, Singles, Extended
<1>. QED
  BY <1>1, <1>3, <1>4, <1>5, <1>6, <1>7, <1>8, <1>9, <1>10, <1>11, <1>12,
     <1>13, <1>14, <1>15, <1>16, <1>17, <1>18, <1>19, <1>20, <1>21

\* The commands of the polls, each in one of its groups.
LEMMA Groups ==
  /\ Reporting \subseteq
       Singles \cup Extended \cup {\h17, \h19, \h1B, \h1C, \h1D, \h1E, \h1F, \h2F}
         \cup {\h51, \h52, \h53, \h54, \h55, \h56, \h71, \h74}
         \cup {\h7B, \h7C, \h7D, \h7E, \h7F, \hA0}
  /\ \A c \in Reporting : c \in Byte /\ ResponseCommand(c) \in Byte
<1>1. ASSUME NEW c \in Reporting
      PROVE  c \in Singles \cup Extended \cup {\h17, \h19, \h1B, \h1C, \h1D, \h1E, \h1F, \h2F}
               \cup {\h51, \h52, \h53, \h54, \h55, \h56, \h71, \h74}
               \cup {\h7B, \h7C, \h7D, \h7E, \h7F, \hA0}
  BY DEF Reporting, Singles, Extended
<1>2. ASSUME NEW c \in Reporting PROVE c \in Nat /\ c <= 255
  BY DEF Reporting
<1>3. ASSUME NEW c \in Reporting PROVE c \in Byte /\ ResponseCommand(c) \in Byte
  <2>1. c \in Byte /\ \h74 \in Byte /\ \h7C \in Byte
    BY <1>2, ByteIs
  <2>. QED
    BY <2>1 DEF ResponseCommand
<1>. QED
  BY <1>1, <1>3

\* When the answer is sent all is read that is read for it.
LEMMA AllRead ==
  ASSUME IInv, Answered
  PROVE  /\ poll \in Requests /\ Answers(poll) /\ poll.command \in Reporting
         /\ poll.data \in Seq(Byte) /\ got \in Seq(Int)
         /\ frame = Serialize(1, ResponseCommand(poll.command), Report(poll, got))
         /\ Len(got) = Len(Accesses(poll)) - Before(poll.command)
         /\ \A i \in 1..Len(got) : Saw(Accesses(poll)[Before(poll.command) + i], got[i])
<1>1. /\ poll # NoPoll /\ todo = <<>> /\ Answers(poll)
      /\ frame = Serialize(1, ResponseCommand(poll.command), Report(poll, got))
  BY DEF IInv, FrameInv, Answered
<1>2. poll \in Requests /\ got \in Seq(Int) /\ Accepted = Accesses(poll)
  BY <1>1 DEF IInv, Types, Accepted
<1>3. poll.command \in Reporting /\ poll.data \in Seq(Byte)
  BY <1>1, <1>2, RequestsAre DEF Answers
<1>4. HandlerOf(poll.command, Accesses(poll))
  BY <1>1, <1>2, HandlersAre
<1>5. Done = Len(Accesses(poll)) /\ Before(poll.command) <= Done /\ Before(poll.command) \in Nat
  BY <1>1, <1>2, <1>4 DEF HandlerOf, Done, Before
<1>6. Len(got) = Done - Before(poll.command)
  BY <1>5 DEF IInv, GotInv
<1>7. \A i \in 1..Len(got) : Saw(Accesses(poll)[Before(poll.command) + i], got[i])
  BY <1>2 DEF IInv, GotInv
<1>. QED
  BY <1>1, <1>2, <1>3, <1>5, <1>6, <1>7

\* Where a report has a number, the host decodes it, if it fits.
LEMMA HostDecodes ==
  ASSUME NEW c \in Byte, NEW data \in Seq(Byte), NEW v \in Int, NEW n \in Nat \ {0},
         NEW q, At(data, q, Encode(v, n))
  PROVE  Decode(SubSeq(Serialize(1, c, data), q + 2, ((q + 2) + n) - 1))
           = IF Fits(v, n) THEN v ELSE 0
<1>1. Encode(v, n) \in Seq(Byte)
  BY EncodeBytes
<1>2. At(Serialize(1, c, data), q + 2, Encode(v, n)) /\ Serialize(1, c, data) \in Seq(Byte)
  BY <1>1, InFrame, SerializeIs
<1>. QED
  BY <1>2, AtDecode

\* Everything is where it is.
LEMMA AtItself ==
  ASSUME NEW S, NEW s \in Seq(S)
  PROVE  At(s, 1, s)
<1>1. Len(s) \in Nat
  BY Elements, Zenon
<1>. QED
  BY <1>1 DEF At

\* The handler of 0x17 has read the two meters and reports their difference.
LEMMA LostRead ==
  ASSUME IInv, Answered, poll.command = \h17
  PROVE  /\ Len(got) = 2 /\ got[1] \in Int /\ got[2] \in Int
         /\ LostReport(got) = Encode(LostGames(got[1], got[2]), 4)
<1>1. /\ Accesses(poll) = GetAll(LostReads) /\ got \in Seq(Int)
      /\ Len(got) = Len(GetAll(LostReads)) - Before(\h17)
  BY AllRead, AccessesAre
<1>2. Len(got) = 2
  BY <1>1 DEF GetAll, LostReads, Before, DatePolls
<1>3. got[1] \in Int /\ got[2] \in Int
  <2>1. \A i \in 1..Len(got) : got[i] \in Int
    BY <1>1, Elements, Zenon
  <2>. QED
    BY <1>2, <2>1
<1>4. /\ (CHOOSE i \in 1..2 : LostReads[i] = "played") = 1
      /\ (CHOOSE i \in 1..2 : LostReads[i] = "won") = 2
  <2>. DEFINE first == CHOOSE i \in 1..2 : LostReads[i] = "played"
              second == CHOOSE i \in 1..2 : LostReads[i] = "won"
  <2>1. LostReads[1] = "played" /\ LostReads[2] = "won" /\ 1 \in 1..2 /\ 2 \in 1..2
    BY DEF LostReads
  <2>2. first \in 1..2 /\ LostReads[first] = "played"
    BY <2>1, Zenon
  <2>3. second \in 1..2 /\ LostReads[second] = "won"
    BY <2>1, Zenon
  <2>. HIDE DEF first, second
  <2>4. first = 1 /\ second = 2
    BY <2>1, <2>2, <2>3
  <2>. QED
    BY <2>4 DEF first, second
<1>. QED
  BY <1>2, <1>3, <1>4 DEF LostReport

\* 0x17 never tells the host of more lost games than there were at some moment
\* of the poll, whatever is counted meanwhile: the games won are read last.
THEOREM LostGamesTrue == Spec => []LostNotOverstated
<1>1. IInv => LostNotOverstated
  <2>. SUFFICES ASSUME IInv, Answered, Command = \h17
                PROVE  Decode(SubSeq(frame, 3, 6)) <= lost
    BY DEF LostNotOverstated
  <2>1. /\ frame = Serialize(1, ResponseCommand(\h17), LostReport(got))
        /\ poll.command = \h17 /\ poll.command \in Reporting
    BY AllRead, ReportsAre DEF Command
  <2>. DEFINE n == LostGames(got[1], got[2])
  <2>2. Len(got) = 2 /\ got[1] \in Int /\ got[2] \in Int
    BY <2>1, LostRead
  <2>5. LostReport(got) = Encode(n, 4)
    BY <2>1, LostRead
  <2>4. n \in Nat /\ n <= lost /\ lost \in Nat
    <3>1. n \in Nat
      BY <2>2, LostGamesAre
    <3>2. Len(got) >= 2 /\ LostInv /\ lost \in Nat
      BY <2>2 DEF IInv, Types
    <3>. HIDE DEF n
    <3>3. n <= lost
      BY <2>1, <3>2 DEF LostInv, n
    <3>. QED
      BY <3>1, <3>2, <3>3
  <2>6. ResponseCommand(\h17) \in Byte
    BY <2>1, Groups
  <2>. HIDE DEF n
  <2>7. n \in Int /\ 4 \in Nat \ {0} /\ Encode(n, 4) \in Seq(Byte)
    BY <2>4, EncodeBytes
  <2>11. At(Encode(n, 4), 1, Encode(n, 4))
    BY <2>7, AtItself, Zenon
  <2>12. frame = Serialize(1, ResponseCommand(\h17), Encode(n, 4))
    BY <2>1, <2>5, Zenon
  <2>8. Decode(SubSeq(frame, 1 + 2, ((1 + 2) + 4) - 1)) = IF Fits(n, 4) THEN n ELSE 0
    BY <2>6, <2>7, <2>11, <2>12, HostDecodes
  <2>9. 1 + 2 = 3 /\ ((1 + 2) + 4) - 1 = 6
    OBVIOUS
  <2>10. Decode(SubSeq(frame, 3, 6)) = IF Fits(n, 4) THEN n ELSE 0
    BY <2>8, <2>9, Zenon
  <2>. QED
    BY <2>4, <2>10
<1>. QED
  BY <1>1, PollsInvariant, PTL

-----------------------------------------------------------------------------
(* Dates                                                                   *)

\* A part of a date is a byte, which the host decodes.
LEMMA ToBCDIs ==
  ASSUME NEW n \in Nat
  PROVE  ToBCD(n) \in Byte /\ (n <= 99 => Unpacked(ToBCD(n)) = n)
<1>1. PICK d \in 0..99 : d = IF n > 99 THEN 99 ELSE n
  OBVIOUS
<1>2. ToBCD(n) = Packed(d)
  BY <1>1 DEF ToBCD
<1>3. Packed(d) \in Byte /\ Unpacked(Packed(d)) = d
  BY PackedIs
<1>4. n <= 99 => d = n
  BY <1>1
<1>. QED
  BY <1>2, <1>3, <1>4

\* One byte is its two digits.
LEMMA DecodeByte ==
  ASSUME NEW b \in Byte
  PROVE  Decode(<<b>>) = Unpacked(b)
<1>1. <<b>> \in Seq(Byte) /\ Len(<<b>>) = 1
  OBVIOUS
<1>2. PICK f \in [0..1 -> Nat] :
        /\ f[0] = 0 /\ \A i \in 1..1 : f[i] = 100 * f[i - 1] + Unpacked(<<b>>[i])
        /\ Decode(<<b>>) = f[1]
  BY <1>1, DecodeIs
<1>3. f[1] = 100 * f[0] + Unpacked(b)
  BY <1>2
<1>4. Unpacked(b) \in Nat
  BY UnpackedIs
<1>. QED
  BY <1>2, <1>3, <1>4

\* A part of a date in the data of a frame.
LEMMA HostReadsPart ==
  ASSUME NEW c \in Byte, NEW data \in Seq(Byte), NEW p \in 1..Len(data),
         NEW n \in Nat, n <= 99, data[p] = ToBCD(n)
  PROVE  Decode(SubSeq(Serialize(1, c, data), p + 2, p + 2)) = n
<1>. DEFINE s == Serialize(1, c, data)
            b == ToBCD(n)
            e == <<b>>
<1>1. b \in Byte /\ Unpacked(b) = n
  BY ToBCDIs
<1>2. Len(data) \in Nat
  BY Elements, Zenon
<1>. HIDE DEF b
<1>3. e \in Seq(Byte) /\ Len(e) = 1 /\ e[1] = b
  BY <1>1
<1>4. Decode(e) = n
  BY <1>1, DecodeByte
<1>. HIDE DEF e
<1>5. At(data, p, e)
  <2>1. p \in Nat \ {0} /\ p + 1 <= Len(data) + 1 /\ (p + 1) - 1 = p
    BY <1>2
  <2>2. data[(p + 1) - 1] = e[1]
    BY <1>3, <2>1 DEF b
  <2>. QED
    BY <1>3, <2>1, <2>2 DEF At
<1>6. s \in Seq(Byte) /\ At(s, p + 2, e)
  BY <1>3, <1>5, SerializeIs, InFrame
<1>. HIDE DEF s
<1>10. PICK q \in Nat : q = p + 2
  BY <1>2
<1>11. At(s, q, e) /\ Len(e) > 0
  BY <1>3, <1>6, <1>10
<1>7. SubSeq(s, q, (q + Len(e)) - 1) = e
  BY <1>3, <1>6, <1>11, AtSubSeq
<1>8. (q + Len(e)) - 1 = q
  BY <1>3
<1>9. SubSeq(s, q, q) = e
  BY <1>7, <1>8, Zenon
<1>. QED
  BY <1>4, <1>9, <1>10 DEF s

\* What a date in a report has.
LEMMA DateReportIs ==
  ASSUME NEW v, v[1] \in Nat, v[2] \in Nat, v[3] \in Nat
  PROVE  /\ DateReport(v) \in Seq(Byte) /\ Len(DateReport(v)) = 4
         /\ DateReport(v)[1] = ToBCD(v[1] + 1) /\ DateReport(v)[2] = ToBCD(v[2])
         /\ At(DateReport(v), 3, Encode(v[3] + 1900, 2))
<1>. DEFINE a == <<ToBCD(v[1] + 1), ToBCD(v[2])>>
            x == v[3] + 1900
            y == Encode(x, 2)
<1>1. ToBCD(v[1] + 1) \in Byte /\ ToBCD(v[2]) \in Byte
  BY ToBCDIs
<1>2. a \in Seq(Byte) /\ Len(a) = 2 /\ a[1] = ToBCD(v[1] + 1) /\ a[2] = ToBCD(v[2])
  BY <1>1
<1>3. y \in Seq(Byte) /\ Len(y) = 2
  <2>1. x \in Int
    OBVIOUS
  <2>. HIDE DEF x
  <2>. QED
    BY <2>1, EncodeBytes
<1>4. DateReport(v) = a \o y
  BY DEF DateReport, Month
<1>. HIDE DEF a, y
<1>7. a \in Seq(Byte) /\ y \in Seq(Byte)
  BY <1>2, <1>3
<1>5. /\ a \o y \in Seq(Byte) /\ Len(a \o y) = 4
      /\ (a \o y)[1] = a[1] /\ (a \o y)[2] = a[2]
  <2>1. Len(a \o y) = Len(a) + Len(y) /\ a \o y \in Seq(Byte)
    BY <1>7, Joined
  <2>2. \A i \in 1..Len(a) : (a \o y)[i] = a[i]
    BY <1>7, Behind
  <2>3. 1 \in 1..Len(a) /\ 2 \in 1..Len(a)
    BY <1>2
  <2>. QED
    BY <1>2, <1>3, <2>1, <2>2, <2>3
<1>6. At(a \o y, Len(a) + 1, y) /\ Len(a) + 1 = 3
  <2>1. At(a \o y, Len(a) + 1, y)
    BY <1>7, AtEnds
  <2>. QED
    BY <1>2, <2>1
<1>. QED
  BY <1>2, <1>4, <1>5, <1>6 DEF y

\* The times that may be shown are times.
LEMMA ShownAre ==
  ASSUME NEW f \in TmFields, NEW v, Shows(f, v)
  PROVE  v \in Nat /\ v <= 199 /\ (f # "year" => v <= 59)
<1>1. PICK t \in {Local, Utc, Expiry} : v = t[f]
  BY DEF Shows, AskedTime
<1>2. t \in [TmFields -> Nat] /\ t[f] <= 199 /\ (f # "year" => t[f] <= 59)
  BY TimesAre, Zenon
<1>. QED
  BY <1>1, <1>2

\* What the handlers of dates have read.
LEMMA DatesRead ==
  ASSUME IInv, Answered, poll.command \in DatePolls
  PROVE  /\ Len(got) = IF poll.command = \h1B THEN 6 ELSE 3
         /\ \A i \in 1..3 : Shows(Date[i], got[i])
         /\ poll.command = \h1B => \A i \in 1..3 : Shows(Time[i], got[i + 3])
<1>. DEFINE when == IF poll.command = \h1B THEN "now" ELSE "expiry"
            names == IF poll.command = \h1B THEN Date \o Time ELSE Date
            first == LocalTime(when)
            f == FieldsOf(names)
<1>1. Accesses(poll) = first \o f /\ Before(poll.command) = 1
  <2>1. CASE poll.command = \h1B
    BY <2>1, AccessesAre DEF Before, DatePolls
  <2>2. CASE poll.command \in {\h7C, \h7F}
    BY <2>2, AccessesAre DEF Before, DatePolls
  <2>. QED
    BY <2>1, <2>2 DEF DatePolls
<1>2. /\ Len(names) = IF poll.command = \h1B THEN 6 ELSE 3
      /\ \A i \in 1..3 : names[i] = Date[i]
      /\ poll.command = \h1B => \A i \in 1..3 : names[i + 3] = Time[i]
  BY DEF Date, Time
<1>. DEFINE n == IF poll.command = \h1B THEN 6 ELSE 3
<1>3. n \in Nat /\ n >= 3 /\ (poll.command = \h1B => n = 6)
  OBVIOUS
<1>. HIDE DEF names
<1>4. f = [i \in 1..n |-> [op |-> "field", meter |-> names[i], value |-> 0]]
  BY <1>2 DEF FieldsOf
<1>. HIDE DEF f, n
<1>5. Len(f) = n /\ \A i \in 1..n : f[i].op = "field" /\ f[i].meter = names[i]
  BY <1>3, <1>4
<1>. DEFINE R == {f[i] : i \in 1..n} \cup {first[1]}
<1>6. first \in Seq(R) /\ Len(first) = 1
  BY DEF LocalTime
<1>7. f \in Seq(R)
  <2>1. \A i \in 1..n : f[i] \in R
    OBVIOUS
  <2>. HIDE DEF R
  <2>2. f = [i \in 1..n |-> f[i]]
    BY <1>4
  <2>. QED
    BY <1>3, <2>1, <2>2
<1>. HIDE DEF R, first
<1>14. first \in Seq(R) /\ f \in Seq(R)
  BY <1>6, <1>7
<1>8. Len(first \o f) = Len(first) + Len(f)
  BY <1>14, Behind
<1>9. \A i \in 1..Len(f) : (first \o f)[Len(first) + i] = f[i]
  BY <1>14, Behind
<1>10. Len(got) = n
  <2>1. Len(got) = Len(Accesses(poll)) - Before(poll.command)
    BY AllRead
  <2>. QED
    BY <1>1, <1>3, <1>5, <1>6, <1>8, <2>1
<1>11. ASSUME NEW i \in 1..n PROVE Shows(names[i], got[i])
  <2>1. Saw(Accesses(poll)[Before(poll.command) + i], got[i])
    BY <1>10, AllRead
  <2>2. Accesses(poll)[1 + i] = f[i]
    BY <1>1, <1>5, <1>6, <1>9
  <2>3. Saw(f[i], got[i])
    BY <1>1, <2>1, <2>2
  <2>. QED
    BY <1>5, <2>3 DEF Saw
<1>12. ASSUME NEW i \in 1..3 PROVE Shows(Date[i], got[i])
  <2>1. i \in 1..n /\ names[i] = Date[i]
    BY <1>2, <1>3
  <2>. QED
    BY <1>11, <2>1
<1>13. ASSUME poll.command = \h1B, NEW i \in 1..3 PROVE Shows(Time[i], got[i + 3])
  <2>1. i + 3 \in 1..n /\ names[i + 3] = Time[i]
    BY <1>2, <1>3, <1>13
  <2>. QED
    BY <1>11, <2>1
<1>. QED
  BY <1>10, <1>12, <1>13 DEF n

\* A ticket was never printed: zeros.
LEMMA LastTicketIs ==
  LastTicket \in Seq(Byte) /\ Len(LastTicket) = 13
<1>. DEFINE z == Zeros(8)
            n == Encode(0, 5)
<1>1. n \in Seq(Byte) /\ Len(n) = 5
  <2>1. 0 \in Int /\ 5 \in Nat
    OBVIOUS
  <2>. QED
    BY <2>1, EncodeBytes, Zenon
<1>2. z \in Seq(Byte) /\ Len(z) = 8
  BY ByteIs DEF Zeros
<1>3. LastTicket = z \o n
  BY DEF LastTicket
<1>. HIDE DEF z, n
<1>4. z \o n \in Seq(Byte) /\ Len(z \o n) = Len(z) + Len(n)
  BY <1>1, <1>2, Joined
<1>. QED
  BY <1>1, <1>2, <1>3, <1>4

\* The host decodes a date in the data of a frame.
LEMMA HostReadsDate ==
  ASSUME NEW c \in Byte, NEW data \in Seq(Byte), NEW o \in Nat, NEW v,
         v[1] \in Nat, v[2] \in Nat, v[3] \in Nat, v[1] <= 59, v[2] <= 59, v[3] <= 199,
         At(data, o + 1, DateReport(v))
  PROVE  LET s == Serialize(1, c, data)
         IN  /\ Decode(SubSeq(s, o + 3, o + 3)) = v[1] + 1
             /\ Decode(SubSeq(s, o + 4, o + 4)) = v[2]
             /\ Decode(SubSeq(s, o + 5, o + 6)) = v[3] + 1900
<1>. DEFINE s == Serialize(1, c, data)
            r == DateReport(v)
            x == v[3] + 1900
<1>1. /\ r \in Seq(Byte) /\ Len(r) = 4 /\ r[1] = ToBCD(v[1] + 1) /\ r[2] = ToBCD(v[2])
      /\ At(r, 3, Encode(x, 2))
  BY DateReportIs
<1>2. x \in Int /\ x >= 0 /\ x < 10000
  OBVIOUS
<1>3. At(data, o + 1, r) /\ Len(data) \in Nat
  BY Elements
<1>. HIDE DEF s, r, x
<1>4. /\ (o + 1) + 4 <= Len(data) + 1
      /\ data[o + 1] = r[1] /\ data[o + 2] = r[2]
  <2>1. \A j \in 1..4 : data[((o + 1) + j) - 1] = r[j]
    BY <1>1, <1>3 DEF At
  <2>2. ((o + 1) + 1) - 1 = o + 1 /\ ((o + 1) + 2) - 1 = o + 2 /\ 1 \in 1..4 /\ 2 \in 1..4
    OBVIOUS
  <2>. QED
    BY <1>1, <1>3, <2>1, <2>2 DEF At
<1>5. Decode(SubSeq(s, o + 3, o + 3)) = v[1] + 1
  <2>1. PICK p \in 1..Len(data), n \in Nat : p = o + 1 /\ n = v[1] + 1
    BY <1>3, <1>4
  <2>2. data[p] = ToBCD(n) /\ n <= 99
    BY <1>1, <1>4, <2>1
  <2>3. Decode(SubSeq(s, p + 2, p + 2)) = n
    BY <2>2, HostReadsPart DEF s
  <2>4. p + 2 = o + 3
    BY <2>1
  <2>. QED
    BY <2>1, <2>3, <2>4
<1>6. Decode(SubSeq(s, o + 4, o + 4)) = v[2]
  <2>1. PICK p \in 1..Len(data), n \in Nat : p = o + 2 /\ n = v[2]
    BY <1>3, <1>4
  <2>2. data[p] = ToBCD(n) /\ n <= 99
    BY <1>1, <1>4, <2>1
  <2>3. Decode(SubSeq(s, p + 2, p + 2)) = n
    BY <2>2, HostReadsPart DEF s
  <2>4. p + 2 = o + 4
    BY <2>1
  <2>. QED
    BY <2>1, <2>3, <2>4
<1>7. Decode(SubSeq(s, o + 5, o + 6)) = x
  <2>1. Encode(x, 2) \in Seq(Byte)
    BY <1>2, EncodeBytes
  <2>8. PICK p \in Nat : p = o + 1
    OBVIOUS
  <2>2. At(data, (p + 3) - 1, Encode(x, 2))
    BY <1>1, <1>3, <2>1, <2>8, AtInner
  <2>3. PICK q \in Nat : q = o + 3
    OBVIOUS
  <2>4. At(data, q, Encode(x, 2))
    <3>1. (p + 3) - 1 = q
      BY <2>3, <2>8
    <3>. QED
      BY <2>2, <3>1
  <2>5. Decode(SubSeq(s, q + 2, ((q + 2) + 2) - 1)) = IF Fits(x, 2) THEN x ELSE 0
    BY <1>2, <2>4, HostDecodes DEF s
  <2>6. q + 2 = o + 5 /\ ((q + 2) + 2) - 1 = o + 6
    BY <2>3
  <2>7. Fits(x, 2)
    BY <1>2, FitsAre
  <2>. QED
    BY <2>5, <2>6, <2>7
<1>. QED
  BY <1>5, <1>6, <1>7 DEF s, x

\* The host of a date poll reads the time of the machine or, of a ticket that
\* was never printed, that of its expiration; a save that stamps its file while
\* the handler reads may put its own UTC time in some of the fields.
THEOREM DatesTrue == Spec => []DatesTold
<1>1. IInv => DatesTold
  <2>. SUFFICES ASSUME IInv, Answered, Command \in DatePolls
                PROVE  LET first == IF Command = \h1B THEN 3 ELSE 17
                           asked == IF Command = \h1B THEN Local ELSE Expiry
                       IN  \A d \in DateFields :
                             LET told == Decode(SubSeq(frame, first + d[2], first + d[3]))
                             IN  \/ told = Calendar(asked, d[1])
                                 \/ struck /\ told = Calendar(Utc, d[1])
    BY DEF DatesTold
  <2>. DEFINE c == poll.command
              data == Report(poll, got)
              r == ResponseCommand(c)
              o == IF c = \h1B THEN 0 ELSE 14
  <2>1. /\ Len(got) = IF c = \h1B THEN 6 ELSE 3
        /\ Shows("month", got[1]) /\ Shows("day", got[2]) /\ Shows("year", got[3])
        /\ c = \h1B => /\ Shows("hour", got[4]) /\ Shows("minute", got[5])
                       /\ Shows("second", got[6])
    <3>1. /\ Len(got) = IF c = \h1B THEN 6 ELSE 3
          /\ \A i \in 1..3 : Shows(Date[i], got[i])
          /\ c = \h1B => \A i \in 1..3 : Shows(Time[i], got[i + 3])
      BY DatesRead DEF Command
    <3>2. /\ Date[1] = "month" /\ Date[2] = "day" /\ Date[3] = "year"
          /\ Time[1] = "hour" /\ Time[2] = "minute" /\ Time[3] = "second"
      BY DEF Date, Time
    <3>3. 1 + 3 = 4 /\ 2 + 3 = 5 /\ 3 + 3 = 6 /\ 1 \in 1..3 /\ 2 \in 1..3 /\ 3 \in 1..3
      OBVIOUS
    <3>. QED
      BY <3>1, <3>2, <3>3
  <2>2. /\ got[1] \in Nat /\ got[2] \in Nat /\ got[3] \in Nat
        /\ got[1] <= 59 /\ got[2] <= 59 /\ got[3] <= 199
        /\ c = \h1B => /\ got[4] \in Nat /\ got[5] \in Nat /\ got[6] \in Nat
                       /\ got[4] <= 59 /\ got[5] <= 59 /\ got[6] <= 59
    BY <2>1, ShownAre DEF TmFields
  <2>3. frame = Serialize(1, r, data) /\ r \in Byte /\ c \in DatePolls
    BY AllRead, Groups DEF Command
  <2>4. DateReport(got) \in Seq(Byte) /\ Len(DateReport(got)) = 4
    BY <2>2, DateReportIs
  <2>5. c = \h1B => /\ data \in Seq(Byte) /\ Len(data) = 7
                    /\ At(data, 1, DateReport(got))
                    /\ data[5] = ToBCD(got[4]) /\ data[6] = ToBCD(got[5])
                    /\ data[7] = ToBCD(got[6])
    <3>. SUFFICES ASSUME c = \h1B
                  PROVE  /\ data \in Seq(Byte) /\ Len(data) = 7
                         /\ At(data, 1, DateReport(got))
                         /\ data[5] = ToBCD(got[4]) /\ data[6] = ToBCD(got[5])
                         /\ data[7] = ToBCD(got[6])
      OBVIOUS
    <3>. DEFINE d == DateReport(got)
                t == [i \in 1..3 |-> ToBCD(got[i + 3])]
    <3>1. data = d \o t
      BY ReportsAre DEF DateTime
    <3>2. t[1] = ToBCD(got[4]) /\ t[2] = ToBCD(got[5]) /\ t[3] = ToBCD(got[6])
      OBVIOUS
    <3>3. t \in Seq(Byte) /\ Len(t) = 3
      <4>1. \A i \in 1..3 : ToBCD(got[i + 3]) \in Byte
        BY <2>2, ToBCDIs
      <4>. QED
        BY <4>1
    <3>. HIDE DEF d, t, data
    <3>4. d \in Seq(Byte) /\ t \in Seq(Byte)
      BY <2>4, <3>3 DEF d
    <3>5. d \o t \in Seq(Byte) /\ Len(d \o t) = Len(d) + Len(t) /\ At(d \o t, 1, d)
      BY <3>4, Joined, AtEnds
    <3>6. \A i \in 1..Len(t) : (d \o t)[Len(d) + i] = t[i]
      BY <3>4, Behind
    <3>7. Len(d) = 4
      BY <2>4 DEF d
    <3>8. (d \o t)[5] = t[1] /\ (d \o t)[6] = t[2] /\ (d \o t)[7] = t[3]
      <4>1. 1 \in 1..Len(t) /\ 2 \in 1..Len(t) /\ 3 \in 1..Len(t)
        BY <3>3
      <4>2. Len(d) + 1 = 5 /\ Len(d) + 2 = 6 /\ Len(d) + 3 = 7
        BY <3>7
      <4>. QED
        BY <3>6, <4>1, <4>2, Zenon
    <3>9. Len(d \o t) = 7
      BY <3>3, <3>5, <3>7
    <3>. QED
      BY <3>1, <3>2, <3>5, <3>8, <3>9 DEF d
  <2>6. c # \h1B => /\ data \in Seq(Byte) /\ At(data, 15, DateReport(got))
    <3>. SUFFICES ASSUME c # \h1B PROVE data \in Seq(Byte) /\ At(data, 15, DateReport(got))
      OBVIOUS
    <3>. DEFINE l == LastTicket \o <<0>>
                d == DateReport(got)
    <3>1. data = l \o d
      <4>1. data = EnhancedTicket(got)
        BY <2>3, ReportsAre DEF DatePolls
      <4>. QED
        BY <4>1 DEF EnhancedTicket
    <3>2. <<0>> \in Seq(Byte) /\ Len(<<0>>) = 1
      BY ByteIs
    <3>3. l \in Seq(Byte) /\ Len(l) = 14
      <4>1. l \in Seq(Byte) /\ Len(l) = Len(LastTicket) + Len(<<0>>)
        BY <3>2, LastTicketIs, Joined
      <4>. QED
        BY <3>2, <4>1, LastTicketIs
    <3>4. d \in Seq(Byte)
      BY <2>4
    <3>. HIDE DEF l, d, data
    <3>5. l \o d \in Seq(Byte) /\ At(l \o d, Len(l) + 1, d)
      BY <3>3, <3>4, Joined, AtEnds
    <3>. QED
      BY <3>1, <3>3, <3>5 DEF d
  <2>7. o \in Nat /\ data \in Seq(Byte) /\ At(data, o + 1, DateReport(got))
    BY <2>5, <2>6
  <2>8. /\ Decode(SubSeq(frame, o + 3, o + 3)) = got[1] + 1
        /\ Decode(SubSeq(frame, o + 4, o + 4)) = got[2]
        /\ Decode(SubSeq(frame, o + 5, o + 6)) = got[3] + 1900
    <3>. HIDE DEF o, data, r
    <3>. QED
      BY <2>2, <2>3, <2>7, HostReadsDate
  <2>9. c = \h1B => /\ Decode(SubSeq(frame, 7, 7)) = got[4]
                    /\ Decode(SubSeq(frame, 8, 8)) = got[5]
                    /\ Decode(SubSeq(frame, 9, 9)) = got[6]
    <3>. SUFFICES ASSUME c = \h1B
                  PROVE  /\ Decode(SubSeq(frame, 7, 7)) = got[4]
                         /\ Decode(SubSeq(frame, 8, 8)) = got[5]
                         /\ Decode(SubSeq(frame, 9, 9)) = got[6]
      OBVIOUS
    <3>2. data \in Seq(Byte) /\ Len(data) = 7
      BY <2>5
    <3>. HIDE DEF data, r
    <3>1. 5 \in 1..Len(data) /\ 6 \in 1..Len(data) /\ 7 \in 1..Len(data)
      BY <3>2
    <3>6. /\ got[4] \in Nat /\ got[5] \in Nat /\ got[6] \in Nat
          /\ got[4] <= 99 /\ got[5] <= 99 /\ got[6] <= 99
          /\ data[5] = ToBCD(got[4]) /\ data[6] = ToBCD(got[5]) /\ data[7] = ToBCD(got[6])
      BY <2>2, <2>5
    <3>7. r \in Byte
      BY <2>3
    <3>3. Decode(SubSeq(Serialize(1, r, data), 5 + 2, 5 + 2)) = got[4]
      BY <3>1, <3>2, <3>6, <3>7, HostReadsPart, Zenon
    <3>4. Decode(SubSeq(Serialize(1, r, data), 6 + 2, 6 + 2)) = got[5]
      BY <3>1, <3>2, <3>6, <3>7, HostReadsPart, Zenon
    <3>5. Decode(SubSeq(Serialize(1, r, data), 7 + 2, 7 + 2)) = got[6]
      BY <3>1, <3>2, <3>6, <3>7, HostReadsPart, Zenon
    <3>. QED
      BY <2>3, <3>3, <3>4, <3>5
  <2>. DEFINE first == IF Command = \h1B THEN 3 ELSE 17
              asked == IF Command = \h1B THEN Local ELSE Expiry
  <2>10. first = o + 3 /\ asked = AskedTime /\ Command = c
    BY DEF Command, AskedTime
  <2>11. ASSUME NEW d \in DateFields
         PROVE  LET told == Decode(SubSeq(frame, first + d[2], first + d[3]))
                IN  \/ told = Calendar(asked, d[1])
                    \/ struck /\ told = Calendar(Utc, d[1])
    <3>1. CASE d = <<"month", 0, 0>>
      <4>1. first + d[2] = o + 3 /\ first + d[3] = o + 3 /\ d[1] = "month"
        BY <2>7, <2>10, <3>1
      <4>. QED
        BY <2>1, <2>8, <2>10, <4>1 DEF Shows, Calendar
    <3>2. CASE d = <<"day", 1, 1>>
      <4>1. first + d[2] = o + 4 /\ first + d[3] = o + 4 /\ d[1] = "day"
        BY <2>7, <2>10, <3>2
      <4>. QED
        BY <2>1, <2>8, <2>10, <4>1 DEF Shows, Calendar
    <3>3. CASE d = <<"year", 2, 3>>
      <4>1. first + d[2] = o + 5 /\ first + d[3] = o + 6 /\ d[1] = "year"
        BY <2>7, <2>10, <3>3
      <4>. QED
        BY <2>1, <2>8, <2>10, <4>1 DEF Shows, Calendar
    <3>4. CASE c = \h1B /\ d = <<"hour", 4, 4>>
      <4>1. first + d[2] = 7 /\ first + d[3] = 7 /\ d[1] = "hour"
        BY <2>10, <3>4
      <4>. QED
        BY <2>1, <2>9, <2>10, <3>4, <4>1 DEF Shows, Calendar
    <3>5. CASE c = \h1B /\ d = <<"minute", 5, 5>>
      <4>1. first + d[2] = 8 /\ first + d[3] = 8 /\ d[1] = "minute"
        BY <2>10, <3>5
      <4>. QED
        BY <2>1, <2>9, <2>10, <3>5, <4>1 DEF Shows, Calendar
    <3>6. CASE c = \h1B /\ d = <<"second", 6, 6>>
      <4>1. first + d[2] = 9 /\ first + d[3] = 9 /\ d[1] = "second"
        BY <2>10, <3>6
      <4>. QED
        BY <2>1, <2>9, <2>10, <3>6, <4>1 DEF Shows, Calendar
    <3>. QED
      BY <2>10, <3>1, <3>2, <3>3, <3>4, <3>5, <3>6 DEF DateFields
  <2>. QED
    BY <2>11
<1>. QED
  BY <1>1, PollsInvariant, PTL

-----------------------------------------------------------------------------
(* Lengths                                                                 *)

\* d has n bytes.
Bytes(d, n) == d \in Seq(Byte) /\ Len(d) = n

\* Two of them make one.
LEMMA BytesJoin ==
  ASSUME NEW a, NEW b, NEW n \in Nat, NEW m \in Nat, Bytes(a, n), Bytes(b, m)
  PROVE  Bytes(a \o b, n + m)
BY Joined DEF Bytes

\* Numbers of the sizes in use.
LEMMA NumberIs ==
  ASSUME NEW v \in Int
  PROVE  Bytes(Encode(v, 2), 2) /\ Bytes(Encode(v, 4), 4) /\ Bytes(Encode(v, 5), 5)
<1>1. 2 \in Nat /\ 4 \in Nat /\ 5 \in Nat
  OBVIOUS
<1>. QED
  BY <1>1, EncodeBytes, Zenon DEF Bytes

\* A meter handler has read the meters it reads.
LEMMA MetersRead ==
  ASSUME IInv, Answered, NEW ms \in Seq(Meters \cup {Unread}), Before(poll.command) = 0,
         Accesses(poll) = [i \in 1..Len(ms) |-> Get(ms[i])]
  PROVE  /\ Len(got) = Len(ms) /\ got \in Seq(Int)
         /\ \A i \in 1..Len(ms) : ms[i] # Unread => got[i] \in during[ms[i]]
<1>1. Len(ms) \in Nat
  BY Elements, Zenon
<1>2. Len(Accesses(poll)) = Len(ms)
  BY <1>1
<1>3. Len(got) = Len(ms) /\ got \in Seq(Int)
  BY <1>1, <1>2, AllRead
<1>4. ASSUME NEW i \in 1..Len(ms), ms[i] # Unread PROVE got[i] \in during[ms[i]]
  <2>1. Saw(Accesses(poll)[0 + i], got[i])
    BY <1>3, AllRead
  <2>2. 0 + i = i /\ Accesses(poll)[i] = Get(ms[i])
    BY <1>1
  <2>3. Saw(Get(ms[i]), got[i])
    BY <2>1, <2>2
  <2>. QED
    BY <1>4, <2>3 DEF Saw, Get
<1>. QED
  BY <1>3, <1>4

\* 0x19 reads what it has set, or what others have made of it.
LEMMA TestMetersRead ==
  ASSUME IInv, Answered, poll.command = \h19
  PROVE  /\ Len(got) = 5 /\ got \in Seq(Int)
         /\ \A i \in 1..5 : got[i] \in during[CoinInAndMeters[i]]
<1>. DEFINE sets == [i \in 1..5 |-> [op |-> "set", meter |-> CoinInAndMeters[i],
                                     value |-> TestValues[i]]]
            gets == GetAll(CoinInAndMeters)
            R == {sets[i] : i \in 1..5} \cup {gets[i] : i \in 1..5}
<1>1. Accesses(poll) = sets \o gets /\ Before(poll.command) = 5
  BY AccessesAre DEF Before
<1>2. gets = [i \in 1..5 |-> Get(CoinInAndMeters[i])]
  BY DEF GetAll, CoinInAndMeters
<1>3. \A i \in 1..5 : gets[i] = Get(CoinInAndMeters[i]) /\ gets[i] \in R /\ sets[i] \in R
  BY <1>2
<1>4. gets = [i \in 1..5 |-> gets[i]] /\ sets = [i \in 1..5 |-> sets[i]]
  BY <1>2
<1>. HIDE DEF sets, gets, R
<1>5. sets \in Seq(R) /\ gets \in Seq(R)
  BY <1>3, <1>4
<1>6. Len(sets) = 5 /\ Len(gets) = 5
  BY <1>4
<1>7. Len(sets \o gets) = Len(sets) + Len(gets)
  BY <1>5, Behind
<1>8. \A i \in 1..Len(gets) : (sets \o gets)[Len(sets) + i] = gets[i]
  BY <1>5, Behind
<1>9. Len(got) = 5 /\ got \in Seq(Int)
  <2>1. Len(got) = Len(Accesses(poll)) - Before(poll.command) /\ got \in Seq(Int)
    BY AllRead
  <2>. QED
    BY <1>1, <1>6, <1>7, <2>1
<1>10. ASSUME NEW i \in 1..5 PROVE got[i] \in during[CoinInAndMeters[i]]
  <2>1. Saw(Accesses(poll)[Before(poll.command) + i], got[i])
    BY <1>9, AllRead
  <2>2. Accesses(poll)[5 + i] = Get(CoinInAndMeters[i])
    BY <1>1, <1>3, <1>6, <1>8
  <2>3. Saw(Get(CoinInAndMeters[i]), got[i])
    BY <1>1, <2>1, <2>2
  <2>4. CoinInAndMeters[i] # Unread
    BY DEF CoinInAndMeters, Unread
  <2>. QED
    BY <2>3, <2>4 DEF Saw, Get
<1>. QED
  BY <1>9, <1>10

\* What was read, in order, when it was these meters.
HasRead(ms) ==
  /\ Len(got) = Len(ms) /\ got \in Seq(Int)
  /\ \A i \in 1..Len(ms) : got[i] \in during[ms[i]]

\* Which meters each of the polls with a fixed format has read.
LEMMA FormatRead ==
  ASSUME IInv, Answered, NEW c, c = poll.command
  PROVE  /\ c \in Singles => HasRead(<<SingleMeter[c]>>)
         /\ c = \h19 => HasRead(CoinInAndMeters)
         /\ c = \h1C => HasRead(MachineMeters)
         /\ c = \h1D => HasRead(AftMeters)
         /\ c = \h1E => HasRead(BillMeters)
         /\ c = \h52 => HasRead(GameMeters)
         /\ c = \h74 => HasRead(<<"credits">>)
         /\ c = \h71 /\ Granted(poll.data) => HasRead(<<"credits">>)
<1>1. ASSUME NEW ms \in Seq(Meters \cup {Unread}), Before(c) = 0, Accesses(poll) = GetAll(ms),
             \A i \in 1..Len(ms) : ms[i] # Unread
      PROVE  HasRead(ms)
  BY <1>1, MetersRead DEF GetAll, HasRead
<1>2. \A m : GetAll(<<m>>) = <<Get(m)>>
  BY DEF GetAll
<1>3. \A m \in Meters : m # Unread
  BY DEF Meters, Bills, Unread
<1>4. ASSUME NEW m \in Meters, Before(c) = 0, Accesses(poll) = <<Get(m)>>
      PROVE  HasRead(<<m>>)
  <2>1. <<m>> \in Seq(Meters \cup {Unread}) /\ Accesses(poll) = GetAll(<<m>>)
    BY <1>2, <1>4, ListsAre
  <2>2. \A i \in 1..Len(<<m>>) : <<m>>[i] # Unread
    BY <1>3
  <2>. QED
    BY <1>1, <1>4, <2>1, <2>2, Zenon
<1>5. /\ \A i \in 1..Len(MachineMeters) : MachineMeters[i] # Unread
      /\ \A i \in 1..Len(AftMeters) : AftMeters[i] # Unread
      /\ \A i \in 1..Len(BillMeters) : BillMeters[i] # Unread
      /\ \A i \in 1..Len(GameMeters) : GameMeters[i] # Unread
  BY DEF MachineMeters, AftMeters, BillMeters, GameMeters, Unread
<1>6. c \in Singles => HasRead(<<SingleMeter[c]>>)
  <2>. SUFFICES ASSUME c \in Singles PROVE HasRead(<<SingleMeter[c]>>)
    OBVIOUS
  <2>1. Before(c) = 0
    BY DEF Before, Singles, DatePolls
  <2>2. SingleMeter[c] \in Meters /\ Accesses(poll) = <<Get(SingleMeter[c])>>
    BY SinglesAre, AccessesAre
  <2>. QED
    BY <1>4, <2>1, <2>2
<1>7. c \in {\h1C, \h1D, \h1E, \h52, \h74, \h71} => Before(c) = 0
  BY DEF Before, DatePolls
<1>8. /\ c = \h1C => HasRead(MachineMeters)
      /\ c = \h1D => HasRead(AftMeters)
      /\ c = \h1E => HasRead(BillMeters)
      /\ c = \h52 => HasRead(GameMeters)
  BY <1>1, <1>5, <1>7, ListsAre, AccessesAre
<1>9. /\ c = \h74 => HasRead(<<"credits">>)
      /\ c = \h71 /\ Granted(poll.data) => HasRead(<<"credits">>)
  BY <1>4, <1>7, ListsAre, AccessesAre
<1>10. c = \h19 => HasRead(CoinInAndMeters)
  BY TestMetersRead DEF HasRead, CoinInAndMeters
<1>. QED
  BY <1>6, <1>8, <1>9, <1>10

\* The bytes that are literals are bytes.
LEMMA LiteralBytes ==
  {0, 1, 2, 5, 6, 9, 22, 32, 35, 48, 49, 50, 54, 149, 205, 215, 129, 255} \subseteq Byte
BY ByteIs

\* Reports that are made of meters only.
LEMMA MeterData ==
  ASSUME IInv, Answered
  PROVE  /\ poll.command \in Singles => Bytes(Report(poll, got), 4)
         /\ poll.command = \h19 => Bytes(Report(poll, got), 20)
         /\ poll.command = \h1C => Bytes(Report(poll, got), 32)
         /\ poll.command = \h1D => Bytes(Report(poll, got), 16)
         /\ poll.command = \h1E => Bytes(Report(poll, got), 24)
         /\ poll.command = \h17 => Bytes(Report(poll, got), 4)
<1>1. got \in Seq(Int) /\ Len(got) \in Nat
  BY AllRead, Elements
<1>2. Bytes(Fields(got), 4 * Len(got))
  BY <1>1, FieldsIs DEF Bytes
<1>3. poll.command \in Singles => Bytes(Report(poll, got), 4)
  <2>. SUFFICES ASSUME poll.command \in Singles PROVE Bytes(Report(poll, got), 4)
    OBVIOUS
  <2>1. Len(got) = Len(<<SingleMeter[poll.command]>>)
    BY FormatRead DEF HasRead
  <2>2. Len(got) = 1
    BY <2>1
  <2>3. Report(poll, got) = Fields(got)
    BY ReportsAre
  <2>. QED
    BY <1>2, <2>2, <2>3
<1>4. poll.command = \h19 => Bytes(Report(poll, got), 20)
  <2>. SUFFICES ASSUME poll.command = \h19 PROVE Bytes(Report(poll, got), 20)
    OBVIOUS
  <2>1. Len(got) = 5
    BY TestMetersRead
  <2>2. Report(poll, got) = Fields(got)
    BY ReportsAre
  <2>. QED
    BY <1>2, <2>1, <2>2
<1>5. poll.command = \h1C => Bytes(Report(poll, got), 32)
  <2>. SUFFICES ASSUME poll.command = \h1C PROVE Bytes(Report(poll, got), 32)
    OBVIOUS
  <2>1. Len(got) = Len(MachineMeters)
    BY FormatRead DEF HasRead
  <2>2. Len(got) = 7
    BY <2>1 DEF MachineMeters
  <2>3. Report(poll, got) = Fields(got) \o Encode(0, 4)
    BY ReportsAre
  <2>4. Bytes(Encode(0, 4), 4)
    BY NumberIs
  <2>5. Bytes(Fields(got), 28)
    BY <1>2, <2>2
  <2>6. Bytes(Fields(got) \o Encode(0, 4), 28 + 4)
    BY <2>4, <2>5, BytesJoin
  <2>. QED
    BY <2>3, <2>6
<1>6. poll.command = \h1D => Bytes(Report(poll, got), 16)
  <2>. SUFFICES ASSUME poll.command = \h1D PROVE Bytes(Report(poll, got), 16)
    OBVIOUS
  <2>1. Len(got) = Len(AftMeters)
    BY FormatRead DEF HasRead
  <2>2. Len(got) = 4
    BY <2>1 DEF AftMeters
  <2>3. Report(poll, got) = Fields(got)
    BY ReportsAre
  <2>. QED
    BY <1>2, <2>2, <2>3
<1>7. poll.command = \h1E => Bytes(Report(poll, got), 24)
  <2>. SUFFICES ASSUME poll.command = \h1E PROVE Bytes(Report(poll, got), 24)
    OBVIOUS
  <2>1. Len(got) = Len(BillMeters)
    BY FormatRead DEF HasRead
  <2>2. Len(got) = 6
    BY <2>1 DEF BillMeters
  <2>3. Report(poll, got) = Fields(got)
    BY ReportsAre
  <2>. QED
    BY <1>2, <2>2, <2>3
<1>8. poll.command = \h17 => Bytes(Report(poll, got), 4)
  <2>. SUFFICES ASSUME poll.command = \h17 PROVE Bytes(Report(poll, got), 4)
    OBVIOUS
  <2>1. Report(poll, got) = LostReport(got)
    BY ReportsAre
  <2>. DEFINE n == LostGames(got[1], got[2])
  <2>2. LostReport(got) = Encode(n, 4) /\ got[1] \in Int /\ got[2] \in Int
    BY LostRead
  <2>3. n \in Int
    <3>1. n \in Nat
      BY <2>2, LostGamesAre
    <3>. HIDE DEF n
    <3>. QED
      BY <3>1
  <2>. HIDE DEF n
  <2>4. Bytes(Encode(n, 4), 4)
    BY <2>3, NumberIs
  <2>. QED
    BY <2>1, <2>2, <2>4
<1>. QED
  BY <1>3, <1>4, <1>5, <1>6, <1>7, <1>8

\* The games of the machine.
LEMMA GamesAre ==
  /\ Len(Games) \in Nat
  /\ \A i \in 1..Len(Games) : Games[i].number \in Nat /\ Games[i].denomCode \in Byte
<1>1. Games \in Seq([number : Nat, denomCode : Byte])
  BY PollsAssumption
<1>2. \A i \in 1..Len(Games) : Games[i] \in [number : Nat, denomCode : Byte]
  BY <1>1, Elements, Zenon
<1>3. Len(Games) \in Nat
  BY <1>1, Elements, Zenon
<1>. QED
  BY <1>2, <1>3

\* A part of the data of a poll.
LEMMA GameIs ==
  ASSUME NEW data \in Seq(Byte), Len(data) >= 2
  PROVE  Bytes(Game(data), 2)
<1>1. Len(data) \in Nat /\ \A i \in 1..Len(data) : data[i] \in Byte
  BY Elements, Zenon
<1>2. Game(data) = SubSeq(data, 1, 2)
  BY DEF Game
<1>. QED
  BY <1>1, <1>2 DEF Bytes

\* One byte, and two.
LEMMA FewBytes ==
  /\ \A b \in Byte : Bytes(<<b>>, 1)
  /\ \A a, b \in Byte : Bytes(<<a, b>>, 2)
BY DEF Bytes

\* The description of a game has twenty bytes, whatever the game.
LEMMA DescriptionIs ==
  ASSUME NEW d \in Byte
  PROVE  Bytes(GameDescription(d), 20)
<1>. DEFINE a == <<48, 49, 0, 0, 0, d, MaxBet, 0, 0, 0>>
            b == [i \in 1..6 |-> 32]
            e == <<0, 0, \h95, 0>>
<1>1. Bytes(a, 10)
  <2>1. MaxBet \in Byte
    BY PollsAssumption
  <2>2. 0 \in Byte /\ 48 \in Byte /\ 49 \in Byte
    BY LiteralBytes
  <2>. QED
    BY <2>1, <2>2 DEF Bytes
<1>2. Bytes(b, 6)
  BY LiteralBytes DEF Bytes
<1>3. Bytes(e, 4)
  BY LiteralBytes DEF Bytes
<1>4. GameDescription(d) = (a \o b) \o e
  BY DEF GameDescription
<1>. HIDE DEF a, b, e
<1>5. Bytes(a \o b, 10 + 6)
  BY <1>1, <1>2, BytesJoin
<1>6. Bytes(a \o b, 16)
  BY <1>5
<1>7. Bytes((a \o b) \o e, 16 + 4)
  BY <1>3, <1>6, BytesJoin
<1>. QED
  BY <1>4, <1>7

\* The reports that describe the games and the machine.
LEMMA GameData ==
  /\ Bytes(GameConfiguration, 20) /\ Bytes(NumberOfGames, 2) /\ Bytes(SelectedGame, 2)
  /\ Bytes(MachineID, 10) /\ MachineID[1] = 9
  /\ \A data \in Seq(Byte) : Len(data) >= 2 =>
       Bytes(GameNConfiguration(data), 23) /\ GameNConfiguration(data)[1] = 22
<1>1. Bytes(GameConfiguration, 20)
  <2>1. PICK d \in Byte : GameConfiguration = GameDescription(d)
    <3>1. CASE Games = <<>>
      BY <3>1, LiteralBytes DEF GameConfiguration, PennyCode
    <3>2. CASE Games # <<>>
      <4>1. Len(Games) >= 1
        BY <3>2, PollsAssumption
      <4>2. 1 \in 1..Len(Games)
        BY <4>1, GamesAre
      <4>. QED
        BY <3>2, <4>2, GamesAre DEF GameConfiguration
    <3>. QED
      BY <3>1, <3>2
  <2>. QED
    BY <2>1, DescriptionIs
<1>2. Bytes(NumberOfGames, 2)
  <2>1. Len(Games) \in Int
    BY GamesAre
  <2>. QED
    BY <2>1, NumberIs DEF NumberOfGames
<1>3. Bytes(SelectedGame, 2)
  <2>1. PICK n \in Int : SelectedGame = Encode(n, 2)
    <3>1. CASE Games = <<>>
      BY <3>1 DEF SelectedGame
    <3>2. CASE Games # <<>>
      <4>1. Len(Games) >= 1
        BY <3>2, PollsAssumption
      <4>2. 1 \in 1..Len(Games)
        BY <4>1, GamesAre
      <4>3. Games[1].number \in Int
        BY <4>2, GamesAre
      <4>4. SelectedGame = Encode(Games[1].number, 2)
        BY <3>2 DEF SelectedGame
      <4>. QED
        BY <4>3, <4>4
    <3>. QED
      BY <3>1, <3>2
  <2>. QED
    BY <2>1, NumberIs
<1>4. Bytes(MachineID, 10) /\ MachineID[1] = 9
  BY LiteralBytes DEF MachineID, Bytes
<1>5. ASSUME NEW data \in Seq(Byte), Len(data) >= 2
      PROVE  Bytes(GameNConfiguration(data), 23) /\ GameNConfiguration(data)[1] = 22
  <2>1. Bytes(Game(data), 2)
    BY <1>5, GameIs
  <2>. DEFINE n == Decode(Game(data))
              d == IF n < Len(Games) THEN Games[n + 1].denomCode ELSE PennyCode
              l == <<22>>
              g == Game(data)
              e == GameDescription(d)
  <2>2. n \in Nat
    <3>1. PICK f \in [0..Len(Game(data)) -> Nat] : Decode(Game(data)) = f[Len(Game(data))]
      BY <2>1, DecodeIs DEF Bytes
    <3>. QED
      BY <2>1, <3>1 DEF Bytes
  <2>3. d \in Byte
    <3>. HIDE DEF n
    <3>1. n < Len(Games) => n + 1 \in 1..Len(Games)
      BY <2>2, GamesAre
    <3>2. PennyCode \in Byte
      BY LiteralBytes DEF PennyCode
    <3>3. CASE n < Len(Games)
      BY <3>1, <3>3, GamesAre
    <3>4. CASE ~(n < Len(Games))
      BY <3>2, <3>4
    <3>. QED
      BY <3>3, <3>4
  <2>4. GameNConfiguration(data) = (l \o g) \o e
    BY DEF GameNConfiguration
  <2>5. Bytes(l, 1) /\ l[1] = 22
    BY LiteralBytes, FewBytes
  <2>6. Bytes(g, 2)
    BY <2>1
  <2>. HIDE DEF n, d
  <2>7. Bytes(e, 20)
    BY <2>3, DescriptionIs
  <2>. HIDE DEF l, g, e
  <2>8. Bytes(l \o g, 1 + 2)
    BY <2>5, <2>6, BytesJoin
  <2>9. Bytes(l \o g, 3)
    BY <2>8
  <2>10. Bytes((l \o g) \o e, 3 + 20)
    BY <2>7, <2>9, BytesJoin
  <2>11. ((l \o g) \o e)[1] = 22
    <3>1. l \in Seq(Byte) /\ g \in Seq(Byte) /\ e \in Seq(Byte) /\ l \o g \in Seq(Byte)
      BY <2>5, <2>6, <2>7, <2>9 DEF Bytes
    <3>2. \A i \in 1..Len(l) : (l \o g)[i] = l[i]
      BY <3>1, Behind
    <3>3. \A i \in 1..Len(l \o g) : ((l \o g) \o e)[i] = (l \o g)[i]
      BY <3>1, Behind
    <3>4. 1 \in 1..Len(l) /\ 1 \in 1..Len(l \o g)
      BY <2>5, <2>9 DEF Bytes
    <3>. QED
      BY <2>5, <3>2, <3>3, <3>4, Zenon
  <2>. QED
    BY <2>4, <2>10, <2>11
<1>. QED
  BY <1>1, <1>2, <1>3, <1>4, <1>5

\* What is in the data so far stays where it is when more is put behind it.
LEMMA Grows ==
  ASSUME NEW a, NEW b, NEW n \in Nat, NEW m \in Nat, Bytes(a, n), Bytes(b, m),
         NEW e \in Seq(Byte), NEW q \in Nat \ {0}, At(a, q, e)
  PROVE  Bytes(a \o b, n + m) /\ At(a \o b, q, e)
<1>1. Bytes(a \o b, n + m)
  BY BytesJoin
<1>2. a \in Seq(Byte) /\ b \in Seq(Byte) /\ a \o b \in Seq(Byte)
  BY <1>1 DEF Bytes
<1>3. At(a \o b, 1, a)
  BY <1>2, AtEnds
<1>. DEFINE s == a \o b
<1>. HIDE DEF s
<1>4. At(s, 1, a) /\ s \in Seq(Byte)
  BY <1>2, <1>3 DEF s
<1>5. At(s, (1 + q) - 1, e)
  BY <1>2, <1>4, AtInner
<1>6. (1 + q) - 1 = q
  OBVIOUS
<1>. QED
  BY <1>1, <1>5, <1>6 DEF s

\* What is put behind the data is there.
LEMMA IsPut ==
  ASSUME NEW a, NEW b, NEW n \in Nat, NEW m \in Nat, Bytes(a, n), Bytes(b, m)
  PROVE  Bytes(a \o b, n + m) /\ At(a \o b, n + 1, b)
<1>1. Bytes(a \o b, n + m)
  BY BytesJoin
<1>2. a \in Seq(Byte) /\ b \in Seq(Byte)
  BY DEF Bytes
<1>3. At(a \o b, Len(a) + 1, b)
  BY <1>2, AtEnds
<1>. QED
  BY <1>1, <1>3 DEF Bytes

\* The first byte stays the first.
FirstByte(d) == d[1]

\* It does when more is put behind it.
LEMMA FirstStays ==
  ASSUME NEW a, NEW b, NEW n \in Nat, n > 0, NEW m \in Nat, Bytes(a, n), Bytes(b, m)
  PROVE  Bytes(a \o b, n + m) /\ FirstByte(a \o b) = FirstByte(a)
<1>1. Bytes(a \o b, n + m)
  BY BytesJoin
<1>2. a \in Seq(Byte) /\ b \in Seq(Byte)
  BY DEF Bytes
<1>3. \A i \in 1..Len(a) : (a \o b)[i] = a[i]
  BY <1>2, Behind
<1>4. 1 \in 1..Len(a)
  BY DEF Bytes
<1>. QED
  BY <1>1, <1>3, <1>4 DEF FirstByte

\* The AFT statics and the configuration are of the sizes they are sent with.
LEMMA AftIs ==
  /\ Aft.lock \in Byte /\ Aft.transfer \in Byte /\ Aft.gameLock \in Byte
  /\ Aft.available \in Byte /\ Aft.nonrestricted \in Int
  /\ Config.asset \in Int /\ Config.hostCashout \in Byte /\ Config.status \in Byte
  /\ Config.buffers \in Byte /\ Config.limit \in Int
  /\ Config.pool \div 256 \in Byte /\ Config.pool % 256 \in Byte
<1>1. /\ Aft.lock \in Byte /\ Aft.transfer \in Byte /\ Aft.gameLock \in Byte
      /\ Aft.available \in Byte /\ Aft.nonrestricted \in Nat
      /\ Config.asset \in Nat /\ Config.hostCashout \in Byte /\ Config.status \in Byte
      /\ Config.buffers \in Byte /\ Config.limit \in Nat /\ Config.pool \in Word
  BY AftAssumption
<1>2. Config.pool \in Nat /\ Config.pool < 65536
  BY <1>1 DEF Word
<1>3. Config.pool \div 256 \in Nat /\ Config.pool \div 256 <= 255
  BY <1>2
<1>4. Config.pool % 256 \in Nat /\ Config.pool % 256 <= 255
  BY <1>2
<1>. QED
  BY <1>1, <1>3, <1>4, ByteIs

\* Where 0x71 has the credits.
LEMMA LockData ==
  ASSUME NEW data, NEW v, Granted(data) => v[1] \in Int
  PROVE  /\ Granted(data) => /\ Bytes(LockReport(data, v), 11)
                             /\ At(LockReport(data, v), 7, Encode(v[1], 5))
         /\ ~Granted(data) => Bytes(LockReport(data, v), 2)
<1>1. ASSUME Granted(data)
      PROVE  /\ Bytes(LockReport(data, v), 11)
             /\ At(LockReport(data, v), 7, Encode(v[1], 5))
  <2>. DEFINE a == <<Aft.lock, Aft.transfer>>
              b == Encode(1, 4)
              e == Encode(v[1], 5)
  <2>1. Bytes(a, 2)
    BY AftIs, FewBytes
  <2>2. Bytes(b, 4) /\ Bytes(e, 5)
    BY <1>1, NumberIs
  <2>3. LockReport(data, v) = (a \o b) \o e
    BY <1>1 DEF LockReport
  <2>. HIDE DEF a, b, e
  <2>4. Bytes(a \o b, 2 + 4)
    BY <2>1, <2>2, BytesJoin
  <2>5. Bytes(a \o b, 6)
    BY <2>4
  <2>6. Bytes((a \o b) \o e, 6 + 5) /\ At((a \o b) \o e, 6 + 1, e)
    BY <2>2, <2>5, IsPut
  <2>. QED
    BY <2>3, <2>6 DEF e
<1>2. ASSUME ~Granted(data) PROVE Bytes(LockReport(data, v), 2)
  BY <1>2, LiteralBytes, FewBytes DEF LockReport, LockForbidden, NotRegistered
<1>. QED
  BY <1>1, <1>2

\* Where 0x74 has the credits, and its length.
LEMMA AftData ==
  ASSUME NEW v, v[1] \in Int
  PROVE  /\ Bytes(AftReport(v), 36) /\ AftReport(v)[1] = 35
         /\ At(AftReport(v), 11, Encode(v[1], 5))
<1>. DEFINE l == <<35>>
            asset == Encode(Config.asset, 4)
            flags == <<Aft.gameLock, Aft.available, Config.hostCashout,
                       Config.status, Config.buffers>>
            e == Encode(v[1], 5)
            none == Encode(0, 5)
            free == Encode(Aft.nonrestricted, 5)
            limit == Encode(Config.limit, 5)
            zeros == Zeros(4)
            pool == <<Config.pool \div 256, Config.pool % 256>>
<1>1. Bytes(l, 1) /\ FirstByte(l) = 35
  BY LiteralBytes, FewBytes DEF FirstByte
<1>2. Bytes(asset, 4)
  BY AftIs, NumberIs
<1>3. Bytes(flags, 5)
  BY AftIs DEF Bytes
<1>4. Bytes(e, 5) /\ Bytes(none, 5)
  BY NumberIs
<1>5. Bytes(free, 5)
  BY AftIs, NumberIs
<1>6. Bytes(limit, 5)
  BY AftIs, NumberIs
<1>7. Bytes(zeros, 4)
  BY ByteIs DEF Zeros, Bytes
<1>8. Bytes(pool, 2)
  BY AftIs, FewBytes
<1>9. AftReport(v) =
        (((((((l \o asset) \o flags) \o e) \o none) \o free) \o limit) \o zeros) \o pool
  BY DEF AftReport
<1>. HIDE DEF l, asset, flags, e, none, free, limit, zeros, pool
<1>. DEFINE d1 == l \o asset
<1>10. Bytes(d1, 1 + 4) /\ FirstByte(d1) = 35
  BY <1>1, <1>2, FirstStays
<1>11. Bytes(d1, 5)
  BY <1>10
<1>. HIDE DEF d1
<1>. DEFINE d2 == d1 \o flags
<1>12. Bytes(d2, 5 + 5) /\ FirstByte(d2) = 35
  BY <1>3, <1>10, <1>11, FirstStays
<1>13. Bytes(d2, 10)
  BY <1>12
<1>. HIDE DEF d2
<1>. DEFINE d3 == d2 \o e
<1>14. Bytes(d3, 10 + 5) /\ At(d3, 10 + 1, e)
  BY <1>4, <1>13, IsPut
<1>15. FirstByte(d3) = 35
  BY <1>4, <1>12, <1>13, FirstStays
<1>16. Bytes(d3, 15) /\ At(d3, 11, e) /\ e \in Seq(Byte)
  BY <1>4, <1>14 DEF Bytes
<1>. HIDE DEF d3
<1>. DEFINE d4 == d3 \o none
<1>17. Bytes(d4, 15 + 5) /\ At(d4, 11, e)
  BY <1>4, <1>16, Grows
<1>18. FirstByte(d4) = 35
  BY <1>4, <1>15, <1>16, FirstStays
<1>19. Bytes(d4, 20)
  BY <1>17
<1>. HIDE DEF d4
<1>. DEFINE d5 == d4 \o free
<1>20. Bytes(d5, 20 + 5) /\ At(d5, 11, e)
  BY <1>5, <1>16, <1>17, <1>19, Grows
<1>21. FirstByte(d5) = 35
  BY <1>5, <1>18, <1>19, FirstStays
<1>22. Bytes(d5, 25)
  BY <1>20
<1>. HIDE DEF d5
<1>. DEFINE d6 == d5 \o limit
<1>23. Bytes(d6, 25 + 5) /\ At(d6, 11, e)
  BY <1>6, <1>16, <1>20, <1>22, Grows
<1>24. FirstByte(d6) = 35
  BY <1>6, <1>21, <1>22, FirstStays
<1>25. Bytes(d6, 30)
  BY <1>23
<1>. HIDE DEF d6
<1>. DEFINE d7 == d6 \o zeros
<1>26. Bytes(d7, 30 + 4) /\ At(d7, 11, e)
  BY <1>7, <1>16, <1>23, <1>25, Grows
<1>27. FirstByte(d7) = 35
  BY <1>7, <1>24, <1>25, FirstStays
<1>28. Bytes(d7, 34)
  BY <1>26
<1>. HIDE DEF d7
<1>. DEFINE d8 == d7 \o pool
<1>29. Bytes(d8, 34 + 2) /\ At(d8, 11, e)
  BY <1>8, <1>16, <1>26, <1>28, Grows
<1>30. FirstByte(d8) = 35
  BY <1>8, <1>27, <1>28, FirstStays
<1>31. Bytes(d8, 36)
  BY <1>29
<1>32. AftReport(v) = d8
  BY <1>9 DEF d1, d2, d3, d4, d5, d6, d7
<1>. HIDE DEF d8
<1>. QED
  BY <1>29, <1>30, <1>31, <1>32 DEF e, FirstByte

\* The length byte counts what is behind it, as far as a byte can.
LEMMA WithLengthIs ==
  ASSUME NEW body, NEW n \in Nat, Bytes(body, n)
  PROVE  /\ Bytes(WithLength(body), n + 1) /\ At(WithLength(body), 2, body)
         /\ FirstByte(WithLength(body)) = n % 256
<1>. DEFINE l == <<n % 256>>
<1>1. n % 256 \in Byte
  BY ByteIs
<1>2. Bytes(l, 1) /\ FirstByte(l) = n % 256
  BY <1>1, FewBytes DEF FirstByte
<1>3. WithLength(body) = l \o body
  BY DEF WithLength, Bytes
<1>. HIDE DEF l
<1>4. Bytes(l \o body, 1 + n) /\ At(l \o body, 1 + 1, body)
  BY <1>2, IsPut
<1>5. FirstByte(l \o body) = FirstByte(l)
  BY <1>2, FirstStays
<1>6. 1 + n = n + 1 /\ 1 + 1 = 2
  OBVIOUS
<1>. QED
  BY <1>2, <1>3, <1>4, <1>5, <1>6

\* A row of parts of one length, and where they are in it.
LEMMA BytesRow ==
  ASSUME NEW parts, NEW n \in Nat, NEW w \in Nat, Len(parts) = n, DOMAIN parts = 1..n,
         parts = [i \in 1..n |-> parts[i]], \A i \in 1..n : Bytes(parts[i], w)
  PROVE  /\ Bytes(FlattenSeq(parts), w * n)
         /\ \A i \in 1..n : At(FlattenSeq(parts), w * (i - 1) + 1, parts[i])
<1>1. \A i \in 1..n : parts[i] \in Seq(Byte) /\ Len(parts[i]) = w
  BY DEF Bytes
<1>2. parts \in Seq(Seq(Byte))
  BY <1>1
<1>. QED
  BY <1>1, <1>2, EvenRow DEF Bytes

\* 0x56: its length byte is right if it can count the games.
LEMMA EnabledData ==
  /\ Bytes(EnabledGames, 2 * Len(Games) + 2)
  /\ Len(Games) <= 127 => FirstByte(EnabledGames) = 2 * Len(Games) + 1
<1>. DEFINE n == Len(Games)
            a == <<(1 + Len(Games) * 2) % 256, Len(Games) % 256>>
            parts == [i \in 1..Len(Games) |-> Encode(Games[i].number, 2)]
            b == FlattenSeq(parts)
<1>1. n \in Nat
  BY GamesAre
<1>2. Bytes(a, 2) /\ (n <= 127 => FirstByte(a) = 2 * n + 1)
  <2>1. (1 + n * 2) % 256 \in Nat /\ (1 + n * 2) % 256 <= 255
    BY <1>1
  <2>2. n % 256 \in Nat /\ n % 256 <= 255
    BY <1>1
  <2>3. n <= 127 => (1 + n * 2) % 256 = 2 * n + 1
    BY <1>1
  <2>4. a[1] = (1 + n * 2) % 256
    OBVIOUS
  <2>. QED
    BY <2>1, <2>2, <2>3, <2>4, ByteIs, FewBytes DEF FirstByte
<1>3. /\ Len(parts) = n /\ DOMAIN parts = 1..n /\ parts = [i \in 1..n |-> parts[i]]
      /\ \A i \in 1..n : Bytes(parts[i], 2)
  <2>1. ASSUME NEW i \in 1..n PROVE Bytes(Encode(Games[i].number, 2), 2)
    <3>1. Games[i].number \in Int
      BY GamesAre
    <3>. QED
      BY <3>1, NumberIs
  <2>2. \A i \in 1..n : parts[i] = Encode(Games[i].number, 2)
    OBVIOUS
  <2>. QED
    BY <1>1, <2>1, <2>2
<1>4. EnabledGames = a \o b
  BY DEF EnabledGames
<1>. HIDE DEF n, a, parts
<1>5. Bytes(b, 2 * n)
  BY <1>1, <1>3, BytesRow
<1>. HIDE DEF b
<1>6. Bytes(a \o b, 2 + 2 * n) /\ FirstByte(a \o b) = FirstByte(a)
  <2>1. PICK m \in Nat : m = 2 * n
    BY <1>1
  <2>2. Bytes(b, m)
    BY <1>5, <2>1
  <2>3. Bytes(a \o b, 2 + m) /\ FirstByte(a \o b) = FirstByte(a)
    BY <1>2, <2>2, FirstStays
  <2>. QED
    BY <2>1, <2>3
<1>7. 2 + 2 * n = 2 * n + 2
  BY <1>1
<1>. QED
  BY <1>2, <1>4, <1>6, <1>7 DEF n

\* 0x2F: a code and a meter in five bytes each.  Its length byte is right if
\* the poll has no more than fifty codes.
LEMMA GameNData ==
  ASSUME NEW data \in Seq(Byte), NEW v \in Seq(Int), NEW n \in Nat, Len(data) = n + 2,
         Len(v) = n
  PROVE  /\ Bytes(GameNReport(data, v), 5 * n + 3)
         /\ FirstByte(GameNReport(data, v)) = (5 * n + 2) % 256
         /\ \A i \in 1..n : /\ data[i + 2] \in Byte /\ v[i] \in Int
                            /\ At(GameNReport(data, v), 5 * (i - 1) + 4,
                                  <<data[i + 2]>> \o Encode(v[i], 4))
<1>. DEFINE asked == AskedForGame(data)
            item(j) == <<asked[j]>> \o Encode(v[j], 4)
            parts == [i \in 1..Len(asked) |-> item(i)]
            g == Game(data)
            b == FlattenSeq(parts)
<1>1. asked \in Seq(Byte) /\ Len(asked) = n /\ Bytes(g, 2)
  BY AskedAre, GameIs
<1>2. \A i \in 1..n : asked[i] = data[i + 2]
  BY DEF AskedForGame
<1>. HIDE DEF asked
<1>3. ASSUME NEW i \in 1..n
      PROVE  /\ asked[i] \in Byte /\ v[i] \in Int
             /\ parts[i] = <<asked[i]>> \o Encode(v[i], 4) /\ Bytes(parts[i], 5)
  <2>1. asked[i] \in Byte /\ v[i] \in Int
    <3>1. \A j \in 1..Len(asked) : asked[j] \in Byte
      BY <1>1, Elements, Zenon
    <3>2. \A j \in 1..Len(v) : v[j] \in Int
      BY Elements, Zenon
    <3>. QED
      BY <1>1, <3>1, <3>2
  <2>2. Bytes(<<asked[i]>>, 1) /\ Bytes(Encode(v[i], 4), 4)
    BY <2>1, FewBytes, NumberIs
  <2>3. Bytes(<<asked[i]>> \o Encode(v[i], 4), 1 + 4)
    BY <2>2, BytesJoin
  <2>4. parts[i] = <<asked[i]>> \o Encode(v[i], 4)
    <3>1. i \in 1..Len(asked)
      BY <1>1
    <3>. HIDE DEF item
    <3>2. parts[i] = item(i)
      BY <3>1
    <3>. QED
      BY <3>2 DEF item
  <2>5. Bytes(parts[i], 5)
    <3>1. 1 + 4 = 5
      OBVIOUS
    <3>. QED
      BY <2>3, <2>4, <3>1, Zenon
  <2>. HIDE DEF parts
  <2>. QED
    BY <2>1, <2>4, <2>5, Zenon
<1>4. Len(parts) = n /\ DOMAIN parts = 1..n /\ parts = [i \in 1..n |-> parts[i]]
  BY <1>1
<1>5. GameNReport(data, v) = WithLength(g \o b)
  BY DEF GameNReport, asked
<1>. HIDE DEF parts, g
<1>6. Bytes(b, 5 * n) /\ \A i \in 1..n : At(b, 5 * (i - 1) + 1, parts[i])
  BY <1>3, <1>4, BytesRow
<1>. HIDE DEF b
<1>7. PICK m \in Nat : m = 5 * n
  OBVIOUS
<1>. DEFINE body == g \o b
            r == WithLength(body)
<1>8. Bytes(body, 2 + m) /\ At(body, 3, b)
  <2>1. Bytes(b, m)
    BY <1>6, <1>7
  <2>2. Bytes(g \o b, 2 + m) /\ At(g \o b, 2 + 1, b)
    BY <1>1, <2>1, IsPut
  <2>. QED
    BY <2>2
<1>. HIDE DEF body
<1>9. PICK k \in Nat : k = 2 + m
  OBVIOUS
<1>10. Bytes(r, k + 1) /\ At(r, 2, body) /\ FirstByte(r) = k % 256
  BY <1>8, <1>9, WithLengthIs
<1>. HIDE DEF r
<1>11. r \in Seq(Byte) /\ body \in Seq(Byte) /\ b \in Seq(Byte)
  BY <1>6, <1>8, <1>10 DEF Bytes
<1>12. At(r, 4, b)
  <2>1. At(r, (2 + 3) - 1, b)
    BY <1>8, <1>10, <1>11, AtInner
  <2>. QED
    BY <2>1
<1>13. ASSUME NEW i \in 1..n PROVE At(r, 5 * (i - 1) + 4, parts[i])
  <2>1. PICK q \in Nat : q = 5 * (i - 1) + 1
    BY <1>3
  <2>2. parts[i] \in Seq(Byte) /\ At(b, q, parts[i])
    BY <1>3, <1>6, <2>1 DEF Bytes
  <2>3. At(r, (4 + q) - 1, parts[i])
    BY <1>11, <1>12, <2>2, AtInner
  <2>4. (4 + q) - 1 = 5 * (i - 1) + 4
    BY <2>1
  <2>. QED
    BY <2>3, <2>4
<1>14. GameNReport(data, v) = r
  BY <1>5 DEF r, body
<1>15. k + 1 = 5 * n + 3 /\ k % 256 = (5 * n + 2) % 256
  BY <1>7, <1>9
<1>. QED
  BY <1>2, <1>3, <1>10, <1>13, <1>14, <1>15

\* A field of 0x6F and 0xAF: its code, the size of the number, the number.
SizeOf(code) == IF code \in TicketCodes THEN 5 ELSE 4
Item(code, value) ==
  <<code % 256, code \div 256, SizeOf(code)>> \o Encode(value, SizeOf(code))

\* What is where in it.
LEMMA ItemIs ==
  ASSUME NEW code \in Word, NEW value \in Int
  PROVE  /\ SizeOf(code) \in {4, 5}
         /\ Bytes(Item(code, value), 3 + SizeOf(code))
         /\ Item(code, value)[1] = code % 256
         /\ Item(code, value)[2] = code \div 256
         /\ Item(code, value)[3] = SizeOf(code)
         /\ At(Item(code, value), 4, Encode(value, SizeOf(code)))
<1>. DEFINE z == SizeOf(code)
            a == <<code % 256, code \div 256, SizeOf(code)>>
            b == Encode(value, z)
<1>1. z \in {4, 5} /\ z \in Nat
  BY DEF SizeOf
<1>2. code \in Nat /\ code < 65536
  BY DEF Word
<1>3. code % 256 \in Byte /\ code \div 256 \in Byte /\ z \in Byte
  <2>1. code % 256 \in Nat /\ code % 256 <= 255
    BY <1>2
  <2>2. code \div 256 \in Nat /\ code \div 256 <= 255
    BY <1>2
  <2>3. z <= 255
    BY <1>1
  <2>. QED
    BY <1>1, <2>1, <2>2, <2>3, ByteIs
<1>4. Bytes(a, 3) /\ a[1] = code % 256 /\ a[2] = code \div 256 /\ a[3] = z
  BY <1>3 DEF Bytes
<1>5. Bytes(b, z)
  BY <1>1, EncodeBytes DEF Bytes
<1>6. Item(code, value) = a \o b
  BY DEF Item
<1>. HIDE DEF z, a, b
<1>7. Bytes(a \o b, 3 + z) /\ At(a \o b, 3 + 1, b)
  BY <1>1, <1>4, <1>5, IsPut
<1>8. \A i \in 1..Len(a) : (a \o b)[i] = a[i]
  <2>1. a \in Seq(Byte) /\ b \in Seq(Byte)
    BY <1>4, <1>5 DEF Bytes
  <2>. QED
    BY <2>1, Behind
<1>9. 1 \in 1..Len(a) /\ 2 \in 1..Len(a) /\ 3 \in 1..Len(a)
  BY <1>4 DEF Bytes
<1>10. (a \o b)[1] = a[1] /\ (a \o b)[2] = a[2] /\ (a \o b)[3] = a[3]
  BY <1>8, <1>9, Zenon
<1>11. 3 + 1 = 4
  OBVIOUS
<1>. QED
  BY <1>1, <1>4, <1>6, <1>7, <1>10, <1>11 DEF z, b

\* f[i] bytes of the fields of 0x6F and 0xAF are those of the first i.
Widths(f, codes, n) ==
  /\ f \in [0..n -> Nat] /\ f[0] = 0
  /\ \A i \in 1..n : f[i] = f[i - 1] + 3 + SizeOf(codes[i])

\* At most twelve such fields, one after the other, fit the length byte.
LEMMA ExtendedData ==
  ASSUME NEW data \in Seq(Byte), Len(data) >= 3, NEW v \in Seq(Int), NEW n \in Nat,
         n = Len(Asked(data)), Len(v) = n
  PROVE  \E f :
           /\ Widths(f, Asked(data), n) /\ f[n] \in Nat /\ f[n] <= 96
           /\ Bytes(ExtendedReport(data, v), f[n] + 3)
           /\ FirstByte(ExtendedReport(data, v)) = f[n] + 2
           /\ \A i \in 1..n : /\ Asked(data)[i] \in Word /\ v[i] \in Int
                              /\ f[i - 1] \in Nat
                              /\ At(ExtendedReport(data, v), f[i - 1] + 4,
                                    Item(Asked(data)[i], v[i]))
<1>. DEFINE asked == Asked(data)
            item(i) == Item(asked[i], v[i])
            parts == [i \in 1..Len(asked) |-> item(i)]
            g == SubSeq(data, 2, 3)
            b == FlattenSeq(parts)
<1>1. asked \in Seq(Word) /\ Len(asked) = n /\ n <= 12
  BY AskedAre
<1>2. Bytes(g, 2)
  <2>1. Len(data) \in Nat /\ \A i \in 1..Len(data) : data[i] \in Byte
    BY Elements, Zenon
  <2>. QED
    BY <2>1 DEF Bytes
<1>3. ExtendedReport(data, v) = WithLength(g \o b)
  BY DEF ExtendedReport, Item, SizeOf
<1>. HIDE DEF asked
<1>4. ASSUME NEW i \in 1..n
      PROVE  /\ asked[i] \in Word /\ v[i] \in Int /\ SizeOf(asked[i]) \in {4, 5}
             /\ Bytes(item(i), 3 + SizeOf(asked[i]))
  <2>1. \A j \in 1..Len(asked) : asked[j] \in Word
    BY <1>1, Elements, Zenon
  <2>2. \A j \in 1..Len(v) : v[j] \in Int
    BY Elements, Zenon
  <2>3. asked[i] \in Word /\ v[i] \in Int
    BY <1>1, <2>1, <2>2
  <2>. QED
    BY <2>3, ItemIs
<1>. HIDE DEF item
<1>5. /\ Len(parts) = n /\ parts = [i \in 1..n |-> item(i)]
      /\ \A i \in 1..n : parts[i] = item(i)
  BY <1>1
<1>. HIDE DEF parts, g
<1>6. /\ parts \in Seq(Seq(Byte))
      /\ \A i \in 1..n : Len(parts[i]) = 3 + SizeOf(asked[i])
  <2>1. \A i \in 1..n : item(i) \in Seq(Byte) /\ Len(item(i)) = 3 + SizeOf(asked[i])
    BY <1>4 DEF Bytes
  <2>. QED
    BY <1>5, <2>1
<1>7. PICK h : Rows(h, parts, Byte) /\ FlattenSeq(parts) = h[Len(parts)]
  BY <1>6, FlattenIs
<1>. DEFINE f == [i \in 0..n |-> Len(h[i])]
<1>8. \A i \in 0..n : h[i] \in Seq(Byte) /\ f[i] = Len(h[i]) /\ f[i] \in Nat
  <2>1. \A i \in 0..n : h[i] \in Seq(Byte)
    BY <1>5, <1>7 DEF Rows
  <2>2. \A i \in 0..n : Len(h[i]) \in Nat
    BY <2>1, Elements, Zenon
  <2>. QED
    BY <2>1, <2>2
<1>9. f \in [0..n -> Nat]
  BY <1>8
<1>. HIDE DEF f
<1>10. f[0] = 0
  <2>1. h[0] = <<>>
    BY <1>7 DEF Rows
  <2>2. 0 \in 0..n
    OBVIOUS
  <2>. QED
    BY <1>8, <2>1, <2>2
<1>11. ASSUME NEW i \in 1..n
       PROVE  /\ f[i] = f[i - 1] + 3 + SizeOf(asked[i]) /\ f[i - 1] \in Nat
              /\ At(b, f[i - 1] + 1, item(i))
  <2>1. i - 1 \in 0..n /\ i \in 0..n
    OBVIOUS
  <2>2. f[i - 1] = Len(h[i - 1]) /\ f[i] = Len(h[i]) /\ f[i - 1] \in Nat
    BY <1>8, <2>1
  <2>5. i \in 1..Len(parts)
    BY <1>5
  <2>3. /\ Len(h[i]) = Len(h[i - 1]) + Len(parts[i])
        /\ At(h[Len(parts)], Len(h[i - 1]) + 1, parts[i])
    BY <1>6, <1>7, <2>5, RowsHave, Zenon
  <2>4. Len(parts[i]) = 3 + SizeOf(asked[i]) /\ parts[i] = item(i)
    BY <1>5, <1>6
  <2>6. SizeOf(asked[i]) \in Nat
    BY <1>4
  <2>7. At(b, f[i - 1] + 1, item(i))
    BY <1>7, <2>2, <2>3, <2>4, Zenon
  <2>8. f[i] = f[i - 1] + 3 + SizeOf(asked[i])
    <3>1. f[i] = f[i - 1] + (3 + SizeOf(asked[i]))
      BY <2>2, <2>3, <2>4, Zenon
    <3>2. PICK x \in Nat, z \in Nat : x = f[i - 1] /\ z = SizeOf(asked[i])
      BY <2>2, <2>6
    <3>3. x + (3 + z) = x + 3 + z
      OBVIOUS
    <3>. QED
      BY <3>1, <3>2, <3>3, Zenon
  <2>. QED
    BY <2>2, <2>7, <2>8
<1>12. Widths(f, asked, n)
  BY <1>9, <1>10, <1>11 DEF Widths
<1>13. f[n] \in Nat /\ f[n] <= 8 * n
  <2>. DEFINE T == {i \in 0..n : f[i] <= 8 * i}
  <2>1. 0 \in T
    BY <1>10
  <2>2. ASSUME NEW i \in 0..(n - 1), i \in T PROVE i + 1 \in T
    <3>1. i + 1 \in 1..n /\ (i + 1) - 1 = i
      OBVIOUS
    <3>2. f[i + 1] = f[i] + 3 + SizeOf(asked[i + 1]) /\ f[i] \in Nat
      BY <1>11, <3>1
    <3>3. SizeOf(asked[i + 1]) \in {4, 5}
      BY <1>4, <3>1
    <3>. QED
      BY <2>2, <3>1, <3>2, <3>3
  <2>. HIDE DEF T
  <2>3. \A i \in 0..n : i \in T
    BY <2>1, <2>2, UpToN
  <2>. QED
    BY <1>8, <2>3 DEF T
<1>14. Bytes(b, f[n])
  <2>1. b = h[n] /\ n \in 0..n
    BY <1>5, <1>7
  <2>. QED
    BY <1>8, <2>1 DEF Bytes
<1>. HIDE DEF b
<1>. DEFINE body == g \o b
            r == WithLength(body)
<1>15. PICK m \in Nat : m = f[n]
  BY <1>13
<1>16. Bytes(body, 2 + m) /\ At(body, 3, b)
  <2>1. Bytes(g \o b, 2 + m) /\ At(g \o b, 2 + 1, b)
    BY <1>2, <1>14, <1>15, IsPut
  <2>. QED
    BY <2>1
<1>. HIDE DEF body
<1>17. PICK k \in Nat : k = 2 + m
  OBVIOUS
<1>18. Bytes(r, k + 1) /\ At(r, 2, body) /\ FirstByte(r) = k % 256
  BY <1>16, <1>17, WithLengthIs
<1>. HIDE DEF r
<1>19. r \in Seq(Byte) /\ body \in Seq(Byte) /\ b \in Seq(Byte)
  BY <1>14, <1>16, <1>18 DEF Bytes
<1>20. At(r, 4, b)
  <2>1. At(r, (2 + 3) - 1, b)
    BY <1>16, <1>18, <1>19, AtInner
  <2>. QED
    BY <2>1
<1>21. ASSUME NEW i \in 1..n PROVE At(r, f[i - 1] + 4, item(i))
  <2>1. f[i - 1] \in Nat
    BY <1>11
  <2>2. PICK q \in Nat : q = f[i - 1] + 1
    BY <2>1
  <2>3. item(i) \in Seq(Byte) /\ At(b, q, item(i))
    BY <1>4, <1>11, <2>2 DEF Bytes
  <2>4. At(r, (4 + q) - 1, item(i))
    BY <1>19, <1>20, <2>3, AtInner
  <2>5. (4 + q) - 1 = f[i - 1] + 4
    BY <2>1, <2>2
  <2>. QED
    BY <2>4, <2>5
<1>22. ExtendedReport(data, v) = r
  BY <1>3 DEF r, body
<1>23. k + 1 = f[n] + 3 /\ k % 256 = f[n] + 2 /\ f[n] <= 96
  <2>1. m <= 96
    BY <1>1, <1>13, <1>15
  <2>2. k + 1 = m + 3 /\ k % 256 = m + 2
    BY <1>17, <2>1
  <2>. QED
    BY <1>15, <2>1, <2>2
<1>. QED
  <2>1. /\ Bytes(ExtendedReport(data, v), f[n] + 3)
        /\ FirstByte(ExtendedReport(data, v)) = f[n] + 2
    BY <1>18, <1>22, <1>23
  <2>2. \A i \in 1..n : /\ asked[i] \in Word /\ v[i] \in Int /\ f[i - 1] \in Nat
                        /\ At(ExtendedReport(data, v), f[i - 1] + 4, Item(asked[i], v[i]))
    BY <1>4, <1>11, <1>21, <1>22 DEF item
  <2>. HIDE DEF f
  <2>. QED
    BY <1>12, <1>13, <1>23, <2>1, <2>2, Zenon DEF asked

\* What a poll must have for its handler to answer.
LEMMA Needed ==
  ASSUME IInv, Answered
  PROVE  /\ poll.data \in Seq(Byte) /\ Len(poll.data) \in Nat
         /\ poll.command \in {\h2F, \h52, \h53, \h71, \hA0} => Len(poll.data) >= 2
         /\ poll.command \in Extended => Len(poll.data) >= 3
<1>1. Answers(poll) /\ poll.data \in Seq(Byte)
  BY AllRead
<1>2. Len(poll.data) \in Nat
  BY <1>1, Elements, Zenon
<1>. QED
  BY <1>1, <1>2 DEF Answers

\* The dates.
LEMMA DateData ==
  ASSUME IInv, Answered, poll.command \in DatePolls
  PROVE  Bytes(Report(poll, got), IF poll.command = \h1B THEN 7 ELSE 18)
<1>. DEFINE c == poll.command
            d == DateReport(got)
            t == [i \in 1..3 |-> ToBCD(got[i + 3])]
            l == LastTicket
            z == <<0>>
<1>1. /\ \A i \in 1..3 : Shows(Date[i], got[i])
      /\ c = \h1B => \A i \in 1..3 : Shows(Time[i], got[i + 3])
  BY DatesRead
<1>2. /\ \A i \in 1..3 : got[i] \in Nat
      /\ c = \h1B => \A i \in 1..3 : got[i + 3] \in Nat
  <2>1. \A i \in 1..3 : Date[i] \in TmFields /\ Time[i] \in TmFields
    BY DEF Date, Time, TmFields
  <2>. QED
    BY <1>1, <2>1, ShownAre
<1>3. Bytes(d, 4)
  <2>1. got[1] \in Nat /\ got[2] \in Nat /\ got[3] \in Nat
    BY <1>2
  <2>. QED
    BY <2>1, DateReportIs DEF Bytes
<1>4. CASE c = \h1B
  <2>1. Report(poll, got) = d \o t
    BY <1>4, ReportsAre DEF DateTime
  <2>2. \A i \in 1..3 : ToBCD(got[i + 3]) \in Byte
    BY <1>2, <1>4, ToBCDIs
  <2>3. Bytes(t, 3)
    BY <2>2 DEF Bytes
  <2>. HIDE DEF d, t
  <2>4. Bytes(d \o t, 4 + 3)
    BY <1>3, <2>3, BytesJoin
  <2>. QED
    BY <1>4, <2>1, <2>4
<1>5. CASE c # \h1B
  <2>1. Report(poll, got) = (l \o z) \o d
    <3>1. Report(poll, got) = EnhancedTicket(got)
      BY <1>5, ReportsAre DEF DatePolls
    <3>. QED
      BY <3>1 DEF EnhancedTicket
  <2>2. Bytes(l, 13) /\ Bytes(z, 1)
    BY LastTicketIs, LiteralBytes, FewBytes DEF Bytes
  <2>. HIDE DEF l, z, d
  <2>3. Bytes(l \o z, 13 + 1)
    BY <2>2, BytesJoin
  <2>4. Bytes(l \o z, 14)
    BY <2>3
  <2>5. Bytes((l \o z) \o d, 14 + 4)
    BY <1>3, <2>4, BytesJoin
  <2>. QED
    BY <1>5, <2>1, <2>5
<1>. QED
  BY <1>4, <1>5

\* The meters of a game, behind its number.
LEMMA GameMeterData ==
  ASSUME NEW data \in Seq(Byte), Len(data) >= 2, NEW v \in Seq(Int), Len(v) = 4
  PROVE  /\ Bytes(Game(data) \o Fields(v), 18)
         /\ \A i \in 1..4 : At(Game(data) \o Fields(v), 4 * (i - 1) + 3, Encode(v[i], 4))
<1>. DEFINE g == Game(data)
            b == Fields(v)
<1>1. Bytes(g, 2)
  BY GameIs
<1>2. Bytes(b, 16) /\ \A i \in 1..4 : At(b, 4 * (i - 1) + 1, Encode(v[i], 4))
  <2>1. /\ b \in Seq(Byte) /\ Len(b) = 4 * Len(v)
        /\ \A i \in 1..Len(v) : At(b, 4 * (i - 1) + 1, Encode(v[i], 4))
    BY FieldsIs, Zenon
  <2>. HIDE DEF b
  <2>2. Bytes(b, 16)
    BY <2>1 DEF Bytes
  <2>3. \A i \in 1..4 : At(b, 4 * (i - 1) + 1, Encode(v[i], 4))
    BY <2>1, Zenon
  <2>. QED
    BY <2>2, <2>3
<1>. HIDE DEF g, b
<1>3. Bytes(g \o b, 2 + 16) /\ At(g \o b, 2 + 1, b)
  BY <1>1, <1>2, IsPut
<1>. DEFINE r == g \o b
<1>4. Bytes(r, 18) /\ At(r, 3, b) /\ r \in Seq(Byte) /\ b \in Seq(Byte)
  BY <1>2, <1>3 DEF Bytes
<1>. HIDE DEF r
<1>5. ASSUME NEW i \in 1..4 PROVE At(r, 4 * (i - 1) + 3, Encode(v[i], 4))
  <2>1. PICK q \in Nat : q = 4 * (i - 1) + 1
    OBVIOUS
  <2>2. v[i] \in Int
    <3>1. \A j \in 1..Len(v) : v[j] \in Int
      BY Elements, Zenon
    <3>. QED
      BY <3>1
  <2>3. Encode(v[i], 4) \in Seq(Byte) /\ At(b, q, Encode(v[i], 4))
    BY <1>2, <2>1, <2>2, NumberIs DEF Bytes
  <2>4. At(r, (3 + q) - 1, Encode(v[i], 4))
    BY <1>4, <2>3, AtInner
  <2>5. (3 + q) - 1 = 4 * (i - 1) + 3
    BY <2>1
  <2>. QED
    BY <2>4, <2>5
<1>. QED
  BY <1>4, <1>5 DEF r, g, b

\* The short ones.
LEMMA ShortData ==
  /\ Bytes(TicketInfo, 3)
  /\ \A data \in Seq(Byte) : Len(data) >= 2 => Bytes(Capabilities(data), 8)
<1>1. Bytes(TicketInfo, 3)
  <2>. DEFINE a == <<ToBCD(0)>>
              b == Encode(0, 2)
  <2>1. ToBCD(0) \in Byte
    BY ToBCDIs
  <2>2. Bytes(a, 1) /\ Bytes(b, 2)
    BY <2>1, FewBytes, NumberIs
  <2>3. TicketInfo = a \o b
    BY DEF TicketInfo
  <2>. HIDE DEF a, b
  <2>4. Bytes(a \o b, 1 + 2)
    BY <2>2, BytesJoin
  <2>. QED
    BY <2>3, <2>4
<1>2. ASSUME NEW data \in Seq(Byte), Len(data) >= 2 PROVE Bytes(Capabilities(data), 8)
  <2>. DEFINE a == Game(data)
              b == <<\hD7, \hCD, 5, 0, 0, 0>>
  <2>1. Bytes(a, 2)
    BY <1>2, GameIs
  <2>2. Bytes(b, 6)
    BY LiteralBytes DEF Bytes
  <2>3. Capabilities(data) = a \o b
    BY DEF Capabilities
  <2>. HIDE DEF a, b
  <2>4. Bytes(a \o b, 2 + 6)
    BY <2>1, <2>2, BytesJoin
  <2>. QED
    BY <2>3, <2>4
<1>. QED
  BY <1>1, <1>2

\* The polls of 0x2F and of 0x6F and 0xAF have read a meter for each code.
LEMMA CodedRead ==
  ASSUME IInv, Answered
  PROVE  /\ poll.command = \h2F =>
              /\ Len(got) = Len(poll.data) - 2 /\ got \in Seq(Int)
              /\ \A i \in 1..Len(got) :
                   LET m == Coded(GameCodes, poll.data[i + 2])
                   IN  m # Unread => got[i] \in during[m]
         /\ poll.command \in Extended =>
              /\ Len(got) = Len(Asked(poll.data)) /\ got \in Seq(Int)
              /\ \A i \in 1..Len(got) :
                   LET m == Coded(ExtendedCodes, Asked(poll.data)[i])
                   IN  m # Unread => got[i] \in during[m]
<1>1. ASSUME NEW asked, NEW n \in Nat, Len(asked) = n, NEW codes,
             \A x : Coded(codes, x) \in Meters \cup {Unread}, Before(poll.command) = 0,
             Accesses(poll) = [i \in 1..Len(asked) |-> Get(Coded(codes, asked[i]))]
      PROVE  /\ Len(got) = n /\ got \in Seq(Int)
             /\ \A i \in 1..n : LET m == Coded(codes, asked[i])
                                IN  m # Unread => got[i] \in during[m]
  <2>. DEFINE ms == [i \in 1..n |-> Coded(codes, asked[i])]
  <2>1. \A i \in 1..n : ms[i] = Coded(codes, asked[i]) /\ ms[i] \in Meters \cup {Unread}
    BY <1>1
  <2>2. ms \in Seq(Meters \cup {Unread}) /\ Len(ms) = n
    BY <1>1
  <2>3. Accesses(poll) = [i \in 1..Len(ms) |-> Get(ms[i])]
    BY <1>1, <2>1, <2>2
  <2>. HIDE DEF ms
  <2>4. /\ Len(got) = Len(ms) /\ got \in Seq(Int)
        /\ \A i \in 1..Len(ms) : ms[i] # Unread => got[i] \in during[ms[i]]
    BY <1>1, <2>2, <2>3, MetersRead
  <2>. QED
    BY <2>1, <2>2, <2>4
<1>2. poll.command \in {\h2F} \cup Extended => Before(poll.command) = 0
  BY DEF Before, Extended, DatePolls
<1>3. poll.data \in Seq(Byte) /\ Len(poll.data) \in Nat
  BY Needed
<1>4. ASSUME poll.command = \h2F
      PROVE  /\ Len(got) = Len(poll.data) - 2 /\ got \in Seq(Int)
             /\ \A i \in 1..Len(got) :
                  LET m == Coded(GameCodes, poll.data[i + 2])
                  IN  m # Unread => got[i] \in during[m]
  <2>. DEFINE n == Len(poll.data) - 2
  <2>1. n \in Nat /\ Len(AskedForGame(poll.data)) = n
    BY <1>3, <1>4, Needed, AskedAre
  <2>2. \A i \in 1..n : AskedForGame(poll.data)[i] = poll.data[i + 2]
    BY DEF AskedForGame
  <2>3. Accesses(poll) = [i \in 1..Len(AskedForGame(poll.data)) |->
                            Get(Coded(GameCodes, AskedForGame(poll.data)[i]))]
    BY <1>4, AccessesAre
  <2>5. Before(poll.command) = 0 /\ \A x : Coded(GameCodes, x) \in Meters \cup {Unread}
    BY <1>2, <1>4, CodesAre
  <2>. HIDE DEF n
  <2>4. /\ Len(got) = n /\ got \in Seq(Int)
        /\ \A i \in 1..n : LET m == Coded(GameCodes, AskedForGame(poll.data)[i])
                           IN  m # Unread => got[i] \in during[m]
    BY <1>1, <2>1, <2>3, <2>5, Zenon
  <2>. QED
    BY <2>2, <2>4 DEF n
<1>5. ASSUME poll.command \in Extended
      PROVE  /\ Len(got) = Len(Asked(poll.data)) /\ got \in Seq(Int)
             /\ \A i \in 1..Len(got) :
                  LET m == Coded(ExtendedCodes, Asked(poll.data)[i])
                  IN  m # Unread => got[i] \in during[m]
  <2>. DEFINE n == Len(Asked(poll.data))
  <2>1. n \in Nat
    <3>1. Asked(poll.data) \in Seq(Word)
      BY <1>3, <1>5, Needed, AskedAre
    <3>. QED
      BY <3>1, Elements
  <2>2. Accesses(poll) = [i \in 1..Len(Asked(poll.data)) |->
                            Get(Coded(ExtendedCodes, Asked(poll.data)[i]))]
    BY <1>5, AccessesAre
  <2>3. /\ Before(poll.command) = 0
        /\ \A x : Coded(ExtendedCodes, x) \in Meters \cup {Unread}
    BY <1>2, <1>5, CodesAre
  <2>4. /\ Len(got) = n /\ got \in Seq(Int)
        /\ \A i \in 1..n : LET m == Coded(ExtendedCodes, Asked(poll.data)[i])
                           IN  m # Unread => got[i] \in during[m]
    BY <1>1, <2>1, <2>2, <2>3, Zenon
  <2>. QED
    BY <2>4
<1>. QED
  BY <1>4, <1>5

\* How long every report is.  Where it begins with a length byte, that byte is
\* right, but for 0x2F with more than fifty codes and 0x56 with more than 127
\* games.
LEMMA ReportLengths ==
  ASSUME IInv, Answered
  PROVE  /\ Report(poll, got) \in Seq(Byte)
         /\ poll.command \in Singles \cup {\h17} => Bytes(Report(poll, got), 4)
         /\ poll.command = \h1B => Bytes(Report(poll, got), 7)
         /\ poll.command = \h71 =>
              Bytes(Report(poll, got), IF Granted(poll.data) THEN 11 ELSE 2)
         /\ poll.command \in {\h19, \h1F} => Bytes(Report(poll, got), 20)
         /\ poll.command = \h1C => Bytes(Report(poll, got), 32)
         /\ poll.command = \h1D => Bytes(Report(poll, got), 16)
         /\ poll.command = \h1E => Bytes(Report(poll, got), 24)
         /\ poll.command \in {\h51, \h55} => Bytes(Report(poll, got), 2)
         /\ poll.command \in {\h52, \h7C, \h7F} => Bytes(Report(poll, got), 18)
         /\ poll.command = \h7B => Bytes(Report(poll, got), 13)
         /\ poll.command = \h7D => Bytes(Report(poll, got), 1)
         /\ poll.command = \h7E => Bytes(Report(poll, got), 3)
         /\ poll.command = \hA0 => Bytes(Report(poll, got), 8)
         /\ poll.command \in {\h2F, \h53, \h54, \h56, \h74} \cup Extended =>
              /\ Len(Report(poll, got)) >= 1
              /\ \/ FirstByte(Report(poll, got)) = Len(Report(poll, got)) - 1
                 \/ poll.command = \h2F /\ Len(poll.data) > 52
                 \/ poll.command = \h56 /\ Len(Games) > 127
<1>. DEFINE c == poll.command
            d == Report(poll, got)
            Counted == /\ d \in Seq(Byte) /\ Len(d) >= 1
                       /\ \/ FirstByte(d) = Len(d) - 1
                          \/ poll.command = \h2F /\ Len(poll.data) > 52
                          \/ poll.command = \h56 /\ Len(Games) > 127
<1>1. /\ poll.data \in Seq(Byte) /\ Len(poll.data) \in Nat
      /\ c \in {\h2F, \h52, \h53, \h71, \hA0} => Len(poll.data) >= 2
      /\ c \in Extended => Len(poll.data) >= 3
  BY Needed
<1>2. /\ c \in Singles \cup {\h17} => Bytes(d, 4)
      /\ c = \h19 => Bytes(d, 20)
      /\ c = \h1C => Bytes(d, 32)
      /\ c = \h1D => Bytes(d, 16)
      /\ c = \h1E => Bytes(d, 24)
  BY MeterData
<1>3. /\ c = \h1B => Bytes(d, 7)
      /\ c \in {\h7C, \h7F} => Bytes(d, 18)
  BY DateData DEF DatePolls
<1>4. /\ c = \h1F => d = GameConfiguration
      /\ c = \h51 => d = NumberOfGames
      /\ c = \h55 => d = SelectedGame
      /\ c = \h7B => d = LastTicket
      /\ c = \h7D => d = <<1>>
      /\ c = \h7E => d = TicketInfo
      /\ c = \hA0 => d = Capabilities(poll.data)
  BY ReportsAre
<1>5. /\ c = \h52 => d = Game(poll.data) \o Fields(got)
      /\ c = \h53 => d = GameNConfiguration(poll.data)
      /\ c = \h54 => d = MachineID
      /\ c = \h56 => d = EnabledGames
      /\ c = \h2F => d = GameNReport(poll.data, got)
      /\ c \in Extended => d = ExtendedReport(poll.data, got)
      /\ c = \h71 => d = LockReport(poll.data, got)
      /\ c = \h74 => d = AftReport(got)
  BY ReportsAre
<1>6. c = \h71 => Bytes(d, IF Granted(poll.data) THEN 11 ELSE 2)
  <2>. SUFFICES ASSUME c = \h71
                PROVE  Bytes(d, IF Granted(poll.data) THEN 11 ELSE 2)
    OBVIOUS
  <2>1. Granted(poll.data) => got[1] \in Int
    <3>. SUFFICES ASSUME Granted(poll.data) PROVE got[1] \in Int
      OBVIOUS
    <3>1. Len(got) = Len(<<"credits">>) /\ got \in Seq(Int)
      BY FormatRead DEF HasRead
    <3>2. \A i \in 1..Len(got) : got[i] \in Int
      BY <3>1, Elements, Zenon
    <3>. QED
      BY <3>1, <3>2
  <2>2. d = LockReport(poll.data, got)
    BY <1>5
  <2>. HIDE DEF d
  <2>3. CASE Granted(poll.data)
    BY <2>1, <2>2, <2>3, LockData
  <2>4. CASE ~Granted(poll.data)
    BY <2>1, <2>2, <2>4, LockData
  <2>. QED
    BY <2>3, <2>4
<1>7. /\ c = \h1F => Bytes(d, 20)
      /\ c \in {\h51, \h55} => Bytes(d, 2)
      /\ c = \h7B => Bytes(d, 13)
      /\ c = \h7D => Bytes(d, 1)
      /\ c = \h7E => Bytes(d, 3)
      /\ c = \hA0 => Bytes(d, 8)
  <2>1. c \in {\h1F, \h51, \h55} => Bytes(d, IF c = \h1F THEN 20 ELSE 2)
    BY <1>4, GameData
  <2>2. c = \h7B => Bytes(d, 13)
    BY <1>4, LastTicketIs DEF Bytes
  <2>3. c = \h7D => Bytes(d, 1)
    BY <1>4, LiteralBytes, FewBytes
  <2>4. c = \h7E => Bytes(d, 3)
    BY <1>4, ShortData
  <2>5. c = \hA0 => Bytes(d, 8)
    BY <1>1, <1>4, ShortData
  <2>. QED
    BY <2>1, <2>2, <2>3, <2>4, <2>5
<1>8. c = \h52 => Bytes(d, 18)
  <2>. SUFFICES ASSUME c = \h52 PROVE Bytes(d, 18)
    OBVIOUS
  <2>1. Len(got) = Len(GameMeters) /\ got \in Seq(Int)
    BY FormatRead DEF HasRead
  <2>2. Len(got) = 4
    BY <2>1 DEF GameMeters
  <2>. QED
    BY <1>1, <1>5, <2>1, <2>2, GameMeterData
<1>9. c \in {\h53, \h54} => Counted
  <2>1. c = \h53 => Bytes(d, 23) /\ FirstByte(d) = 22
    BY <1>1, <1>5, GameData DEF FirstByte
  <2>2. c = \h54 => Bytes(d, 10) /\ FirstByte(d) = 9
    <3>1. Bytes(MachineID, 10) /\ FirstByte(MachineID) = 9
      BY GameData DEF FirstByte
    <3>. QED
      BY <1>5, <3>1
  <2>. HIDE DEF d, c
  <2>3. ASSUME NEW n \in Nat \ {0}, Bytes(d, n), FirstByte(d) = n - 1 PROVE Counted
    BY <2>3 DEF Bytes
  <2>4. CASE c = \h53
    <3>1. Bytes(d, 23) /\ FirstByte(d) = 23 - 1
      BY <2>1, <2>4
    <3>. QED
      BY <2>3, <3>1
  <2>5. CASE c = \h54
    <3>1. Bytes(d, 10) /\ FirstByte(d) = 10 - 1
      BY <2>2, <2>5
    <3>. QED
      BY <2>3, <3>1
  <2>. QED
    BY <2>4, <2>5
<1>10. c = \h56 => Counted
  <2>. SUFFICES ASSUME c = \h56 PROVE Counted
    OBVIOUS
  <2>1. PICK n \in Nat : n = Len(Games)
    BY GamesAre
  <2>2. Bytes(d, 2 * n + 2) /\ (n <= 127 => FirstByte(d) = 2 * n + 1)
    BY <1>5, <2>1, EnabledData
  <2>. HIDE DEF d
  <2>. QED
    BY <2>1, <2>2 DEF Bytes
<1>11. c = \h74 => Counted
  <2>. SUFFICES ASSUME c = \h74 PROVE Counted
    OBVIOUS
  <2>1. Len(got) = Len(<<"credits">>) /\ got \in Seq(Int)
    BY FormatRead DEF HasRead
  <2>2. got[1] \in Int
    <3>1. \A i \in 1..Len(got) : got[i] \in Int
      BY <2>1, Elements, Zenon
    <3>. QED
      BY <2>1, <3>1
  <2>3. Bytes(d, 36) /\ FirstByte(d) = 35
    BY <1>5, <2>2, AftData DEF FirstByte
  <2>. HIDE DEF d
  <2>. QED
    BY <2>3 DEF Bytes
<1>12. c = \h2F => Counted
  <2>. SUFFICES ASSUME c = \h2F PROVE Counted
    OBVIOUS
  <2>1. Len(got) = Len(poll.data) - 2 /\ got \in Seq(Int) /\ Len(poll.data) >= 2
    BY <1>1, CodedRead
  <2>2. PICK n \in Nat : Len(poll.data) = n + 2 /\ Len(got) = n
    BY <1>1, <2>1
  <2>3. Bytes(d, 5 * n + 3) /\ FirstByte(d) = (5 * n + 2) % 256
    BY <1>1, <1>5, <2>1, <2>2, GameNData
  <2>. HIDE DEF d
  <2>4. n <= 50 => (5 * n + 2) % 256 = 5 * n + 2
    OBVIOUS
  <2>. QED
    BY <2>2, <2>3, <2>4 DEF Bytes
<1>13. c \in Extended => Counted
  <2>. SUFFICES ASSUME c \in Extended PROVE Counted
    OBVIOUS
  <2>1. /\ Len(got) = Len(Asked(poll.data)) /\ got \in Seq(Int)
        /\ Len(poll.data) >= 3 /\ poll.data \in Seq(Byte)
    BY <1>1, CodedRead
  <2>2. PICK n \in Nat : n = Len(Asked(poll.data)) /\ Len(got) = n
    BY <2>1, Elements
  <2>3. PICK f : /\ f[n] \in Nat /\ Bytes(ExtendedReport(poll.data, got), f[n] + 3)
                 /\ FirstByte(ExtendedReport(poll.data, got)) = f[n] + 2
    BY <2>1, <2>2, ExtendedData
  <2>4. PICK m \in Nat : m = f[n]
    BY <2>3
  <2>5. Bytes(d, m + 3) /\ FirstByte(d) = m + 2
    BY <1>5, <2>3, <2>4
  <2>. HIDE DEF d
  <2>. QED
    BY <2>5 DEF Bytes
<1>14. d \in Seq(Byte)
  <2>1. c \in Reporting
    BY AllRead
  <2>. HIDE DEF d, c
  <2>2. \/ c \in Singles \cup {\h17, \h19, \h1C, \h1D, \h1E, \h1B, \h7C, \h7F, \h1F}
        \/ c \in {\h51, \h55, \h7B, \h7D, \h7E, \hA0, \h71, \h52}
        \/ c \in {\h2F, \h53, \h54, \h56, \h74} \cup Extended
    BY <2>1, Groups
  <2>3. CASE c \in Singles \cup {\h17, \h19, \h1C, \h1D, \h1E, \h1B, \h7C, \h7F, \h1F}
    BY <1>2, <1>3, <1>7, <2>3 DEF Bytes
  <2>4. CASE c \in {\h51, \h55, \h7B, \h7D, \h7E, \hA0, \h71, \h52}
    BY <1>6, <1>7, <1>8, <2>4 DEF Bytes
  <2>5. CASE c \in {\h2F, \h53, \h54, \h56, \h74} \cup Extended
    BY <1>9, <1>10, <1>11, <1>12, <1>13, <2>5
  <2>. QED
    BY <2>2, <2>3, <2>4, <2>5
<1>. HIDE DEF d
<1>15. c \in {\h2F, \h53, \h54, \h56, \h74} \cup Extended => Counted
  BY <1>9, <1>10, <1>11, <1>12, <1>13
<1>. QED
  BY <1>2, <1>3, <1>6, <1>7, <1>8, <1>14, <1>15 DEF d

\* The variables have their types; what is sent are bytes, whatever the values
\* of the meters.
THEOREM PollsTypeCorrect == Spec => []TypeOK
<1>1. IInv => TypeOK
  <2>. SUFFICES ASSUME IInv PROVE TypeOK
    OBVIOUS
  <2>1. frame \in Seq(Byte)
    <3>1. CASE frame = NoFrame
      BY <3>1 DEF NoFrame
    <3>2. CASE Answered
      <4>1. /\ frame = Serialize(1, ResponseCommand(poll.command), Report(poll, got))
            /\ ResponseCommand(poll.command) \in Byte /\ Report(poll, got) \in Seq(Byte)
        BY <3>2, AllRead, Groups, ReportLengths
      <4>. QED
        BY <4>1, SerializeIs
    <3>. QED
      BY <3>1, <3>2 DEF Answered
  <2>2. todo \in Seq([op : {"get", "set", "localtime", "field"},
                      meter : Meters \cup {Unread, "now", "expiry"} \cup TmFields,
                      value : Int])
    BY DEF IInv, TodoInv, Access
  <2>3. tm \in [TmFields -> Int] /\ \A m \in Meters : during[m] \subseteq Int
    BY DEF IInv, Types
  <2>4. /\ meter \in [Meters -> Int] /\ poll \in Requests \cup {NoPoll}
        /\ got \in Seq(Int) /\ struck \in BOOLEAN /\ lost \in Nat
        /\ polls \in 0..MaxPolls /\ changes \in 0..MaxChanges
    BY Zenon DEF IInv, Types
  <2>. QED
    BY <2>1, <2>2, <2>3, <2>4, Zenon DEF TypeOK
<1>. QED
  BY <1>1, PollsInvariant, PTL

\* The length of each of the fixed formats.
LEMMA FrameLengthIs ==
  ASSUME NEW c, c = Command
  PROVE  /\ c \in Singles \cup {\h17} => FrameLength = 8
         /\ c = \h1B => FrameLength = 11
         /\ c = \h71 => FrameLength = IF Granted(poll.data) THEN 15 ELSE 6
         /\ c \in {\h19, \h1F} => FrameLength = 24
         /\ c = \h1C => FrameLength = 36
         /\ c = \h1D => FrameLength = 20
         /\ c = \h1E => FrameLength = 28
         /\ c \in {\h51, \h55} => FrameLength = 6
         /\ c \in {\h52, \h7C, \h7F} => FrameLength = 22
         /\ c = \h7B => FrameLength = 17
         /\ c = \h7D => FrameLength = 5
         /\ c = \h7E => FrameLength = 7
         /\ c = \hA0 => FrameLength = 12
<1>1. c \in Singles \cup {\h17} => FrameLength = 8
  <2>. SUFFICES ASSUME c \in Singles \cup {\h17} PROVE FrameLength = 8
    OBVIOUS
  <2>1. c \in DOMAIN SingleMeter \cup {\h17}
    BY SinglesAre
  <2>2. c \notin {\h19, \h1B, \h1C, \h1D, \h1E, \h1F, \h51, \h52, \h55, \h71, \h7B, \h7C,
                  \h7D, \h7E, \h7F, \hA0}
    BY DEF Singles
  <2>. QED
    BY <2>1, <2>2 DEF FrameLength
<1>2. ASSUME c \notin Singles \cup {\h17}
      PROVE  c \notin DOMAIN SingleMeter \cup {\h17}
  BY <1>2, SinglesAre
<1>3. c = \h1B => FrameLength = 11
  BY <1>2 DEF FrameLength, Singles
<1>4. c = \h71 => FrameLength = IF Granted(poll.data) THEN 15 ELSE 6
  BY <1>2 DEF FrameLength, Singles
<1>5. c \in {\h19, \h1F} => FrameLength = 24
  BY <1>2 DEF FrameLength, Singles
<1>6. c = \h1C => FrameLength = 36
  BY <1>2 DEF FrameLength, Singles
<1>7. c = \h1D => FrameLength = 20
  BY <1>2 DEF FrameLength, Singles
<1>8. c = \h1E => FrameLength = 28
  BY <1>2 DEF FrameLength, Singles
<1>9. c \in {\h51, \h55} => FrameLength = 6
  BY <1>2 DEF FrameLength, Singles
<1>10. c \in {\h52, \h7C, \h7F} => FrameLength = 22
  BY <1>2 DEF FrameLength, Singles
<1>11. c = \h7B => FrameLength = 17
  BY <1>2 DEF FrameLength, Singles
<1>12. c = \h7D => FrameLength = 5
  BY <1>2 DEF FrameLength, Singles
<1>13. c = \h7E => FrameLength = 7
  BY <1>2 DEF FrameLength, Singles
<1>14. c = \hA0 => FrameLength = 12
  BY <1>2 DEF FrameLength, Singles
<1>. QED
  BY <1>1, <1>3, <1>4, <1>5, <1>6, <1>7, <1>8, <1>9, <1>10, <1>11, <1>12, <1>13, <1>14

\* The host finds the end of every answer, by the length of its format or by
\* its length byte, but for the two answers whose length byte may overrun.
THEOREM EndsFound == Spec => []EndFound
<1>1. IInv => EndFound
  <2>. SUFFICES ASSUME IInv, Answered
                PROVE  IF Command \in {\h2F, \h53, \h54, \h56, \h74} \cup Extended
                         THEN \/ frame[3] = Len(frame) - 5
                              \/ Command = \h2F /\ Len(poll.data) > 52
                              \/ Command = \h56 /\ Len(Games) > 127
                         ELSE Len(frame) = FrameLength
    BY DEF EndFound
  <2>. DEFINE c == poll.command
              d == Report(poll, got)
              r == ResponseCommand(poll.command)
  <2>1. /\ frame = Serialize(1, r, d) /\ r \in Byte /\ d \in Seq(Byte)
        /\ c \in Reporting /\ Command = c
    BY AllRead, Groups, ReportLengths DEF Command
  <2>2. Len(frame) = Len(d) + 4 /\ At(frame, 3, d) /\ Len(d) \in Nat
    <3>. HIDE DEF d, r
    <3>1. Len(d) \in Nat
      BY <2>1, Elements, Zenon
    <3>. QED
      BY <2>1, <3>1, SerializeIs
  <2>3. CASE c \in {\h2F, \h53, \h54, \h56, \h74} \cup Extended
    <3>1. /\ Len(d) >= 1
          /\ \/ FirstByte(d) = Len(d) - 1
             \/ c = \h2F /\ Len(poll.data) > 52
             \/ c = \h56 /\ Len(Games) > 127
      BY <2>3, ReportLengths
    <3>. HIDE DEF d, r, c
    <3>2. frame[3] = FirstByte(d)
      <4>1. \A j \in 1..Len(d) : frame[(3 + j) - 1] = d[j]
        BY <2>2 DEF At
      <4>2. 1 \in 1..Len(d) /\ (3 + 1) - 1 = 3
        BY <2>2, <3>1
      <4>. QED
        BY <4>1, <4>2 DEF FirstByte
    <3>3. Len(d) - 1 = Len(frame) - 5
      BY <2>2
    <3>. QED
      BY <2>1, <2>3, <3>1, <3>2, <3>3
  <2>4. CASE c \notin {\h2F, \h53, \h54, \h56, \h74} \cup Extended
    <3>1. Len(frame) = FrameLength
      <4>1. /\ c \in Singles \cup {\h17} => Len(d) = 4
            /\ c = \h1B => Len(d) = 7
            /\ c = \h71 => Len(d) = IF Granted(poll.data) THEN 11 ELSE 2
            /\ c \in {\h19, \h1F} => Len(d) = 20
            /\ c = \h1C => Len(d) = 32
            /\ c = \h1D => Len(d) = 16
            /\ c = \h1E => Len(d) = 24
            /\ c \in {\h51, \h55} => Len(d) = 2
            /\ c \in {\h52, \h7C, \h7F} => Len(d) = 18
            /\ c = \h7B => Len(d) = 13
            /\ c = \h7D => Len(d) = 1
            /\ c = \h7E => Len(d) = 3
            /\ c = \hA0 => Len(d) = 8
        BY ReportLengths DEF Bytes
      <4>. HIDE DEF d, r, c
      <4>2. \/ c \in Singles \cup {\h17}
            \/ c \in {\h1B, \h71, \h19, \h1F, \h1C, \h1D, \h1E, \h51, \h55}
            \/ c \in {\h52, \h7C, \h7F, \h7B, \h7D, \h7E, \hA0}
        BY <2>1, <2>4, Groups
      <4>3. c = Command
        BY <2>1
      <4>4. /\ c \in Singles \cup {\h17} => FrameLength = 8
            /\ c = \h1B => FrameLength = 11
            /\ c = \h71 => FrameLength = IF Granted(poll.data) THEN 15 ELSE 6
            /\ c \in {\h19, \h1F} => FrameLength = 24
            /\ c = \h1C => FrameLength = 36
            /\ c = \h1D => FrameLength = 20
            /\ c = \h1E => FrameLength = 28
            /\ c \in {\h51, \h55} => FrameLength = 6
            /\ c \in {\h52, \h7C, \h7F} => FrameLength = 22
            /\ c = \h7B => FrameLength = 17
            /\ c = \h7D => FrameLength = 5
            /\ c = \h7E => FrameLength = 7
            /\ c = \hA0 => FrameLength = 12
        BY <4>3, FrameLengthIs, Zenon
      <4>5. PICK x \in Nat, y \in Nat : x = Len(d) /\ y = Len(frame) /\ y = x + 4
        BY <2>2
      <4>6. y = x + 4
        BY <4>5
      <4>7. /\ x = 1 => y = 5
            /\ x = 2 => y = 6
            /\ x = 3 => y = 7
            /\ x = 4 => y = 8
            /\ x = 7 => y = 11
            /\ x = 8 => y = 12
            /\ x = 11 => y = 15
            /\ x = 13 => y = 17
            /\ x = 16 => y = 20
            /\ x = 18 => y = 22
            /\ x = 20 => y = 24
            /\ x = 24 => y = 28
            /\ x = 32 => y = 36
        BY <4>6
      <4>8. /\ c \in Singles \cup {\h17} => x = 4
            /\ c = \h1B => x = 7
            /\ c = \h71 => x = IF Granted(poll.data) THEN 11 ELSE 2
            /\ c \in {\h19, \h1F} => x = 20
            /\ c = \h1C => x = 32
            /\ c = \h1D => x = 16
            /\ c = \h1E => x = 24
            /\ c \in {\h51, \h55} => x = 2
            /\ c \in {\h52, \h7C, \h7F} => x = 18
            /\ c = \h7B => x = 13
            /\ c = \h7D => x = 1
            /\ c = \h7E => x = 3
            /\ c = \hA0 => x = 8
        <5>1. /\ c \in Singles \cup {\h17} => x = 4
              /\ c = \h1B => x = 7
          BY <4>1, <4>5
        <5>2. /\ c = \h71 => x = IF Granted(poll.data) THEN 11 ELSE 2
          BY <4>1, <4>5
        <5>3. /\ c \in {\h19, \h1F} => x = 20
              /\ c = \h1C => x = 32
              /\ c = \h1D => x = 16
              /\ c = \h1E => x = 24
          BY <4>1, <4>5
        <5>4. /\ c \in {\h51, \h55} => x = 2
              /\ c \in {\h52, \h7C, \h7F} => x = 18
              /\ c = \h7B => x = 13
          BY <4>1, <4>5
        <5>5. /\ c = \h7D => x = 1
              /\ c = \h7E => x = 3
              /\ c = \hA0 => x = 8
          BY <4>1, <4>5
        <5>. QED
          BY <5>1, <5>2, <5>3, <5>4, <5>5
      <4>9. /\ c \in Singles \cup {\h17} => y = 8
            /\ c = \h1B => y = 11
            /\ c = \h71 => y = IF Granted(poll.data) THEN 15 ELSE 6
            /\ c \in {\h19, \h1F} => y = 24
            /\ c = \h1C => y = 36
            /\ c = \h1D => y = 20
            /\ c = \h1E => y = 28
            /\ c \in {\h51, \h55} => y = 6
            /\ c \in {\h52, \h7C, \h7F} => y = 22
            /\ c = \h7B => y = 17
            /\ c = \h7D => y = 5
            /\ c = \h7E => y = 7
            /\ c = \hA0 => y = 12
        BY <4>7, <4>8
      <4>10. y = FrameLength
        BY <4>2, <4>4, <4>9
      <4>. QED
        BY <4>5, <4>10
    <3>. QED
      BY <2>1, <2>4, <3>1
  <2>. QED
    BY <2>3, <2>4
<1>. QED
  BY <1>1, PollsInvariant, PTL

-----------------------------------------------------------------------------
(* Fields                                                                  *)

\* The host reads in a field what the property asks for.
Fit(value, size) ==
  value >= 0 /\ (value \div 10000) \div 10000 < (IF size = 4 THEN 1 ELSE 100)
FieldTold(field) ==
  \E value \in during[field[2]] :
    Decode(SubSeq(frame, field[1], field[1] + field[3] - 1))
      = IF Fit(value, field[3]) THEN value ELSE 0

\* It does where the data has a number that was read from the meter.
LEMMA ToldIs ==
  ASSUME IInv, Answered, NEW q \in Nat \ {0}, NEW n \in {4, 5}, NEW m \in Meters, NEW v \in Int,
         v \in during[m], At(Report(poll, got), q, Encode(v, n))
  PROVE  FieldTold(<<q + 2, m, n>>)
<1>. DEFINE d == Report(poll, got)
            r == ResponseCommand(poll.command)
            p == q + 2
            told == Decode(SubSeq(frame, p, (p + n) - 1))
<1>1. frame = Serialize(1, r, d) /\ r \in Byte /\ d \in Seq(Byte)
  BY AllRead, Groups, ReportLengths
<1>2. n \in Nat \ {0}
  OBVIOUS
<1>3. told = IF Fits(v, n) THEN v ELSE 0
  <2>1. At(d, q, Encode(v, n))
    OBVIOUS
  <2>. HIDE DEF d, r
  <2>2. Decode(SubSeq(Serialize(1, r, d), q + 2, ((q + 2) + n) - 1))
          = IF Fits(v, n) THEN v ELSE 0
    BY <1>1, <1>2, <2>1, HostDecodes
  <2>. QED
    BY <1>1, <2>2
<1>4. Fits(v, n) <=> Fit(v, n)
  <2>1. CASE n = 4
    BY <2>1, FitsAre DEF Fit
  <2>2. CASE n = 5
    BY <2>2, FitsAre DEF Fit
  <2>. QED
    BY <2>1, <2>2
<1>5. told = IF Fit(v, n) THEN v ELSE 0
  BY <1>3, <1>4, Zenon
<1>. HIDE DEF told
<1>. DEFINE field == <<p, m, n>>
<1>6. field[1] = p /\ field[2] = m /\ field[3] = n
  OBVIOUS
<1>7. told = Decode(SubSeq(frame, p, p + n - 1))
  BY DEF told
<1>. HIDE DEF field, p
<1>8. FieldTold(field)
  BY <1>5, <1>6, <1>7, Zenon DEF FieldTold
<1>. QED
  BY <1>8 DEF field, p

\* A row of numbers of four bytes, behind the first o bytes of the data.
LEMMA RowTold ==
  ASSUME IInv, Answered, NEW o \in Nat, NEW ms, got \in Seq(Int), Len(got) = Len(ms),
         \A i \in 1..Len(ms) : ms[i] \in Meters /\ got[i] \in during[ms[i]],
         \A i \in 1..Len(ms) :
           At(Report(poll, got), (4 * (i - 1) + 1) + o, Encode(got[i], 4))
  PROVE  \A field \in InARow(o + 3, ms) : FieldTold(field)
<1>1. Len(ms) \in Nat /\ \A i \in 1..Len(ms) : got[i] \in Int
  BY Elements
<1>2. ASSUME NEW i \in 1..Len(ms)
      PROVE  FieldTold(<<(o + 3) + 4 * (i - 1), ms[i], 4>>)
  <2>1. PICK q \in Nat \ {0} : q = (4 * (i - 1) + 1) + o
    <3>1. (4 * (i - 1) + 1) + o \in Nat \ {0}
      BY <1>1
    <3>. QED
      BY <3>1
  <2>2. ms[i] \in Meters /\ got[i] \in Int /\ got[i] \in during[ms[i]]
    BY <1>1
  <2>3. At(Report(poll, got), q, Encode(got[i], 4)) /\ 4 \in {4, 5}
    BY <2>1
  <2>4. FieldTold(<<q + 2, ms[i], 4>>)
    BY <2>2, <2>3, ToldIs, Zenon
  <2>5. q + 2 = (o + 3) + 4 * (i - 1)
    BY <1>1, <2>1
  <2>. QED
    BY <2>4, <2>5, Zenon
<1>. QED
  BY <1>2, Zenon DEF InARow

\* The meters at the beginning of the data.
LEMMA FirstTold ==
  ASSUME IInv, Answered, NEW ms, got \in Seq(Int), Len(got) = Len(ms),
         \A i \in 1..Len(ms) : ms[i] \in Meters /\ got[i] \in during[ms[i]],
         At(Report(poll, got), 1, Fields(got))
  PROVE  \A field \in InARow(3, ms) : FieldTold(field)
<1>. DEFINE d == Report(poll, got)
<1>1. Len(ms) \in Nat /\ d \in Seq(Byte) /\ \A i \in 1..Len(ms) : got[i] \in Int
  <2>1. Len(ms) \in Nat /\ \A i \in 1..Len(ms) : got[i] \in Int
    BY Elements
  <2>. QED
    BY <2>1, ReportLengths
<1>2. /\ Fields(got) \in Seq(Byte)
      /\ \A i \in 1..Len(got) : At(Fields(got), 4 * (i - 1) + 1, Encode(got[i], 4))
  BY FieldsIs, Zenon
<1>3. At(d, 1, Fields(got))
  OBVIOUS
<1>. HIDE DEF d
<1>4. ASSUME NEW i \in 1..Len(ms)
      PROVE  At(d, (4 * (i - 1) + 1) + 0, Encode(got[i], 4))
  <2>1. PICK q \in Nat : q = 4 * (i - 1) + 1
    BY <1>1
  <2>2. At(Fields(got), q, Encode(got[i], 4)) /\ Encode(got[i], 4) \in Seq(Byte)
    <3>1. Encode(got[i], 4) \in Seq(Byte)
      BY <1>1, NumberIs DEF Bytes
    <3>2. At(Fields(got), 4 * (i - 1) + 1, Encode(got[i], 4))
      BY <1>2
    <3>. QED
      BY <2>1, <3>1, <3>2
  <2>3. At(d, (1 + q) - 1, Encode(got[i], 4))
    BY <1>1, <1>2, <1>3, <2>2, AtInner
  <2>4. (1 + q) - 1 = (4 * (i - 1) + 1) + 0
    BY <1>1, <2>1
  <2>. QED
    BY <2>3, <2>4
<1>5. \A field \in InARow(0 + 3, ms) : FieldTold(field)
  BY <1>4, RowTold DEF d
<1>6. 0 + 3 = 3
  OBVIOUS
<1>. QED
  BY <1>5, <1>6, Zenon

\* Where the comments of the handlers have the fields.
LEMMA FixedFieldsAre ==
  ASSUME NEW c, c = Command
  PROVE  /\ c \in Singles => FixedFields = InARow(3, <<SingleMeter[c]>>)
         /\ c = \h19 => FixedFields = InARow(3, CoinInAndMeters)
         /\ c = \h1C => FixedFields = InARow(3, MachineMeters)
         /\ c = \h1D => FixedFields = InARow(3, AftMeters)
         /\ c = \h1E => FixedFields = InARow(3, BillMeters)
         /\ c = \h52 => FixedFields = InARow(5, GameMeters)
         /\ c = \h71 /\ Granted(poll.data) => FixedFields = {<<9, "credits", 5>>}
         /\ c = \h74 => FixedFields = {<<13, "credits", 5>>}
         /\ \/ c \in Singles \cup {\h19, \h1C, \h1D, \h1E, \h52, \h74}
            \/ c = \h71 /\ Granted(poll.data)
            \/ FixedFields = {}
<1>1. c \in Singles => FixedFields = InARow(3, <<SingleMeter[c]>>)
  <2>. SUFFICES ASSUME c \in Singles PROVE FixedFields = InARow(3, <<SingleMeter[c]>>)
    OBVIOUS
  <2>1. Command \in DOMAIN SingleMeter
    BY SinglesAre
  <2>2. Command \notin {\h19, \h1C, \h1D, \h1E, \h52, \h71, \h74}
    BY DEF Singles
  <2>. HIDE DEF InARow
  <2>. QED
    BY <2>1, <2>2 DEF FixedFields
<1>2. ASSUME c \notin Singles PROVE Command \notin DOMAIN SingleMeter
  BY <1>2, SinglesAre
<1>3. \A x \in {\h19, \h1C, \h1D, \h1E, \h52, \h71, \h74} : x \notin Singles
  BY DEF Singles
<1>4. c = \h19 => FixedFields = InARow(3, CoinInAndMeters)
  BY <1>2, <1>3 DEF FixedFields, CoinInAndMeters
<1>5. c = \h1C => FixedFields = InARow(3, MachineMeters)
  BY <1>2, <1>3 DEF FixedFields, MachineMeters
<1>6. c = \h1D => FixedFields = InARow(3, AftMeters)
  BY <1>2, <1>3 DEF FixedFields, AftMeters
<1>7. c = \h1E => FixedFields = InARow(3, BillMeters)
  BY <1>2, <1>3 DEF FixedFields, BillMeters
<1>8. c = \h52 => FixedFields = InARow(5, GameMeters)
  BY <1>2, <1>3 DEF FixedFields, GameMeters
<1>9. c = \h71 /\ Granted(poll.data) => FixedFields = {<<9, "credits", 5>>}
  BY <1>2, <1>3 DEF FixedFields
<1>10. c = \h74 => FixedFields = {<<13, "credits", 5>>}
  BY <1>2, <1>3 DEF FixedFields
<1>11. \/ c \in Singles \cup {\h19, \h1C, \h1D, \h1E, \h52, \h74}
       \/ c = \h71 /\ Granted(poll.data)
       \/ FixedFields = {}
  BY <1>2 DEF FixedFields
<1>. QED
  BY <1>1, <1>4, <1>5, <1>6, <1>7, <1>8, <1>9, <1>10, <1>11

\* Every field of a fixed format is one of its meter.
LEMMA FixedTold ==
  ASSUME IInv, Answered, NEW field \in FixedFields
  PROVE  FieldTold(field)
<1>. DEFINE c == poll.command
<1>1. c = Command
  BY DEF Command
<1>2. got \in Seq(Int) /\ Fields(got) \in Seq(Byte)
  BY AllRead, FieldsIs
<1>3. ASSUME NEW ms, HasRead(ms), \A i \in 1..Len(ms) : ms[i] \in Meters,
             At(Report(poll, got), 1, Fields(got)), FixedFields = InARow(3, ms)
      PROVE  FieldTold(field)
  <2>1. \A f \in InARow(3, ms) : FieldTold(f)
    BY <1>3, FirstTold DEF HasRead
  <2>. QED
    BY <1>3, <2>1
<1>4. CASE c \in Singles
  <2>1. HasRead(<<SingleMeter[c]>>) /\ SingleMeter[c] \in Meters
    BY <1>4, FormatRead, SinglesAre
  <2>2. At(Report(poll, got), 1, Fields(got))
    <3>1. Report(poll, got) = Fields(got)
      BY <1>4, ReportsAre
    <3>. QED
      BY <1>2, <3>1, AtItself
  <2>3. FixedFields = InARow(3, <<SingleMeter[c]>>)
    BY <1>1, <1>4, FixedFieldsAre
  <2>4. \A i \in 1..Len(<<SingleMeter[c]>>) : <<SingleMeter[c]>>[i] \in Meters
    BY <2>1
  <2>. QED
    BY <1>3, <2>1, <2>2, <2>3, <2>4, Zenon
<1>5. CASE c \in {\h19, \h1D, \h1E}
  <2>1. At(Report(poll, got), 1, Fields(got))
    <3>1. Report(poll, got) = Fields(got)
      BY <1>5, ReportsAre
    <3>. QED
      BY <1>2, <3>1, AtItself
  <2>2. /\ c = \h19 => HasRead(CoinInAndMeters) /\ FixedFields = InARow(3, CoinInAndMeters)
        /\ c = \h1D => HasRead(AftMeters) /\ FixedFields = InARow(3, AftMeters)
        /\ c = \h1E => HasRead(BillMeters) /\ FixedFields = InARow(3, BillMeters)
    <3>1. /\ c = \h19 => FixedFields = InARow(3, CoinInAndMeters)
          /\ c = \h1D => FixedFields = InARow(3, AftMeters)
          /\ c = \h1E => FixedFields = InARow(3, BillMeters)
      BY <1>1, FixedFieldsAre
    <3>2. c = \h19 => HasRead(CoinInAndMeters)
      BY FormatRead
    <3>3. c = \h1D => HasRead(AftMeters)
      BY FormatRead
    <3>4. c = \h1E => HasRead(BillMeters)
      BY FormatRead
    <3>. QED
      BY <3>1, <3>2, <3>3, <3>4
  <2>3. /\ \A i \in 1..Len(CoinInAndMeters) : CoinInAndMeters[i] \in Meters
        /\ \A i \in 1..Len(AftMeters) : AftMeters[i] \in Meters
        /\ \A i \in 1..Len(BillMeters) : BillMeters[i] \in Meters
    BY DEF CoinInAndMeters, AftMeters, BillMeters, Meters, Bills
  <2>. QED
    BY <1>3, <1>5, <2>1, <2>2, <2>3
<1>6. CASE c = \h1C
  <2>1. At(Report(poll, got), 1, Fields(got))
    <3>1. Report(poll, got) = Fields(got) \o Encode(0, 4)
      BY <1>6, ReportsAre
    <3>2. Encode(0, 4) \in Seq(Byte)
      BY NumberIs DEF Bytes
    <3>. QED
      BY <1>2, <3>1, <3>2, AtEnds
  <2>2. HasRead(MachineMeters) /\ FixedFields = InARow(3, MachineMeters)
    BY <1>1, <1>6, FormatRead, FixedFieldsAre
  <2>3. \A i \in 1..Len(MachineMeters) : MachineMeters[i] \in Meters
    BY DEF MachineMeters, Meters, Bills
  <2>. QED
    BY <1>3, <2>1, <2>2, <2>3
<1>7. CASE c = \h52
  <2>1. HasRead(GameMeters) /\ FixedFields = InARow(5, GameMeters)
    <3>1. FixedFields = InARow(5, GameMeters)
      BY <1>1, <1>7, FixedFieldsAre
    <3>2. HasRead(GameMeters)
      BY <1>7, FormatRead
    <3>. QED
      BY <3>1, <3>2
  <2>2. Len(GameMeters) = 4 /\ \A i \in 1..4 : GameMeters[i] \in Meters
    BY DEF GameMeters, Meters, Bills
  <2>3. Len(got) = 4
    BY <2>1, <2>2 DEF HasRead
  <2>4. Len(poll.data) >= 2 /\ poll.data \in Seq(Byte)
    BY <1>7, Needed
  <2>5. Report(poll, got) = Game(poll.data) \o Fields(got)
    BY <1>7, ReportsAre
  <2>6. \A i \in 1..4 : At(Report(poll, got), 4 * (i - 1) + 3, Encode(got[i], 4))
    BY <1>2, <2>3, <2>4, <2>5, GameMeterData
  <2>7. ASSUME NEW i \in 1..4
        PROVE  At(Report(poll, got), (4 * (i - 1) + 1) + 2, Encode(got[i], 4))
    <3>1. (4 * (i - 1) + 1) + 2 = 4 * (i - 1) + 3
      OBVIOUS
    <3>. QED
      BY <2>6, <3>1
  <2>8. \A i \in 1..Len(GameMeters) : GameMeters[i] \in Meters /\ got[i] \in during[GameMeters[i]]
    BY <2>1, <2>2 DEF HasRead
  <2>9. \A f \in InARow(2 + 3, GameMeters) : FieldTold(f)
    BY <1>2, <2>2, <2>3, <2>7, <2>8, RowTold
  <2>10. 2 + 3 = 5
    OBVIOUS
  <2>. QED
    BY <2>1, <2>9, <2>10, Zenon
<1>8. CASE c = \h74 \/ (c = \h71 /\ Granted(poll.data))
  <2>1. HasRead(<<"credits">>)
    <3>1. c = \h74 => HasRead(<<"credits">>)
      BY FormatRead
    <3>2. c = \h71 /\ Granted(poll.data) => HasRead(<<"credits">>)
      BY FormatRead
    <3>. QED
      BY <1>8, <3>1, <3>2
  <2>2. got[1] \in Int /\ got[1] \in during["credits"] /\ "credits" \in Meters
    <3>1. \A i \in 1..Len(got) : got[i] \in Int
      BY <1>2, Elements, Zenon
    <3>2. got[1] \in during[<<"credits">>[1]] /\ got[1] \in Int
      BY <2>1, <3>1 DEF HasRead
    <3>. QED
      BY <3>2, ListsAre
  <2>3. CASE c = \h74
    <3>1. Report(poll, got) = AftReport(got) /\ FixedFields = {<<13, "credits", 5>>}
      <4>1. Report(poll, got) = AftReport(got)
        BY <2>3, ReportsAre
      <4>2. FixedFields = {<<13, "credits", 5>>}
        BY <1>1, <2>3, FixedFieldsAre
      <4>. QED
        BY <4>1, <4>2
    <3>2. At(Report(poll, got), 11, Encode(got[1], 5))
      BY <2>2, <3>1, AftData
    <3>3. FieldTold(<<11 + 2, "credits", 5>>)
      <4>1. 11 \in Nat \ {0} /\ 5 \in {4, 5}
        OBVIOUS
      <4>. QED
        BY <2>2, <3>2, <4>1, ToldIs
    <3>. QED
      BY <3>1, <3>3
  <2>4. CASE c = \h71 /\ Granted(poll.data)
    <3>1. Report(poll, got) = LockReport(poll.data, got) /\ FixedFields = {<<9, "credits", 5>>}
      <4>1. Report(poll, got) = LockReport(poll.data, got)
        BY <2>4, ReportsAre
      <4>2. FixedFields = {<<9, "credits", 5>>}
        BY <1>1, <2>4, FixedFieldsAre
      <4>. QED
        BY <4>1, <4>2
    <3>2. At(Report(poll, got), 7, Encode(got[1], 5))
      BY <2>2, <2>4, <3>1, LockData
    <3>3. FieldTold(<<7 + 2, "credits", 5>>)
      <4>1. 7 \in Nat \ {0} /\ 5 \in {4, 5}
        OBVIOUS
      <4>. QED
        BY <2>2, <3>2, <4>1, ToldIs
    <3>. QED
      BY <3>1, <3>3
  <2>. QED
    BY <1>8, <2>3, <2>4
<1>. QED
  BY <1>1, <1>4, <1>5, <1>6, <1>7, <1>8, FixedFieldsAre

\* A byte of the data is the byte of the frame two places further on.
LEMMA FrameByte ==
  ASSUME IInv, Answered, NEW e \in Seq(Byte), NEW q \in Nat \ {0}, At(Report(poll, got), q, e),
         NEW j \in 1..Len(e)
  PROVE  frame[(q + 2) + (j - 1)] = e[j]
<1>. DEFINE d == Report(poll, got)
            r == ResponseCommand(poll.command)
<1>1. frame = Serialize(1, r, d) /\ r \in Byte /\ d \in Seq(Byte) /\ At(d, q, e)
  BY AllRead, Groups, ReportLengths
<1>. HIDE DEF d, r
<1>2. At(frame, q + 2, e)
  BY <1>1, InFrame
<1>3. frame[((q + 2) + j) - 1] = e[j]
  BY <1>2 DEF At
<1>4. ((q + 2) + j) - 1 = (q + 2) + (j - 1)
  BY Elements
<1>. QED
  BY <1>3, <1>4

\* Four more bytes are in the frame.
LEMMA FrameIsLonger ==
  ASSUME IInv, Answered, NEW n \in Nat, Bytes(Report(poll, got), n)
  PROVE  Len(frame) = n + 4
<1>1. frame = Serialize(1, ResponseCommand(poll.command), Report(poll, got))
  BY AllRead
<1>2. ResponseCommand(poll.command) \in Byte
  BY AllRead, Groups
<1>. QED
  BY <1>1, <1>2, SerializeIs DEF Bytes

\* What the host finds behind a code of 0x2F is what it stands for.
LEMMA GameCodeTold ==
  ASSUME IInv, Answered, poll.command = \h2F, NEW p \in 6..(Len(frame) - 6),
         (p - 6) % 5 = 0, frame[p] \in DOMAIN TableC7(\h2F)
  PROVE  FieldTold(<<p + 1, TableC7(\h2F)[frame[p]], 4>>)
<1>1. PICK n \in Nat : Len(poll.data) = n + 2
  <2>1. Len(poll.data) \in Nat /\ Len(poll.data) >= 2
    BY Needed
  <2>2. Len(poll.data) - 2 \in Nat /\ Len(poll.data) = (Len(poll.data) - 2) + 2
    BY <2>1
  <2>. QED
    BY <2>2
<1>2. poll.data \in Seq(Byte) /\ got \in Seq(Int) /\ Len(got) = n
  <2>1. Len(got) = Len(poll.data) - 2
    BY CodedRead
  <2>2. Len(got) = n
    BY <1>1, <2>1
  <2>. QED
    BY <2>2, AllRead
<1>3. /\ Bytes(Report(poll, got), 5 * n + 3)
      /\ \A i \in 1..n : /\ poll.data[i + 2] \in Byte /\ got[i] \in Int
                         /\ At(Report(poll, got), 5 * (i - 1) + 4,
                               <<poll.data[i + 2]>> \o Encode(got[i], 4))
  <2>1. Report(poll, got) = GameNReport(poll.data, got)
    BY ReportsAre
  <2>. QED
    BY <1>1, <1>2, <2>1, GameNData
<1>4. Len(frame) = 5 * n + 7
  <2>1. PICK k \in Nat : k = 5 * n + 3
    OBVIOUS
  <2>2. Len(frame) = k + 4
    BY <1>3, <2>1, FrameIsLonger
  <2>. QED
    BY <2>1, <2>2
<1>5. PICK i \in 1..n : p = 5 * (i - 1) + 6
  <2>1. p \in Int /\ p >= 6 /\ p <= 5 * n + 1 /\ (p - 6) % 5 = 0
    BY <1>4
  <2>2. PICK k \in Int : k = (p - 6) \div 5
    BY <2>1
  <2>3. p - 6 = 5 * k
    BY <2>1, <2>2
  <2>4. k >= 0 /\ k <= n - 1
    BY <2>1, <2>3
  <2>5. k + 1 \in 1..n /\ p = 5 * ((k + 1) - 1) + 6
    BY <2>1, <2>3, <2>4
  <2>. QED
    BY <2>5
<1>6. PICK q \in Nat \ {0} : q = 5 * (i - 1) + 4
  OBVIOUS
<1>7. PICK code \in Byte, v \in Int : code = poll.data[i + 2] /\ v = got[i]
  BY <1>3
<1>. DEFINE z == Encode(v, 4)
            e == <<code>> \o z
<1>8. At(Report(poll, got), q, e)
  BY <1>3, <1>6, <1>7
<1>9. Bytes(<<code>>, 1) /\ Bytes(z, 4)
  BY <1>7, FewBytes, NumberIs
<1>10. Bytes(e, 1 + 4) /\ At(e, 1 + 1, z)
  <2>. HIDE DEF z
  <2>. QED
    BY <1>9, IsPut
<1>11. e[1] = code
  BY <1>9 DEF Bytes
<1>. HIDE DEF e
<1>12. e \in Seq(Byte) /\ z \in Seq(Byte) /\ 1 \in 1..Len(e)
  BY <1>9, <1>10 DEF Bytes
<1>13. frame[p] = code
  <2>1. frame[(q + 2) + (1 - 1)] = e[1]
    BY <1>8, <1>12, FrameByte
  <2>2. (q + 2) + (1 - 1) = p
    BY <1>5, <1>6
  <2>. QED
    BY <1>11, <2>1, <2>2
<1>. HIDE DEF z
<1>14. At(Report(poll, got), q + 1, z)
  <2>1. Report(poll, got) \in Seq(Byte) /\ At(e, 2, z)
    <3>1. 1 + 1 = 2
      OBVIOUS
    <3>. QED
      BY <1>10, <3>1, ReportLengths
  <2>2. At(Report(poll, got), (q + 2) - 1, z)
    BY <1>8, <1>12, <2>1, AtInner
  <2>3. (q + 2) - 1 = q + 1
    BY <1>6
  <2>. QED
    BY <2>2, <2>3
<1>15. PICK m : m = TableC7(\h2F)[code]
  OBVIOUS
<1>16. m \in Meters /\ v \in during[m]
  <2>1. Coded(GameCodes, code) = m /\ m # Unread /\ m \in Meters \cup {Unread}
    BY <1>13, <1>15, CodesAre
  <2>2. m # Unread => got[i] \in during[m]
    BY <1>2, <1>7, <2>1, CodedRead
  <2>. QED
    BY <1>7, <2>1, <2>2
<1>17. q + 1 \in Nat \ {0} /\ 4 \in {4, 5}
  BY <1>6
<1>18. FieldTold(<<(q + 1) + 2, m, 4>>)
  BY <1>14, <1>16, <1>17, ToldIs DEF z
<1>19. (q + 1) + 2 = p + 1
  BY <1>5, <1>6
<1>. QED
  BY <1>13, <1>15, <1>18, <1>19, Zenon

\* A field of 0x6F and 0xAF behind o bytes of others: in the frame, where the
\* host looks, and its number in the data.
ItemIn(o, code, v) ==
  /\ o \in Nat /\ code \in Word /\ v \in Int /\ o + 8 <= Len(frame)
  /\ frame[o + 6] = code % 256 /\ frame[o + 7] = code \div 256
  /\ frame[o + 8] = SizeOf(code)
  /\ At(Report(poll, got), o + 7, Encode(v, SizeOf(code)))

\* It is there if the data has it.
LEMMA ItemIsIn ==
  ASSUME IInv, Answered, NEW o \in Nat, NEW code \in Word, NEW v \in Int,
         At(Report(poll, got), o + 4, Item(code, v))
  PROVE  ItemIn(o, code, v)
<1>. DEFINE e == Item(code, v)
            z == Encode(v, SizeOf(code))
<1>1. /\ Bytes(e, 3 + SizeOf(code)) /\ SizeOf(code) \in {4, 5}
      /\ e[1] = code % 256 /\ e[2] = code \div 256 /\ e[3] = SizeOf(code)
      /\ At(e, 4, z)
  BY ItemIs
<1>2. z \in Seq(Byte)
  <2>1. SizeOf(code) \in Nat
    BY <1>1
  <2>. QED
    BY <2>1, EncodeBytes
<1>3. At(Report(poll, got), o + 4, e)
  OBVIOUS
<1>. HIDE DEF e, z
<1>4. e \in Seq(Byte) /\ Len(e) >= 7 /\ Len(e) \in Nat
  BY <1>1 DEF Bytes
<1>5. PICK q \in Nat \ {0} : q = o + 4
  <2>1. o + 4 \in Nat \ {0}
    OBVIOUS
  <2>. QED
    BY <2>1
<1>6. At(Report(poll, got), q, e)
  BY <1>3, <1>5
<1>7. /\ frame[(q + 2) + (1 - 1)] = e[1]
      /\ frame[(q + 2) + (2 - 1)] = e[2]
      /\ frame[(q + 2) + (3 - 1)] = e[3]
  <2>1. 1 \in 1..Len(e) /\ 2 \in 1..Len(e) /\ 3 \in 1..Len(e)
    BY <1>4
  <2>. QED
    BY <1>4, <1>6, <2>1, FrameByte
<1>8. /\ (q + 2) + (1 - 1) = o + 6
      /\ (q + 2) + (2 - 1) = o + 7
      /\ (q + 2) + (3 - 1) = o + 8
  BY <1>5
<1>9. PICK n \in Nat : Bytes(Report(poll, got), n)
  <2>1. Report(poll, got) \in Seq(Byte)
    BY ReportLengths
  <2>2. Len(Report(poll, got)) \in Nat
    BY <2>1, Elements, Zenon
  <2>. QED
    BY <2>1, <2>2 DEF Bytes
<1>10. Len(frame) = n + 4
  BY <1>9, FrameIsLonger
<1>11. q + Len(e) <= n + 1
  BY <1>6, <1>9 DEF At, Bytes
<1>12. o + 8 <= Len(frame)
  BY <1>4, <1>5, <1>10, <1>11
<1>13. At(Report(poll, got), o + 7, z)
  <2>1. Report(poll, got) \in Seq(Byte)
    BY <1>9 DEF Bytes
  <2>2. At(Report(poll, got), (q + 4) - 1, z)
    BY <1>1, <1>2, <1>4, <1>6, <2>1, AtInner
  <2>3. (q + 4) - 1 = o + 7
    BY <1>5
  <2>. QED
    BY <2>2, <2>3
<1>. QED
  BY <1>1, <1>7, <1>8, <1>12, <1>13 DEF ItemIn, z

\* All of them: f[i] is the number of bytes of the first i of n.
ItemsIn(f, n) ==
  /\ n \in 0..12 /\ n = Len(Asked(poll.data)) /\ Widths(f, Asked(poll.data), n)
  /\ Len(frame) = f[n] + 7
  /\ \A i \in 1..n : ItemIn(f[i - 1], Asked(poll.data)[i], got[i])

\* They are there.
LEMMA ItemsAreIn ==
  ASSUME IInv, Answered, poll.command \in Extended
  PROVE  \E f, n : ItemsIn(f, n)
<1>1. poll.data \in Seq(Byte) /\ Len(poll.data) >= 3
  BY Needed
<1>2. Asked(poll.data) \in Seq(Word) /\ Len(Asked(poll.data)) <= 12
  BY <1>1, AskedAre
<1>3. PICK n \in Nat : n = Len(Asked(poll.data)) /\ n \in 0..12
  <2>1. Len(Asked(poll.data)) \in Nat
    BY <1>2, Elements, Zenon
  <2>. QED
    BY <1>2, <2>1
<1>4. got \in Seq(Int) /\ Len(got) = n
  BY <1>3, CodedRead
<1>5. Report(poll, got) = ExtendedReport(poll.data, got)
  BY ReportsAre
<1>6. PICK f :
        /\ Widths(f, Asked(poll.data), n) /\ f[n] \in Nat /\ f[n] <= 96
        /\ Bytes(ExtendedReport(poll.data, got), f[n] + 3)
        /\ FirstByte(ExtendedReport(poll.data, got)) = f[n] + 2
        /\ \A i \in 1..n : /\ Asked(poll.data)[i] \in Word /\ got[i] \in Int
                           /\ f[i - 1] \in Nat
                           /\ At(ExtendedReport(poll.data, got), f[i - 1] + 4,
                                 Item(Asked(poll.data)[i], got[i]))
  BY <1>1, <1>3, <1>4, ExtendedData
<1>7. Len(frame) = f[n] + 7
  <2>1. PICK k \in Nat : k = f[n] + 3
    BY <1>6
  <2>2. Len(frame) = k + 4
    BY <1>5, <1>6, <2>1, FrameIsLonger
  <2>. QED
    BY <1>6, <2>1, <2>2
<1>8. ASSUME NEW i \in 1..n PROVE ItemIn(f[i - 1], Asked(poll.data)[i], got[i])
  <2>1. PICK o \in Nat, code \in Word, v \in Int :
          o = f[i - 1] /\ code = Asked(poll.data)[i] /\ v = got[i]
    BY <1>6
  <2>2. At(Report(poll, got), o + 4, Item(code, v))
    BY <1>5, <1>6, <2>1
  <2>3. ItemIn(o, code, v)
    BY <2>2, ItemIsIn
  <2>. QED
    BY <2>1, <2>3
<1>9. ItemsIn(f, n)
  BY <1>3, <1>6, <1>7, <1>8 DEF ItemsIn
<1>. QED
  BY <1>9

\* The host, going by the size bytes, finds these fields and no other.
LEMMA ItemsFound ==
  ASSUME IInv, Answered, NEW f, NEW n, ItemsIn(f, n), NEW p \in ItemAt
  PROVE  \E i \in 1..n : p = f[i - 1] + 6
<1>. DEFINE G(g) == g = [k \in 1..13 |->
                          IF k = 1 THEN 6
                          ELSE IF g[k - 1] + 2 > Len(frame) THEN g[k - 1]
                          ELSE g[k - 1] + 3 + frame[g[k - 1] + 2]]
            at == CHOOSE g : G(g)
            s == [k \in 1..13 |-> IF k - 1 <= n THEN f[k - 1] + 6 ELSE f[n] + 6]
<1>1. p \in {at[k] : k \in 1..13} /\ p + 6 <= Len(frame) - 2
  BY DEF ItemAt
<1>2. /\ n \in 0..12 /\ f \in [0..n -> Nat] /\ f[0] = 0 /\ Len(frame) = f[n] + 7
      /\ \A i \in 1..n : ItemIn(f[i - 1], Asked(poll.data)[i], got[i])
      /\ \A i \in 1..n : f[i] = f[i - 1] + 3 + SizeOf(Asked(poll.data)[i])
  BY DEF ItemsIn, Widths
<1>3. /\ \A k \in 1..13 : k - 1 <= n => s[k] = f[k - 1] + 6
      /\ \A k \in 1..13 : ~(k - 1 <= n) => s[k] = f[n] + 6
  OBVIOUS
<1>. HIDE DEF s
<1>4. ASSUME NEW k \in 1..13
      PROVE  s[k] = IF k = 1 THEN 6
                    ELSE IF s[k - 1] + 2 > Len(frame) THEN s[k - 1]
                    ELSE s[k - 1] + 3 + frame[s[k - 1] + 2]
  <2>1. CASE k = 1
    <3>1. s[1] = f[0] + 6
      <4>1. 1 \in 1..13 /\ 1 - 1 = 0 /\ 0 <= n
        BY <1>2
      <4>. QED
        BY <1>3, <4>1, Zenon
    <3>. QED
      BY <1>2, <2>1, <3>1
  <2>2. CASE k # 1 /\ k - 1 <= n
    <3>1. PICK i \in 1..n : i = k - 1
      BY <1>2, <2>2
    <3>2. s[k] = f[i] + 6 /\ s[k - 1] = f[i - 1] + 6
      <4>1. k - 1 \in 1..13 /\ k - 1 = i /\ (k - 1) - 1 = i - 1 /\ i <= n /\ i - 1 <= n
        BY <1>2, <2>2, <3>1
      <4>. QED
        BY <1>3, <4>1, Zenon
    <3>3. PICK o \in Nat, z \in {4, 5} : o = f[i - 1] /\ z = SizeOf(Asked(poll.data)[i])
      BY <1>2 DEF ItemIn, SizeOf
    <3>4. o + 8 <= Len(frame) /\ frame[o + 8] = z /\ f[i] = o + 3 + z
      BY <1>2, <3>3 DEF ItemIn
    <3>5. s[k - 1] = o + 6 /\ s[k] = (o + 3 + z) + 6
      BY <3>2, <3>3, <3>4
    <3>6. (o + 6) + 2 = o + 8 /\ (o + 3 + z) + 6 = (o + 6) + 3 + z
      OBVIOUS
    <3>7. ~((o + 6) + 2 > Len(frame)) /\ frame[(o + 6) + 2] = z
      BY <1>2, <3>4, <3>6
    <3>. QED
      BY <2>2, <3>5, <3>6, <3>7
  <2>3. CASE k # 1 /\ ~(k - 1 <= n)
    <3>1. s[k] = f[n] + 6
      BY <1>3, <2>3
    <3>2. s[k - 1] = f[n] + 6
      <4>1. k - 1 \in 1..13 /\ ((k - 1) - 1 <= n => (k - 1) - 1 = n)
        BY <1>2, <2>3
      <4>2. CASE (k - 1) - 1 <= n
        BY <1>3, <4>1, <4>2, Zenon
      <4>3. CASE ~((k - 1) - 1 <= n)
        BY <1>3, <4>1, <4>3, Zenon
      <4>. QED
        BY <4>2, <4>3
    <3>3. f[n] \in Nat
      BY <1>2
    <3>4. (f[n] + 6) + 2 > f[n] + 7
      BY <3>3
    <3>. QED
      BY <1>2, <2>3, <3>1, <3>2, <3>4
  <2>. QED
    BY <2>1, <2>2, <2>3
<1>5. G(s)
  <2>1. s = [k \in 1..13 |-> s[k]]
    BY DEF s
  <2>. QED
    BY <1>4, <2>1
<1>6. G(at)
  BY <1>5
<1>. HIDE DEF at
<1>7. \A k \in 1..13 : at[k] = s[k]
  <2>. DEFINE T == {i \in 0..12 : at[i + 1] = s[i + 1]}
  <2>1. \A k \in 1..13 : at[k] = IF k = 1 THEN 6
                                 ELSE IF at[k - 1] + 2 > Len(frame) THEN at[k - 1]
                                 ELSE at[k - 1] + 3 + frame[at[k - 1] + 2]
    BY <1>6
  <2>2. 0 \in T
    BY <1>4, <2>1
  <2>3. ASSUME NEW i \in 0..(12 - 1), i \in T PROVE i + 1 \in T
    <3>1. i + 1 \in 0..12 /\ (i + 1) + 1 \in 1..13 /\ (i + 1) + 1 # 1
          /\ ((i + 1) + 1) - 1 = i + 1
      OBVIOUS
    <3>2. at[i + 1] = s[i + 1]
      BY <2>3
    <3>3. at[(i + 1) + 1] = s[(i + 1) + 1]
      <4>1. PICK k \in 1..13 : k = (i + 1) + 1 /\ k - 1 = i + 1 /\ k # 1
        BY <3>1
      <4>2. at[k - 1] = s[k - 1]
        BY <3>2, <4>1
      <4>3. at[k] = s[k]
        BY <1>4, <2>1, <4>1, <4>2, Zenon
      <4>. QED
        BY <4>1, <4>3
    <3>. QED
      BY <3>1, <3>3
  <2>. HIDE DEF T
  <2>4. \A i \in 0..12 : i \in T
    BY <2>2, <2>3, UpToN
  <2>5. ASSUME NEW k \in 1..13 PROVE at[k] = s[k]
    <3>1. k - 1 \in T /\ (k - 1) + 1 = k
      BY <2>4
    <3>. QED
      BY <3>1 DEF T
  <2>. QED
    BY <2>5
<1>8. PICK k \in 1..13 : p = s[k]
  BY <1>1, <1>7
<1>9. k - 1 < n
  <2>1. f[n] \in Nat /\ f[n] + 12 > (f[n] + 7) - 2
    BY <1>2
  <2>2. p # f[n] + 6
    BY <1>1, <1>2, <2>1
  <2>3. k - 1 <= n
    BY <1>3, <1>8, <2>2, Zenon
  <2>4. k - 1 # n
    <3>. SUFFICES ASSUME k - 1 = n PROVE FALSE
      OBVIOUS
    <3>1. s[k] = f[n] + 6
      BY <1>3, <2>3, Zenon
    <3>. QED
      BY <1>8, <2>2, <3>1, Zenon
  <2>. QED
    BY <1>2, <2>3, <2>4
<1>10. k \in 1..n /\ p = f[k - 1] + 6
  <2>1. k \in 1..n /\ k - 1 <= n
    BY <1>2, <1>9
  <2>. QED
    BY <1>3, <1>8, <2>1, Zenon
<1>. QED
  BY <1>10

\* What it finds behind a code of table C-7 is what the code stands for.
LEMMA ExtendedCodeTold ==
  ASSUME IInv, Answered, NEW c \in Extended, poll.command = c, NEW p \in ItemAt,
         frame[p + 1] = 0, frame[p] \in DOMAIN TableC7(c)
  PROVE  FieldTold(<<p + 3, TableC7(c)[frame[p]], 4>>)
<1>1. PICK f, n : ItemsIn(f, n)
  BY ItemsAreIn
<1>2. PICK i \in 1..n : p = f[i - 1] + 6
  BY <1>1, ItemsFound
<1>3. PICK o \in Nat, code \in Word, v \in Int :
        /\ o = f[i - 1] /\ code = Asked(poll.data)[i] /\ v = got[i] /\ ItemIn(o, code, v)
  BY <1>1 DEF ItemsIn, ItemIn
<1>4. code \in Nat /\ p = o + 6 /\ p + 1 = o + 7
  BY <1>2, <1>3 DEF Word
<1>5. frame[p] = code
  <2>1. frame[p] = code % 256 /\ code \div 256 = 0
    BY <1>3, <1>4 DEF ItemIn
  <2>2. code \div 256 = 0 => code % 256 = code
    BY <1>4
  <2>. QED
    BY <2>1, <2>2
<1>6. PICK m : m = TableC7(c)[code]
  OBVIOUS
<1>7. /\ Coded(ExtendedCodes, code) = m /\ m # Unread /\ code \notin TicketCodes
      /\ m \in Meters \cup {Unread}
  BY <1>5, <1>6, CodesAre
<1>8. m \in Meters /\ v \in during[m]
  <2>1. n = Len(Asked(poll.data))
    BY <1>1 DEF ItemsIn
  <2>2. Coded(ExtendedCodes, Asked(poll.data)[i]) # Unread
          => got[i] \in during[Coded(ExtendedCodes, Asked(poll.data)[i])]
    BY <2>1, CodedRead
  <2>. QED
    BY <1>3, <1>7, <2>2
<1>9. SizeOf(code) = 4 /\ 4 \in {4, 5} /\ o + 7 \in Nat \ {0}
  BY <1>7 DEF SizeOf
<1>10. At(Report(poll, got), o + 7, Encode(v, 4))
  BY <1>3, <1>9 DEF ItemIn
<1>11. FieldTold(<<(o + 7) + 2, m, 4>>)
  BY <1>8, <1>9, <1>10, ToldIs
<1>12. (o + 7) + 2 = p + 3
  BY <1>4
<1>. QED
  BY <1>5, <1>6, <1>11, <1>12, Zenon

\* Every field that the host has selected by a code is one of its meter.
LEMMA CodedTold ==
  ASSUME IInv, Answered, NEW field \in CodedFields
  PROVE  FieldTold(field)
<1>1. \h2F \notin Extended
  BY DEF Extended
<1>2. CASE Command = \h2F
  <2>1. PICK p \in 6..(Len(frame) - 6) :
          /\ (p - 6) % 5 = 0 /\ frame[p] \in DOMAIN TableC7(\h2F)
          /\ field = <<p + 1, TableC7(\h2F)[frame[p]], 4>>
    <3>. HIDE DEF TableC7
    <3>. QED
      BY <1>1, <1>2 DEF CodedFields
  <2>2. poll.command = \h2F
    BY <1>2 DEF Command
  <2>. QED
    BY <2>1, <2>2, GameCodeTold
<1>3. CASE Command \in Extended
  <2>. DEFINE fields == {<<q + 3, TableC7(Command)[frame[q]], 4>> :
                          q \in {x \in ItemAt : frame[x + 1] = 0
                                                /\ frame[x] \in DOMAIN TableC7(Command)}}
              others == {<<q + 1, TableC7(Command)[frame[q]], 4>> :
                          q \in {x \in 6..(Len(frame) - 6) :
                                   (x - 6) % 5 = 0 /\ frame[x] \in DOMAIN TableC7(Command)}}
  <2>1. PICK p \in ItemAt :
          /\ frame[p + 1] = 0 /\ frame[p] \in DOMAIN TableC7(Command)
          /\ field = <<p + 3, TableC7(Command)[frame[p]], 4>>
    <3>1. CodedFields = CASE Command \in Extended -> fields
                          [] Command = \h2F -> others [] OTHER -> {}
      BY DEF CodedFields
    <3>2. field \in fields
      <4>. HIDE DEF fields, others
      <4>. QED
        BY <1>1, <1>3, <3>1
    <3>. QED
      BY <3>2, Zenon
  <2>2. PICK c \in Extended : c = Command /\ poll.command = c
    BY <1>3 DEF Command
  <2>. QED
    BY <2>1, <2>2, ExtendedCodeTold
<1>. QED
  BY <1>2, <1>3 DEF CodedFields

\* A report is no snapshot, but the host reads in each of its fields a value
\* that the field's meter had while the poll was handled (zero, if it was
\* negative or too large): the handler read that meter for this place, in its
\* order, the layout of the report has the number there, and decoding undoes
\* encoding.
THEOREM FieldsTrue == Spec => []FieldsFaithful
<1>1. IInv => FieldsFaithful
  <2>. SUFFICES ASSUME IInv, Answered, NEW field \in FixedFields \cup CodedFields
                PROVE  FieldTold(field)
    BY DEF FieldsFaithful, FieldTold, Fit
  <2>. QED
    BY FixedTold, CodedTold
<1>. QED
  BY <1>1, PollsInvariant, PTL

-----------------------------------------------------------------------------
(* The checksum of a frame                                                 *)

\* The two bytes behind a frame are the checksum of what is before them.
LEMMA SerializeVerifies ==
  ASSUME NEW c \in Byte, NEW data \in Seq(Byte), NEW f, f = Serialize(1, c, data)
  PROVE  CrcByBits(SubSeq(f, 1, Len(f) - 2)) = f[Len(f) - 1] + 256 * f[Len(f)]
<1>. DEFINE head == <<1, c>>
            body == head \o data
            crc == Crc(body)
            tail == <<crc % 256, crc \div 256>>
<1>1. head \in Seq(Byte) /\ Len(head) = 2
  BY ByteIs
<1>2. body \in Seq(Byte) /\ Len(body) \in Nat /\ Len(body) > 0
  <2>. HIDE DEF head
  <2>1. body \in Seq(Byte) /\ Len(body) = 2 + Len(data)
    BY <1>1, Joined
  <2>2. Len(data) \in Nat
    BY Elements, Zenon
  <2>. QED
    BY <2>1, <2>2
<1>3. f = body \o tail
  BY DEF Serialize
<1>4. crc \in Word /\ crc = CrcByBits(body)
  <2>. HIDE DEF body
  <2>. QED
    BY <1>2, CrcIs, CrcIsByBits
<1>. HIDE DEF crc, body
<1>5. crc \in Nat /\ crc < 65536 /\ (crc % 256) + 256 * (crc \div 256) = crc
  <2>1. crc \in Nat /\ crc < 65536
    BY <1>4, SMT DEF Word
  <2>. QED
    BY <2>1, SMT
<1>6. tail \in Seq(Byte) /\ Len(tail) = 2 /\ tail[1] = crc % 256 /\ tail[2] = crc \div 256
  <2>1. crc % 256 \in Nat /\ crc % 256 <= 255 /\ crc \div 256 \in Nat /\ crc \div 256 <= 255
    BY <1>5, SMT
  <2>2. crc % 256 \in Byte /\ crc \div 256 \in Byte
    BY <2>1, ByteIs
  <2>. QED
    BY <2>2
<1>. HIDE DEF tail
<1>7. /\ f \in Seq(Byte) /\ Len(f) = Len(body) + 2
      /\ f[Len(body) + 1] = crc % 256 /\ f[Len(body) + 2] = crc \div 256
      /\ \A i \in 1..Len(body) : f[i] = body[i]
  <2>1. /\ f \in Seq(Byte) /\ Len(f) = Len(body) + Len(tail)
        /\ \A i \in 1..Len(tail) : f[Len(body) + i] = tail[i]
        /\ \A i \in 1..Len(body) : f[i] = body[i]
    <3>1. body \o tail \in Seq(Byte)
      BY <1>2, <1>6, Joined, Zenon
    <3>2. /\ Len(body \o tail) = Len(body) + Len(tail)
          /\ \A i \in 1..Len(tail) : (body \o tail)[Len(body) + i] = tail[i]
          /\ \A i \in 1..Len(body) : (body \o tail)[i] = body[i]
      <4>1. body \in Seq(Byte) /\ tail \in Seq(Byte)
        BY <1>2, <1>6, Zenon
      <4>. QED
        BY ONLY <4>1, Behind, SMT
    <3>. QED
      BY <1>3, <3>1, <3>2
  <2>2. 1 \in 1..Len(tail) /\ 2 \in 1..Len(tail)
    BY <1>6
  <2>. QED
    BY <1>6, <2>1, <2>2
<1>8. SubSeq(f, 1, Len(f) - 2) = body
  <2>1. At(f, 1, body)
    <3>1. /\ 1 \in Nat \ {0} /\ 1 + Len(body) <= Len(f) + 1
          /\ \A j \in 1..Len(body) : (1 + j) - 1 = j
      BY <1>2, <1>7
    <3>2. \A j \in 1..Len(body) : f[(1 + j) - 1] = body[j]
      BY <1>7, <3>1, SMT
    <3>. QED
      BY <3>1, <3>2, Zenon DEF At
  <2>2. SubSeq(f, 1, (1 + Len(body)) - 1) = body
    BY <1>2, <1>7, <2>1, AtSubSeq
  <2>3. (1 + Len(body)) - 1 = Len(f) - 2
    BY <1>2, <1>7
  <2>. QED
    BY <2>2, <2>3
<1>9. Len(f) - 1 = Len(body) + 1 /\ Len(f) = Len(body) + 2
  BY <1>2, <1>7
<1>10. CrcByBits(SubSeq(f, 1, Len(f) - 2)) = crc
  BY <1>4, <1>8, Zenon
<1>11. f[Len(f) - 1] = crc % 256 /\ f[Len(f)] = crc \div 256
  BY <1>7, <1>9, Zenon
<1>. QED
  BY <1>5, <1>10, <1>11

\* Every frame that answers a poll carries the checksum that the bits of its
\* other bytes leave in the register of x^16 + x^12 + x^5 + 1, low byte first:
\* what CRC16::calculate gets four bits at a time with a multiplication.
THEOREM FramesVerify == Spec => []FrameVerifies
<1>1. ASSUME IInv
      PROVE  FrameVerifies
  <2>1. SUFFICES ASSUME Answered
                 PROVE  CrcByBits(SubSeq(frame, 1, Len(frame) - 2))
                          = frame[Len(frame) - 1] + 256 * frame[Len(frame)]
    BY DEF FrameVerifies
  <2>2. PICK r \in Byte, d \in Seq(Byte) : frame = Serialize(1, r, d)
    <3>1. /\ frame = Serialize(1, ResponseCommand(poll.command), Report(poll, got))
          /\ ResponseCommand(poll.command) \in Byte /\ Report(poll, got) \in Seq(Byte)
      BY <1>1, <2>1, AllRead, Groups, ReportLengths
    <3>. QED
      BY <3>1
  <2>. QED
    BY <2>2, SerializeVerifies
<1>. QED
  BY <1>1, PollsInvariant, PTL
=============================================================================
