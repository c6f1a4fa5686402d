------------------------------- MODULE Codec -------------------------------
(***************************************************************************)
(* The two codecs of the SAS messages, as functions on sequences of bytes: *)
(* packed decimal numbers (BCD.cpp) and the checksum (CRC16.cpp,           *)
(* Message::serialize), with the definitions they are compared with.       *)
(***************************************************************************)
EXTENDS Integers, Sequences, SequencesExt

Byte == 0..255
Zeros(n) == [i \in 1..n |-> 0]

-----------------------------------------------------------------------------
(* Packed decimal, most significant byte first.                            *)

\* What is left of a value after 0, 1, .. n bytes have been taken off.
Quotients(value, n) ==
  LET q[k \in 0..n] == IF k = 0 THEN value ELSE q[k - 1] \div 100 IN q

\* maxValue: a value fits if n bytes exhaust it.  Values are uint64_t, so a
\* negative one is far too large.
Fits(value, n) == value >= 0 /\ Quotients(value, n)[n] = 0

Packed(number) == 16 * (number \div 10) + (number % 10)

\* Slip: the digits that do not fit are cut off.
EncodeCut(value, n) ==
  [i \in 1..n |-> Packed(Quotients(value, n)[n - i] % 100)]

\* BCD::encode: a value that does not fit is written as zeros.
Encode(value, n) ==
  IF Fits(value, n)
    THEN [i \in 1..n |-> Packed(Quotients(value, n)[n - i] % 100)]
    ELSE Zeros(n)

\* BCD::decode: a byte with a digit above nine counts as 0.
Unpacked(byte) ==
  IF byte \div 16 > 9 \/ byte % 16 > 9 THEN 0 ELSE 10 * (byte \div 16) + (byte % 16)
Decode(bytes) ==
  LET sum[i \in 0..Len(bytes)] ==
        IF i = 0 THEN 0 ELSE 100 * sum[i - 1] + Unpacked(bytes[i])
  IN  sum[Len(bytes)]

\* toBCD, for the parts of a date: two digits, at most 99.
ToBCD(number) == Packed(IF number > 99 THEN 99 ELSE number)

-----------------------------------------------------------------------------
(* The checksum.                                                           *)

\* The bit of a number that counts weight; four of them, with weights 1 to 8.
Bit(number, weight) == (number \div weight) % 2
NibbleXor ==
  [a \in 0..15 |-> [b \in 0..15 |->
     LET X(weight) == IF Bit(a, weight) = Bit(b, weight) THEN 0 ELSE weight
     IN  X(1) + X(2) + X(4) + X(8)]]
Nibble(number, weight) == (number \div weight) % 16
Xor(a, b) ==
  LET X(weight) == weight * NibbleXor[Nibble(a, weight)][Nibble(b, weight)]
  IN  X(1) + X(16) + X(256) + X(4096)

\* The register has 16 bits.
Word == {r \in Nat : r < 65536}

\* One nibble: crc = (crc >> 4) ^ (q * 0x1081), in 16 bits.
Shift(crc, nibble) ==
  Xor(crc \div 16, (NibbleXor[crc % 16][nibble] * 4225) % 65536)

\* Slip: the high nibble first.
CrcHighFirst(bytes) ==
  LET crc[i \in 0..Len(bytes)] ==
        IF i = 0 THEN 0
        ELSE LET r == crc[i - 1]
             IN  IF r \in Word THEN Shift(Shift(r, bytes[i] \div 16), bytes[i] % 16) ELSE 0
  IN  crc[Len(bytes)]

\* CRC16::calculate: the low nibble of each byte first.
Crc(bytes) ==
  LET crc[i \in 0..Len(bytes)] ==
        IF i = 0 THEN 0
        ELSE LET r == crc[i - 1]
             IN  IF r \in Word THEN Shift(Shift(r, bytes[i] % 16), bytes[i] \div 16) ELSE 0
  IN  crc[Len(bytes)]

\* Message::serialize: the low byte of the checksum first.
Serialize(address, command, data) ==
  LET body == <<address, command>> \o data
      crc == Crc(body)
  IN  body \o <<crc % 256, crc \div 256>>

\* The definition: the bits of the message, least significant of each byte
\* first, shifted through the register of x^16 + x^12 + x^5 + 1; eight shifts
\* at a time.
EightShifts ==
  [byte \in Byte |->
     LET reg[i \in 0..8] ==
           IF i = 0 THEN byte
           ELSE IF reg[i - 1] % 2 = 1 THEN Xor(reg[i - 1] \div 2, 33800)
                ELSE reg[i - 1] \div 2
     IN  reg[8]]
CrcByBits(bytes) ==
  LET reg[i \in 0..Len(bytes)] ==
        IF i = 0 THEN 0
        ELSE LET r == reg[i - 1]
             IN  IF r \in Word THEN Xor(r \div 256, EightShifts[Xor(r % 256, bytes[i])]) ELSE 0
  IN  reg[Len(bytes)]
=============================================================================
