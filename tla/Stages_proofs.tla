--------------------------- MODULE Stages_proofs ---------------------------
(***************************************************************************)
(* The deterministic stages, for every input of up to three bytes, every   *)
(* ARITH_MAX below 128, every table of interesting numbers without repeats *)
(* and every effector map: the filters leave out nothing that was not run, *)
(* and with one or two bytes they leave out everything that was.           *)
(***************************************************************************)
EXTENDS Stages, TLAPS

-----------------------------------------------------------------------------
(* Bits.                                                                   *)

\* The powers of two of a word's bits.
LEMMA Powers ==
  /\ 2^0 = 1 /\ 2^1 = 2 /\ 2^2 = 4 /\ 2^3 = 8 /\ 2^4 = 16 /\ 2^5 = 32 /\ 2^6 = 64 /\ 2^7 = 128
  /\ 2^8 = 256 /\ 2^9 = 512 /\ 2^10 = 1024 /\ 2^11 = 2048 /\ 2^12 = 4096 /\ 2^13 = 8192
  /\ 2^14 = 16384 /\ 2^15 = 32768
  OBVIOUS

LEMMA BitValues ==
  ASSUME NEW v \in Nat
  PROVE  /\ Bit(v, 0) = v % 2          /\ Bit(v, 1) = (v \div 2) % 2
         /\ Bit(v, 2) = (v \div 4) % 2   /\ Bit(v, 3) = (v \div 8) % 2
         /\ Bit(v, 4) = (v \div 16) % 2  /\ Bit(v, 5) = (v \div 32) % 2
         /\ Bit(v, 6) = (v \div 64) % 2  /\ Bit(v, 7) = (v \div 128) % 2
         /\ Bit(v, 8) = (v \div 256) % 2   /\ Bit(v, 9) = (v \div 512) % 2
         /\ Bit(v, 10) = (v \div 1024) % 2 /\ Bit(v, 11) = (v \div 2048) % 2
         /\ Bit(v, 12) = (v \div 4096) % 2 /\ Bit(v, 13) = (v \div 8192) % 2
         /\ Bit(v, 14) = (v \div 16384) % 2 /\ Bit(v, 15) = (v \div 32768) % 2
  BY Powers DEF Bit

\* A byte is the sum of its bits.
LEMMA ByteBits ==
  ASSUME NEW v \in Byte
  PROVE  /\ v = Bit(v, 0) + 2 * Bit(v, 1) + 4 * Bit(v, 2) + 8 * Bit(v, 3)
                  + 16 * Bit(v, 4) + 32 * Bit(v, 5) + 64 * Bit(v, 6) + 128 * Bit(v, 7)
         /\ \A q \in 0 .. 7 : Bit(v, q) \in {0, 1}
         /\ \A q \in 8 .. 15 : Bit(v, q) = 0
<1>1. v = (v % 2) + 2 * ((v \div 2) % 2) + 4 * ((v \div 4) % 2) + 8 * ((v \div 8) % 2)
          + 16 * ((v \div 16) % 2) + 32 * ((v \div 32) % 2) + 64 * ((v \div 64) % 2)
          + 128 * ((v \div 128) % 2)
  BY DEF Byte
<1>2. v \in Nat
  BY DEF Byte
<1>3. /\ Bit(v, 0) = v % 2           /\ Bit(v, 1) = (v \div 2) % 2
      /\ Bit(v, 2) = (v \div 4) % 2   /\ Bit(v, 3) = (v \div 8) % 2
      /\ Bit(v, 4) = (v \div 16) % 2  /\ Bit(v, 5) = (v \div 32) % 2
      /\ Bit(v, 6) = (v \div 64) % 2  /\ Bit(v, 7) = (v \div 128) % 2
  BY <1>2, BitValues
<1>4. /\ Bit(v, 8) = 0 /\ Bit(v, 9) = 0 /\ Bit(v, 10) = 0 /\ Bit(v, 11) = 0
      /\ Bit(v, 12) = 0 /\ Bit(v, 13) = 0 /\ Bit(v, 14) = 0 /\ Bit(v, 15) = 0
  <2>1. /\ v \div 256 = 0 /\ v \div 512 = 0 /\ v \div 1024 = 0 /\ v \div 2048 = 0
        /\ v \div 4096 = 0 /\ v \div 8192 = 0 /\ v \div 16384 = 0 /\ v \div 32768 = 0
    BY DEF Byte
  <2>2. /\ Bit(v, 8) = (v \div 256) % 2    /\ Bit(v, 9) = (v \div 512) % 2
        /\ Bit(v, 10) = (v \div 1024) % 2  /\ Bit(v, 11) = (v \div 2048) % 2
        /\ Bit(v, 12) = (v \div 4096) % 2  /\ Bit(v, 13) = (v \div 8192) % 2
        /\ Bit(v, 14) = (v \div 16384) % 2 /\ Bit(v, 15) = (v \div 32768) % 2
    BY <1>2, BitValues
  <2> QED BY <2>1, <2>2
<1>5. ASSUME NEW q \in 0 .. 7 PROVE Bit(v, q) \in {0, 1}
  <2>1. q \in {0, 1, 2, 3, 4, 5, 6, 7}
    OBVIOUS
  <2> QED BY <1>2, <1>3, <2>1
<1>6. ASSUME NEW q \in 8 .. 15 PROVE Bit(v, q) = 0
  <2>1. q \in {8, 9, 10, 11, 12, 13, 14, 15}
    OBVIOUS
  <2> QED BY <1>4, <2>1
<1>7. v = Bit(v, 0) + 2 * Bit(v, 1) + 4 * Bit(v, 2) + 8 * Bit(v, 3)
            + 16 * Bit(v, 4) + 32 * Bit(v, 5) + 64 * Bit(v, 6) + 128 * Bit(v, 7)
  BY <1>1, <1>3
<1> QED BY <1>5, <1>6, <1>7

\* The bits of a word are those of its two bytes.
LEMMA WordBits ==
  ASSUME NEW w \in Nat
  PROVE  /\ \A q \in 0 .. 7 : Bit(w, q) = Bit(w % 256, q)
         /\ \A q \in 8 .. 15 : Bit(w, q) = Bit(w \div 256, q - 8)
<1> DEFINE lo == w % 256
           hi == w \div 256
<1>1. Bit(w, 0) = Bit(lo, 0)
  BY DEF Bit
<1>2. Bit(w, 1) = Bit(lo, 1)
  BY DEF Bit
<1>3. Bit(w, 2) = Bit(lo, 2)
  BY DEF Bit
<1>4. Bit(w, 3) = Bit(lo, 3)
  BY DEF Bit
<1>5. Bit(w, 4) = Bit(lo, 4)
  BY DEF Bit
<1>6. Bit(w, 5) = Bit(lo, 5)
  BY DEF Bit
<1>7. Bit(w, 6) = Bit(lo, 6)
  BY DEF Bit
<1>8. Bit(w, 7) = Bit(lo, 7)
  BY DEF Bit
<1>9. Bit(w, 8) = Bit(hi, 0)
  BY DEF Bit
<1>10. Bit(w, 9) = Bit(hi, 1)
  BY DEF Bit
<1>11. Bit(w, 10) = Bit(hi, 2)
  BY DEF Bit
<1>12. Bit(w, 11) = Bit(hi, 3)
  BY DEF Bit
<1>13. Bit(w, 12) = Bit(hi, 4)
  BY DEF Bit
<1>14. Bit(w, 13) = Bit(hi, 5)
  BY DEF Bit
<1>15. Bit(w, 14) = Bit(hi, 6)
  BY DEF Bit
<1>16. Bit(w, 15) = Bit(hi, 7)
  BY DEF Bit
<1> HIDE DEF lo, hi
<1>17. ASSUME NEW q \in 0 .. 7 PROVE Bit(w, q) = Bit(lo, q)
  <2>1. q \in {0, 1, 2, 3, 4, 5, 6, 7}
    OBVIOUS
  <2> QED BY <1>1, <1>2, <1>3, <1>4, <1>5, <1>6, <1>7, <1>8, <2>1
<1>18. ASSUME NEW q \in 8 .. 15 PROVE Bit(w, q) = Bit(hi, q - 8)
  <2>1. q \in {8, 9, 10, 11, 12, 13, 14, 15}
    OBVIOUS
  <2>2. /\ 8 - 8 = 0 /\ 9 - 8 = 1 /\ 10 - 8 = 2 /\ 11 - 8 = 3 /\ 12 - 8 = 4
        /\ 13 - 8 = 5 /\ 14 - 8 = 6 /\ 15 - 8 = 7
    OBVIOUS
  <2> QED
    BY <1>9, <1>10, <1>11, <1>12, <1>13, <1>14, <1>15, <1>16, <2>1, <2>2
<1> QED BY <1>17, <1>18 DEF lo, hi

\* And bits are those of the sum they make.
LEMMA SumBits ==
  ASSUME NEW b0 \in {0, 1}, NEW b1 \in {0, 1}, NEW b2 \in {0, 1}, NEW b3 \in {0, 1},
         NEW b4 \in {0, 1}, NEW b5 \in {0, 1}, NEW b6 \in {0, 1}, NEW b7 \in {0, 1},
         NEW x \in Nat,
         x = b0 + 2 * b1 + 4 * b2 + 8 * b3 + 16 * b4 + 32 * b5 + 64 * b6 + 128 * b7
  PROVE  /\ x \in Byte
         /\ Bit(x, 0) = b0 /\ Bit(x, 1) = b1 /\ Bit(x, 2) = b2 /\ Bit(x, 3) = b3
         /\ Bit(x, 4) = b4 /\ Bit(x, 5) = b5 /\ Bit(x, 6) = b6 /\ Bit(x, 7) = b7
<1>1. x \in Byte
  BY DEF Byte
<1>2. Bit(x, 0) = b0
  BY DEF Bit
<1>3. Bit(x, 1) = b1
  BY DEF Bit
<1>4. Bit(x, 2) = b2
  BY DEF Bit
<1>5. Bit(x, 3) = b3
  BY DEF Bit
<1>6. Bit(x, 4) = b4
  BY DEF Bit
<1>7. Bit(x, 5) = b5
  BY DEF Bit
<1>8. Bit(x, 6) = b6
  BY DEF Bit
<1>9. Bit(x, 7) = b7
  BY DEF Bit
<1> QED BY <1>1, <1>2, <1>3, <1>4, <1>5, <1>6, <1>7, <1>8, <1>9

\* The bits in which two bytes differ.
XorByte(a, b) == {q \in 0 .. 7 : Bit(a, q) # Bit(b, q)}

\* Flipped turns the bits of S over, and only those.
LEMMA FlippedBits ==
  ASSUME NEW a \in Byte, NEW S
  PROVE  Flipped(a, S) \in Byte /\ \A q \in 0 .. 7 : q \in XorByte(a, Flipped(a, S)) <=> q \in S
<1> DEFINE c(q) == IF q \in S THEN 1 - Bit(a, q) ELSE Bit(a, q)
           x == Flipped(a, S)
<1>1. /\ a = Bit(a, 0) + 2 * Bit(a, 1) + 4 * Bit(a, 2) + 8 * Bit(a, 3)
               + 16 * Bit(a, 4) + 32 * Bit(a, 5) + 64 * Bit(a, 6) + 128 * Bit(a, 7)
      /\ \A q \in 0 .. 7 : Bit(a, q) \in {0, 1}
  BY ByteBits
<1>2. \A q \in 0 .. 7 : c(q) \in {0, 1}
  BY <1>1
<1>3. x = c(0) + 2 * c(1) + 4 * c(2) + 8 * c(3) + 16 * c(4) + 32 * c(5) + 64 * c(6) + 128 * c(7)
  <2> DEFINE d(q) == IF q \in S THEN (1 - 2 * Bit(a, q)) * 2 ^ q ELSE 0
  <2>1. x = a + d(0) + d(1) + d(2) + d(3) + d(4) + d(5) + d(6) + d(7)
    BY DEF Flipped
  <2>2. /\ Bit(a, 0) \in {0, 1} /\ Bit(a, 1) \in {0, 1} /\ Bit(a, 2) \in {0, 1}
        /\ Bit(a, 3) \in {0, 1} /\ Bit(a, 4) \in {0, 1} /\ Bit(a, 5) \in {0, 1}
        /\ Bit(a, 6) \in {0, 1} /\ Bit(a, 7) \in {0, 1}
    BY <1>1
  <2>3. d(0) = c(0) - Bit(a, 0) /\ d(1) = 2 * (c(1) - Bit(a, 1))
    BY <2>2, Powers
  <2>4. d(2) = 4 * (c(2) - Bit(a, 2)) /\ d(3) = 8 * (c(3) - Bit(a, 3))
    BY <2>2, Powers
  <2>5. d(4) = 16 * (c(4) - Bit(a, 4)) /\ d(5) = 32 * (c(5) - Bit(a, 5))
    BY <2>2, Powers
  <2>6. d(6) = 64 * (c(6) - Bit(a, 6)) /\ d(7) = 128 * (c(7) - Bit(a, 7))
    BY <2>2, Powers
  <2>7. /\ c(0) \in Int /\ c(1) \in Int /\ c(2) \in Int /\ c(3) \in Int
        /\ c(4) \in Int /\ c(5) \in Int /\ c(6) \in Int /\ c(7) \in Int
    BY <1>2
  <2> HIDE DEF c, d, x
  <2> QED BY <1>1, <2>1, <2>2, <2>3, <2>4, <2>5, <2>6, <2>7
<1>4. \A q \in 0 .. 7 : c(q) # Bit(a, q) <=> q \in S
  BY <1>1
<1> HIDE DEF c, x
<1>5. x \in Nat
  BY <1>2, <1>3
<1>6. /\ x \in Byte
      /\ Bit(x, 0) = c(0) /\ Bit(x, 1) = c(1) /\ Bit(x, 2) = c(2) /\ Bit(x, 3) = c(3)
      /\ Bit(x, 4) = c(4) /\ Bit(x, 5) = c(5) /\ Bit(x, 6) = c(6) /\ Bit(x, 7) = c(7)
  BY <1>2, <1>3, <1>5, SumBits
<1>7. \A q \in 0 .. 7 : Bit(x, q) = c(q)
  <2>1. \A q \in 0 .. 7 : q \in {0, 1, 2, 3, 4, 5, 6, 7}
    OBVIOUS
  <2> QED BY <1>6, <2>1
<1> QED BY <1>4, <1>6, <1>7 DEF x, XorByte

\* So a byte is another one with the bits in which they differ turned over.
LEMMA FlippedXor ==
  ASSUME NEW a \in Byte, NEW b \in Byte, NEW S, \A q \in 0 .. 7 : q \in XorByte(a, b) <=> q \in S
  PROVE  b = Flipped(a, S)
<1> DEFINE x == Flipped(a, S)
<1>1. x \in Byte /\ \A q \in 0 .. 7 : q \in XorByte(a, x) <=> q \in S
  BY FlippedBits
<1> HIDE DEF x
<1>2. \A q \in 0 .. 7 : /\ Bit(a, q) \in {0, 1} /\ Bit(b, q) \in {0, 1} /\ Bit(x, q) \in {0, 1}
                        /\ Bit(b, q) # Bit(a, q) <=> Bit(x, q) # Bit(a, q)
  BY <1>1, ByteBits DEF XorByte
<1>3. \A q \in 0 .. 7 : Bit(b, q) = Bit(x, q)
  BY <1>2
<1>4. b = Bit(b, 0) + 2 * Bit(b, 1) + 4 * Bit(b, 2) + 8 * Bit(b, 3)
            + 16 * Bit(b, 4) + 32 * Bit(b, 5) + 64 * Bit(b, 6) + 128 * Bit(b, 7)
  BY ByteBits
<1>5. x = Bit(x, 0) + 2 * Bit(x, 1) + 4 * Bit(x, 2) + 8 * Bit(x, 3)
            + 16 * Bit(x, 4) + 32 * Bit(x, 5) + 64 * Bit(x, 6) + 128 * Bit(x, 7)
  BY <1>1, ByteBits
<1> QED BY <1>3, <1>4, <1>5 DEF x

LEMMA XorNone ==
  ASSUME NEW a \in Byte, NEW b \in Byte
  PROVE  XorByte(a, b) = {} <=> a = b
<1>1. a = Flipped(a, {})
  BY Powers DEF Flipped, Byte
<1>2. ASSUME XorByte(a, b) = {} PROVE a = b
  BY <1>1, <1>2, FlippedXor
<1> QED BY <1>2 DEF XorByte

\* DiffBits in terms of bytes.
LEMMA DiffOfBytes ==
  ASSUME NEW a \in Byte, NEW b \in Byte
  PROVE  DiffBits(a, b) = XorByte(a, b)
<1>1. \A q \in 0 .. 15 : q \in 0 .. 7 \/ q \in 8 .. 15
  OBVIOUS
<1>2. \A q \in 8 .. 15 : Bit(a, q) = Bit(b, q)
  BY ByteBits
<1>3. \A q \in 0 .. 7 : q \in 0 .. 15
  OBVIOUS
<1> QED BY <1>1, <1>2, <1>3 DEF DiffBits, XorByte

LEMMA DiffOfWords ==
  ASSUME NEW w \in Nat, NEW x \in Nat
  PROVE  /\ DiffBits(w, x) \subseteq 0 .. 15
         /\ \A q \in 0 .. 7 : q \in DiffBits(w, x) <=> q \in XorByte(w % 256, x % 256)
         /\ \A q \in 8 .. 15 :
              q \in DiffBits(w, x) <=> q - 8 \in XorByte(w \div 256, x \div 256)
<1>1. /\ \A q \in 0 .. 7 : q \in 0 .. 15
      /\ \A q \in 8 .. 15 : q \in 0 .. 15 /\ q - 8 \in 0 .. 7
  OBVIOUS
<1> DEFINE lw == w % 256
           hw == w \div 256
           lx == x % 256
           hx == x \div 256
<1>2. /\ \A q \in 0 .. 7 : Bit(w, q) = Bit(lw, q) /\ Bit(x, q) = Bit(lx, q)
      /\ \A q \in 8 .. 15 : Bit(w, q) = Bit(hw, q - 8) /\ Bit(x, q) = Bit(hx, q - 8)
  BY WordBits
<1> HIDE DEF lw, hw, lx, hx
<1>3. /\ DiffBits(w, x) \subseteq 0 .. 15
      /\ \A q \in 0 .. 7 : q \in DiffBits(w, x) <=> q \in XorByte(lw, lx)
      /\ \A q \in 8 .. 15 : q \in DiffBits(w, x) <=> q - 8 \in XorByte(hw, hx)
  BY <1>1, <1>2 DEF DiffBits, XorByte
<1> QED BY <1>3 DEF lw, hw, lx, hx

-----------------------------------------------------------------------------
(* Buffers.                                                                *)

BufOK == buf \in Seq(Byte) /\ Len(buf) \in 1 .. 3
Buffers == [DOMAIN buf -> Byte]

LEMMA FlipType ==
  ASSUME BufOK, NEW k, NEW n
  PROVE  FlipBits(k, n) \in Buffers
BY FlippedBits DEF BufOK, Buffers, FlipBits

\* The bits that FlipBits turns over, counted as FLIP_BIT does.
LEMMA FlipIff ==
  ASSUME BufOK, NEW k \in Int, NEW n \in Int, NEW m \in Buffers
  PROVE  m = FlipBits(k, n) <=>
           \A i \in DOMAIN buf : \A q \in 0 .. 7 :
             q \in XorByte(buf[i], m[i]) <=> 8 * i - 1 - q \in k .. k + n - 1
<1> DEFINE S(i) == {q \in 0 .. 7 : 8 * i - 1 - q \in k .. k + n - 1}
<1>1. \A i \in DOMAIN buf : buf[i] \in Byte /\ m[i] \in Byte
  BY DEF BufOK, Buffers
<1>2. FlipBits(k, n) = [i \in DOMAIN buf |-> Flipped(buf[i], S(i))]
  BY DEF FlipBits
<1>3. \A i \in DOMAIN buf : \A q \in 0 .. 7 : q \in S(i) <=> 8 * i - 1 - q \in k .. k + n - 1
  OBVIOUS
<1> HIDE DEF S
<1>4. ASSUME m = FlipBits(k, n), NEW i \in DOMAIN buf, NEW q \in 0 .. 7
      PROVE  q \in XorByte(buf[i], m[i]) <=> q \in S(i)
  <2>1. m[i] = Flipped(buf[i], S(i))
    BY <1>2, <1>4
  <2> QED BY <1>1, <2>1, FlippedBits
<1>5. ASSUME \A i \in DOMAIN buf : \A q \in 0 .. 7 : q \in XorByte(buf[i], m[i]) <=> q \in S(i)
      PROVE  m = FlipBits(k, n)
  <2>1. \A i \in DOMAIN buf : m[i] = Flipped(buf[i], S(i))
    BY <1>1, <1>5, FlippedXor
  <2> QED BY <1>2, <2>1 DEF Buffers
<1> QED BY <1>3, <1>4, <1>5

-----------------------------------------------------------------------------
(* What could_be_bitflip accepts is a walking flip.                        *)

\* A mutant that the stages from flip1 to flip8 run whatever the effector map.
Walked(m) ==
  \E s \in {"flip1", "flip2", "flip4", "flip8"} : \E p \in 1 .. LastPlace(s) :
    m = Mutant(s, p, 1)

LEMMA ByteType ==
  ASSUME BufOK, NEW i \in DOMAIN buf, NEW v \in Byte
  PROVE  /\ WithByte(i, v) \in Buffers /\ buf[i] \in Byte
         /\ \A j \in DOMAIN buf : WithByte(i, v)[j] = IF j = i THEN v ELSE buf[j]
BY DEF BufOK, Buffers, WithByte

\* A run of bits of one byte is a run of bits of the buffer.
LEMMA RunOfByte ==
  ASSUME BufOK, NEW i \in DOMAIN buf, NEW v \in Byte, NEW sh \in Nat, NEW n \in Nat \ {0},
         sh + n <= 8, XorByte(buf[i], v) = sh .. sh + n - 1
  PROVE  WithByte(i, v) = FlipBits(8 * i - sh - n, n)
<1> DEFINE m == WithByte(i, v)
           k == 8 * i - sh - n
<1>1. m \in Buffers /\ \A j \in DOMAIN buf : m[j] = IF j = i THEN v ELSE buf[j]
  BY ByteType
<1>2. i \in Int /\ k \in Int /\ \A j \in DOMAIN buf : j \in Int /\ buf[j] \in Byte
  BY DEF BufOK
<1>3. ASSUME NEW j \in DOMAIN buf, NEW q \in 0 .. 7
      PROVE  q \in XorByte(buf[j], m[j]) <=> 8 * j - 1 - q \in k .. k + n - 1
  <2>1. CASE j = i
    <3>1. XorByte(buf[j], m[j]) = sh .. sh + n - 1
      BY <1>1, <2>1
    <3>2. q \in Int /\ i \in Int /\ sh \in Int /\ n \in Int
      BY <1>2
    <3>3. q \in sh .. sh + n - 1 <=> 8 * i - 1 - q \in k .. k + n - 1
      BY <3>2
    <3> QED BY <2>1, <3>1, <3>3
  <2>2. CASE j # i
    <3>1. XorByte(buf[j], m[j]) = {}
      BY <1>1, <1>2, <2>2, XorNone
    <3>2. /\ i \in Int /\ j \in Int /\ q \in Int /\ sh \in Nat /\ n \in Nat
          /\ 0 <= q /\ q <= 7 /\ sh + n <= 8
      BY <1>2
    <3>3. j <= i - 1 \/ j >= i + 1
      BY ONLY <2>2, <3>2
    <3>4. 8 * j - 1 - q < 8 * i - sh - n \/ 8 * j - 1 - q > 8 * i - sh - 1
      BY ONLY <3>2, <3>3
    <3>5. k \in Int /\ k + n - 1 = 8 * i - sh - 1
      BY <3>2
    <3>6. 8 * j - 1 - q \notin k .. k + n - 1
      BY <3>2, <3>4, <3>5
    <3> QED BY <3>1, <3>6
  <2> QED BY <2>1, <2>2
<1> HIDE DEF m, k
<1>4. n \in Int /\ m \in Buffers /\ k \in Int
  BY <1>1, <1>2
<1>5. m = FlipBits(k, n)
  BY <1>3, <1>4, FlipIff
<1> QED BY <1>5 DEF m, k

\* The flip stages run every run of 1, 2 and 4 bits, and every byte.
LEMMA WalkedRuns ==
  ASSUME BufOK
  PROVE  /\ \A n \in {1, 2, 4} : \A k \in 1 .. 8 * Len(buf) - n + 1 : Walked(FlipBits(k - 1, n))
         /\ \A i \in DOMAIN buf : Walked(FlipBits(8 * (i - 1), 8))
<1>1. Len(buf) \in Nat
  BY DEF BufOK
<1>2. ASSUME NEW n \in {1, 2, 4}, NEW k \in 1 .. 8 * Len(buf) - n + 1
      PROVE  Walked(FlipBits(k - 1, n))
  <2>1. CASE n = 1
    <3>1. k \in 1 .. LastPlace("flip1") /\ FlipBits(k - 1, n) = Mutant("flip1", k, 1)
      BY <1>1, <2>1 DEF LastPlace, Mutant
    <3> QED BY <3>1 DEF Walked
  <2>2. CASE n = 2
    <3>1. k \in 1 .. LastPlace("flip2") /\ FlipBits(k - 1, n) = Mutant("flip2", k, 1)
      BY <1>1, <2>2 DEF LastPlace, Mutant
    <3> QED BY <3>1 DEF Walked
  <2>3. CASE n = 4
    <3>1. k \in 1 .. LastPlace("flip4") /\ FlipBits(k - 1, n) = Mutant("flip4", k, 1)
      BY <1>1, <2>3 DEF LastPlace, Mutant
    <3> QED BY <3>1 DEF Walked
  <2> QED BY <2>1, <2>2, <2>3
<1>3. ASSUME NEW i \in DOMAIN buf PROVE Walked(FlipBits(8 * (i - 1), 8))
  <2>1. i \in 1 .. LastPlace("flip8") /\ FlipBits(8 * (i - 1), 8) = Mutant("flip8", i, 1)
    BY DEF LastPlace, Mutant, BufOK
  <2> QED BY <2>1 DEF Walked
<1> QED BY <1>2, <1>3

\* In a byte, could_be_bitflip accepts walking flips only.
LEMMA ByteFlip ==
  ASSUME BufOK, NEW i \in DOMAIN buf, NEW v \in Byte, v # buf[i], CouldBeBitflip(buf[i], v)
  PROVE  Walked(WithByte(i, v))
<1> DEFINE D == XorByte(buf[i], v)
<1>1. i \in 1 .. Len(buf) /\ Len(buf) \in Nat /\ buf[i] \in Byte
  BY DEF BufOK
<1>2. D = DiffBits(buf[i], v) /\ D # {} /\ D \subseteq 0 .. 7
  BY <1>1, DiffOfBytes, XorNone DEF XorByte
<1> HIDE DEF D
<1>3. \/ \E sh \in 0 .. 15, n \in {1, 2, 4} : D = sh .. sh + n - 1
      \/ \E sh \in {0, 8}, n \in {8, 16} : D = sh .. sh + n - 1
  BY <1>2 DEF CouldBeBitflip
<1>4. CASE \E sh \in 0 .. 15, n \in {1, 2, 4} : D = sh .. sh + n - 1
  <2>1. PICK sh \in 0 .. 15, n \in {1, 2, 4} : D = sh .. sh + n - 1
    BY <1>4
  <2>2. sh + n - 1 \in D
    BY <2>1
  <2>3. sh + n <= 8
    BY <1>2, <2>1, <2>2
  <2>4. WithByte(i, v) = FlipBits(8 * i - sh - n, n)
    BY <2>1, <2>3, RunOfByte DEF D
  <2>5. 8 * i - sh - n + 1 \in 1 .. 8 * Len(buf) - n + 1 /\ (8 * i - sh - n + 1) - 1 = 8 * i - sh - n
    BY <1>1, <2>1, <2>3
  <2> QED BY <2>1, <2>4, <2>5, WalkedRuns
<1>5. CASE \E sh \in {0, 8}, n \in {8, 16} : D = sh .. sh + n - 1
  <2>1. PICK sh \in {0, 8}, n \in {8, 16} : D = sh .. sh + n - 1
    BY <1>5
  <2>2. sh + n - 1 \in D
    BY <2>1
  <2>3. sh = 0 /\ n = 8
    BY <1>2, <2>1, <2>2
  <2>4. sh \in Nat /\ n \in Nat \ {0} /\ sh + n <= 8
    BY <2>3
  <2>5. WithByte(i, v) = FlipBits(8 * i - sh - n, n)
    BY <2>1, <2>4, RunOfByte DEF D
  <2>6. 8 * i - sh - n = 8 * (i - 1)
    BY <1>1, <2>3
  <2> QED BY <2>3, <2>5, <2>6, WalkedRuns
<1> QED BY <1>3, <1>4, <1>5

IsWord(w) == w \in Nat /\ w < 65536

LEMMA WordOfBytes ==
  ASSUME NEW a \in Byte, NEW b \in Byte
  PROVE  IsWord(a + 256 * b) /\ (a + 256 * b) % 256 = a /\ (a + 256 * b) \div 256 = b
BY DEF IsWord, Byte

LEMMA BytesOfWord ==
  ASSUME NEW w, IsWord(w)
  PROVE  w % 256 \in Byte /\ w \div 256 \in Byte /\ w = (w % 256) + 256 * (w \div 256)
BY DEF IsWord, Byte

LEMMA WordType ==
  ASSUME BufOK, NEW i \in WordPlaces, NEW w, IsWord(w)
  PROVE  /\ i \in DOMAIN buf /\ i + 1 \in DOMAIN buf /\ i # i + 1
         /\ buf[i] \in Byte /\ buf[i + 1] \in Byte
         /\ IsWord(Word(i)) /\ Word(i) % 256 = buf[i] /\ Word(i) \div 256 = buf[i + 1]
         /\ WithWord(i, w) \in Buffers
         /\ WithWord(i, w)[i] = w % 256 /\ WithWord(i, w)[i + 1] = w \div 256
         /\ \A j \in DOMAIN buf : j # i /\ j # i + 1 => WithWord(i, w)[j] = buf[j]
<1>1. i \in DOMAIN buf /\ i + 1 \in DOMAIN buf /\ i # i + 1
  BY DEF BufOK, WordPlaces
<1>2. buf[i] \in Byte /\ buf[i + 1] \in Byte
  BY <1>1 DEF BufOK
<1>3. IsWord(Word(i)) /\ Word(i) % 256 = buf[i] /\ Word(i) \div 256 = buf[i + 1]
  BY <1>2, WordOfBytes DEF Word
<1> DEFINE lo == w % 256
           hi == w \div 256
<1>4. lo \in Byte /\ hi \in Byte
  BY BytesOfWord
<1>5. WithWord(i, w) = [buf EXCEPT ![i] = lo, ![i + 1] = hi]
  BY DEF WithWord, U8
<1> HIDE DEF lo, hi
<1>6. /\ WithWord(i, w) \in Buffers
      /\ WithWord(i, w)[i] = lo /\ WithWord(i, w)[i + 1] = hi
      /\ \A j \in DOMAIN buf : j # i /\ j # i + 1 => WithWord(i, w)[j] = buf[j]
  BY <1>1, <1>4, <1>5 DEF Buffers, BufOK
<1> QED BY <1>1, <1>2, <1>3, <1>6 DEF lo, hi

\* A word that changes one byte is that byte.
LEMMA WordIsByte ==
  ASSUME BufOK, NEW i \in WordPlaces, NEW w, IsWord(w)
  PROVE  /\ w \div 256 = buf[i + 1] => WithWord(i, w) = WithByte(i, w % 256)
         /\ w % 256 = buf[i] => WithWord(i, w) = WithByte(i + 1, w \div 256)
<1> DEFINE m == WithWord(i, w)
<1>1. /\ i \in DOMAIN buf /\ i + 1 \in DOMAIN buf /\ i # i + 1
      /\ m \in Buffers /\ m[i] = w % 256 /\ m[i + 1] = w \div 256
      /\ \A j \in DOMAIN buf : j # i /\ j # i + 1 => m[j] = buf[j]
  BY WordType
<1>2. \A j \in DOMAIN buf, v \in Byte :
        /\ WithByte(j, v) \in Buffers
        /\ \A l \in DOMAIN buf : WithByte(j, v)[l] = IF l = j THEN v ELSE buf[l]
  BY ByteType
<1>3. w % 256 \in Byte /\ w \div 256 \in Byte
  BY BytesOfWord
<1> HIDE DEF m
<1>4. ASSUME w \div 256 = buf[i + 1] PROVE m = WithByte(i, w % 256)
  <2>1. WithByte(i, w % 256) \in Buffers
    BY <1>1, <1>2, <1>3
  <2>2. \A l \in DOMAIN buf : WithByte(i, w % 256)[l] = m[l]
    BY <1>1, <1>2, <1>3, <1>4
  <2> QED BY <1>1, <2>1, <2>2 DEF Buffers
<1>5. ASSUME w % 256 = buf[i] PROVE m = WithByte(i + 1, w \div 256)
  <2>1. WithByte(i + 1, w \div 256) \in Buffers
    BY <1>1, <1>2, <1>3
  <2>2. \A l \in DOMAIN buf : WithByte(i + 1, w \div 256)[l] = m[l]
    BY <1>1, <1>2, <1>3, <1>5
  <2> QED BY <1>1, <2>1, <2>2 DEF Buffers
<1> QED BY <1>4, <1>5 DEF m

\* The bytes that a mutant made of a word changes.
LEMMA ChangedByWord ==
  ASSUME BufOK, NEW i \in WordPlaces, NEW w, IsWord(w)
  PROVE  /\ Changed(WithWord(i, w)) = (IF w % 256 # buf[i] THEN {i} ELSE {})
                                         \cup (IF w \div 256 # buf[i + 1] THEN {i + 1} ELSE {})
         /\ MutantWord(i, WithWord(i, w)) = w
<1>1. /\ i \in DOMAIN buf /\ i + 1 \in DOMAIN buf /\ i # i + 1
      /\ WithWord(i, w)[i] = w % 256 /\ WithWord(i, w)[i + 1] = w \div 256
      /\ \A j \in DOMAIN buf : j # i /\ j # i + 1 => WithWord(i, w)[j] = buf[j]
  BY WordType
<1>2. w = (w % 256) + 256 * (w \div 256)
  BY BytesOfWord
<1> QED BY <1>1, <1>2 DEF Changed, MutantWord

\* In a word it accepts walking flips, the flip of the whole word, and runs across
\* the border of the two bytes.
LEMMA WordFlip ==
  ASSUME BufOK, NEW i \in WordPlaces, NEW w, IsWord(w), w # Word(i),
         CouldBeBitflip(Word(i), w)
  PROVE  \/ Walked(WithWord(i, w))
         \/ WithWord(i, w) = FlipBits(8 * (i - 1), 16)
         \/ /\ Changed(WithWord(i, w)) = {i, i + 1}
            /\ DiffBits(Word(i), w) \in AcrossBorder
<1> DEFINE D == DiffBits(Word(i), w)
           lo == w % 256
           hi == w \div 256
           X == XorByte(buf[i], lo)
           Y == XorByte(buf[i + 1], hi)
           m == WithWord(i, w)
<1>1. /\ i \in DOMAIN buf /\ i + 1 \in DOMAIN buf /\ i # i + 1
      /\ buf[i] \in Byte /\ buf[i + 1] \in Byte /\ lo \in Byte /\ hi \in Byte
      /\ m \in Buffers /\ m[i] = lo /\ m[i + 1] = hi
      /\ \A j \in DOMAIN buf : j # i /\ j # i + 1 => m[j] = buf[j]
  BY WordType, BytesOfWord
<1>2. /\ D \subseteq 0 .. 15
      /\ \A q \in 0 .. 7 : q \in D <=> q \in X
      /\ \A q \in 8 .. 15 : q \in D <=> q - 8 \in Y
  <2> DEFINE W == Word(i)
  <2>1. IsWord(W) /\ W % 256 = buf[i] /\ W \div 256 = buf[i + 1]
    BY WordType
  <2> HIDE DEF W
  <2>2. W \in Nat /\ w \in Nat
    BY <2>1 DEF IsWord
  <2>3. /\ DiffBits(W, w) \subseteq 0 .. 15
        /\ \A q \in 0 .. 7 : q \in DiffBits(W, w) <=> q \in XorByte(W % 256, w % 256)
        /\ \A q \in 8 .. 15 :
             q \in DiffBits(W, w) <=> q - 8 \in XorByte(W \div 256, w \div 256)
    BY <2>2, DiffOfWords
  <2>4. /\ X = XorByte(W % 256, w % 256)
        /\ Y = XorByte(W \div 256, w \div 256)
        /\ D = DiffBits(W, w)
    BY <2>1 DEF W
  <2> HIDE DEF D, X, Y
  <2> QED BY <2>3, <2>4
<1>3. X \subseteq 0 .. 7 /\ Y \subseteq 0 .. 7
  BY DEF XorByte
<1>4. /\ X = {} <=> lo = buf[i]
      /\ Y = {} <=> hi = buf[i + 1]
  BY <1>1, XorNone
<1>5. ~(lo = buf[i] /\ hi = buf[i + 1])
  <2>1. w = lo + 256 * hi /\ Word(i) = buf[i] + 256 * buf[i + 1]
    BY BytesOfWord DEF Word
  <2> QED BY <2>1
<1>6. /\ hi = buf[i + 1] => m = WithByte(i, lo)
      /\ lo = buf[i] => m = WithByte(i + 1, hi)
  BY WordIsByte
<1>7. /\ X = DiffBits(buf[i], lo)
      /\ Y = DiffBits(buf[i + 1], hi)
  BY <1>1, DiffOfBytes
<1>8. Changed(m) = (IF lo # buf[i] THEN {i} ELSE {}) \cup (IF hi # buf[i + 1] THEN {i + 1} ELSE {})
  BY ChangedByWord
<1>9. \/ D = {}
      \/ \E sh \in 0 .. 15, n \in {1, 2, 4} : D = sh .. sh + n - 1
      \/ \E sh \in {0, 8}, n \in {8, 16} : D = sh .. sh + n - 1
  BY DEF CouldBeBitflip
<1> HIDE DEF D, lo, hi, X, Y, m
<1>10. D # {}
  <2> SUFFICES ASSUME D = {} PROVE FALSE
    OBVIOUS
  <2>1. X = {}
    BY <1>2, <1>3
  <2>2. \A q \in 0 .. 7 : q + 8 \in 8 .. 15 /\ (q + 8) - 8 = q
    OBVIOUS
  <2>3. Y = {}
    BY <1>2, <1>3, <2>2
  <2> QED BY <1>4, <1>5, <2>1, <2>3
<1>11. PICK sh \in 0 .. 15, n \in {1, 2, 4, 8, 16} :
         /\ D = sh .. sh + n - 1
         /\ n \in {8, 16} => sh \in {0, 8}
  BY <1>9, <1>10
<1>12. sh + n <= 16
  <2>1. sh + n - 1 \in D
    BY <1>11
  <2> QED BY <1>2, <1>11, <2>1
<1>13. CASE sh + n <= 8
  <2>1. D \subseteq 0 .. 7
    BY <1>11, <1>13
  <2>2. X = D
    BY <1>2, <1>3, <2>1
  <2>3. Y = {}
    <3>1. \A q \in 0 .. 7 : q + 8 \in 8 .. 15 /\ (q + 8) - 8 = q /\ q + 8 \notin 0 .. 7
      OBVIOUS
    <3> QED BY <1>2, <1>3, <2>1, <3>1
  <2>4. CouldBeBitflip(buf[i], lo)
    <3>1. DiffBits(buf[i], lo) = D
      BY <1>7, <2>2
    <3> QED BY <1>9, <3>1 DEF CouldBeBitflip
  <2>5. Walked(WithByte(i, lo))
    BY <1>1, <1>4, <1>5, <2>3, <2>4, ByteFlip
  <2> QED BY <1>4, <1>6, <2>3, <2>5 DEF m
<1>14. CASE sh >= 8
  <2>1. D \subseteq 8 .. 15
    BY <1>2, <1>11, <1>14
  <2>2. X = {}
    <3>1. \A q \in 0 .. 7 : q \notin 8 .. 15
      OBVIOUS
    <3> QED BY <1>2, <1>3, <2>1, <3>1
  <2>3. Y = (sh - 8) .. (sh - 8) + n - 1
    <3>1. \A q \in 0 .. 7 : q \in Y <=> q + 8 \in D
      <4>1. \A q \in 0 .. 7 : q + 8 \in 8 .. 15 /\ (q + 8) - 8 = q
        OBVIOUS
      <4> QED BY <1>2, <4>1
    <3>2. \A q \in 0 .. 7 : q + 8 \in D <=> q \in (sh - 8) .. (sh - 8) + n - 1
      BY <1>11, <1>12, <1>14
    <3>3. (sh - 8) .. (sh - 8) + n - 1 \subseteq 0 .. 7
      BY <1>11, <1>12, <1>14
    <3> QED BY <1>3, <3>1, <3>2, <3>3
  <2>4. CouldBeBitflip(buf[i + 1], hi)
    <3>1. DiffBits(buf[i + 1], hi) = (sh - 8) .. (sh - 8) + n - 1 /\ sh - 8 \in 0 .. 15
      BY <1>7, <1>14, <2>3
    <3>2. n \in {1, 2, 4} \/ (n \in {8, 16} /\ sh - 8 \in {0, 8})
      BY <1>11, <1>14
    <3> QED BY <3>1, <3>2 DEF CouldBeBitflip
  <2>5. Walked(WithByte(i + 1, hi))
    BY <1>1, <1>4, <1>5, <2>2, <2>4, ByteFlip
  <2> QED BY <1>4, <1>6, <2>2, <2>5 DEF m
<1>15. CASE n = 16
  <2>1. D = 0 .. 15
    BY <1>11, <1>12, <1>15
  <2>2. X = 0 .. 7
    <3>1. 0 .. 7 \subseteq 0 .. 15
      OBVIOUS
    <3> QED BY <1>2, <1>3, <2>1, <3>1
  <2>3. Y = 0 .. 7
    <3>1. \A q \in 0 .. 7 : q + 8 \in 8 .. 15 /\ (q + 8) - 8 = q /\ q + 8 \in 0 .. 15
      OBVIOUS
    <3> QED BY <1>2, <1>3, <2>1, <3>1
  <2> DEFINE k == 8 * (i - 1)
  <2>4. k \in Int /\ 16 \in Int
    BY DEF WordPlaces
  <2>5. ASSUME NEW j \in DOMAIN buf, NEW q \in 0 .. 7
        PROVE  q \in XorByte(buf[j], m[j])
                 <=> 8 * j - 1 - q \in k .. k + 16 - 1
    <3>1. i \in Int /\ j \in Int
      BY <1>1 DEF BufOK
    <3>2. CASE j = i \/ j = i + 1
      <4>1. q \in XorByte(buf[j], m[j])
        BY <1>1, <2>2, <2>3, <3>2 DEF X, Y
      <4>2. 8 * j - 1 - q \in k .. k + 16 - 1
        BY <3>1, <3>2
      <4> QED BY <4>1, <4>2
    <3>3. CASE j # i /\ j # i + 1
      <4>1. buf[j] \in Byte /\ m[j] = buf[j]
        BY <1>1, <3>3 DEF BufOK
      <4>2. XorByte(buf[j], m[j]) = {}
        BY <4>1, XorNone
      <4>3. 8 * j - 1 - q \notin k .. k + 16 - 1
        BY <3>1, <3>3
      <4> QED BY <4>2, <4>3
    <3> QED BY <3>2, <3>3
  <2> HIDE DEF k
  <2>6. m = FlipBits(k, 16)
    BY <1>1, <2>4, <2>5, FlipIff
  <2> QED BY <2>6 DEF m, k
<1>16. CASE n \in {2, 4} /\ sh < 8 /\ sh + n > 8
  <2>1. D \in AcrossBorder
    <3>1. (n = 2 /\ sh = 7) \/ (n = 4 /\ sh \in {5, 6, 7})
      BY <1>16
    <3>2. CASE n = 2 /\ sh = 7
      BY <1>11, <3>2 DEF AcrossBorder
    <3>3. CASE n = 4 /\ sh \in {5, 6, 7}
      BY <1>11, <3>3 DEF AcrossBorder
    <3> QED BY <3>1, <3>2, <3>3
  <2>2. 7 \in X
    <3>1. 7 \in D /\ 7 \in 0 .. 7
      BY <1>11, <1>16
    <3> QED BY <1>2, <3>1
  <2>3. 0 \in Y
    <3>1. 8 \in D /\ 8 \in 8 .. 15 /\ 8 - 8 = 0
      BY <1>11, <1>16
    <3> QED BY <1>2, <3>1
  <2>4. Changed(m) = {i, i + 1}
    BY <1>4, <1>8, <2>2, <2>3
  <2> QED BY <2>1, <2>4 DEF m, D
<1> QED BY <1>11, <1>12, <1>13, <1>14, <1>15, <1>16

-----------------------------------------------------------------------------
(* Types.                                                                  *)

LEMMA StageNames ==
  /\ DOMAIN After = {"flip1", "flip2", "flip4", "flip8", "flip16",
                     "arith8", "arith16", "int8", "int16"}
  /\ After["flip1"] = "flip2" /\ After["flip2"] = "flip4" /\ After["flip4"] = "flip8"
  /\ After["flip8"] = "flip16" /\ After["flip16"] = "arith8" /\ After["arith8"] = "arith16"
  /\ After["arith16"] = "int8" /\ After["int8"] = "int16" /\ After["int16"] = "done"
BY DEF After

LEMMA Sizes ==
  /\ Len(Interesting8) \in Nat \ {0} /\ DOMAIN Interesting8 = 1 .. Len(Interesting8)
  /\ Len(Interesting16) \in Nat \ {0} /\ DOMAIN Interesting16 = 1 .. Len(Interesting16)
  /\ ArithMax \in Nat /\ 1 <= ArithMax /\ ArithMax <= 127
<1>1. ASSUME NEW S, NEW t \in Seq(S), t # <<>>
      PROVE  Len(t) \in Nat \ {0} /\ DOMAIN t = 1 .. Len(t)
  BY <1>1
<1>2. /\ Interesting8 \in Seq(Int) /\ Interesting8 # <<>>
      /\ Interesting16 \in Seq(Int) /\ Interesting16 # <<>>
  BY InterestingAssumption
<1>3. Len(Interesting8) \in Nat \ {0} /\ DOMAIN Interesting8 = 1 .. Len(Interesting8)
  BY <1>1, <1>2
<1>4. Len(Interesting16) \in Nat \ {0} /\ DOMAIN Interesting16 = 1 .. Len(Interesting16)
  BY <1>1, <1>2
<1>5. ArithMax \in Nat /\ 1 <= ArithMax /\ ArithMax <= 127
  BY ArithAssumption
<1> QED BY <1>3, <1>4, <1>5

LEMMA Entries ==
  /\ \A j \in DOMAIN Interesting8 :
       Interesting8[j] \in Int /\ -128 <= Interesting8[j] /\ Interesting8[j] <= 127
  /\ \A j \in DOMAIN Interesting16 :
       Interesting16[j] \in Int /\ -32768 <= Interesting16[j] /\ Interesting16[j] <= 32767
<1>1. ASSUME NEW t \in Seq(Int), NEW j \in DOMAIN t PROVE t[j] \in Int
  OBVIOUS
<1>2. Interesting8 \in Seq(Int) /\ Interesting16 \in Seq(Int)
  BY InterestingAssumption
<1> QED BY <1>1, <1>2, InterestingAssumption

LEMMA LoopBounds ==
  ASSUME BufOK, NEW s \in DOMAIN After
  PROVE  LastPlace(s) \in Nat /\ Variants(s) \in Nat \ {0}
<1>1. s \in {"flip1", "flip2", "flip4", "flip8", "flip16",
             "arith8", "arith16", "int8", "int16"}
  BY StageNames
<1> DEFINE L == Len(buf)
<1>2. L \in Nat /\ 1 <= L
  <2>1. L \in {1, 2, 3}
    BY DEF BufOK
  <2> QED BY <2>1
<1>3. LastPlace(s) \in {8 * L, 8 * L - 1, 8 * L - 3, L, L - 1}
  BY <1>1 DEF LastPlace
<1> DEFINE M == Len(Interesting8)
           N == Len(Interesting16)
<1>4. M \in Nat \ {0} /\ N \in Nat \ {0} /\ ArithMax \in Nat \ {0}
  BY Sizes
<1>5. Variants(s) \in {2 * ArithMax, 4 * ArithMax, M, 2 * N, 1}
  BY <1>1 DEF Variants
<1> HIDE DEF L, M, N
<1>6. LastPlace(s) \in Nat
  BY <1>2, <1>3
<1>7. Variants(s) \in Nat \ {0}
  BY <1>4, <1>5
<1> QED BY <1>6, <1>7

LEMMA Numbers ==
  /\ \A v \in Int : U8(v) \in Byte
  /\ \A v \in Int : IsWord(U16(v))
  /\ \A w : IsWord(w) => IsWord(Swap16(w)) /\ Swap16(Swap16(w)) = w
  /\ \A w : IsWord(w) => Swap16(w) % 256 = w \div 256 /\ Swap16(w) \div 256 = w % 256
<1>1. \A v \in Int : U8(v) \in Byte
  BY DEF U8, Byte
<1>2. \A v \in Int : IsWord(U16(v))
  BY DEF U16, IsWord
<1>3. ASSUME NEW w, IsWord(w)
      PROVE  /\ IsWord(Swap16(w)) /\ Swap16(Swap16(w)) = w
             /\ Swap16(w) % 256 = w \div 256 /\ Swap16(w) \div 256 = w % 256
  <2> DEFINE lo == w % 256
             hi == w \div 256
             x == Swap16(w)
  <2>1. lo \in Byte /\ hi \in Byte /\ w = lo + 256 * hi
    BY <1>3, BytesOfWord
  <2>2. x = lo * 256 + hi
    BY DEF Swap16, U8
  <2> HIDE DEF lo, hi, x
  <2>3. x = hi + 256 * lo
    BY <2>1, <2>2 DEF Byte
  <2>4. IsWord(x) /\ x % 256 = hi /\ x \div 256 = lo
    BY <2>1, <2>3, WordOfBytes
  <2>5. Swap16(x) = hi * 256 + lo
    BY <2>4 DEF Swap16, U8
  <2>6. Swap16(x) = w
    BY <2>1, <2>5 DEF Byte
  <2> QED BY <2>4, <2>6 DEF x, lo, hi
<1> QED BY <1>1, <1>2, <1>3

LEMMA Deltas ==
  /\ \A v \in Nat : Delta8(v) \in Int /\ Delta16(v) \in Int
BY DEF Delta8, Delta16

LEMMA SumTypes ==
  ASSUME NEW v \in Nat
  PROVE  /\ \A b \in Byte : Sum8(b, v) \in Byte
         /\ \A w : IsWord(w) => IsWord(Sum16(w, v))
         /\ v \in 1 .. 2 * Len(Interesting16) => IsWord(Number16(v))
<1>1. ASSUME NEW b \in Byte PROVE Sum8(b, v) \in Byte
  <2>1. b + Delta8(v) \in Int
    BY Deltas DEF Byte
  <2> QED BY <2>1, Numbers DEF Sum8
<1>2. ASSUME NEW w, IsWord(w) PROVE IsWord(Sum16(w, v))
  <2>1. w + Delta16(v) \in Int /\ Swap16(w) + Delta16(v) \in Int
    <3>1. IsWord(Swap16(w))
      BY <1>2, Numbers
    <3> QED BY <1>2, <3>1, Deltas DEF IsWord
  <2> QED BY <2>1, Numbers DEF Sum16
<1>3. ASSUME v \in 1 .. 2 * Len(Interesting16) PROVE IsWord(Number16(v))
  <2>1. Len(Interesting16) \in Nat /\ DOMAIN Interesting16 = 1 .. Len(Interesting16)
    BY Sizes
  <2>2. (v + 1) \div 2 \in DOMAIN Interesting16
    BY <1>3, <2>1
  <2> DEFINE j == (v + 1) \div 2
  <2> HIDE DEF j
  <2>3. j \in DOMAIN Interesting16
    BY <2>2 DEF j
  <2>4. Interesting16[j] \in Int
    BY <2>3, Entries
  <2>5. IsWord(U16(Interesting16[j]))
    BY <2>4, Numbers
  <2>6. IsWord(Swap16(U16(Interesting16[j])))
    BY <2>5, Numbers
  <2> QED BY <2>5, <2>6 DEF Number16, j
<1> QED BY <1>1, <1>2, <1>3

LEMMA MutantType ==
  ASSUME BufOK, NEW s \in DOMAIN After, NEW p \in 1 .. LastPlace(s), NEW v \in 1 .. Variants(s)
  PROVE  Mutant(s, p, v) \in Buffers
<1>1. v \in Nat /\ s \in {"flip1", "flip2", "flip4", "flip8", "flip16",
                          "arith8", "arith16", "int8", "int16"}
  BY LoopBounds, StageNames
<1>2. CASE s \in {"flip1", "flip2", "flip4", "flip8", "flip16"}
  BY <1>2, FlipType DEF Mutant
<1>3. CASE s = "arith8"
  <2>1. p \in DOMAIN buf
    BY <1>3 DEF LastPlace, BufOK
  <2>2. Sum8(buf[p], v) \in Byte
    BY <1>1, <2>1, SumTypes DEF BufOK
  <2> QED BY <1>3, <2>1, <2>2, ByteType DEF Mutant
<1>4. CASE s = "arith16"
  <2>1. p \in WordPlaces
    BY <1>4 DEF LastPlace, BufOK, WordPlaces
  <2>2. IsWord(0)
    BY DEF IsWord
  <2>3. IsWord(Word(p))
    BY <2>1, <2>2, WordType
  <2>4. IsWord(Sum16(Word(p), v))
    BY <1>1, <2>3, SumTypes
  <2> QED BY <1>4, <2>1, <2>4, WordType DEF Mutant
<1>5. CASE s = "int8"
  <2>1. p \in DOMAIN buf
    BY <1>5 DEF LastPlace, BufOK
  <2>2. v \in DOMAIN Interesting8
    BY <1>5, Sizes DEF Variants
  <2>3. Interesting8[v] \in Int
    BY <2>2, Entries
  <2>4. U8(Interesting8[v]) \in Byte
    BY <2>3, Numbers
  <2> QED BY <1>5, <2>1, <2>4, ByteType DEF Mutant
<1>6. CASE s = "int16"
  <2>1. p \in WordPlaces
    BY <1>6 DEF LastPlace, BufOK, WordPlaces
  <2>2. IsWord(Number16(v))
    BY <1>1, <1>6, SumTypes DEF Variants
  <2> QED BY <1>6, <2>1, <2>2, WordType DEF Mutant
<1> QED BY <1>1, <1>2, <1>3, <1>4, <1>5, <1>6

LEMMA TypeBuf == TypeOK => BufOK
BY InputsAssumption DEF TypeOK, BufOK

LEMMA AposIn ==
  ASSUME BufOK
  PROVE  Alen \in Nat \ {0} /\ \A i \in DOMAIN buf : Apos(i) \in 1 .. Alen
<1> DEFINE L == Len(buf)
<1>1. L \in Nat /\ L >= 1 /\ DOMAIN buf = 1 .. L
  <2>1. L \in {1, 2, 3} /\ DOMAIN buf = 1 .. L
    BY DEF BufOK
  <2> QED BY <2>1
<1>2. \A c \in Nat \ {0} : \A a, b \in Nat : a <= b => a \div c \in Nat /\ a \div c <= b \div c
  OBVIOUS
<1>3. EffChunk \in Nat \ {0}
  BY EffAssumption
<1>4. Alen = (L - 1) \div EffChunk + 1
  BY DEF Alen, Apos
<1> HIDE DEF L
<1>5. ASSUME NEW i \in 1 .. L PROVE (i - 1) \div EffChunk + 1 \in 1 .. (L - 1) \div EffChunk + 1
  <2> DEFINE a == i - 1
             b == L - 1
  <2>1. a \in Nat /\ b \in Nat /\ a <= b
    BY <1>1
  <2> HIDE DEF a, b
  <2>2. a \div EffChunk \in Nat /\ b \div EffChunk \in Nat /\ a \div EffChunk <= b \div EffChunk
    BY <1>2, <1>3, <2>1
  <2>3. a \div EffChunk + 1 \in 1 .. b \div EffChunk + 1
    BY <2>2
  <2> QED BY <2>3 DEF a, b
<1>6. L \in 1 .. L
  BY <1>1
<1>7. (L - 1) \div EffChunk + 1 \in Nat \ {0}
  <2>1. L - 1 \in Nat /\ L - 1 <= L - 1
    BY <1>1
  <2>2. (L - 1) \div EffChunk \in Nat
    BY <1>2, <1>3, <2>1
  <2> QED BY <2>2
<1> QED BY <1>1, <1>4, <1>5, <1>7 DEF Apos

LEMMA TypeInit == Init => TypeOK
<1> SUFFICES ASSUME Init PROVE TypeOK
  OBVIOUS
<1>1. BufOK
  BY InputsAssumption DEF Init, BufOK
<1>2. stage = "flip1" /\ "flip1" \in DOMAIN After
  BY StageNames DEF Init
<1>3. place \in 1 .. LastPlace(stage) + 1 /\ variant \in 1 .. Variants(stage)
  BY <1>1, <1>2, LoopBounds DEF Init
<1> QED BY <1>2, <1>3 DEF Init, TypeOK

LEMMA AdvanceType ==
  ASSUME BufOK, Advance, stage \in DOMAIN After, place \in 1 .. LastPlace(stage),
         variant \in 1 .. Variants(stage)
  PROVE  place' \in 1 .. LastPlace(stage) + 1 /\ variant' \in 1 .. Variants(stage)
<1>1. LastPlace(stage) \in Nat /\ Variants(stage) \in Nat \ {0}
  BY LoopBounds
<1> QED BY <1>1 DEF Advance

LEMMA TypeStep == TypeOK /\ [Next]_vars => TypeOK'
<1> SUFFICES ASSUME TypeOK, [Next]_vars PROVE TypeOK'
  OBVIOUS
<1>1. BufOK
  BY TypeBuf
<1>2. ASSUME UNCHANGED <<buf, stage>>
      PROVE  stage \in DOMAIN After => LastPlace(stage)' = LastPlace(stage)
  BY <1>2 DEF LastPlace
<1>3. UNCHANGED buf => Alen' = Alen
  BY DEF Alen, Apos
<1>4. InStage => place \in 1 .. LastPlace(stage)
  BY <1>1, LoopBounds DEF InStage, TypeOK
<1>5. CASE Exec
  <2>1. Mutant(stage, place, variant) \in Buffers
    BY <1>1, <1>4, <1>5, MutantType DEF Exec, InStage, TypeOK
  <2>2. executed' \subseteq [DOMAIN buf' -> Byte] /\ repeated' \subseteq executed'
    BY <1>5, <2>1 DEF Exec, TypeOK, Buffers
  <2>3. place' \in 1 .. LastPlace(stage) + 1 /\ variant' \in 1 .. Variants(stage)
    BY <1>1, <1>4, <1>5, AdvanceType DEF Exec, InStage, TypeOK
  <2>4. eff_map' \in [1 .. Alen -> BOOLEAN]
    BY <1>5 DEF Exec, TypeOK
  <2>5. UNCHANGED <<buf, stage>> /\ stage \in DOMAIN After
    BY <1>5 DEF Exec, InStage
  <2> QED BY <1>2, <1>3, <2>2, <2>3, <2>4, <2>5 DEF TypeOK
<1>6. CASE Skip
  <2>1. place' \in 1 .. LastPlace(stage) + 1 /\ variant' \in 1 .. Variants(stage)
    BY <1>1, <1>4, <1>6, AdvanceType DEF Skip, InStage, TypeOK
  <2>2. UNCHANGED <<buf, stage, eff_map, executed, repeated>> /\ stage \in DOMAIN After
    BY <1>6 DEF Skip, InStage
  <2> QED BY <1>2, <1>3, <2>1, <2>2 DEF TypeOK
<1>7. CASE NextStage
  <2>1. stage' \in DOMAIN After \cup {"done"}
    BY <1>7, StageNames DEF NextStage
  <2>2. UNCHANGED buf /\ place' = 1 /\ variant' = 1 /\ UNCHANGED <<executed, repeated>>
    BY <1>7 DEF NextStage
  <2>3. ASSUME stage' \in DOMAIN After
        PROVE  place' \in 1 .. LastPlace(stage)' + 1 /\ variant' \in 1 .. Variants(stage')
    <3>1. \A s \in DOMAIN After : LastPlace(s) \in Nat /\ Variants(s) \in Nat \ {0}
      BY <1>1, LoopBounds
    <3>2. LastPlace(stage)' \in Nat
      <4> DEFINE L == Len(buf)
      <4>1. L \in {1, 2, 3}
        BY <1>1 DEF BufOK
      <4>2. LastPlace(stage)' \in {8 * L, 8 * L - 1, 8 * L - 3, L, L - 1}
        BY <2>2, <2>3, StageNames DEF LastPlace
      <4> HIDE DEF L
      <4> QED BY <4>1, <4>2
    <3> QED BY <2>2, <2>3, <3>1, <3>2
  <2>4. eff_map' \in [1 .. Alen -> BOOLEAN]
    BY <1>7 DEF NextStage, TypeOK
  <2> QED BY <1>3, <2>1, <2>2, <2>3, <2>4 DEF TypeOK
<1>8. CASE Abandon
  <2>1. stage' = "abandoned" /\ UNCHANGED <<buf, eff_map, executed, repeated>>
    BY <1>8 DEF Abandon
  <2>2. "abandoned" \notin DOMAIN After
    BY StageNames
  <2> QED BY <1>3, <2>1, <2>2 DEF TypeOK
<1>9. CASE UNCHANGED vars
  BY <1>2, <1>3, <1>9 DEF vars, TypeOK
<1> QED BY <1>5, <1>6, <1>7, <1>8, <1>9 DEF Next

\* Whatever the input, the loops stay within their bounds, the effector map has one
\* flag per chunk, and every buffer the target is run on is as long as the input and
\* made of bytes.
THEOREM TypeCorrect == Spec => []TypeOK
<1>1. Init => TypeOK
  BY TypeInit
<1>2. TypeOK /\ [Next]_vars => TypeOK'
  BY TypeStep
<1> QED BY <1>1, <1>2, PTL DEF Spec

-----------------------------------------------------------------------------
(* What was run: the slots (stage, place, variant) that the loops have     *)
(* passed and that no filter rejects.                                      *)

Rank == [flip1 |-> 1, flip2 |-> 2, flip4 |-> 3, flip8 |-> 4, flip16 |-> 5, arith8 |-> 6,
         arith16 |-> 7, int8 |-> 8, int16 |-> 9, done |-> 10, abandoned |-> 10]

Past(s, p, v) ==
  \/ Rank[s] < Rank[stage]
  \/ s = stage /\ (p < place \/ (p = place /\ v < variant))

\* Unless the entry is abandoned, the target was run on all of them.
RunInv ==
  stage # "abandoned" =>
    \A s \in DOMAIN After : \A p \in 1 .. LastPlace(s), v \in 1 .. Variants(s) :
      Past(s, p, v) /\ New(s, p, v) => Mutant(s, p, v) \in executed

\* And on nothing else.
Provenance ==
  \A m \in executed : \E s \in DOMAIN After : \E p \in 1 .. LastPlace(s), v \in 1 .. Variants(s) :
    Past(s, p, v) /\ New(s, p, v) /\ m = Mutant(s, p, v)

LEMMA Ranks ==
  /\ \A s \in DOMAIN After : Rank[s] \in 1 .. 9 /\ Rank[After[s]] = Rank[s] + 1
  /\ \A s, t \in DOMAIN After : Rank[s] = Rank[t] => s = t
  /\ Rank["done"] = 10 /\ Rank["abandoned"] = 10
  /\ \A s \in DOMAIN After : Rank[s] <= Rank["flip8"] <=> s \in {"flip1", "flip2", "flip4", "flip8"}
BY StageNames DEF Rank

\* The input and what the stages make of it do not change.
LEMMA SameMutants ==
  ASSUME UNCHANGED buf, NEW s \in DOMAIN After
  PROVE  /\ LastPlace(s)' = LastPlace(s)
         /\ \A p, v : Mutant(s, p, v)' = Mutant(s, p, v)
BY DEF LastPlace, Mutant, FlipBits, WithByte, WithWord, Word

LEMMA BufUnchanged == [Next]_vars => UNCHANGED buf
BY DEF Next, Exec, Skip, NextStage, Abandon, vars

\* The effector map is settled before a stage asks for it.
LEMMA NewStable ==
  ASSUME TypeOK, [Next]_vars, NEW s \in DOMAIN After, Rank[s] <= Rank[stage], NEW p, NEW v
  PROVE  New(s, p, v)' <=> New(s, p, v)
<1>1. UNCHANGED buf
  BY BufUnchanged
<1>2. CASE UNCHANGED eff_map
  BY <1>1, <1>2 DEF New, EffWord, EffByte, Word, Apos
<1>3. CASE eff_map' # eff_map
  <2>1. stage = "flip8"
    BY <1>3 DEF Next, Exec, Skip, NextStage, Abandon, vars
  <2>2. s \in {"flip1", "flip2", "flip4", "flip8"}
    BY <2>1, Ranks
  <2> QED BY <2>2 DEF New
<1> QED BY <1>2, <1>3

\* A turn of the loops passes the slot it is at, and no other.
LEMMA AdvancePast ==
  ASSUME TypeOK, InStage, Advance, UNCHANGED <<buf, stage>>, NEW s \in DOMAIN After,
         NEW p \in 1 .. LastPlace(s), NEW v \in 1 .. Variants(s)
  PROVE  Past(s, p, v)' <=> Past(s, p, v) \/ (s = stage /\ p = place /\ v = variant)
<1>1. BufOK
  BY TypeBuf
<1>2. /\ stage \in DOMAIN After
      /\ \A t \in DOMAIN After : LastPlace(t) \in Nat /\ Variants(t) \in Nat \ {0}
  BY <1>1, LoopBounds DEF InStage
<1>3. place \in Nat /\ variant \in Nat /\ variant <= Variants(stage)
  BY <1>2 DEF TypeOK
<1>4. p \in Nat /\ v \in Nat /\ 1 <= v /\ v <= Variants(s)
  BY <1>2
<1>5. Rank[stage]' = Rank[stage]
  OBVIOUS
<1>6. CASE s = stage
  <2>1. \/ variant < Variants(stage) /\ variant' = variant + 1 /\ place' = place
        \/ variant = Variants(stage) /\ variant' = 1 /\ place' = place + 1
    BY <1>2, <1>3 DEF Advance
  <2>2. v <= Variants(stage) /\ Variants(stage) \in Nat
    BY <1>2, <1>4, <1>6
  <2>3. (p < place' \/ (p = place' /\ v < variant'))
          <=> (p < place \/ (p = place /\ v < variant)) \/ (p = place /\ v = variant)
    BY <1>3, <1>4, <2>1, <2>2
  <2>4. ~(Rank[s] < Rank[stage])
    BY <1>2, <1>6, Ranks
  <2> QED BY <1>5, <1>6, <2>3, <2>4 DEF Past
<1>7. CASE s # stage
  BY <1>5, <1>7 DEF Past
<1> QED BY <1>6, <1>7

\* Nor does the end of a stage pass any.
LEMMA NextPast ==
  ASSUME TypeOK, NextStage, NEW s \in DOMAIN After,
         NEW p \in 1 .. LastPlace(s), NEW v \in 1 .. Variants(s)
  PROVE  Past(s, p, v)' <=> Past(s, p, v)
<1>1. BufOK
  BY TypeBuf
<1>2. /\ stage \in DOMAIN After /\ place > LastPlace(stage) /\ stage' = After[stage]
      /\ place' = 1 /\ variant' = 1
  BY DEF NextStage
<1>3. /\ LastPlace(s) \in Nat /\ Variants(s) \in Nat \ {0} /\ LastPlace(stage) \in Nat
      /\ place \in Int
  BY <1>1, <1>2, LoopBounds DEF TypeOK
<1>4. /\ Rank[stage] \in Int /\ Rank[s] \in Int /\ Rank[stage'] = Rank[stage] + 1
      /\ Rank[s] = Rank[stage] => s = stage
  BY <1>2, Ranks
<1>5. s = stage => p < place
  BY <1>2, <1>3
<1>6. s = stage' => ~(p < 1 \/ (p = 1 /\ v < 1))
  BY <1>3
<1>7. Past(s, p, v) <=> Rank[s] < Rank[stage] \/ s = stage
  BY <1>5 DEF Past
<1>8. Past(s, p, v)' <=> Rank[s] < Rank[stage']
  BY <1>2, <1>6 DEF Past
<1> QED BY <1>4, <1>7, <1>8

LEMMA RunInit == Init => RunInv /\ Provenance
<1> SUFFICES ASSUME Init PROVE RunInv /\ Provenance
  OBVIOUS
<1>1. BufOK
  BY TypeInit, TypeBuf
<1>2. ASSUME NEW s \in DOMAIN After, NEW p \in 1 .. LastPlace(s), NEW v \in 1 .. Variants(s)
      PROVE  ~Past(s, p, v)
  <2>1. stage = "flip1" /\ place = 1 /\ variant = 1 /\ Rank["flip1"] = 1 /\ Rank[s] >= 1
    BY Ranks DEF Init, Rank
  <2>2. p >= 1 /\ v >= 1 /\ p \in Int /\ v \in Int
    BY <1>1, LoopBounds
  <2>3. ~(Rank[s] < Rank[stage])
    BY <2>1, Ranks
  <2>4. ~(p < place \/ (p = place /\ v < variant))
    BY <2>1, <2>2
  <2> QED BY <2>3, <2>4 DEF Past
<1> QED BY <1>2 DEF RunInv, Provenance, Init

\* Once a slot is passed, it stays so.
LEMMA PastStays ==
  ASSUME TypeOK, [Next]_vars, NEW s \in DOMAIN After,
         NEW p \in 1 .. LastPlace(s), NEW v \in 1 .. Variants(s), Past(s, p, v)
  PROVE  Past(s, p, v)' /\ Rank[s] <= Rank[stage]
<1>1. Rank[s] <= Rank[stage]
  <2>1. Rank[s] \in Int /\ stage \in DOMAIN After \cup {"done", "abandoned"}
    BY Ranks DEF TypeOK
  <2>2. Rank[stage] \in Int
    BY <2>1, Ranks
  <2> QED BY <2>1, <2>2 DEF Past
<1>2. CASE Exec \/ Skip
  <2>1. InStage /\ Advance /\ UNCHANGED <<buf, stage>>
    BY <1>2 DEF Exec, Skip
  <2> QED BY <1>1, <2>1, AdvancePast
<1>3. CASE NextStage
  BY <1>1, <1>3, NextPast
<1>4. CASE Abandon
  BY <1>1, <1>4, Ranks DEF Abandon, Past
<1>5. CASE UNCHANGED vars
  BY <1>1, <1>5 DEF vars, Past
<1> QED BY <1>2, <1>3, <1>4, <1>5 DEF Next

LEMMA RunStep == TypeOK /\ RunInv /\ [Next]_vars => RunInv'
<1> SUFFICES ASSUME TypeOK, RunInv, [Next]_vars, stage' # "abandoned",
                    NEW s \in DOMAIN After, NEW p \in 1 .. LastPlace(s),
                    NEW v \in 1 .. Variants(s), Past(s, p, v)', New(s, p, v)'
             PROVE  Mutant(s, p, v) \in executed'
  BY SameMutants, BufUnchanged DEF RunInv
<1>1. stage # "abandoned"
  BY StageNames DEF Next, Exec, Skip, NextStage, Abandon, InStage, vars
<1>2. executed \subseteq executed'
  BY DEF Next, Exec, Skip, NextStage, Abandon, vars
<1>3. CASE Past(s, p, v)
  <2>1. New(s, p, v)
    BY <1>3, PastStays, NewStable
  <2> QED BY <1>1, <1>2, <1>3, <2>1 DEF RunInv
<1>4. CASE ~Past(s, p, v)
  <2>1. ~NextStage
    BY <1>4, NextPast
  <2>2. ~UNCHANGED vars
    BY <1>4 DEF vars, Past
  <2>3. Exec \/ Skip
    BY <2>1, <2>2 DEF Next, Abandon
  <2>4. InStage /\ Advance /\ UNCHANGED <<buf, stage>>
    BY <2>3 DEF Exec, Skip
  <2>5. s = stage /\ p = place /\ v = variant
    BY <1>4, <2>4, AdvancePast
  <2>6. Rank[s] \in Int
    BY Ranks
  <2>7. New(s, p, v)
    BY <2>5, <2>6, NewStable
  <2> QED BY <2>3, <2>5, <2>7 DEF Exec, Skip
<1> QED BY <1>3, <1>4

LEMMA ProvenanceStep == TypeOK /\ Provenance /\ [Next]_vars => Provenance'
<1> SUFFICES ASSUME TypeOK, Provenance, [Next]_vars, NEW m \in executed'
             PROVE  \E s \in DOMAIN After :
                      \E p \in 1 .. LastPlace(s), v \in 1 .. Variants(s) :
                        Past(s, p, v)' /\ New(s, p, v)' /\ m = Mutant(s, p, v)
  BY SameMutants, BufUnchanged DEF Provenance
<1>1. CASE m \in executed
  <2>1. PICK s \in DOMAIN After : \E p \in 1 .. LastPlace(s), v \in 1 .. Variants(s) :
               Past(s, p, v) /\ New(s, p, v) /\ m = Mutant(s, p, v)
    BY <1>1 DEF Provenance
  <2>2. PICK p \in 1 .. LastPlace(s), v \in 1 .. Variants(s) :
               Past(s, p, v) /\ New(s, p, v) /\ m = Mutant(s, p, v)
    BY <2>1
  <2>3. Past(s, p, v)' /\ Rank[s] <= Rank[stage]
    BY <2>2, PastStays
  <2>4. New(s, p, v)'
    BY <2>2, <2>3, NewStable
  <2> QED BY <2>2, <2>3, <2>4
<1>2. CASE m \notin executed
  <2>1. Exec
    BY <1>2 DEF Next, Skip, NextStage, Abandon, vars
  <2>2. /\ InStage /\ Advance /\ UNCHANGED <<buf, stage>> /\ New(stage, place, variant)
        /\ m = Mutant(stage, place, variant)
    BY <1>2, <2>1 DEF Exec
  <2>3. stage \in DOMAIN After /\ place \in 1 .. LastPlace(stage) /\ variant \in 1 .. Variants(stage)
    <3>1. BufOK
      BY TypeBuf
    <3> QED BY <2>2, <3>1, LoopBounds DEF InStage, TypeOK
  <2>4. \E s \in DOMAIN After : \E p \in 1 .. LastPlace(s), v \in 1 .. Variants(s) :
          s = stage /\ p = place /\ v = variant
    BY <2>3
  <2>5. PICK s \in DOMAIN After : \E p \in 1 .. LastPlace(s), v \in 1 .. Variants(s) :
          s = stage /\ p = place /\ v = variant
    BY <2>4
  <2>6. PICK p \in 1 .. LastPlace(s), v \in 1 .. Variants(s) :
          s = stage /\ p = place /\ v = variant
    BY <2>5
  <2>7. Past(s, p, v)'
    BY <2>2, <2>6, AdvancePast
  <2>8. Rank[s] <= Rank[stage]
    BY <2>6, Ranks
  <2>9. New(s, p, v)'
    BY <2>2, <2>6, <2>8, NewStable
  <2> QED BY <2>2, <2>6, <2>7, <2>9
<1> QED BY <1>1, <1>2

-----------------------------------------------------------------------------
(* Nothing is skipped.                                                     *)

\* The stages are done: every slot without a filter against it was run.
Done == BufOK /\ RunInv /\ stage = "done"

\* A mutant that changes something effective, and not across a byte border.
Owed(m) == m # buf /\ ~AcrossInWord(m) /\ \E i \in Changed(m) : EffByte(i)

LEMMA DoneRun ==
  ASSUME Done, NEW s \in DOMAIN After, NEW p \in 1 .. LastPlace(s), NEW v \in 1 .. Variants(s),
         New(s, p, v)
  PROVE  Mutant(s, p, v) \in executed
<1>1. Past(s, p, v)
  BY Ranks DEF Past, Done
<1> QED BY <1>1 DEF RunInv, Done

LEMMA WalkedRun ==
  ASSUME Done, NEW m, Walked(m)
  PROVE  m \in executed
<1>1. PICK s \in {"flip1", "flip2", "flip4", "flip8"} :
        \E p \in 1 .. LastPlace(s) : m = Mutant(s, p, 1)
  BY DEF Walked
<1>2. PICK p \in 1 .. LastPlace(s) : m = Mutant(s, p, 1)
  BY <1>1
<1>3. s \in DOMAIN After /\ 1 \in 1 .. Variants(s) /\ New(s, p, 1)
  <2>1. s \in DOMAIN After
    BY StageNames
  <2>2. Variants(s) = 1
    BY DEF Variants
  <2>3. New(s, p, 1)
    BY DEF New
  <2> QED BY <2>1, <2>2, <2>3
<1> QED BY <1>2, <1>3, DoneRun

LEMMA ByteOwed ==
  ASSUME BufOK, NEW i \in DOMAIN buf, NEW v \in Byte, Owed(WithByte(i, v))
  PROVE  v # buf[i] /\ EffByte(i)
<1>1. \A j \in DOMAIN buf : WithByte(i, v)[j] = IF j = i THEN v ELSE buf[j]
  BY ByteType
<1>2. Changed(WithByte(i, v)) \subseteq {i} /\ (v = buf[i] => Changed(WithByte(i, v)) = {})
  BY <1>1 DEF Changed
<1> QED BY <1>2 DEF Owed

LEMMA WordOwed ==
  ASSUME BufOK, NEW i \in WordPlaces, NEW w, IsWord(w), Owed(WithWord(i, w))
  PROVE  w # Word(i) /\ EffWord(i)
<1>1. Changed(WithWord(i, w)) = (IF w % 256 # buf[i] THEN {i} ELSE {})
                                   \cup (IF w \div 256 # buf[i + 1] THEN {i + 1} ELSE {})
  BY ChangedByWord
<1>2. Word(i) % 256 = buf[i] /\ Word(i) \div 256 = buf[i + 1]
  BY WordType
<1>3. w = Word(i) => Changed(WithWord(i, w)) = {}
  BY <1>1, <1>2
<1> QED BY <1>1, <1>3 DEF Owed, EffWord

\* What could_be_bitflip rejects of a byte or word was run.
LEMMA FlipByteRun ==
  ASSUME Done, NEW i \in DOMAIN buf, NEW v \in Byte, v # buf[i], CouldBeBitflip(buf[i], v)
  PROVE  WithByte(i, v) \in executed
BY ByteFlip, WalkedRun DEF Done

LEMMA FlipWordRun ==
  ASSUME Done, NEW i \in WordPlaces, NEW w, IsWord(w), Owed(WithWord(i, w)),
         CouldBeBitflip(Word(i), w)
  PROVE  WithWord(i, w) \in executed
<1>1. w # Word(i) /\ EffWord(i)
  BY WordOwed DEF Done
<1>2. \/ Walked(WithWord(i, w))
      \/ WithWord(i, w) = FlipBits(8 * (i - 1), 16)
      \/ /\ Changed(WithWord(i, w)) = {i, i + 1}
         /\ DiffBits(Word(i), w) \in AcrossBorder
  BY <1>1, WordFlip DEF Done
<1>3. CASE Walked(WithWord(i, w))
  BY <1>3, WalkedRun
<1>4. CASE WithWord(i, w) = FlipBits(8 * (i - 1), 16)
  <2>1. "flip16" \in DOMAIN After /\ i \in 1 .. LastPlace("flip16") /\ 1 \in 1 .. Variants("flip16")
    BY StageNames DEF LastPlace, Variants, WordPlaces
  <2>2. New("flip16", i, 1) /\ Mutant("flip16", i, 1) = WithWord(i, w)
    BY <1>1, <1>4 DEF New, Mutant
  <2>3. Mutant("flip16", i, 1) \in executed
    BY <2>1, <2>2, DoneRun
  <2> QED BY <2>2, <2>3
<1>5. CASE Changed(WithWord(i, w)) = {i, i + 1} /\ DiffBits(Word(i), w) \in AcrossBorder
  <2>1. MutantWord(i, WithWord(i, w)) = w
    BY ChangedByWord DEF Done
  <2>2. AcrossInWord(WithWord(i, w))
    BY <1>5, <2>1 DEF AcrossInWord
  <2> QED BY <2>2 DEF Owed
<1> QED BY <1>2, <1>3, <1>4, <1>5

\* Sums and differences of a byte.
LEMMA ArithByteRun ==
  ASSUME Done, NEW i \in DOMAIN buf, NEW d \in Int, -ArithMax <= d, d <= ArithMax,
         Owed(WithByte(i, U8(buf[i] + d)))
  PROVE  WithByte(i, U8(buf[i] + d)) \in executed
<1> DEFINE v == U8(buf[i] + d)
           t == IF d > 0 THEN 2 * d - 1 ELSE -(2 * d)
<1>1. i \in 1 .. LastPlace("arith8") /\ buf[i] \in Byte
  BY DEF LastPlace, Done, BufOK
<1>2. v \in Byte
  <2>1. buf[i] + d \in Int
    BY <1>1 DEF Byte
  <2> QED BY <2>1, Numbers
<1>3. v # buf[i] /\ EffByte(i)
  BY <1>2, ByteOwed DEF Done
<1>4. d # 0
  BY <1>1, <1>3 DEF U8, Byte
<1>5. t \in 1 .. Variants("arith8") /\ Delta8(t) = d
  <2>1. ArithMax \in Nat
    BY Sizes
  <2>2. t \in Nat /\ 1 <= t /\ t <= 2 * ArithMax
    BY <1>4, <2>1
  <2>3. CASE d > 0
    <3>1. t = 2 * d - 1 /\ t % 2 = 1 /\ (t + 1) \div 2 = d
      BY <2>3
    <3> QED BY <2>1, <2>2, <3>1 DEF Delta8, Variants
  <2>4. CASE ~(d > 0)
    <3>1. t % 2 = 0 /\ t \div 2 = -d
      BY <2>4
    <3> HIDE DEF t
    <3> QED BY <2>1, <2>2, <3>1 DEF Delta8, Variants
  <2> QED BY <2>3, <2>4
<1> HIDE DEF t
<1>6. Sum8(buf[i], t) = v
  BY <1>5 DEF Sum8
<1> HIDE DEF v
<1>7. CASE CouldBeBitflip(buf[i], v)
  BY <1>2, <1>3, <1>7, FlipByteRun DEF v
<1>8. CASE ~CouldBeBitflip(buf[i], v)
  <2>1. "arith8" \in DOMAIN After /\ New("arith8", i, t) /\ Mutant("arith8", i, t) = WithByte(i, v)
    BY <1>3, <1>6, <1>8, StageNames DEF New, Mutant
  <2>2. Mutant("arith8", i, t) \in executed
    BY <1>1, <1>5, <2>1, DoneRun
  <2> QED BY <2>1, <2>2 DEF v
<1> QED BY <1>7, <1>8

\* Two values that could_be_arith finds near are a sum apart.
LEMMA NearSums ==
  /\ \A a, b \in Byte : Near8(a, b) =>
       \E d \in Int : -ArithMax <= d /\ d <= ArithMax /\ b = U8(a + d)
  /\ \A a, b : IsWord(a) /\ IsWord(b) /\ Near16(a, b) =>
       \E d \in Int : -ArithMax <= d /\ d <= ArithMax /\ b = U16(a + d)
<1>1. ArithMax \in Nat
  BY Sizes
<1>2. ASSUME NEW a \in Byte, NEW b \in Byte, Near8(a, b)
      PROVE  \E d \in Int : -ArithMax <= d /\ d <= ArithMax /\ b = U8(a + d)
  <2>1. a \in Nat /\ b \in Nat /\ a < 256 /\ b < 256
    BY DEF Byte
  <2>2. CASE U8(a - b) <= ArithMax
    <3> DEFINE e == (a - b) % 256
    <3>1. e \in Nat /\ e <= ArithMax
      BY <2>1, <2>2 DEF U8
    <3>2. (a + (-e)) % 256 = b
      BY <2>1
    <3> HIDE DEF e
    <3>3. -e \in Int /\ -ArithMax <= -e /\ -e <= ArithMax
      BY <1>1, <3>1
    <3>4. b = U8(a + (-e))
      BY <3>2 DEF U8
    <3> QED BY <3>3, <3>4
  <2>3. CASE U8(b - a) <= ArithMax
    <3> DEFINE e == (b - a) % 256
    <3>1. e \in Nat /\ e <= ArithMax
      BY <2>1, <2>3 DEF U8
    <3>2. (a + e) % 256 = b
      BY <2>1
    <3> HIDE DEF e
    <3>3. e \in Int /\ -ArithMax <= e /\ e <= ArithMax
      BY <1>1, <3>1
    <3>4. b = U8(a + e)
      BY <3>2 DEF U8
    <3> QED BY <3>3, <3>4
  <2> QED BY <1>2, <2>2, <2>3 DEF Near8
<1>3. ASSUME NEW a, NEW b, IsWord(a), IsWord(b), Near16(a, b)
      PROVE  \E d \in Int : -ArithMax <= d /\ d <= ArithMax /\ b = U16(a + d)
  <2>1. a \in Nat /\ b \in Nat /\ a < 65536 /\ b < 65536
    BY <1>3 DEF IsWord
  <2>2. CASE U16(a - b) <= ArithMax
    <3> DEFINE e == (a - b) % 65536
    <3>1. e \in Nat /\ e <= ArithMax
      BY <2>1, <2>2 DEF U16
    <3>2. (a + (-e)) % 65536 = b
      BY <2>1
    <3> HIDE DEF e
    <3>3. -e \in Int /\ -ArithMax <= -e /\ -e <= ArithMax
      BY <1>1, <3>1
    <3>4. b = U16(a + (-e))
      BY <3>2 DEF U16
    <3> QED BY <3>3, <3>4
  <2>3. CASE U16(b - a) <= ArithMax
    <3> DEFINE e == (b - a) % 65536
    <3>1. e \in Nat /\ e <= ArithMax
      BY <2>1, <2>3 DEF U16
    <3>2. (a + e) % 65536 = b
      BY <2>1
    <3> HIDE DEF e
    <3>3. e \in Int /\ -ArithMax <= e /\ e <= ArithMax
      BY <1>1, <3>1
    <3>4. b = U16(a + e)
      BY <3>2 DEF U16
    <3> QED BY <3>3, <3>4
  <2> QED BY <1>3, <2>2, <2>3 DEF Near16
<1> QED BY <1>2, <1>3

\* The interesting numbers of a byte.
LEMMA NumberByteRun ==
  ASSUME Done, NEW i \in DOMAIN buf, NEW j \in DOMAIN Interesting8,
         Owed(WithByte(i, U8(Interesting8[j])))
  PROVE  WithByte(i, U8(Interesting8[j])) \in executed
<1> DEFINE v == U8(Interesting8[j])
<1>1. v \in Byte
  BY Entries, Numbers
<1>2. v # buf[i] /\ EffByte(i)
  BY <1>1, ByteOwed DEF Done
<1>3. i \in 1 .. LastPlace("int8") /\ j \in 1 .. Variants("int8") /\ buf[i] \in Byte
  BY Sizes DEF LastPlace, Variants, Done, BufOK
<1>4. CASE CouldBeBitflip(buf[i], v)
  BY <1>1, <1>2, <1>4, FlipByteRun
<1>5. CASE CouldBeArith8(buf[i], v)
  <2>1. Near8(buf[i], v)
    BY <1>2, <1>5 DEF CouldBeArith8
  <2>2. PICK d \in Int : -ArithMax <= d /\ d <= ArithMax /\ v = U8(buf[i] + d)
    BY <1>1, <1>3, <2>1, NearSums
  <2> HIDE DEF v
  <2>3. Owed(WithByte(i, U8(buf[i] + d)))
    BY <2>2 DEF v
  <2>4. WithByte(i, U8(buf[i] + d)) \in executed
    BY <2>2, <2>3, ArithByteRun
  <2> QED BY <2>2, <2>4 DEF v
<1>6. CASE ~CouldBeBitflip(buf[i], v) /\ ~CouldBeArith8(buf[i], v)
  <2>1. "int8" \in DOMAIN After /\ New("int8", i, j) /\ Mutant("int8", i, j) = WithByte(i, v)
    BY <1>2, <1>6, StageNames DEF New, Mutant
  <2>2. Mutant("int8", i, j) \in executed
    BY <1>3, <2>1, DoneRun
  <2> QED BY <2>1, <2>2
<1> QED BY <1>4, <1>5, <1>6

\* Each sum of a word has its turn in the loop.
LEMMA SlotOfSum ==
  ASSUME NEW d \in Int, d # 0, -ArithMax <= d, d <= ArithMax, NEW le \in BOOLEAN
  PROVE  \E t \in 1 .. Variants("arith16") : Delta16(t) = d /\ (LittleEndian(t) <=> le)
<1>1. ArithMax \in Nat /\ Variants("arith16") = 4 * ArithMax
  BY Sizes DEF Variants
<1>2. CASE d > 0 /\ le
  <2> DEFINE t == 4 * d - 3
  <2>1. t \in Nat /\ 1 <= t /\ t <= 4 * ArithMax /\ t % 2 = 1 /\ t % 4 = 1 /\ (t + 3) \div 4 = d
    BY <1>1, <1>2
  <2> HIDE DEF t
  <2>2. t \in 1 .. Variants("arith16") /\ Delta16(t) = d /\ LittleEndian(t)
    BY <1>1, <2>1 DEF Delta16, LittleEndian
  <2> QED BY <1>2, <2>2
<1>3. CASE d > 0 /\ ~le
  <2> DEFINE t == 4 * d - 1
  <2>1. t \in Nat /\ 1 <= t /\ t <= 4 * ArithMax /\ t % 2 = 1 /\ t % 4 = 3 /\ (t + 3) \div 4 = d
    BY <1>1, <1>3
  <2> HIDE DEF t
  <2>2. t \in 1 .. Variants("arith16") /\ Delta16(t) = d /\ ~LittleEndian(t)
    BY <1>1, <2>1 DEF Delta16, LittleEndian
  <2> QED BY <1>3, <2>2
<1>4. CASE d < 0 /\ le
  <2> DEFINE t == -(4 * d) - 2
  <2>1. t \in Nat /\ 1 <= t /\ t <= 4 * ArithMax /\ t % 2 = 0 /\ t % 4 = 2 /\ -((t + 3) \div 4) = d
    BY <1>1, <1>4
  <2> HIDE DEF t
  <2>2. t \in 1 .. Variants("arith16") /\ Delta16(t) = d /\ LittleEndian(t)
    BY <1>1, <2>1 DEF Delta16, LittleEndian
  <2> QED BY <1>4, <2>2
<1>5. CASE d < 0 /\ ~le
  <2> DEFINE t == -(4 * d)
  <2>1. t \in Nat /\ 1 <= t /\ t <= 4 * ArithMax /\ t % 2 = 0 /\ t % 4 = 0 /\ -((t + 3) \div 4) = d
    BY <1>1, <1>5
  <2> HIDE DEF t
  <2>2. t \in 1 .. Variants("arith16") /\ Delta16(t) = d /\ ~LittleEndian(t)
    BY <1>1, <2>1 DEF Delta16, LittleEndian
  <2> QED BY <1>5, <2>2
<1> QED BY <1>2, <1>3, <1>4, <1>5

\* A sum without a carry is the sum of a byte.
LEMMA NoCarry ==
  ASSUME NEW w, IsWord(w), NEW d \in Int, U8(w) + d \in Byte
  PROVE  /\ IsWord(U16(w + d))
         /\ U16(w + d) % 256 = U8(U8(w) + d) /\ U16(w + d) \div 256 = w \div 256
<1> DEFINE lo == w % 256
           hi == w \div 256
<1>1. lo \in Byte /\ hi \in Byte /\ w = lo + 256 * hi /\ lo + d \in Byte
  BY BytesOfWord DEF U8
<1>2. U8(w) = lo
  BY DEF U8
<1> HIDE DEF lo, hi
<1> DEFINE x == (lo + d) + 256 * hi
<1>3. IsWord(x) /\ x % 256 = lo + d /\ x \div 256 = hi
  BY <1>1, WordOfBytes
<1>4. w + d = x
  BY <1>1 DEF Byte
<1> HIDE DEF x
<1>5. U16(x) = x
  BY <1>3 DEF U16, IsWord
<1>6. U8(lo + d) = lo + d
  BY <1>1 DEF U8, Byte
<1> QED BY <1>2, <1>3, <1>4, <1>5, <1>6 DEF hi

\* Sums and differences of a word, in either byte order.
LEMMA ArithWordRun ==
  ASSUME Done, NEW i \in WordPlaces, NEW d \in Int, -ArithMax <= d, d <= ArithMax,
         NEW le \in BOOLEAN, NEW w,
         w = IF le THEN U16(Word(i) + d) ELSE Swap16(U16(Swap16(Word(i)) + d)),
         Owed(WithWord(i, w))
  PROVE  WithWord(i, w) \in executed
<1> DEFINE W == Word(i)
           S == Swap16(Word(i))
           m == WithWord(i, w)
<1>1. BufOK /\ IsWord(W) /\ W % 256 = buf[i] /\ W \div 256 = buf[i + 1]
  <2>1. IsWord(0)
    BY DEF IsWord
  <2> QED BY <2>1, WordType DEF Done
<1>2. IsWord(S) /\ Swap16(S) = W /\ S % 256 = W \div 256 /\ S \div 256 = W % 256
  BY <1>1, Numbers
<1>3. W \in Int /\ S \in Int
  BY <1>1, <1>2 DEF IsWord
<1>4. IsWord(w) /\ IsWord(U16(W + d)) /\ IsWord(U16(S + d))
  <2>1. W + d \in Int /\ S + d \in Int
    BY <1>3
  <2>2. IsWord(U16(W + d)) /\ IsWord(U16(S + d))
    BY <2>1, Numbers
  <2>3. IsWord(Swap16(U16(S + d)))
    BY <2>2, Numbers
  <2> QED BY <2>2, <2>3
<1>5. w # W /\ EffWord(i)
  BY <1>1, <1>4, WordOwed
<1>6. d # 0
  <2> SUFFICES ASSUME d = 0 PROVE w = W
    BY <1>5
  <2>1. W + d = W /\ S + d = S
    BY <1>3
  <2>2. U16(W) = W /\ U16(S) = S
    BY <1>1, <1>2 DEF U16, IsWord
  <2> QED BY <1>2, <2>1, <2>2
<1>7. PICK t \in 1 .. Variants("arith16") : Delta16(t) = d /\ (LittleEndian(t) <=> le)
  BY <1>6, SlotOfSum
<1>8. Sum16(W, t) = w
  BY <1>7 DEF Sum16
<1>9. CASE Carries(W, t)
  <2>1. CASE CouldBeBitflip(W, w)
    BY <1>4, <2>1, FlipWordRun
  <2>2. CASE ~CouldBeBitflip(W, w)
    <3>1. "arith16" \in DOMAIN After /\ i \in 1 .. LastPlace("arith16")
      BY StageNames DEF LastPlace, WordPlaces
    <3>2. New("arith16", i, t) /\ Mutant("arith16", i, t) = m
      BY <1>5, <1>8, <1>9, <2>2 DEF New, Mutant
    <3>3. Mutant("arith16", i, t) \in executed
      BY <1>7, <3>1, <3>2, DoneRun
    <3> QED BY <3>2, <3>3
  <2> QED BY <2>1, <2>2
<1>10. CASE ~Carries(W, t) /\ le
  <2>1. U8(W) + d \in Byte
    BY <1>7, <1>10 DEF Carries
  <2>2. w % 256 = U8(U8(W) + d) /\ w \div 256 = W \div 256
    BY <1>1, <1>10, <2>1, NoCarry
  <2>3. U8(W) = buf[i]
    BY <1>1 DEF U8
  <2>4. m = WithByte(i, U8(buf[i] + d))
    BY <1>1, <1>4, <2>2, <2>3, WordIsByte
  <2>5. i \in DOMAIN buf
    BY <1>1, <1>4, WordType
  <2>6. WithByte(i, U8(buf[i] + d)) \in executed
    BY <2>4, <2>5, ArithByteRun
  <2> QED BY <2>4, <2>6
<1>11. CASE ~Carries(W, t) /\ ~le
  <2> DEFINE x == U16(S + d)
  <2>1. U8(S) + d \in Byte
    BY <1>7, <1>11 DEF Carries
  <2>2. x % 256 = U8(U8(S) + d) /\ x \div 256 = S \div 256
    BY <1>2, <2>1, NoCarry
  <2>3. U8(S) = buf[i + 1]
    BY <1>1, <1>2 DEF U8
  <2>4. w = Swap16(x) /\ IsWord(x)
    BY <1>4, <1>11
  <2> HIDE DEF x
  <2>5. w \div 256 = x % 256 /\ w % 256 = x \div 256
    BY <2>4, Numbers
  <2>6. w \div 256 = U8(buf[i + 1] + d) /\ w % 256 = buf[i]
    BY <1>1, <1>2, <2>2, <2>3, <2>5
  <2>7. m = WithByte(i + 1, U8(buf[i + 1] + d))
    BY <1>1, <1>4, <2>6, WordIsByte
  <2>8. i + 1 \in DOMAIN buf
    BY <1>1, <1>4, WordType
  <2>9. WithByte(i + 1, U8(buf[i + 1] + d)) \in executed
    BY <2>7, <2>8, ArithByteRun
  <2> QED BY <2>7, <2>9
<1> QED BY <1>9, <1>10, <1>11

\* A word that could_be_arith or could_be_interest rejects was run, whether or not the
\* little-endian words were asked about.
LEMMA FilteredRun ==
  ASSUME Done, NEW i \in WordPlaces, NEW w, IsWord(w), Owed(WithWord(i, w)),
         CouldBeArith16(Word(i), w) \/ CouldBeInterest16(Word(i), w, FALSE)
  PROVE  WithWord(i, w) \in executed
<1> DEFINE W == Word(i)
           m == WithWord(i, w)
<1>1. /\ BufOK /\ i \in DOMAIN buf /\ i + 1 \in DOMAIN buf
      /\ IsWord(W) /\ W % 256 = buf[i] /\ W \div 256 = buf[i + 1]
      /\ buf[i] \in Byte /\ buf[i + 1] \in Byte
  BY WordType DEF Done
<1>2. w % 256 \in Byte /\ w \div 256 \in Byte /\ w = (w % 256) + 256 * (w \div 256)
  BY BytesOfWord
<1>3. w # W
  BY <1>1, WordOwed
<1>4. /\ w \div 256 = buf[i + 1] => m = WithByte(i, w % 256)
      /\ w % 256 = buf[i] => m = WithByte(i + 1, w \div 256)
  BY <1>1, WordIsByte
<1>5. ASSUME NEW k \in DOMAIN buf, NEW v \in Byte, Near8(buf[k], v), m = WithByte(k, v)
      PROVE  m \in executed
  <2>1. buf[k] \in Byte
    BY <1>1 DEF BufOK
  <2>2. PICK d \in Int : -ArithMax <= d /\ d <= ArithMax /\ v = U8(buf[k] + d)
    BY <1>5, <2>1, NearSums
  <2>3. Owed(WithByte(k, U8(buf[k] + d)))
    BY <1>5, <2>2
  <2>4. WithByte(k, U8(buf[k] + d)) \in executed
    BY <2>2, <2>3, ArithByteRun
  <2> QED BY <1>5, <2>2, <2>4
<1>6. CASE U8(W) = U8(w) /\ Near8(W \div 256, w \div 256)
  <2>1. w % 256 = buf[i] /\ Near8(buf[i + 1], w \div 256)
    BY <1>1, <1>6 DEF U8
  <2> QED BY <1>1, <1>2, <1>4, <1>5, <2>1
<1>7. CASE W \div 256 = w \div 256 /\ Near8(U8(W), U8(w))
  <2>1. w \div 256 = buf[i + 1] /\ Near8(buf[i], w % 256)
    BY <1>1, <1>7 DEF U8
  <2> QED BY <1>1, <1>2, <1>4, <1>5, <2>1
<1>8. CASE Near16(W, w)
  <2>1. PICK d \in Int : -ArithMax <= d /\ d <= ArithMax /\ w = U16(W + d)
    BY <1>1, <1>8, NearSums
  <2>2. w = IF TRUE THEN U16(Word(i) + d) ELSE Swap16(U16(Swap16(Word(i)) + d))
    BY <2>1
  <2> QED BY <2>1, <2>2, ArithWordRun
<1>9. CASE Near16(Swap16(W), Swap16(w))
  <2>1. IsWord(Swap16(W)) /\ IsWord(Swap16(w)) /\ Swap16(Swap16(w)) = w
    BY <1>1, Numbers
  <2>2. PICK d \in Int : -ArithMax <= d /\ d <= ArithMax /\ Swap16(w) = U16(Swap16(W) + d)
    BY <1>9, <2>1, NearSums
  <2>3. w = IF FALSE THEN U16(Word(i) + d) ELSE Swap16(U16(Swap16(Word(i)) + d))
    BY <2>1, <2>2
  <2> QED BY <2>2, <2>3, ArithWordRun
<1>10. CASE CouldBeInterest16(W, w, FALSE)
  <2>1. PICK j \in DOMAIN Interesting8 :
          \/ w = (W - U8(W)) + U8(Interesting8[j])
          \/ w = U8(W) + 256 * U8(Interesting8[j])
    BY <1>3, <1>10 DEF CouldBeInterest16
  <2> DEFINE v == U8(Interesting8[j])
  <2>2. v \in Byte
    BY Entries, Numbers
  <2>3. U8(W) = buf[i] /\ W = buf[i] + 256 * buf[i + 1]
    BY <1>1 DEF U8, Word
  <2> HIDE DEF v
  <2>4. CASE w = (W - U8(W)) + v
    <3>1. w = v + 256 * buf[i + 1]
      <4> DEFINE a == buf[i]
                 b == buf[i + 1]
      <4>1. a \in Int /\ b \in Int /\ v \in Int
        BY <1>1, <2>2 DEF Byte
      <4>2. w = ((a + 256 * b) - a) + v
        BY <2>3, <2>4
      <4> HIDE DEF a, b
      <4>3. w = v + 256 * b
        BY <4>1, <4>2
      <4> QED BY <4>3 DEF b
    <3>2. w % 256 = v /\ w \div 256 = buf[i + 1]
      BY <1>1, <2>2, <3>1, WordOfBytes
    <3>3. m = WithByte(i, U8(Interesting8[j]))
      BY <1>4, <3>2 DEF v
    <3> QED BY <1>1, <3>3, NumberByteRun
  <2>5. CASE w = U8(W) + 256 * v
    <3>1. w % 256 = buf[i] /\ w \div 256 = v
      BY <1>1, <2>2, <2>3, <2>5, WordOfBytes
    <3>2. m = WithByte(i + 1, U8(Interesting8[j]))
      BY <1>4, <3>1 DEF v
    <3> QED BY <1>1, <3>2, NumberByteRun
  <2> QED BY <2>1, <2>4, <2>5 DEF v
<1> QED BY <1>3, <1>6, <1>7, <1>8, <1>9, <1>10 DEF CouldBeArith16

\* The interesting numbers of a word, in little endian and then in big endian.
LEMMA NumberWordRun ==
  ASSUME Done, NEW i \in WordPlaces, NEW j \in DOMAIN Interesting16, NEW w,
         w \in {U16(Interesting16[j]), Swap16(U16(Interesting16[j]))},
         Owed(WithWord(i, w))
  PROVE  WithWord(i, w) \in executed
<1>1. /\ "int16" \in DOMAIN After /\ i \in 1 .. LastPlace("int16")
      /\ Variants("int16") = 2 * Len(Interesting16)
      /\ Len(Interesting16) \in Nat /\ DOMAIN Interesting16 = 1 .. Len(Interesting16)
  BY StageNames, Sizes DEF LastPlace, Variants, WordPlaces
<1>2. ASSUME NEW k \in DOMAIN Interesting16 PROVE IsWord(U16(Interesting16[k]))
  BY Entries, Numbers
<1>3. ASSUME NEW k \in DOMAIN Interesting16
      PROVE  /\ 2 * k - 1 \in 1 .. Variants("int16") /\ 2 * k \in 1 .. Variants("int16")
             /\ (2 * k - 1) % 2 = 1 /\ (2 * k) % 2 = 0
             /\ Number16(2 * k - 1) = U16(Interesting16[k])
             /\ Number16(2 * k) = Swap16(U16(Interesting16[k]))
  <2>1. k \in Nat /\ 1 <= k /\ k <= Len(Interesting16)
    BY <1>1
  <2>2. /\ (2 * k - 1) % 2 = 1 /\ (2 * k) % 2 = 0
        /\ ((2 * k - 1) + 1) \div 2 = k /\ (2 * k + 1) \div 2 = k
    <3>1. (2 * k - 1) % 2 = 1
      BY <2>1
    <3>2. (2 * k) % 2 = 0
      BY <2>1
    <3>3. ((2 * k - 1) + 1) \div 2 = k
      BY <2>1
    <3>4. (2 * k + 1) \div 2 = k
      <4>1. k \in Nat
        BY <2>1
      <4> QED BY <4>1
    <3> QED BY <3>1, <3>2, <3>3, <3>4
  <2>3. 2 * k - 1 \in 1 .. Variants("int16") /\ 2 * k \in 1 .. Variants("int16")
    BY <1>1, <2>1
  <2>4. Number16(2 * k - 1) = U16(Interesting16[k])
    BY <2>2 DEF Number16
  <2>5. Number16(2 * k) = Swap16(U16(Interesting16[k]))
    BY <2>2 DEF Number16
  <2> QED BY <2>2, <2>3, <2>4, <2>5
<1>4. ASSUME NEW k \in DOMAIN Interesting16, NEW x, x = U16(Interesting16[k]),
             Owed(WithWord(i, x))
      PROVE  WithWord(i, x) \in executed
  <2>1. IsWord(x)
    BY <1>2, <1>4
  <2>2. x # Word(i) /\ EffWord(i)
    BY <1>4, <2>1, WordOwed DEF Done
  <2>3. CASE CouldBeBitflip(Word(i), x)
    BY <1>4, <2>1, <2>3, FlipWordRun
  <2>4. CASE CouldBeArith16(Word(i), x) \/ CouldBeInterest16(Word(i), x, FALSE)
    BY <1>4, <2>1, <2>4, FilteredRun
  <2>5. CASE /\ ~CouldBeBitflip(Word(i), x) /\ ~CouldBeArith16(Word(i), x)
             /\ ~CouldBeInterest16(Word(i), x, FALSE)
    <3> DEFINE t == 2 * k - 1
    <3>1. t \in 1 .. Variants("int16") /\ t % 2 = 1 /\ Number16(t) = x
      BY <1>3, <1>4
    <3>2. (t % 2 = 0) = FALSE
      BY <3>1
    <3> HIDE DEF t
    <3>3. New("int16", i, t) /\ Mutant("int16", i, t) = WithWord(i, x)
      BY <2>2, <2>5, <3>1, <3>2 DEF New, Mutant
    <3>4. Mutant("int16", i, t) \in executed
      BY <1>1, <3>1, <3>3, DoneRun
    <3> QED BY <3>3, <3>4
  <2> QED BY <2>3, <2>4, <2>5
<1>5. CASE w = U16(Interesting16[j])
  BY <1>4, <1>5
<1>6. CASE w = Swap16(U16(Interesting16[j]))
  <2>1. IsWord(w) /\ Swap16(w) = U16(Interesting16[j])
    BY <1>2, <1>6, Numbers
  <2>2. w # Word(i) /\ EffWord(i)
    BY <2>1, WordOwed DEF Done
  <2>3. CASE w = Swap16(w)
    BY <1>4, <2>1, <2>3
  <2>4. CASE CouldBeBitflip(Word(i), w)
    BY <2>1, <2>4, FlipWordRun
  <2>5. CASE CouldBeArith16(Word(i), w)
    BY <2>1, <2>5, FilteredRun
  <2>6. CASE CouldBeInterest16(Word(i), w, TRUE)
    <3>1. CASE \E k \in DOMAIN Interesting16 : w = U16(Interesting16[k])
      BY <1>4, <3>1
    <3>2. CASE ~\E k \in DOMAIN Interesting16 : w = U16(Interesting16[k])
      <4>1. CouldBeInterest16(Word(i), w, FALSE)
        BY <2>6, <3>2 DEF CouldBeInterest16
      <4> QED BY <2>1, <4>1, FilteredRun
    <3> QED BY <3>1, <3>2
  <2>7. CASE /\ w # Swap16(w) /\ ~CouldBeBitflip(Word(i), w) /\ ~CouldBeArith16(Word(i), w)
             /\ ~CouldBeInterest16(Word(i), w, TRUE)
    <3> DEFINE t == 2 * j
    <3>1. t \in 1 .. Variants("int16") /\ t % 2 = 0 /\ Number16(t) = w
      BY <1>3, <1>6
    <3>2. (t % 2 = 0) = TRUE
      BY <3>1
    <3> HIDE DEF t
    <3>3. New("int16", i, t) /\ Mutant("int16", i, t) = WithWord(i, w)
      BY <2>2, <2>7, <3>1, <3>2 DEF New, Mutant
    <3>4. Mutant("int16", i, t) \in executed
      BY <1>1, <3>1, <3>3, DoneRun
    <3> QED BY <3>3, <3>4
  <2> QED BY <2>3, <2>4, <2>5, <2>6, <2>7
<1> QED BY <1>5, <1>6

LEMMA Covered ==
  ASSUME Done, NEW m \in Wanted, m # buf, ~AcrossInWord(m)
  PROVE  m \in executed
<1>1. CASE m \in Flips
  <2>1. PICK n \in {1, 2, 4} : \E k \in 1 .. 8 * Len(buf) - n + 1 : m = FlipBits(k - 1, n)
    BY <1>1 DEF Flips
  <2>2. Walked(m)
    BY <2>1, WalkedRuns DEF Done
  <2> QED BY <2>2, WalkedRun
<1>2. CASE m \in Inserted /\ \E c \in Changed(m) : EffByte(c)
  <2>1. Owed(m)
    BY <1>2 DEF Owed
  <2>2. CASE \E i \in DOMAIN buf : \E v \in ByteValues(i) : m = WithByte(i, v)
    <3>1. PICK i \in DOMAIN buf : \E v \in ByteValues(i) : m = WithByte(i, v)
      BY <2>2
    <3>2. PICK v \in ByteValues(i) : m = WithByte(i, v)
      BY <3>1
    <3>3. CASE v \in {U8(buf[i] + j) : j \in -ArithMax .. ArithMax}
      <4>1. PICK d \in -ArithMax .. ArithMax : v = U8(buf[i] + d)
        BY <3>3
      <4>2. d \in Int /\ -ArithMax <= d /\ d <= ArithMax
        BY <4>1, Sizes
      <4> QED BY <2>1, <3>2, <4>1, <4>2, ArithByteRun
    <3>4. CASE v \in {U8(Interesting8[j]) : j \in DOMAIN Interesting8}
      <4>1. PICK j \in DOMAIN Interesting8 : v = U8(Interesting8[j])
        BY <3>4
      <4> QED BY <2>1, <3>2, <4>1, NumberByteRun
    <3> QED BY <3>2, <3>3, <3>4 DEF ByteValues
  <2>3. CASE \E i \in WordPlaces : \E w \in WordValues(i) : m = WithWord(i, w)
    <3>1. PICK i \in WordPlaces : \E w \in WordValues(i) : m = WithWord(i, w)
      BY <2>3
    <3>2. PICK w \in WordValues(i) : m = WithWord(i, w)
      BY <3>1
    <3>3. CASE w \in {U16(Word(i) + j) : j \in -ArithMax .. ArithMax}
      <4>1. PICK d \in -ArithMax .. ArithMax : w = U16(Word(i) + d)
        BY <3>3
      <4>2. d \in Int /\ -ArithMax <= d /\ d <= ArithMax
        BY <4>1, Sizes
      <4>3. w = IF TRUE THEN U16(Word(i) + d) ELSE Swap16(U16(Swap16(Word(i)) + d))
        BY <4>1
      <4> QED BY <2>1, <3>2, <4>2, <4>3, ArithWordRun
    <3>4. CASE w \in {Swap16(U16(Swap16(Word(i)) + j)) : j \in -ArithMax .. ArithMax}
      <4>1. PICK d \in -ArithMax .. ArithMax : w = Swap16(U16(Swap16(Word(i)) + d))
        BY <3>4
      <4>2. d \in Int /\ -ArithMax <= d /\ d <= ArithMax
        BY <4>1, Sizes
      <4>3. w = IF FALSE THEN U16(Word(i) + d) ELSE Swap16(U16(Swap16(Word(i)) + d))
        BY <4>1
      <4> QED BY <2>1, <3>2, <4>2, <4>3, ArithWordRun
    <3>5. CASE \E j \in DOMAIN Interesting16 :
                 w \in {U16(Interesting16[j]), Swap16(U16(Interesting16[j]))}
      <4>1. PICK j \in DOMAIN Interesting16 :
              w \in {U16(Interesting16[j]), Swap16(U16(Interesting16[j]))}
        BY <3>5
      <4> QED BY <2>1, <3>2, <4>1, NumberWordRun
    <3>6. \/ w \in {U16(Word(i) + j) : j \in -ArithMax .. ArithMax}
          \/ w \in {Swap16(U16(Swap16(Word(i)) + j)) : j \in -ArithMax .. ArithMax}
          \/ \E j \in DOMAIN Interesting16 :
               w \in {U16(Interesting16[j]), Swap16(U16(Interesting16[j]))}
      BY <3>2 DEF WordValues
    <3> QED BY <3>3, <3>4, <3>5, <3>6
  <2> QED BY <1>2, <2>2, <2>3 DEF Inserted
<1> QED BY <1>1, <1>2 DEF Wanted

LEMMA RunImpliesSkipped == TypeOK /\ RunInv => NothingSkipped
<1> SUFFICES ASSUME TypeOK, RunInv, stage = "done",
                    NEW m \in Wanted, m # buf, ~AcrossInWord(m)
             PROVE  m \in executed
  BY DEF NothingSkipped
<1>1. Done
  BY TypeBuf DEF Done
<1> QED BY <1>1, Covered

\* Whatever the input, the size of ARITH_MAX, the tables and the effector map: when the
\* stages are done, the target was run on every walking flip, and on every sum,
\* difference and interesting number of an effective byte or word, but for runs of bits
\* across a byte border that could_be_bitflip takes for flips.
THEOREM NothingIsSkipped == Spec => []NothingSkipped
<1>1. Init => TypeOK /\ RunInv
  BY TypeInit, RunInit
<1>2. (TypeOK /\ RunInv) /\ [Next]_vars => (TypeOK /\ RunInv)'
  BY TypeStep, RunStep
<1>3. TypeOK /\ RunInv => NothingSkipped
  BY RunImpliesSkipped
<1> QED BY <1>1, <1>2, <1>3, PTL DEF Spec

-----------------------------------------------------------------------------
(* Nothing is run twice: flips.                                            *)

FlipWidth == [flip1 |-> 1, flip2 |-> 2, flip4 |-> 4, flip8 |-> 8, flip16 |-> 16]
FlipFrom(s, p) == IF s \in {"flip8", "flip16"} THEN 8 * (p - 1) ELSE p - 1

LEMMA FlipSlot ==
  ASSUME BufOK, NEW s \in DOMAIN FlipWidth, NEW p \in 1 .. LastPlace(s), NEW v \in 1 .. Variants(s)
  PROVE  /\ Mutant(s, p, v) = FlipBits(FlipFrom(s, p), FlipWidth[s]) /\ v = 1
         /\ FlipWidth[s] \in {1, 2, 4, 8, 16} /\ FlipFrom(s, p) \in Nat /\ p \in Nat
         /\ FlipFrom(s, p) + FlipWidth[s] <= 8 * Len(buf)
         /\ s \in {"flip8", "flip16"} => FlipFrom(s, p) = 8 * (p - 1)
         /\ s \notin {"flip8", "flip16"} => FlipFrom(s, p) = p - 1 /\ FlipWidth[s] <= 4
<1> DEFINE L == Len(buf)
<1>1. L \in {1, 2, 3}
  BY DEF BufOK
<1>2. s \in {"flip1", "flip2", "flip4", "flip8", "flip16"}
  BY DEF FlipWidth
<1>3. v = 1
  BY <1>2 DEF Variants
<1>4. Mutant(s, p, v) = FlipBits(FlipFrom(s, p), FlipWidth[s])
  BY <1>2 DEF Mutant, FlipFrom, FlipWidth
<1>5. CASE s = "flip1"
  <2>1. FlipWidth[s] = 1 /\ FlipFrom(s, p) = p - 1 /\ LastPlace(s) = 8 * L
    BY <1>5 DEF FlipWidth, FlipFrom, LastPlace
  <2> HIDE DEF L
  <2>2. p \in Nat /\ p - 1 \in Nat /\ p - 1 + 1 <= 8 * L
    BY <1>1, <2>1
  <2> QED BY <1>3, <1>4, <1>5, <2>1, <2>2 DEF L
<1>6. CASE s = "flip2"
  <2>1. FlipWidth[s] = 2 /\ FlipFrom(s, p) = p - 1 /\ LastPlace(s) = 8 * L - 1
    BY <1>6 DEF FlipWidth, FlipFrom, LastPlace
  <2> HIDE DEF L
  <2>2. p \in Nat /\ p - 1 \in Nat /\ p - 1 + 2 <= 8 * L
    BY <1>1, <2>1
  <2> QED BY <1>3, <1>4, <1>6, <2>1, <2>2 DEF L
<1>7. CASE s = "flip4"
  <2>1. FlipWidth[s] = 4 /\ FlipFrom(s, p) = p - 1 /\ LastPlace(s) = 8 * L - 3
    BY <1>7 DEF FlipWidth, FlipFrom, LastPlace
  <2> HIDE DEF L
  <2>2. p \in Nat /\ p - 1 \in Nat /\ p - 1 + 4 <= 8 * L
    BY <1>1, <2>1
  <2> QED BY <1>3, <1>4, <1>7, <2>1, <2>2 DEF L
<1>8. CASE s = "flip8"
  <2>1. FlipWidth[s] = 8 /\ FlipFrom(s, p) = 8 * (p - 1) /\ LastPlace(s) = L
    BY <1>8 DEF FlipWidth, FlipFrom, LastPlace
  <2> HIDE DEF L
  <2>2. p \in Nat /\ 8 * (p - 1) \in Nat /\ 8 * (p - 1) + 8 <= 8 * L
    BY <1>1, <2>1
  <2> QED BY <1>3, <1>4, <1>8, <2>1, <2>2 DEF L
<1>9. CASE s = "flip16"
  <2>1. FlipWidth[s] = 16 /\ FlipFrom(s, p) = 8 * (p - 1) /\ LastPlace(s) = L - 1
    BY <1>9 DEF FlipWidth, FlipFrom, LastPlace
  <2> HIDE DEF L
  <2>2. p \in Nat /\ 8 * (p - 1) \in Nat /\ 8 * (p - 1) + 16 <= 8 * L
    BY <1>1, <2>1
  <2> QED BY <1>3, <1>4, <1>9, <2>1, <2>2 DEF L
<1> QED BY <1>2, <1>5, <1>6, <1>7, <1>8, <1>9

\* Each bit of the buffer is a bit of one byte.
LEMMA BitPlace ==
  ASSUME BufOK, NEW x \in Nat, x < 8 * Len(buf)
  PROVE  \E i \in DOMAIN buf : \E q \in 0 .. 7 : x = 8 * i - 1 - q
<1> DEFINE L == Len(buf)
           i == x \div 8 + 1
           q == 7 - (x % 8)
<1>1. L \in Nat /\ DOMAIN buf = 1 .. L
  BY DEF BufOK
<1>2. x < 8 * L
  OBVIOUS
<1> HIDE DEF L
<1>3. i \in 1 .. L /\ q \in 0 .. 7 /\ x = 8 * i - 1 - q
  BY <1>1, <1>2
<1> QED BY <1>1, <1>3

\* Runs of different bits make different mutants.
LEMMA FlipInjective ==
  ASSUME BufOK, NEW k \in Nat, NEW n \in Nat \ {0}, NEW l \in Nat, NEW o \in Nat \ {0},
         k + n <= 8 * Len(buf), l + o <= 8 * Len(buf), FlipBits(k, n) = FlipBits(l, o)
  PROVE  k = l /\ n = o
<1> DEFINE m == FlipBits(k, n)
<1>1. m \in Buffers
  BY FlipType
<1>2. /\ \A i \in DOMAIN buf : \A q \in 0 .. 7 :
           q \in XorByte(buf[i], m[i]) <=> 8 * i - 1 - q \in k .. k + n - 1
      /\ \A i \in DOMAIN buf : \A q \in 0 .. 7 :
           q \in XorByte(buf[i], m[i]) <=> 8 * i - 1 - q \in l .. l + o - 1
  <2>1. k \in Int /\ n \in Int /\ l \in Int /\ o \in Int
    OBVIOUS
  <2>2. m = FlipBits(k, n) /\ m = FlipBits(l, o)
    OBVIOUS
  <2> HIDE DEF m
  <2> QED BY <1>1, <2>1, <2>2, FlipIff
<1> HIDE DEF m
<1>3. ASSUME NEW x \in Nat, x < 8 * Len(buf)
      PROVE  x \in k .. k + n - 1 <=> x \in l .. l + o - 1
  <2>1. PICK i \in DOMAIN buf : \E q \in 0 .. 7 : x = 8 * i - 1 - q
    BY <1>3, BitPlace
  <2>2. PICK q \in 0 .. 7 : x = 8 * i - 1 - q
    BY <2>1
  <2> QED BY <1>2, <2>2
<1>4. Len(buf) \in Nat
  BY DEF BufOK
<1>5. k \in l .. l + o - 1 /\ k + n - 1 \in l .. l + o - 1
  <2>1. /\ k \in Nat /\ k < 8 * Len(buf) /\ k \in k .. k + n - 1
        /\ k + n - 1 \in Nat /\ k + n - 1 < 8 * Len(buf) /\ k + n - 1 \in k .. k + n - 1
    BY <1>4
  <2> QED BY <1>3, <2>1
<1>6. l \in k .. k + n - 1 /\ l + o - 1 \in k .. k + n - 1
  <2>1. /\ l \in Nat /\ l < 8 * Len(buf) /\ l \in l .. l + o - 1
        /\ l + o - 1 \in Nat /\ l + o - 1 < 8 * Len(buf) /\ l + o - 1 \in l .. l + o - 1
    BY <1>4
  <2> QED BY <1>3, <2>1
<1> QED BY <1>5, <1>6

\* FLIP_BIT counts the bits of a byte from the other end.
LEMMA Mirror ==
  ASSUME NEW i \in Int, NEW k \in Int, NEW n \in Int, NEW q \in Int
  PROVE  8 * i - 1 - q \in k .. k + n - 1 <=> q \in 8 * i - k - n .. 8 * i - 1 - k
OBVIOUS

\* FLIP_BIT's run on a mutant that changes no more than one byte stays within it, and
\* could_be_bitflip recognises it.
LEMMA FlipOfByte ==
  ASSUME BufOK, NEW i \in DOMAIN buf, NEW x \in Byte, NEW k \in Nat, NEW n \in {1, 2, 4, 8, 16},
         k + n <= 8 * Len(buf), NEW p \in Nat, n \in {8, 16} => k = 8 * (p - 1),
         WithByte(i, x) = FlipBits(k, n)
  PROVE  CouldBeBitflip(buf[i], x)
<1> DEFINE m == WithByte(i, x)
           D == XorByte(buf[i], x)
<1>1. /\ m \in Buffers /\ buf[i] \in Byte
      /\ \A j \in DOMAIN buf : m[j] = IF j = i THEN x ELSE buf[j]
  BY ByteType
<1>2. \A j \in DOMAIN buf : \A q \in 0 .. 7 :
        q \in XorByte(buf[j], m[j]) <=> 8 * j - 1 - q \in k .. k + n - 1
  <2>1. m = FlipBits(k, n) /\ k \in Int /\ n \in Int
    OBVIOUS
  <2>2. m \in Buffers
    BY <1>1
  <2> HIDE DEF m
  <2> QED BY ONLY BufOK, <2>1, <2>2, FlipIff
<1> HIDE DEF m
<1>3. ASSUME NEW j \in DOMAIN buf, j # i, NEW q \in 0 .. 7
      PROVE  8 * j - 1 - q \notin k .. k + n - 1
  BY <1>1, <1>2, <1>3 DEF XorByte
<1>4. Len(buf) \in Nat /\ i \in Nat /\ n \in Nat \ {0}
  BY DEF BufOK
<1>5. ASSUME NEW y \in Nat, y \in k .. k + n - 1 PROVE \E q \in 0 .. 7 : y = 8 * i - 1 - q
  <2>1. y < 8 * Len(buf)
    BY <1>4, <1>5
  <2>2. PICK j \in DOMAIN buf : \E q \in 0 .. 7 : y = 8 * j - 1 - q
    BY <2>1, BitPlace
  <2> QED BY <1>3, <1>5, <2>2
<1>6. k \in k .. k + n - 1 /\ k + n - 1 \in k .. k + n - 1 /\ k + n - 1 \in Nat
  BY <1>4
<1>7. PICK q1 \in 0 .. 7 : k = 8 * i - 1 - q1
  BY <1>5, <1>6
<1>8. PICK q2 \in 0 .. 7 : k + n - 1 = 8 * i - 1 - q2
  BY <1>5, <1>6
<1>9. /\ 8 * i - k - n = q2 /\ 8 * i - 1 - k = q1 /\ q1 = q2 + n - 1
      /\ n <= 8 /\ (n = 8 => q2 = 0)
  <2>1. i \in Int /\ n \in Int /\ k \in Int
    BY <1>4
  <2>2. k = 8 * i - 1 - q1 /\ k + n - 1 = 8 * i - 1 - q2 /\ q1 \in 0 .. 7 /\ q2 \in 0 .. 7
    BY <1>7, <1>8
  <2>3. 8 * i - k - n = q2 /\ 8 * i - 1 - k = q1 /\ q1 = q2 + n - 1
    BY ONLY <2>1, <2>2
  <2>4. n <= 8 /\ (n = 8 => q2 = 0)
    BY ONLY <2>1, <2>2, <2>3
  <2> QED BY ONLY <2>3, <2>4
<1>10. \A q \in 0 .. 7 : q \in D <=> q \in q2 .. q2 + n - 1
  <2>1. ASSUME NEW q \in 0 .. 7
        PROVE  8 * i - 1 - q \in k .. k + n - 1 <=> q \in 8 * i - k - n .. 8 * i - 1 - k
    <3>1. i \in Int /\ n \in Int /\ k \in Int /\ q \in Int
      BY <1>4
    <3> QED BY <3>1, Mirror
  <2> QED BY <1>1, <1>2, <1>9, <2>1
<1>11. D \subseteq 0 .. 7 /\ q2 .. q2 + n - 1 \subseteq 0 .. 7
  <2>1. D \subseteq 0 .. 7
    BY DEF XorByte
  <2>2. q1 \in 0 .. 7 /\ q2 \in 0 .. 7 /\ q2 + n - 1 = q1
    BY <1>9
  <2>3. q2 .. q1 \subseteq 0 .. 7
    BY <2>2
  <2> QED BY <2>1, <2>2, <2>3
<1>12. DiffBits(buf[i], x) = D
  BY <1>1, DiffOfBytes
<1> HIDE DEF D
<1>13. D = q2 .. q2 + n - 1
  BY <1>10, <1>11
<1>14. q2 \in 0 .. 15
  OBVIOUS
<1>15. CASE n \in {1, 2, 4}
  BY <1>12, <1>13, <1>14, <1>15 DEF CouldBeBitflip
<1>16. CASE n = 8
  <2>1. q2 \in {0, 8} /\ n \in {8, 16}
    BY <1>9, <1>16
  <2> QED BY <1>12, <1>13, <2>1 DEF CouldBeBitflip
<1>17. n # 16
  BY <1>9
<1> QED BY <1>15, <1>16, <1>17

\* A run in two bytes, with u bits in the first.
LEMMA AcrossBytes ==
  ASSUME NEW i \in Int, NEW k \in Int, NEW n \in Int, NEW q1 \in 0 .. 7, NEW q2 \in 0 .. 7,
         k = 8 * i - 1 - q1, k + n - 1 = 8 * (i + 1) - 1 - q2, NEW q \in 0 .. 7
  PROVE  /\ 8 * i - 1 - q \in k .. k + n - 1 <=> q <= q1
         /\ 8 * (i + 1) - 1 - q \in k .. k + n - 1 <=> q2 <= q
         /\ n = q1 + 9 - q2
OBVIOUS

\* The same for a word: the run is in a byte of it, or is the whole of it, or crosses the
\* byte border in the reading of FLIP_BIT.
LEMMA FlipOfWord ==
  ASSUME BufOK, NEW i \in WordPlaces, NEW w, IsWord(w),
         NEW k \in Nat, NEW n \in {1, 2, 4, 8, 16},
         k + n <= 8 * Len(buf), NEW p \in Nat, n \in {8, 16} => k = 8 * (p - 1),
         WithWord(i, w) = FlipBits(k, n)
  PROVE  CouldBeBitflip(Word(i), w) \/ AcrossInFlip(WithWord(i, w))
<1> DEFINE m == WithWord(i, w)
           D == DiffBits(Word(i), w)
           E == DiffBits(Swap16(Word(i)), Swap16(w))
           X == XorByte(buf[i], m[i])
           Y == XorByte(buf[i + 1], m[i + 1])
<1>1. /\ i \in DOMAIN buf /\ i + 1 \in DOMAIN buf /\ i # i + 1
      /\ m \in Buffers /\ m[i] = w % 256 /\ m[i + 1] = w \div 256
      /\ \A j \in DOMAIN buf : j # i /\ j # i + 1 => m[j] = buf[j]
      /\ IsWord(Word(i)) /\ Word(i) % 256 = buf[i] /\ Word(i) \div 256 = buf[i + 1]
  BY WordType
<1>2. \A j \in DOMAIN buf : \A q \in 0 .. 7 :
        q \in XorByte(buf[j], m[j]) <=> 8 * j - 1 - q \in k .. k + n - 1
  <2>1. m = FlipBits(k, n) /\ k \in Int /\ n \in Int
    OBVIOUS
  <2>2. m \in Buffers
    BY <1>1
  <2> HIDE DEF m
  <2> QED BY ONLY BufOK, <2>1, <2>2, FlipIff
<1>3. Changed(m) = {i, i + 1} <=> X # {} /\ Y # {}
  <2>1. /\ buf[i] \in Byte /\ m[i] \in Byte /\ buf[i + 1] \in Byte /\ m[i + 1] \in Byte
    BY <1>1 DEF BufOK, Buffers
  <2>2. (X = {} <=> buf[i] = m[i]) /\ (Y = {} <=> buf[i + 1] = m[i + 1])
    BY <2>1, XorNone
  <2> HIDE DEF m
  <2> QED BY <1>1, <2>2 DEF Changed
<1>4. MutantWord(i, m) = w
  BY ChangedByWord
<1>5. /\ D \subseteq 0 .. 15
      /\ \A q \in 0 .. 7 : q \in D <=> q \in X
      /\ \A q \in 8 .. 15 : q \in D <=> q - 8 \in Y
  <2> DEFINE W == Word(i)
  <2>1. W \in Nat /\ w \in Nat
    BY <1>1 DEF IsWord
  <2>2. X = XorByte(W % 256, w % 256) /\ Y = XorByte(W \div 256, w \div 256)
    BY <1>1
  <2>3. D = DiffBits(W, w)
    OBVIOUS
  <2> HIDE DEF D, W, X, Y
  <2>4. /\ DiffBits(W, w) \subseteq 0 .. 15
        /\ \A q \in 0 .. 7 : q \in DiffBits(W, w) <=> q \in XorByte(W % 256, w % 256)
        /\ \A q \in 8 .. 15 : q \in DiffBits(W, w) <=> q - 8 \in XorByte(W \div 256, w \div 256)
    BY ONLY <2>1, DiffOfWords
  <2> QED BY <2>2, <2>3, <2>4
<1>6. /\ E \subseteq 0 .. 15
      /\ \A q \in 0 .. 7 : q \in E <=> q \in Y
      /\ \A q \in 8 .. 15 : q \in E <=> q - 8 \in X
  <2> DEFINE W == Swap16(Word(i))
             x == Swap16(w)
  <2>1. /\ IsWord(W) /\ W % 256 = Word(i) \div 256 /\ W \div 256 = Word(i) % 256
        /\ IsWord(x) /\ x % 256 = w \div 256 /\ x \div 256 = w % 256
    BY <1>1, Numbers
  <2>2. W \in Nat /\ x \in Nat
    BY <2>1 DEF IsWord
  <2>3. Y = XorByte(W % 256, x % 256) /\ X = XorByte(W \div 256, x \div 256)
    BY <1>1, <2>1
  <2>4. E = DiffBits(W, x)
    OBVIOUS
  <2> HIDE DEF E, W, x, X, Y
  <2>5. /\ DiffBits(W, x) \subseteq 0 .. 15
        /\ \A q \in 0 .. 7 : q \in DiffBits(W, x) <=> q \in XorByte(W % 256, x % 256)
        /\ \A q \in 8 .. 15 : q \in DiffBits(W, x) <=> q - 8 \in XorByte(W \div 256, x \div 256)
    BY ONLY <2>2, DiffOfWords
  <2> QED BY <2>3, <2>4, <2>5
<1>7. X \subseteq 0 .. 7 /\ Y \subseteq 0 .. 7
  BY DEF XorByte
<1>8. ASSUME NEW j \in DOMAIN buf, j # i, j # i + 1, NEW q \in 0 .. 7
      PROVE  8 * j - 1 - q \notin k .. k + n - 1
  <2>1. m[j] = buf[j]
    BY <1>1, <1>8
  <2> QED BY <1>2, <2>1 DEF XorByte
<1>9. \A q \in 0 .. 7 : /\ q \in X <=> 8 * i - 1 - q \in k .. k + n - 1
                        /\ q \in Y <=> 8 * (i + 1) - 1 - q \in k .. k + n - 1
  BY <1>1, <1>2
<1> HIDE DEF m, X, Y, D, E
<1>10. Len(buf) \in Nat /\ i \in Int /\ k \in Int /\ n \in Int /\ n \in Nat \ {0}
  BY <1>1 DEF BufOK
<1>11. ASSUME NEW y \in Nat, y \in k .. k + n - 1
       PROVE  \E j \in {i, i + 1} : \E q \in 0 .. 7 : y = 8 * j - 1 - q
  <2>1. y < 8 * Len(buf)
    BY <1>10, <1>11
  <2>2. PICK j \in DOMAIN buf : \E q \in 0 .. 7 : y = 8 * j - 1 - q
    BY <2>1, BitPlace
  <2> QED BY <1>8, <1>11, <2>2
<1>12. k \in k .. k + n - 1 /\ k + n - 1 \in k .. k + n - 1 /\ k + n - 1 \in Nat
  BY <1>10
<1>13. PICK j1 \in {i, i + 1} : \E q \in 0 .. 7 : k = 8 * j1 - 1 - q
  BY <1>11, <1>12
<1>14. PICK q1 \in 0 .. 7 : k = 8 * j1 - 1 - q1
  BY <1>13
<1>15. PICK j2 \in {i, i + 1} : \E q \in 0 .. 7 : k + n - 1 = 8 * j2 - 1 - q
  BY <1>11, <1>12
<1>16. PICK q2 \in 0 .. 7 : k + n - 1 = 8 * j2 - 1 - q2
  BY <1>15
<1>17. CASE j1 = i /\ j2 = i
  <2>1. /\ 8 * i - k - n = q2 /\ 8 * i - 1 - k = q1 /\ q1 = q2 + n - 1
        /\ n <= 8 /\ (n = 8 => q2 = 0)
    <3>1. k = 8 * i - 1 - q1 /\ k + n - 1 = 8 * i - 1 - q2 /\ q1 \in 0 .. 7 /\ q2 \in 0 .. 7
      BY <1>14, <1>16, <1>17
    <3>2. 8 * i - k - n = q2 /\ 8 * i - 1 - k = q1 /\ q1 = q2 + n - 1
      BY ONLY <1>10, <3>1
    <3>3. n <= 8 /\ (n = 8 => q2 = 0)
      BY ONLY <1>10, <3>1, <3>2
    <3> QED BY ONLY <3>2, <3>3
  <2>2. \A q \in 0 .. 7 : q \in X <=> q \in q2 .. q1
    <3>1. ASSUME NEW q \in 0 .. 7
          PROVE  8 * i - 1 - q \in k .. k + n - 1 <=> q \in 8 * i - k - n .. 8 * i - 1 - k
      BY <1>10, Mirror
    <3> QED BY <1>9, <2>1, <3>1
  <2>3. \A q \in 0 .. 7 : q \notin Y
    <3>1. k + n - 1 = 8 * i - 1 - q2 /\ q2 \in 0 .. 7
      BY <1>16, <1>17
    <3>2. \A q \in 0 .. 7 : 8 * (i + 1) - 1 - q \notin k .. k + n - 1
      BY ONLY <1>10, <3>1
    <3> QED BY <1>9, <3>2
  <2>4. D = q2 .. q1
    <3>1. \A q \in 8 .. 15 : q - 8 \in 0 .. 7 /\ q \notin q2 .. q1
      BY ONLY q1 \in 0 .. 7, q2 \in 0 .. 7
    <3>2. q2 .. q1 \subseteq 0 .. 15 /\ \A q \in 0 .. 15 : q \in 0 .. 7 \/ q \in 8 .. 15
      BY ONLY q1 \in 0 .. 7, q2 \in 0 .. 7
    <3> QED BY <1>5, <2>2, <2>3, <3>1, <3>2
  <2>5. D = q2 .. q2 + n - 1 /\ q2 \in 0 .. 15
    BY <2>1, <2>4
  <2>6. CASE n \in {1, 2, 4}
    BY <2>5, <2>6 DEF CouldBeBitflip, D
  <2>7. CASE n = 8
    <3>1. q2 \in {0, 8} /\ n \in {8, 16}
      BY <2>1, <2>7
    <3> QED BY <2>5, <3>1 DEF CouldBeBitflip, D
  <2>8. n # 16
    BY <2>1
  <2> QED BY <2>6, <2>7, <2>8
<1>18. CASE j1 = i + 1 /\ j2 = i + 1
  <2> DEFINE h == i + 1
  <2>1. h \in Int /\ k = 8 * h - 1 - q1 /\ k + n - 1 = 8 * h - 1 - q2 /\ q1 \in 0 .. 7 /\ q2 \in 0 .. 7
    BY <1>10, <1>14, <1>16, <1>18
  <2>2. \A q \in 0 .. 7 : 8 * i - 1 - q \notin k .. k + n - 1
    <3>1. k = 8 * (i + 1) - 1 - q1 /\ q1 \in 0 .. 7
      BY <2>1
    <3> QED BY ONLY <1>10, <3>1
  <2>3. \A q \in 0 .. 7 : q \in Y <=> 8 * h - 1 - q \in k .. k + n - 1
    BY <1>9
  <2> HIDE DEF h
  <2>4. /\ 8 * h - k - n = q2 /\ 8 * h - 1 - k = q1 /\ q1 = q2 + n - 1
        /\ n <= 8 /\ (n = 8 => q2 = 0)
    <3>1. 8 * h - k - n = q2 /\ 8 * h - 1 - k = q1 /\ q1 = q2 + n - 1
      BY ONLY <1>10, <2>1
    <3>2. n <= 8 /\ (n = 8 => q2 = 0)
      BY ONLY <1>10, <2>1, <3>1
    <3> QED BY ONLY <3>1, <3>2
  <2>5. \A q \in 0 .. 7 : q \in Y <=> q \in q2 .. q1
    <3>1. ASSUME NEW q \in 0 .. 7
          PROVE  8 * h - 1 - q \in k .. k + n - 1 <=> q \in 8 * h - k - n .. 8 * h - 1 - k
      BY <1>10, <2>1, Mirror
    <3> QED BY <2>3, <2>4, <3>1
  <2>6. D = q2 + 8 .. q1 + 8
    <3>1. \A q \in 0 .. 7 : q \notin X /\ q \notin q2 + 8 .. q1 + 8
      BY <1>9, <2>2
    <3>2. \A q \in 8 .. 15 : q - 8 \in 0 .. 7 /\ (q \in q2 + 8 .. q1 + 8 <=> q - 8 \in q2 .. q1)
      BY ONLY q1 \in 0 .. 7, q2 \in 0 .. 7
    <3>3. q2 + 8 .. q1 + 8 \subseteq 0 .. 15 /\ \A q \in 0 .. 15 : q \in 0 .. 7 \/ q \in 8 .. 15
      BY ONLY q1 \in 0 .. 7, q2 \in 0 .. 7
    <3>4. \A q \in 8 .. 15 : q \in D <=> q \in q2 + 8 .. q1 + 8
      BY <1>5, <2>5, <3>2
    <3> QED BY <1>5, <3>1, <3>3, <3>4
  <2> DEFINE sh == q2 + 8
  <2>7. D = sh .. sh + n - 1 /\ sh \in 0 .. 15
    <3>1. q1 + 8 = sh + n - 1 /\ sh \in 0 .. 15
      BY ONLY <1>10, <2>4, q1 \in 0 .. 7, q2 \in 0 .. 7
    <3> QED BY <2>6, <3>1
  <2>8. n = 8 => sh \in {0, 8}
    BY <2>4
  <2> HIDE DEF sh
  <2>9. CASE n \in {1, 2, 4}
    BY <2>7, <2>9 DEF CouldBeBitflip, D
  <2>10. CASE n = 8
    <3>1. sh \in {0, 8} /\ n \in {8, 16}
      BY <2>8, <2>10
    <3> QED BY <2>7, <3>1 DEF CouldBeBitflip, D
  <2>11. n # 16
    BY <2>4
  <2> QED BY <2>9, <2>10, <2>11
<1>19. CASE j1 = i + 1 /\ j2 = i
  <2>1. k = 8 * (i + 1) - 1 - q1 /\ k + n - 1 = 8 * i - 1 - q2 /\ q1 \in 0 .. 7 /\ q2 \in 0 .. 7
    BY <1>14, <1>16, <1>19
  <2> QED BY ONLY <1>10, <2>1
<1>20. CASE j1 = i /\ j2 = i + 1
  <2>1. k = 8 * i - 1 - q1 /\ k + n - 1 = 8 * (i + 1) - 1 - q2 /\ q1 \in 0 .. 7 /\ q2 \in 0 .. 7
    BY <1>14, <1>16, <1>20
  <2>2. /\ \A q \in 0 .. 7 : q \in X <=> q <= q1
        /\ \A q \in 0 .. 7 : q \in Y <=> q2 <= q
        /\ n = q1 + 9 - q2
    <3>1. ASSUME NEW q \in 0 .. 7
          PROVE  /\ 8 * i - 1 - q \in k .. k + n - 1 <=> q <= q1
                 /\ 8 * (i + 1) - 1 - q \in k .. k + n - 1 <=> q2 <= q
                 /\ n = q1 + 9 - q2
      BY ONLY <1>10, <2>1, q \in 0 .. 7, AcrossBytes
    <3>2. 0 \in 0 .. 7
      OBVIOUS
    <3> QED BY <1>9, <3>1, <3>2
  <2>3. CASE n \in {2, 4}
    <3>1. E = q2 .. q1 + 8
      <4>1. \A q \in 0 .. 7 : q \in q2 .. q1 + 8 <=> q2 <= q
        BY ONLY q1 \in 0 .. 7, q2 \in 0 .. 7
      <4>2. \A q \in 8 .. 15 : q - 8 \in 0 .. 7 /\ (q \in q2 .. q1 + 8 <=> q - 8 <= q1)
        BY ONLY q1 \in 0 .. 7, q2 \in 0 .. 7
      <4>3. q2 .. q1 + 8 \subseteq 0 .. 15 /\ \A q \in 0 .. 15 : q \in 0 .. 7 \/ q \in 8 .. 15
        BY ONLY q1 \in 0 .. 7, q2 \in 0 .. 7
      <4>4. \A q \in 8 .. 15 : q \in E <=> q \in q2 .. q1 + 8
        BY <1>6, <2>2, <4>2
      <4>5. \A q \in 0 .. 7 : q \in E <=> q \in q2 .. q1 + 8
        BY <1>6, <2>2, <4>1
      <4> QED BY <1>6, <4>3, <4>4, <4>5
    <3>2. \/ q2 = 7 /\ q1 + 8 = 8
          \/ q2 = 5 /\ q1 + 8 = 8
          \/ q2 = 6 /\ q1 + 8 = 9
          \/ q2 = 7 /\ q1 + 8 = 10
      <4>1. n = q1 + 9 - q2
        BY <2>2
      <4>2. CASE n = 2
        BY ONLY <4>1, <4>2, q1 \in 0 .. 7, q2 \in 0 .. 7
      <4>3. CASE n = 4
        BY ONLY <4>1, <4>3, q1 \in 0 .. 7, q2 \in 0 .. 7
      <4> QED BY <2>3, <4>2, <4>3
    <3>3. E \in AcrossBorder
      BY <3>1, <3>2 DEF AcrossBorder
    <3>4. X # {} /\ Y # {}
      <4>1. q1 \in 0 .. 7 /\ q1 <= q1 /\ q2 \in 0 .. 7 /\ q2 <= q2
        BY ONLY q1 \in 0 .. 7, q2 \in 0 .. 7
      <4> QED BY <2>2, <4>1
    <3> QED BY <1>3, <1>4, <3>3, <3>4 DEF AcrossInFlip, E, m
  <2>4. CASE n \in {8, 16}
    <3>1. k = 8 * (p - 1) /\ n = q1 + 9 - q2
      BY <2>2, <2>4
    <3>2. q1 = 7 /\ q2 = 0 /\ n = 16
      <4>1. p \in Int
        OBVIOUS
      <4>2. q1 = 7
        BY ONLY <1>10, <2>1, <3>1, <4>1
      <4> QED BY ONLY <2>1, <2>4, <3>1, <4>2
    <3>3. D = 0 .. 0 + 16 - 1
      <4>1. \A q \in 8 .. 15 : q - 8 \in 0 .. 7 /\ 0 <= q - 8
        OBVIOUS
      <4>2. \A q \in 0 .. 7 : q <= 7 /\ 0 <= q
        OBVIOUS
      <4>3. 0 + 16 - 1 = 15 /\ \A q \in 0 .. 15 : q \in 0 .. 7 \/ q \in 8 .. 15
        OBVIOUS
      <4> QED BY <1>5, <2>2, <3>2, <4>1, <4>2, <4>3
    <3> QED BY <3>3 DEF CouldBeBitflip, D
  <2>5. n # 1
    <3>1. n = q1 + 9 - q2
      BY <2>2
    <3> QED BY ONLY <3>1, q1 \in 0 .. 7, q2 \in 0 .. 7
  <2> QED BY <2>3, <2>4, <2>5
<1> QED BY <1>13, <1>15, <1>17, <1>18, <1>19, <1>20

-----------------------------------------------------------------------------
(* Nothing is run twice: sums and numbers.                                 *)

\* What is added, and that each value of it has one place in the loop.
LEMMA DeltasIn ==
  ASSUME NEW v \in 1 .. Variants("arith8")
  PROVE  /\ v \in Nat /\ Delta8(v) \in Int /\ Delta8(v) # 0
         /\ -ArithMax <= Delta8(v) /\ Delta8(v) <= ArithMax
         /\ v = IF Delta8(v) > 0 THEN 2 * Delta8(v) - 1 ELSE -(2 * Delta8(v))
<1>1. ArithMax \in Nat /\ Variants("arith8") = 2 * ArithMax
  BY Sizes DEF Variants
<1>2. v \in Nat /\ 1 <= v /\ v <= 2 * ArithMax
  BY <1>1
<1>3. CASE v % 2 = 1
  <2>1. Delta8(v) = (v + 1) \div 2
    BY <1>3 DEF Delta8
  <2>2. /\ (v + 1) \div 2 \in Nat /\ (v + 1) \div 2 > 0 /\ (v + 1) \div 2 <= ArithMax
        /\ v = 2 * ((v + 1) \div 2) - 1
    BY ONLY <1>1, <1>2, <1>3
  <2> DEFINE d == (v + 1) \div 2
  <2> HIDE DEF d
  <2>3. d \in Nat /\ d > 0 /\ d <= ArithMax /\ v = 2 * d - 1 /\ Delta8(v) = d
    BY <2>1, <2>2 DEF d
  <2> QED BY <1>1, <1>2, <2>3
<1>4. CASE v % 2 # 1
  <2>1. Delta8(v) = -(v \div 2)
    BY <1>4 DEF Delta8
  <2>2. v \div 2 \in Nat /\ v \div 2 > 0 /\ v \div 2 <= ArithMax /\ v = 2 * (v \div 2)
    BY ONLY <1>1, <1>2, <1>4
  <2> DEFINE d == v \div 2
  <2> HIDE DEF d
  <2>3. d \in Nat /\ d > 0 /\ d <= ArithMax /\ v = 2 * d /\ Delta8(v) = -d
    BY <2>1, <2>2 DEF d
  <2> QED BY <1>1, <1>2, <2>3
<1> QED BY <1>3, <1>4

LEMMA WordDeltasIn ==
  ASSUME NEW v \in 1 .. Variants("arith16")
  PROVE  /\ v \in Nat /\ Delta16(v) \in Int /\ Delta16(v) # 0
         /\ -ArithMax <= Delta16(v) /\ Delta16(v) <= ArithMax
         /\ v = IF Delta16(v) > 0 THEN 4 * Delta16(v) - (IF LittleEndian(v) THEN 3 ELSE 1)
                                  ELSE -(4 * Delta16(v)) - (IF LittleEndian(v) THEN 2 ELSE 0)
<1>1. ArithMax \in Nat /\ Variants("arith16") = 4 * ArithMax
  BY Sizes DEF Variants
<1>2. v \in Nat /\ 1 <= v /\ v <= 4 * ArithMax
  BY <1>1
<1> DEFINE d == (v + 3) \div 4
<1>3. d \in Nat /\ d > 0 /\ d <= ArithMax
  BY ONLY <1>1, <1>2
<1>4. v % 4 \in 0 .. 3 /\ v \in Int
  BY ONLY <1>2
<1>5. CASE v % 4 = 0
  <2>1. v % 2 # 1 /\ v = 4 * d
    BY ONLY <1>2, <1>5
  <2>2. Delta16(v) = -d /\ ~LittleEndian(v)
    BY <1>5, <2>1 DEF Delta16, LittleEndian
  <2> HIDE DEF d
  <2> QED BY <1>1, <1>2, <1>3, <2>1, <2>2
<1>6. CASE v % 4 = 1
  <2>1. v % 2 = 1 /\ v = 4 * d - 3
    BY ONLY <1>2, <1>6
  <2>2. Delta16(v) = d /\ LittleEndian(v)
    BY <1>6, <2>1 DEF Delta16, LittleEndian
  <2> HIDE DEF d
  <2> QED BY <1>1, <1>2, <1>3, <2>1, <2>2
<1>7. CASE v % 4 = 2
  <2>1. v % 2 # 1 /\ v = 4 * d - 2
    BY ONLY <1>2, <1>7
  <2>2. Delta16(v) = -d /\ LittleEndian(v)
    BY <1>7, <2>1 DEF Delta16, LittleEndian
  <2> HIDE DEF d
  <2> QED BY <1>1, <1>2, <1>3, <2>1, <2>2
<1>8. CASE v % 4 = 3
  <2>1. v % 2 = 1 /\ v = 4 * d - 1
    BY ONLY <1>2, <1>8
  <2>2. Delta16(v) = d /\ ~LittleEndian(v)
    BY <1>8, <2>1 DEF Delta16, LittleEndian
  <2> HIDE DEF d
  <2> QED BY <1>1, <1>2, <1>3, <2>1, <2>2
<1> QED BY <1>4, <1>5, <1>6, <1>7, <1>8

\* Sums are near what they are sums of, as could_be_arith computes it.
LEMMA SumsNear ==
  ASSUME NEW d \in Int, -ArithMax <= d, d <= ArithMax
  PROVE  /\ \A a \in Byte : Near8(a, U8(a + d))
         /\ \A a : IsWord(a) => Near16(a, U16(a + d))
<1>1. ArithMax \in Nat /\ ArithMax <= 127
  BY Sizes
<1>2. ASSUME NEW a \in Byte PROVE Near8(a, U8(a + d))
  <2>1. a \in Nat /\ a < 256
    BY DEF Byte
  <2>2. CASE d >= 0
    <3>1. (((a + d) % 256) - a) % 256 = d
      BY ONLY <1>1, <2>1, <2>2, d \in Int, d <= ArithMax
    <3> QED BY <3>1 DEF Near8, U8
  <2>3. CASE d < 0
    <3>1. (a - ((a + d) % 256)) % 256 = -d
      BY ONLY <1>1, <2>1, <2>3, d \in Int, -ArithMax <= d
    <3>2. -d <= ArithMax
      BY <1>1
    <3> QED BY <3>1, <3>2 DEF Near8, U8
  <2> QED BY <2>2, <2>3
<1>3. ASSUME NEW a, IsWord(a) PROVE Near16(a, U16(a + d))
  <2>1. a \in Nat /\ a < 65536
    BY <1>3 DEF IsWord
  <2>2. CASE d >= 0
    <3>1. (((a + d) % 65536) - a) % 65536 = d
      BY ONLY <1>1, <2>1, <2>2, d \in Int, d <= ArithMax
    <3> QED BY <3>1 DEF Near16, U16
  <2>3. CASE d < 0
    <3>1. (a - ((a + d) % 65536)) % 65536 = -d
      BY ONLY <1>1, <2>1, <2>3, d \in Int, -ArithMax <= d
    <3>2. -d <= ArithMax
      BY <1>1
    <3> QED BY <3>1, <3>2 DEF Near16, U16
  <2> QED BY <2>2, <2>3
<1> QED BY <1>2, <1>3

\* Different numbers make different sums, bytes and words.
LEMMA SumsApart ==
  ASSUME NEW d \in Int, -ArithMax <= d, d <= ArithMax,
         NEW e \in Int, -ArithMax <= e, e <= ArithMax
  PROVE  /\ \A a \in Byte : U8(a + d) = U8(a + e) => d = e
         /\ \A a : IsWord(a) /\ U16(a + d) = U16(a + e) => d = e
<1>1. ArithMax \in Nat /\ ArithMax <= 127
  BY Sizes
<1>2. /\ d \in Int /\ -127 <= d /\ d <= 127 /\ e \in Int /\ -127 <= e /\ e <= 127
  BY <1>1
<1>3. ASSUME NEW a \in Nat, (a + d) % 256 = (a + e) % 256 PROVE d = e
  BY ONLY <1>2, <1>3, a \in Nat
<1>4. ASSUME NEW a \in Nat, (a + d) % 65536 = (a + e) % 65536 PROVE d = e
  BY ONLY <1>2, <1>4, a \in Nat
<1>5. \A a \in Byte : a \in Nat /\ (U8(a + d) = U8(a + e) => d = e)
  BY <1>3 DEF U8, Byte
<1>6. ASSUME NEW a, IsWord(a), U16(a + d) = U16(a + e) PROVE d = e
  <2>1. a \in Nat /\ (a + d) % 65536 = (a + e) % 65536
    BY <1>6 DEF U16, IsWord
  <2> QED BY <1>4, <2>1
<1> QED BY <1>5, <1>6

LEMMA NumbersApart ==
  /\ \A j, k \in DOMAIN Interesting8 : U8(Interesting8[j]) = U8(Interesting8[k]) => j = k
  /\ \A j, k \in DOMAIN Interesting16 : U16(Interesting16[j]) = U16(Interesting16[k]) => j = k
<1>1. ASSUME NEW a \in Int, NEW b \in Int, -128 <= a, a <= 127, -128 <= b, b <= 127,
             a % 256 = b % 256
      PROVE  a = b
  BY ONLY <1>1
<1>2. ASSUME NEW a \in Int, NEW b \in Int, -32768 <= a, a <= 32767, -32768 <= b, b <= 32767,
             a % 65536 = b % 65536
      PROVE  a = b
  BY ONLY <1>2
<1>3. NoRepeats(Interesting8) /\ NoRepeats(Interesting16)
  BY InterestingAssumption
<1>4. ASSUME NEW j \in DOMAIN Interesting8, NEW k \in DOMAIN Interesting8,
             U8(Interesting8[j]) = U8(Interesting8[k])
      PROVE  j = k
  <2>1. Interesting8[j] = Interesting8[k]
    BY <1>1, <1>4, Entries DEF U8
  <2> QED BY <1>3, <2>1 DEF NoRepeats
<1>5. ASSUME NEW j \in DOMAIN Interesting16, NEW k \in DOMAIN Interesting16,
             U16(Interesting16[j]) = U16(Interesting16[k])
      PROVE  j = k
  <2>1. Interesting16[j] = Interesting16[k]
    BY <1>2, <1>5, Entries DEF U16
  <2> QED BY <1>3, <2>1 DEF NoRepeats
<1> QED BY <1>4, <1>5

\* A sum with a carry changes both bytes: the low one by far, the high one by one.
CarriesUp(w, x) == (x % 256) + 129 <= w % 256 /\ x \div 256 = ((w \div 256) + 1) % 256
CarriesDown(w, x) == (w % 256) + 129 <= x % 256 /\ x \div 256 = ((w \div 256) + 255) % 256

LEMMA Carry ==
  ASSUME NEW w, IsWord(w), NEW d \in Int, -ArithMax <= d, d <= ArithMax, U8(w) + d \notin Byte
  PROVE  CarriesUp(w, U16(w + d)) \/ CarriesDown(w, U16(w + d))
<1> DEFINE lo == w % 256
           hi == w \div 256
           x == U16(w + d)
<1>1. lo \in Byte /\ hi \in Byte /\ w = lo + 256 * hi /\ lo + d \notin Byte
  BY BytesOfWord DEF U8
<1>2. -127 <= d /\ d <= 127
  BY Sizes
<1>3. CarriesUp(w, x) <=> (x % 256) + 129 <= lo /\ x \div 256 = (hi + 1) % 256
  BY DEF CarriesUp
<1>4. CarriesDown(w, x) <=> lo + 129 <= x % 256 /\ x \div 256 = (hi + 255) % 256
  BY DEF CarriesDown
<1>5. x = (lo + 256 * hi + d) % 65536
  BY <1>1 DEF U16
<1> HIDE DEF lo, hi, x
<1>6. lo \in Nat /\ lo < 256 /\ hi \in Nat /\ hi < 256 /\ (lo + d < 0 \/ lo + d > 255)
  BY <1>1 DEF Byte
<1>7. ASSUME NEW a \in Nat, a < 256, NEW b \in Nat, b < 256, x = a + 256 * b
      PROVE  x % 256 = a /\ x \div 256 = b
  BY ONLY <1>7
<1>8. CASE lo + d > 255 /\ hi < 255
  <2>1. x = (lo + d - 256) + 256 * (hi + 1) /\ (hi + 1) % 256 = hi + 1
    BY ONLY <1>2, <1>5, <1>6, <1>8, d \in Int
  <2>2. /\ lo + d - 256 \in Nat /\ lo + d - 256 < 256 /\ hi + 1 \in Nat /\ hi + 1 < 256
        /\ lo + d - 256 + 129 <= lo
    BY ONLY <1>2, <1>6, <1>8, d \in Int
  <2>3. x % 256 = lo + d - 256 /\ x \div 256 = hi + 1
    BY <1>7, <2>1, <2>2
  <2>4. (x % 256) + 129 <= lo
    BY ONLY <2>2, <2>3
  <2>5. x \div 256 = (hi + 1) % 256
    BY <2>1, <2>3
  <2> QED BY <1>3, <2>4, <2>5 DEF x
<1>9. CASE lo + d > 255 /\ hi = 255
  <2>1. x = (lo + d - 256) + 256 * 0 /\ (hi + 1) % 256 = 0
    BY ONLY <1>2, <1>5, <1>6, <1>9, d \in Int
  <2>2. /\ lo + d - 256 \in Nat /\ lo + d - 256 < 256
        /\ lo + d - 256 + 129 <= lo
    BY ONLY <1>2, <1>6, <1>9, d \in Int
  <2>3. x % 256 = lo + d - 256 /\ x \div 256 = 0
    BY <1>7, <2>1, <2>2
  <2>4. (x % 256) + 129 <= lo
    BY ONLY <2>2, <2>3
  <2>5. x \div 256 = (hi + 1) % 256
    BY <2>1, <2>3
  <2> QED BY <1>3, <2>4, <2>5 DEF x
<1>10. CASE lo + d < 0 /\ hi > 0
  <2>1. x = (lo + d + 256) + 256 * (hi - 1) /\ (hi + 255) % 256 = hi - 1
    BY ONLY <1>2, <1>5, <1>6, <1>10, d \in Int
  <2>2. /\ lo + d + 256 \in Nat /\ lo + d + 256 < 256 /\ hi - 1 \in Nat /\ hi - 1 < 256
        /\ lo + 129 <= lo + d + 256
    BY ONLY <1>2, <1>6, <1>10, d \in Int
  <2>3. x % 256 = lo + d + 256 /\ x \div 256 = hi - 1
    BY <1>7, <2>1, <2>2
  <2>4. lo + 129 <= x % 256
    BY ONLY <2>2, <2>3
  <2>5. x \div 256 = (hi + 255) % 256
    BY <2>1, <2>3
  <2> QED BY <1>4, <2>4, <2>5 DEF x
<1>11. CASE lo + d < 0 /\ hi = 0
  <2>1. x = (lo + d + 256) + 256 * 255 /\ (hi + 255) % 256 = 255
    BY ONLY <1>2, <1>5, <1>6, <1>11, d \in Int
  <2>2. /\ lo + d + 256 \in Nat /\ lo + d + 256 < 256
        /\ lo + 129 <= lo + d + 256
    BY ONLY <1>2, <1>6, <1>11, d \in Int
  <2>3. x % 256 = lo + d + 256 /\ x \div 256 = 255
    BY <1>7, <2>1, <2>2
  <2>4. lo + 129 <= x % 256
    BY ONLY <2>2, <2>3
  <2>5. x \div 256 = (hi + 255) % 256
    BY <2>1, <2>3
  <2> QED BY <1>4, <2>4, <2>5 DEF x
<1> QED BY <1>6, <1>8, <1>9, <1>10, <1>11

LEMMA CarryChanges ==
  ASSUME NEW w, IsWord(w), NEW x, IsWord(x), CarriesUp(w, x) \/ CarriesDown(w, x)
  PROVE  x % 256 # w % 256 /\ x \div 256 # w \div 256
<1> DEFINE lo == w % 256
           hi == w \div 256
           lx == x % 256
           hx == x \div 256
<1>1. lo \in Byte /\ hi \in Byte /\ lx \in Byte /\ hx \in Byte
  BY BytesOfWord
<1>2. \/ lx + 129 <= lo /\ hx = (hi + 1) % 256
      \/ lo + 129 <= lx /\ hx = (hi + 255) % 256
  BY DEF CarriesUp, CarriesDown
<1> HIDE DEF lo, hi, lx, hx
<1>3. lx # lo
  BY ONLY <1>1, <1>2 DEF Byte
<1>4. (hi + 1) % 256 # hi /\ (hi + 255) % 256 # hi
  BY ONLY <1>1 DEF Byte
<1> QED BY <1>2, <1>3, <1>4 DEF lo, hi, lx, hx

\* The carries of the two byte orders meet in the flip of all the bits only.
LEMMA BothCarries ==
  ASSUME NEW w, IsWord(w), NEW x, IsWord(x), CarriesUp(w, x) \/ CarriesDown(w, x),
         CarriesUp(Swap16(w), Swap16(x)) \/ CarriesDown(Swap16(w), Swap16(x))
  PROVE  CouldBeBitflip(w, x)
<1> DEFINE lo == w % 256
           hi == w \div 256
           lx == x % 256
           hx == x \div 256
<1>1. /\ lo \in Byte /\ hi \in Byte /\ lx \in Byte /\ hx \in Byte
  BY BytesOfWord
<1>2. \/ lx + 129 <= lo /\ hx = (hi + 1) % 256
      \/ lo + 129 <= lx /\ hx = (hi + 255) % 256
  BY DEF CarriesUp, CarriesDown
<1>3. \/ hx + 129 <= hi /\ lx = (lo + 1) % 256
      \/ hi + 129 <= hx /\ lx = (lo + 255) % 256
  <2>1. /\ Swap16(w) % 256 = hi /\ Swap16(w) \div 256 = lo
        /\ Swap16(x) % 256 = hx /\ Swap16(x) \div 256 = lx
    BY Numbers
  <2> HIDE DEF lo, hi, lx, hx
  <2> QED BY <2>1 DEF CarriesUp, CarriesDown
<1>4. w \in Nat /\ x \in Nat
  BY DEF IsWord
<1>5. /\ DiffBits(w, x) \subseteq 0 .. 15
      /\ \A q \in 0 .. 7 : q \in DiffBits(w, x) <=> q \in XorByte(lo, lx)
      /\ \A q \in 8 .. 15 : q \in DiffBits(w, x) <=> q - 8 \in XorByte(hi, hx)
  BY <1>4, DiffOfWords
<1> HIDE DEF lo, hi, lx, hx
<1>6. /\ lo \in Nat /\ hi \in Nat /\ lx \in Nat /\ hx \in Nat
      /\ lo < 256 /\ hi < 256 /\ lx < 256 /\ hx < 256
  BY <1>1 DEF Byte
<1>7. \/ lo = 255 /\ hi = 255 /\ lx = 0 /\ hx = 0
      \/ lo = 0 /\ hi = 0 /\ lx = 255 /\ hx = 255
  <2>1. CASE lx + 129 <= lo
    <3>1. lx = (lo + 1) % 256 => lo = 255 /\ lx = 0
      BY ONLY <1>6, <2>1
    <3>2. lx # (lo + 255) % 256
      BY ONLY <1>6, <2>1
    <3>3. hx + 129 <= hi /\ lo = 255 /\ lx = 0
      BY <1>3, <3>1, <3>2
    <3>4. hx = (hi + 1) % 256
      BY <1>2, <1>6, <2>1
    <3>5. hi = 255 /\ hx = 0
      BY ONLY <1>6, <3>3, <3>4
    <3> QED BY <3>3, <3>5
  <2>2. CASE lo + 129 <= lx
    <3>1. lx = (lo + 255) % 256 => lo = 0 /\ lx = 255
      BY ONLY <1>6, <2>2
    <3>2. lx # (lo + 1) % 256
      BY ONLY <1>6, <2>2
    <3>3. hi + 129 <= hx /\ lo = 0 /\ lx = 255
      BY <1>3, <3>1, <3>2
    <3>4. hx = (hi + 255) % 256
      BY <1>2, <1>6, <2>2
    <3>5. hi = 0 /\ hx = 255
      BY ONLY <1>6, <3>3, <3>4
    <3> QED BY <3>3, <3>5
  <2> QED BY <1>2, <2>1, <2>2
<1>8. \A q \in 0 .. 7 : Bit(255, q) = 1 /\ Bit(0, q) = 0
  <2>1. 255 \in Nat /\ 0 \in Nat
    OBVIOUS
  <2>2. /\ Bit(255, 0) = 1 /\ Bit(255, 1) = 1 /\ Bit(255, 2) = 1 /\ Bit(255, 3) = 1
        /\ Bit(255, 4) = 1 /\ Bit(255, 5) = 1 /\ Bit(255, 6) = 1 /\ Bit(255, 7) = 1
    BY <2>1, BitValues
  <2>3. /\ Bit(0, 0) = 0 /\ Bit(0, 1) = 0 /\ Bit(0, 2) = 0 /\ Bit(0, 3) = 0
        /\ Bit(0, 4) = 0 /\ Bit(0, 5) = 0 /\ Bit(0, 6) = 0 /\ Bit(0, 7) = 0
    BY <2>1, BitValues
  <2>4. \A q \in 0 .. 7 : q \in {0, 1, 2, 3, 4, 5, 6, 7}
    OBVIOUS
  <2> QED BY <2>2, <2>3, <2>4
<1>9. \A q \in 0 .. 7 : q \in XorByte(lo, lx) /\ q \in XorByte(hi, hx)
  <2>1. 0 # 1
    OBVIOUS
  <2> QED BY <1>7, <1>8, <2>1 DEF XorByte
<1>10. DiffBits(w, x) = 0 .. 15
  <2>1. \A q \in 8 .. 15 : q - 8 \in 0 .. 7
    OBVIOUS
  <2>2. \A q \in 0 .. 15 : q \in 0 .. 7 \/ q \in 8 .. 15
    OBVIOUS
  <2> QED BY <1>5, <1>9, <2>1, <2>2
<1>11. 0 .. 15 = 0 .. 0 + 16 - 1
  OBVIOUS
<1> QED BY <1>10, <1>11 DEF CouldBeBitflip

-----------------------------------------------------------------------------
(* Nothing is run twice: slots.                                            *)

Slot(s, p, v) == p \in 1 .. LastPlace(s) /\ v \in 1 .. Variants(s) /\ New(s, p, v)

ByteStages == {"arith8", "int8"}
WordStages == {"arith16", "int16"}
ByteOf(s, p, v) == IF s = "arith8" THEN Sum8(buf[p], v) ELSE U8(Interesting8[v])
WordOf(s, p, v) == IF s = "arith16" THEN Sum16(Word(p), v) ELSE Number16(v)

LEMMA SameIsFlip == \A a : CouldBeBitflip(a, a)
BY DEF CouldBeBitflip, DiffBits

\* What the filters leave of the stages on bytes.
LEMMA ByteSlot ==
  ASSUME BufOK, NEW s \in ByteStages, NEW p, NEW v, Slot(s, p, v)
  PROVE  /\ p \in DOMAIN buf /\ buf[p] \in Byte /\ ByteOf(s, p, v) \in Byte
         /\ Mutant(s, p, v) = WithByte(p, ByteOf(s, p, v))
         /\ ~CouldBeBitflip(buf[p], ByteOf(s, p, v)) /\ ByteOf(s, p, v) # buf[p]
         /\ s = "arith8" => Near8(buf[p], ByteOf(s, p, v))
         /\ s = "int8" => /\ v \in DOMAIN Interesting8
                          /\ ~Near8(buf[p], ByteOf(s, p, v))
<1> DEFINE x == ByteOf(s, p, v)
<1>1. p \in DOMAIN buf /\ buf[p] \in Byte
  <2>1. LastPlace(s) = Len(buf)
    BY DEF ByteStages, LastPlace
  <2> QED BY <2>1 DEF Slot, BufOK
<1>2. CASE s = "arith8"
  <2>1. v \in 1 .. Variants("arith8") /\ New("arith8", p, v)
    BY <1>2 DEF Slot
  <2>2. /\ v \in Nat /\ Delta8(v) \in Int
        /\ -ArithMax <= Delta8(v) /\ Delta8(v) <= ArithMax
    BY <2>1, DeltasIn
  <2>3. x = Sum8(buf[p], v) /\ x = U8(buf[p] + Delta8(v))
    BY <1>2 DEF ByteOf, Sum8
  <2>4. x \in Byte
    BY <1>1, <2>2, <2>3, SumTypes
  <2>5. Near8(buf[p], x)
    BY <1>1, <2>2, <2>3, SumsNear
  <2>6. ~CouldBeBitflip(buf[p], x) /\ Mutant(s, p, v) = WithByte(p, x)
    BY <1>2, <2>1, <2>3 DEF New, Mutant
  <2>7. x # buf[p] /\ s # "int8"
    BY <1>2, <2>6, SameIsFlip
  <2> QED BY <1>1, <2>4, <2>5, <2>6, <2>7
<1>3. CASE s = "int8"
  <2>1. v \in DOMAIN Interesting8 /\ New("int8", p, v)
    BY <1>3, Sizes DEF Slot, Variants
  <2>2. x = U8(Interesting8[v])
    BY <1>3 DEF ByteOf
  <2>3. x \in Byte
    BY <2>1, <2>2, Entries, Numbers
  <2>4. /\ ~CouldBeBitflip(buf[p], x) /\ ~CouldBeArith8(buf[p], x)
        /\ Mutant(s, p, v) = WithByte(p, x)
    BY <1>3, <2>1, <2>2 DEF New, Mutant
  <2>5. x # buf[p] /\ ~Near8(buf[p], x) /\ s # "arith8"
    BY <1>3, <2>4 DEF CouldBeArith8
  <2> QED BY <1>1, <2>1, <2>3, <2>4, <2>5
<1> QED BY <1>2, <1>3 DEF ByteStages

\* And of those on words: a sum in one of the two byte orders, or a number.
LEMMA WordSlot ==
  ASSUME BufOK, NEW s \in WordStages, NEW p, NEW v, Slot(s, p, v)
  PROVE  /\ p \in WordPlaces /\ IsWord(Word(p)) /\ IsWord(WordOf(s, p, v))
         /\ Mutant(s, p, v) = WithWord(p, WordOf(s, p, v))
         /\ ~CouldBeBitflip(Word(p), WordOf(s, p, v)) /\ WordOf(s, p, v) # Word(p)
         /\ s = "arith16" => v \in 1 .. Variants("arith16") /\ Carries(Word(p), v)
         /\ s = "int16" => /\ v \in 1 .. 2 * Len(Interesting16)
                           /\ ~CouldBeArith16(Word(p), WordOf(s, p, v))
                           /\ ~CouldBeInterest16(Word(p), WordOf(s, p, v), v % 2 = 0)
<1> DEFINE x == WordOf(s, p, v)
<1>1. p \in WordPlaces
  BY DEF WordStages, LastPlace, Slot, WordPlaces
<1>2. IsWord(Word(p))
  <2>1. IsWord(0)
    BY DEF IsWord
  <2> QED BY <1>1, <2>1, WordType
<1>3. CASE s = "arith16"
  <2>1. v \in 1 .. Variants("arith16") /\ New("arith16", p, v)
    BY <1>3 DEF Slot
  <2>2. x = Sum16(Word(p), v) /\ v \in Nat
    BY <1>3, <2>1, WordDeltasIn DEF WordOf
  <2>3. IsWord(x)
    BY <1>2, <2>2, SumTypes
  <2>4. ~CouldBeBitflip(Word(p), x) /\ Carries(Word(p), v) /\ Mutant(s, p, v) = WithWord(p, x)
    BY <1>3, <2>1, <2>2 DEF New, Mutant
  <2>5. x # Word(p) /\ s # "int16"
    BY <1>3, <2>4, SameIsFlip
  <2> QED BY <1>1, <1>2, <2>1, <2>3, <2>4, <2>5
<1>4. CASE s = "int16"
  <2>1. v \in 1 .. 2 * Len(Interesting16) /\ New("int16", p, v)
    BY <1>4 DEF Slot, Variants
  <2>2. x = Number16(v) /\ v \in Nat
    BY <1>4, <2>1, Sizes DEF WordOf
  <2>3. IsWord(x)
    BY <2>1, <2>2, SumTypes
  <2>4. /\ ~CouldBeBitflip(Word(p), x) /\ ~CouldBeArith16(Word(p), x)
        /\ ~CouldBeInterest16(Word(p), x, v % 2 = 0)
        /\ Mutant(s, p, v) = WithWord(p, x)
    BY <1>4, <2>1, <2>2 DEF New, Mutant
  <2>5. x # Word(p) /\ s # "arith16"
    BY <1>4, <2>4, SameIsFlip
  <2> QED BY <1>1, <1>2, <2>1, <2>3, <2>4, <2>5
<1> QED BY <1>3, <1>4 DEF WordStages

\* Two slots on bytes.
LEMMA BytesDiffer ==
  ASSUME BufOK, NEW s \in ByteStages, NEW p, NEW v, Slot(s, p, v),
         NEW t \in ByteStages, NEW q, NEW u, Slot(t, q, u), Mutant(s, p, v) = Mutant(t, q, u)
  PROVE  s = t /\ p = q /\ v = u
<1> DEFINE x == ByteOf(s, p, v)
           y == ByteOf(t, q, u)
<1>1. /\ p \in DOMAIN buf /\ buf[p] \in Byte /\ x \in Byte
      /\ Mutant(s, p, v) = WithByte(p, x) /\ x # buf[p]
      /\ s = "arith8" => Near8(buf[p], x)
      /\ s = "int8" => v \in DOMAIN Interesting8 /\ ~Near8(buf[p], x)
  BY ByteSlot
<1>2. /\ q \in DOMAIN buf /\ buf[q] \in Byte /\ y \in Byte
      /\ Mutant(t, q, u) = WithByte(q, y) /\ y # buf[q]
      /\ t = "arith8" => Near8(buf[q], y)
      /\ t = "int8" => u \in DOMAIN Interesting8 /\ ~Near8(buf[q], y)
  BY ByteSlot
<1>3. p = q /\ x = y
  <2>1. /\ \A j \in DOMAIN buf : WithByte(p, x)[j] = IF j = p THEN x ELSE buf[j]
        /\ \A j \in DOMAIN buf : WithByte(q, y)[j] = IF j = q THEN y ELSE buf[j]
    BY <1>1, <1>2, ByteType
  <2> HIDE DEF x, y
  <2>2. WithByte(p, x) = WithByte(q, y)
    BY <1>1, <1>2
  <2> QED BY <1>1, <1>2, <2>1, <2>2
<1>4. s = t
  BY <1>1, <1>2, <1>3 DEF ByteStages
<1>5. CASE s = "arith8"
  <2>1. v \in 1 .. Variants("arith8") /\ u \in 1 .. Variants("arith8")
    BY <1>4, <1>5 DEF Slot
  <2>2. x = U8(buf[p] + Delta8(v)) /\ y = U8(buf[p] + Delta8(u))
    BY <1>3, <1>4, <1>5 DEF ByteOf, Sum8
  <2>3. /\ Delta8(v) \in Int /\ -ArithMax <= Delta8(v) /\ Delta8(v) <= ArithMax
        /\ v = IF Delta8(v) > 0 THEN 2 * Delta8(v) - 1 ELSE -(2 * Delta8(v))
    BY <2>1, DeltasIn
  <2>4. /\ Delta8(u) \in Int /\ -ArithMax <= Delta8(u) /\ Delta8(u) <= ArithMax
        /\ u = IF Delta8(u) > 0 THEN 2 * Delta8(u) - 1 ELSE -(2 * Delta8(u))
    BY <2>1, DeltasIn
  <2>5. Delta8(v) = Delta8(u)
    BY <1>1, <1>3, <2>2, <2>3, <2>4, SumsApart
  <2> QED BY <1>3, <1>4, <2>3, <2>4, <2>5
<1>6. CASE s = "int8"
  <2>1. x = U8(Interesting8[v]) /\ y = U8(Interesting8[u])
    BY <1>4, <1>6 DEF ByteOf
  <2>2. v = u
    BY <1>1, <1>2, <1>3, <1>4, <1>6, <2>1, NumbersApart
  <2> QED BY <1>3, <1>4, <2>2
<1> QED BY <1>5, <1>6 DEF ByteStages

\* A sum of a word carries over, in its byte order.
LEMMA SumCarry ==
  ASSUME NEW w, IsWord(w), NEW v \in 1 .. Variants("arith16"), Carries(w, v)
  PROVE  /\ LittleEndian(v) =>
              /\ CarriesUp(w, Sum16(w, v)) \/ CarriesDown(w, Sum16(w, v))
              /\ Sum16(w, v) = U16(w + Delta16(v))
         /\ ~LittleEndian(v) =>
              /\ \/ CarriesUp(Swap16(w), Swap16(Sum16(w, v)))
                 \/ CarriesDown(Swap16(w), Swap16(Sum16(w, v)))
              /\ Swap16(Sum16(w, v)) = U16(Swap16(w) + Delta16(v))
         /\ Sum16(w, v) % 256 # w % 256 /\ Sum16(w, v) \div 256 # w \div 256
         /\ CouldBeArith16(w, Sum16(w, v))
<1> DEFINE d == Delta16(v)
           x == Sum16(w, v)
<1>1. v \in Nat /\ d \in Int /\ -ArithMax <= d /\ d <= ArithMax
  BY WordDeltasIn
<1>2. IsWord(x) /\ IsWord(Swap16(w)) /\ IsWord(Swap16(x))
  BY <1>1, SumTypes, Numbers
<1> HIDE DEF d
<1>3. CASE LittleEndian(v)
  <2>1. x = U16(w + d) /\ U8(w) + d \notin Byte
    BY <1>3 DEF Sum16, Carries, d
  <2>2. (CarriesUp(w, x) \/ CarriesDown(w, x)) /\ Near16(w, x)
    BY <1>1, <2>1, Carry, SumsNear
  <2>3. x % 256 # w % 256 /\ x \div 256 # w \div 256
    BY <1>2, <2>2, CarryChanges
  <2>4. CouldBeArith16(w, x)
    BY <2>2 DEF CouldBeArith16
  <2> QED BY <1>3, <2>1, <2>2, <2>3, <2>4 DEF d
<1>4. CASE ~LittleEndian(v)
  <2> DEFINE b == Swap16(w)
             y == Swap16(x)
             z == U16(b + d)
  <2>1. x = Swap16(z) /\ U8(b) + d \notin Byte
    BY <1>4 DEF Sum16, Carries, d
  <2>2. b \in Int
    BY <1>2 DEF IsWord
  <2>3. IsWord(z)
    BY <1>1, <2>2, Numbers
  <2>4. y = z
    BY <2>1, <2>3, Numbers
  <2> HIDE DEF z
  <2>5. (CarriesUp(b, y) \/ CarriesDown(b, y)) /\ Near16(b, y)
    BY <1>1, <1>2, <2>1, <2>4, Carry, SumsNear DEF z
  <2>6. y % 256 # b % 256 /\ y \div 256 # b \div 256
    BY <1>2, <2>5, CarryChanges
  <2>7. /\ b % 256 = w \div 256 /\ b \div 256 = w % 256
        /\ y % 256 = x \div 256 /\ y \div 256 = x % 256
    BY <1>2, Numbers
  <2>8. x % 256 # w % 256 /\ x \div 256 # w \div 256
    BY <2>6, <2>7
  <2>9. CouldBeArith16(w, x)
    BY <2>5 DEF CouldBeArith16
  <2> QED BY <1>4, <2>4, <2>5, <2>8, <2>9 DEF d, z
<1> QED BY <1>3, <1>4

\* Two slots on a word.
LEMMA WordsDiffer ==
  ASSUME BufOK, NEW p, NEW s \in WordStages, NEW v, Slot(s, p, v),
         NEW t \in WordStages, NEW u, Slot(t, p, u), Mutant(s, p, v) = Mutant(t, p, u)
  PROVE  s = t /\ v = u
<1> DEFINE W == Word(p)
           x == WordOf(s, p, v)
           y == WordOf(t, p, u)
<1>1. /\ p \in WordPlaces /\ IsWord(W) /\ IsWord(x)
      /\ Mutant(s, p, v) = WithWord(p, x) /\ ~CouldBeBitflip(W, x)
      /\ s = "arith16" => v \in 1 .. Variants("arith16") /\ Carries(W, v)
      /\ s = "int16" => /\ v \in 1 .. 2 * Len(Interesting16)
                        /\ ~CouldBeArith16(W, x) /\ ~CouldBeInterest16(W, x, v % 2 = 0)
  BY WordSlot
<1>2. /\ IsWord(y)
      /\ Mutant(t, p, u) = WithWord(p, y)
      /\ t = "arith16" => u \in 1 .. Variants("arith16") /\ Carries(W, u)
      /\ t = "int16" => /\ u \in 1 .. 2 * Len(Interesting16)
                        /\ ~CouldBeArith16(W, y) /\ ~CouldBeInterest16(W, y, u % 2 = 0)
  BY WordSlot
<1>3. /\ s = "arith16" => x = Sum16(W, v)
      /\ s = "int16" => x = Number16(v)
      /\ t = "arith16" => y = Sum16(W, u)
      /\ t = "int16" => y = Number16(u)
  BY DEF WordOf
<1> HIDE DEF W, x, y
<1>4. x = y
  <2>1. MutantWord(p, WithWord(p, x)) = x /\ MutantWord(p, WithWord(p, y)) = y
    BY <1>1, <1>2, ChangedByWord
  <2> QED BY <1>1, <1>2, <2>1
<1>5. s = t
  <2>1. s = "arith16" => CouldBeArith16(W, x)
    BY <1>1, <1>3, SumCarry
  <2>2. t = "arith16" => CouldBeArith16(W, y)
    BY <1>1, <1>2, <1>3, SumCarry
  <2> QED BY <1>1, <1>2, <1>4, <2>1, <2>2 DEF WordStages
<1>6. CASE s = "arith16"
  <2>1. /\ v \in 1 .. Variants("arith16") /\ Carries(W, v) /\ x = Sum16(W, v)
        /\ u \in 1 .. Variants("arith16") /\ Carries(W, u) /\ x = Sum16(W, u)
    BY <1>1, <1>2, <1>3, <1>4, <1>5, <1>6
  <2> DEFINE d == Delta16(v)
             e == Delta16(u)
  <2>2. /\ d \in Int /\ -ArithMax <= d /\ d <= ArithMax
        /\ v = IF d > 0 THEN 4 * d - (IF LittleEndian(v) THEN 3 ELSE 1)
                        ELSE -(4 * d) - (IF LittleEndian(v) THEN 2 ELSE 0)
    BY <2>1, WordDeltasIn
  <2>3. /\ e \in Int /\ -ArithMax <= e /\ e <= ArithMax
        /\ u = IF e > 0 THEN 4 * e - (IF LittleEndian(u) THEN 3 ELSE 1)
                        ELSE -(4 * e) - (IF LittleEndian(u) THEN 2 ELSE 0)
    BY <2>1, WordDeltasIn
  <2>4. IsWord(W) /\ d = Delta16(v) /\ e = Delta16(u)
    BY <1>1
  <2> HIDE DEF d, e
  <2>5. IsWord(Swap16(W)) /\ IsWord(Swap16(x))
    BY <1>1, Numbers
  <2>6. ASSUME NEW a \in 1 .. Variants("arith16"), Carries(W, a), x = Sum16(W, a)
         PROVE  /\ LittleEndian(a) => /\ CarriesUp(W, x) \/ CarriesDown(W, x)
                                      /\ x = U16(W + Delta16(a))
                /\ ~LittleEndian(a) => /\ \/ CarriesUp(Swap16(W), Swap16(x))
                                          \/ CarriesDown(Swap16(W), Swap16(x))
                                       /\ Swap16(x) = U16(Swap16(W) + Delta16(a))
    BY <2>4, <2>6, SumCarry
  <2>7. /\ LittleEndian(v) => (CarriesUp(W, x) \/ CarriesDown(W, x)) /\ x = U16(W + d)
        /\ ~LittleEndian(v) => /\ CarriesUp(Swap16(W), Swap16(x)) \/ CarriesDown(Swap16(W), Swap16(x))
                               /\ Swap16(x) = U16(Swap16(W) + d)
    BY <2>1, <2>4, <2>6
  <2>8. /\ LittleEndian(u) => (CarriesUp(W, x) \/ CarriesDown(W, x)) /\ x = U16(W + e)
        /\ ~LittleEndian(u) => /\ CarriesUp(Swap16(W), Swap16(x)) \/ CarriesDown(Swap16(W), Swap16(x))
                               /\ Swap16(x) = U16(Swap16(W) + e)
    BY <2>1, <2>4, <2>6
  <2>9. CASE LittleEndian(v) /\ LittleEndian(u)
    <3>1. d = e
      BY <1>1, <2>2, <2>3, <2>7, <2>8, <2>9, SumsApart
    <3> QED BY <1>5, <2>2, <2>3, <2>9, <3>1
  <2>10. CASE ~LittleEndian(v) /\ ~LittleEndian(u)
    <3>1. d = e
      BY <2>2, <2>3, <2>5, <2>7, <2>8, <2>10, SumsApart
    <3> QED BY <1>5, <2>2, <2>3, <2>10, <3>1
  <2>11. CASE LittleEndian(v) # LittleEndian(u)
    <3>1. CarriesUp(W, x) \/ CarriesDown(W, x)
      BY <2>7, <2>8, <2>11 DEF LittleEndian
    <3>2. CarriesUp(Swap16(W), Swap16(x)) \/ CarriesDown(Swap16(W), Swap16(x))
      BY <2>7, <2>8, <2>11 DEF LittleEndian
    <3>3. CouldBeBitflip(W, x)
      BY <1>1, <3>1, <3>2, BothCarries
    <3> QED BY <1>1, <3>3
  <2> QED BY <2>9, <2>10, <2>11
<1>7. CASE s = "int16"
  <2>1. /\ v \in 1 .. 2 * Len(Interesting16) /\ ~CouldBeInterest16(W, x, v % 2 = 0)
        /\ u \in 1 .. 2 * Len(Interesting16) /\ ~CouldBeInterest16(W, x, u % 2 = 0)
        /\ x = Number16(v) /\ x = Number16(u)
    BY <1>1, <1>2, <1>3, <1>4, <1>5, <1>7
  <2> DEFINE j == (v + 1) \div 2
             k == (u + 1) \div 2
             a == U16(Interesting16[j])
             b == U16(Interesting16[k])
  <2>2. /\ v \in Nat /\ u \in Nat /\ Len(Interesting16) \in Nat
        /\ 1 <= v /\ v <= 2 * Len(Interesting16) /\ 1 <= u /\ u <= 2 * Len(Interesting16)
    BY <2>1, Sizes
  <2>3. j \in DOMAIN Interesting16 /\ (v % 2 = 0 \/ v % 2 = 1)
    <3>1. j \in 1 .. Len(Interesting16) /\ (v % 2 = 0 \/ v % 2 = 1)
      BY ONLY <2>2
    <3> QED BY <3>1, Sizes
  <2>4. k \in DOMAIN Interesting16 /\ (u % 2 = 0 \/ u % 2 = 1)
    <3>1. k \in 1 .. Len(Interesting16) /\ (u % 2 = 0 \/ u % 2 = 1)
      BY ONLY <2>2
    <3> QED BY <3>1, Sizes
  <2>5. /\ x = IF v % 2 = 1 THEN a ELSE Swap16(a)
        /\ x = IF u % 2 = 1 THEN b ELSE Swap16(b)
    BY <2>1 DEF Number16
  <2> HIDE DEF j, k
  <2>6. IsWord(a) /\ IsWord(b)
    BY <2>3, <2>4, Entries, Numbers
  <2>7. v % 2 = 0 => x # b
    BY <2>1, <2>4 DEF CouldBeInterest16
  <2>8. u % 2 = 0 => x # a
    BY <2>1, <2>3 DEF CouldBeInterest16
  <2>9. v % 2 = u % 2
    <3>1. 0 # 1
      OBVIOUS
    <3> QED BY <2>3, <2>4, <2>5, <2>7, <2>8, <3>1
  <2>10. a = b
    BY <2>5, <2>6, <2>9, Numbers
  <2>11. j = k
    BY <2>3, <2>4, <2>10, NumbersApart
  <2>12. v = u
    BY ONLY <2>2, <2>9, <2>11 DEF j, k
  <2> QED BY <1>5, <2>12
<1> QED BY <1>6, <1>7 DEF WordStages

\* A slot on a byte and one on a word.
LEMMA ByteNotWord ==
  ASSUME BufOK, NEW s \in ByteStages, NEW p, NEW v, Slot(s, p, v),
         NEW t \in WordStages, NEW q, NEW u, Slot(t, q, u), Mutant(s, p, v) = Mutant(t, q, u)
  PROVE  FALSE
<1> DEFINE x == ByteOf(s, p, v)
           W == Word(q)
           w == WordOf(t, q, u)
           m == WithWord(q, w)
<1>1. /\ p \in DOMAIN buf /\ buf[p] \in Byte /\ x \in Byte
      /\ Mutant(s, p, v) = WithByte(p, x)
      /\ s = "arith8" => Near8(buf[p], x)
      /\ s = "int8" => v \in DOMAIN Interesting8
  BY ByteSlot
<1>2. /\ q \in WordPlaces /\ IsWord(W) /\ IsWord(w)
      /\ Mutant(t, q, u) = m /\ w # W
      /\ t = "arith16" => u \in 1 .. Variants("arith16") /\ Carries(W, u)
      /\ t = "int16" => /\ ~CouldBeArith16(W, w) /\ ~CouldBeInterest16(W, w, u % 2 = 0)
  BY WordSlot
<1>3. /\ q \in DOMAIN buf /\ q + 1 \in DOMAIN buf /\ q # q + 1
      /\ buf[q] \in Byte /\ buf[q + 1] \in Byte
      /\ W % 256 = buf[q] /\ W \div 256 = buf[q + 1]
      /\ m[q] = w % 256 /\ m[q + 1] = w \div 256
  BY <1>2, WordType
<1>4. \A j \in DOMAIN buf : m[j] = IF j = p THEN x ELSE buf[j]
  <2>1. m = WithByte(p, x)
    BY <1>1, <1>2
  <2> HIDE DEF m, x
  <2> QED BY <1>1, <2>1, ByteType
<1>5. w = (w % 256) + 256 * (w \div 256) /\ W = (W % 256) + 256 * (W \div 256)
  BY <1>2, BytesOfWord
<1>6. /\ s = "int8" => x = U8(Interesting8[v])
      /\ t = "arith16" => w = Sum16(W, u)
  BY DEF ByteOf, WordOf
<1> HIDE DEF x, W, w, m
<1>7. CASE p # q /\ p # q + 1
  <2>1. w % 256 = buf[q] /\ w \div 256 = buf[q + 1]
    BY <1>3, <1>4, <1>7
  <2> QED BY <1>2, <1>3, <1>5, <2>1
<1>8. CASE t = "arith16"
  <2>1. w % 256 # buf[q] /\ w \div 256 # buf[q + 1]
    BY <1>2, <1>3, <1>6, <1>8, SumCarry
  <2>2. p = q \/ p = q + 1
    BY <1>7
  <2> QED BY <1>3, <1>4, <2>1, <2>2
<1>9. CASE t = "int16" /\ p = q
  <2>1. w % 256 = x /\ w \div 256 = buf[q + 1]
    BY <1>3, <1>4, <1>9
  <2>2. CASE s = "arith8"
    <3>1. W \div 256 = w \div 256 /\ Near8(U8(W), U8(w))
      BY <1>1, <1>3, <1>9, <2>1, <2>2 DEF U8
    <3> QED BY <1>2, <1>9, <3>1 DEF CouldBeArith16
  <2>3. CASE s = "int8"
    <3>1. w = (W - U8(W)) + x
      <4> DEFINE a == buf[q]
                 b == buf[q + 1]
      <4>1. a \in Int /\ b \in Int /\ x \in Int
        BY <1>1, <1>3 DEF Byte
      <4>2. U8(W) = a /\ W = a + 256 * b /\ w = x + 256 * b
        BY <1>3, <1>5, <2>1 DEF U8
      <4> HIDE DEF a, b
      <4>3. w = (W - a) + x
        BY ONLY <4>1, <4>2
      <4> QED BY <4>2, <4>3
    <3>2. v \in DOMAIN Interesting8 /\ x = U8(Interesting8[v])
      BY <1>1, <1>6, <2>3
    <3> QED BY <1>2, <1>9, <3>1, <3>2 DEF CouldBeInterest16
  <2> QED BY <2>2, <2>3 DEF ByteStages
<1>10. CASE t = "int16" /\ p = q + 1
  <2>1. w % 256 = buf[q] /\ w \div 256 = x
    BY <1>3, <1>4, <1>10
  <2>2. CASE s = "arith8"
    <3>1. U8(W) = U8(w) /\ Near8(W \div 256, w \div 256)
      BY <1>1, <1>3, <1>10, <2>1, <2>2 DEF U8
    <3> QED BY <1>2, <1>10, <3>1 DEF CouldBeArith16
  <2>3. CASE s = "int8"
    <3>1. w = U8(W) + 256 * x
      BY <1>3, <1>5, <2>1 DEF U8
    <3>2. v \in DOMAIN Interesting8 /\ x = U8(Interesting8[v])
      BY <1>1, <1>6, <2>3
    <3> QED BY <1>2, <1>10, <3>1, <3>2 DEF CouldBeInterest16
  <2> QED BY <2>2, <2>3 DEF ByteStages
<1> QED BY <1>7, <1>8, <1>9, <1>10 DEF WordStages

\* A flip and a slot on a byte or word.
FlipStages == DOMAIN FlipWidth

LEMMA FlipRun ==
  ASSUME BufOK, NEW s \in FlipStages, NEW p, NEW v, Slot(s, p, v)
  PROVE  \E k \in Nat, n \in {1, 2, 4, 8, 16} :
           /\ Mutant(s, p, v) = FlipBits(k, n) /\ k + n <= 8 * Len(buf)
           /\ p \in Nat /\ (n \in {8, 16} => k = 8 * (p - 1))
<1> DEFINE k == FlipFrom(s, p)
           n == FlipWidth[s]
<1>1. /\ Mutant(s, p, v) = FlipBits(k, n)
      /\ n \in {1, 2, 4, 8, 16} /\ k \in Nat /\ p \in Nat
      /\ k + n <= 8 * Len(buf)
      /\ s \in {"flip8", "flip16"} => k = 8 * (p - 1)
      /\ s \notin {"flip8", "flip16"} => n <= 4
  BY FlipSlot DEF Slot, FlipStages
<1> HIDE DEF k, n
<1>2. n \in {8, 16} => k = 8 * (p - 1)
  <2>1. n \in {8, 16} => ~(n <= 4)
    OBVIOUS
  <2> QED BY <1>1, <2>1
<1> QED BY <1>1, <1>2

LEMMA FlipNotByte ==
  ASSUME BufOK, NEW s \in FlipStages, NEW p, NEW v, Slot(s, p, v),
         NEW t \in ByteStages, NEW q, NEW u, Slot(t, q, u)
  PROVE  Mutant(s, p, v) # Mutant(t, q, u)
<1> DEFINE x == ByteOf(t, q, u)
<1> SUFFICES ASSUME Mutant(s, p, v) = Mutant(t, q, u) PROVE FALSE
  OBVIOUS
<1>1. /\ q \in DOMAIN buf /\ x \in Byte /\ Mutant(t, q, u) = WithByte(q, x)
      /\ ~CouldBeBitflip(buf[q], x)
  BY ByteSlot
<1>2. PICK k \in Nat, n \in {1, 2, 4, 8, 16} :
        /\ Mutant(s, p, v) = FlipBits(k, n) /\ k + n <= 8 * Len(buf)
        /\ p \in Nat /\ (n \in {8, 16} => k = 8 * (p - 1))
  BY FlipRun
<1> HIDE DEF x
<1>3. WithByte(q, x) = FlipBits(k, n)
  BY <1>1, <1>2
<1> QED BY <1>1, <1>2, <1>3, FlipOfByte

LEMMA FlipNotWord ==
  ASSUME BufOK, NEW s \in FlipStages, NEW p, NEW v, Slot(s, p, v),
         NEW t \in WordStages, NEW q, NEW u, Slot(t, q, u), Mutant(s, p, v) = Mutant(t, q, u)
  PROVE  AcrossInFlip(Mutant(s, p, v))
<1> DEFINE w == WordOf(t, q, u)
<1>1. /\ q \in WordPlaces /\ IsWord(w) /\ Mutant(t, q, u) = WithWord(q, w)
      /\ ~CouldBeBitflip(Word(q), w)
  BY WordSlot
<1>2. PICK k \in Nat, n \in {1, 2, 4, 8, 16} :
        /\ Mutant(s, p, v) = FlipBits(k, n) /\ k + n <= 8 * Len(buf)
        /\ p \in Nat /\ (n \in {8, 16} => k = 8 * (p - 1))
  BY FlipRun
<1> HIDE DEF w
<1>3. WithWord(q, w) = FlipBits(k, n)
  BY <1>1, <1>2
<1>4. AcrossInFlip(WithWord(q, w))
  BY <1>1, <1>2, <1>3, FlipOfWord
<1> QED BY <1>1, <1>4

\* Two flips.
LEMMA FlipsDiffer ==
  ASSUME BufOK, NEW s \in FlipStages, NEW p, NEW v, Slot(s, p, v),
         NEW t \in FlipStages, NEW q, NEW u, Slot(t, q, u), Mutant(s, p, v) = Mutant(t, q, u)
  PROVE  s = t /\ p = q /\ v = u
<1> DEFINE k == FlipFrom(s, p)
           n == FlipWidth[s]
           l == FlipFrom(t, q)
           o == FlipWidth[t]
<1>1. /\ Mutant(s, p, v) = FlipBits(k, n) /\ v = 1 /\ p \in Nat
      /\ n \in {1, 2, 4, 8, 16} /\ k \in Nat /\ k + n <= 8 * Len(buf)
      /\ s \in {"flip8", "flip16"} => k = 8 * (p - 1)
      /\ s \notin {"flip8", "flip16"} => k = p - 1
  BY FlipSlot DEF Slot, FlipStages
<1>2. /\ Mutant(t, q, u) = FlipBits(l, o) /\ u = 1 /\ q \in Nat
      /\ o \in {1, 2, 4, 8, 16} /\ l \in Nat /\ l + o <= 8 * Len(buf)
      /\ t \in {"flip8", "flip16"} => l = 8 * (q - 1)
      /\ t \notin {"flip8", "flip16"} => l = q - 1
  BY FlipSlot DEF Slot, FlipStages
<1>3. n = o => s = t
  BY DEF FlipStages, FlipWidth
<1> HIDE DEF k, n, l, o
<1>4. n \in Nat \ {0} /\ o \in Nat \ {0}
  BY <1>1, <1>2
<1>5. k = l /\ n = o
  BY <1>1, <1>2, <1>4, FlipInjective
<1>6. CASE s \in {"flip8", "flip16"}
  <2>1. k = 8 * (p - 1) /\ k = 8 * (q - 1) /\ p \in Nat /\ q \in Nat
    BY <1>1, <1>2, <1>3, <1>5, <1>6
  <2>2. p = q
    BY ONLY <2>1
  <2> QED BY <1>1, <1>2, <1>3, <1>5, <2>2
<1>7. CASE s \notin {"flip8", "flip16"}
  <2>1. k = p - 1 /\ k = q - 1 /\ p \in Nat /\ q \in Nat
    BY <1>1, <1>2, <1>3, <1>5, <1>7
  <2>2. p = q
    BY ONLY <2>1
  <2> QED BY <1>1, <1>2, <1>3, <1>5, <2>2
<1> QED BY <1>6, <1>7

LEMMA Kinds == DOMAIN After = FlipStages \cup ByteStages \cup WordStages
BY StageNames DEF FlipStages, FlipWidth, ByteStages, WordStages

\* No slot runs the input itself.
LEMMA SlotChanges ==
  ASSUME BufOK, NEW s \in DOMAIN After, NEW p, NEW v, Slot(s, p, v)
  PROVE  Mutant(s, p, v) # buf
<1>1. CASE s \in FlipStages
  <2> SUFFICES ASSUME Mutant(s, p, v) = buf PROVE FALSE
    OBVIOUS
  <2>1. PICK k \in Nat, n \in {1, 2, 4, 8, 16} :
          Mutant(s, p, v) = FlipBits(k, n) /\ k + n <= 8 * Len(buf)
    BY <1>1, FlipRun
  <2>2. buf \in Buffers /\ Len(buf) \in Nat /\ k \in Int /\ n \in Int
    BY DEF BufOK, Buffers
  <2>3. k \in k .. k + n - 1 /\ k < 8 * Len(buf)
    <3>1. n \in Nat \ {0} /\ 8 * Len(buf) \in Int
      BY <2>2
    <3> QED BY <2>1, <3>1
  <2>4. PICK i \in DOMAIN buf : \E q \in 0 .. 7 : k = 8 * i - 1 - q
    BY <2>3, BitPlace
  <2>5. PICK q \in 0 .. 7 : k = 8 * i - 1 - q
    BY <2>4
  <2>6. buf = FlipBits(k, n)
    BY <2>1
  <2>7. q \in XorByte(buf[i], buf[i]) <=> 8 * i - 1 - q \in k .. k + n - 1
    BY <2>2, <2>6, FlipIff
  <2> QED BY <2>3, <2>5, <2>7 DEF XorByte
<1>2. CASE s \in ByteStages
  <2> DEFINE x == ByteOf(s, p, v)
  <2>1. p \in DOMAIN buf /\ x \in Byte /\ Mutant(s, p, v) = WithByte(p, x) /\ x # buf[p]
    BY <1>2, ByteSlot
  <2> HIDE DEF x
  <2>2. WithByte(p, x)[p] = x
    BY <2>1, ByteType
  <2> QED BY <2>1, <2>2
<1>3. CASE s \in WordStages
  <2> DEFINE w == WordOf(s, p, v)
             W == Word(p)
  <2>1. p \in WordPlaces /\ IsWord(w) /\ IsWord(W) /\ Mutant(s, p, v) = WithWord(p, w) /\ w # W
    BY <1>3, WordSlot
  <2> HIDE DEF w
  <2>2. /\ WithWord(p, w)[p] = w % 256 /\ WithWord(p, w)[p + 1] = w \div 256
        /\ W % 256 = buf[p] /\ W \div 256 = buf[p + 1]
    BY <2>1, WordType
  <2>3. w = (w % 256) + 256 * (w \div 256) /\ W = (W % 256) + 256 * (W \div 256)
    BY <2>1, BytesOfWord
  <2> HIDE DEF W
  <2> QED BY <2>1, <2>2, <2>3
<1> QED BY <1>1, <1>2, <1>3, Kinds

\* With one or two bytes, two slots make the same mutant only across the byte border.
LEMMA SlotsDiffer ==
  ASSUME BufOK, Len(buf) <= 2, NEW s \in DOMAIN After, NEW p, NEW v, Slot(s, p, v),
         NEW t \in DOMAIN After, NEW q, NEW u, Slot(t, q, u), Mutant(s, p, v) = Mutant(t, q, u)
  PROVE  (s = t /\ p = q /\ v = u) \/ AcrossInFlip(Mutant(s, p, v))
<1>1. s \in FlipStages \cup ByteStages \cup WordStages /\ t \in FlipStages \cup ByteStages \cup WordStages
  BY Kinds
<1>2. CASE s \in FlipStages /\ t \in FlipStages
  BY <1>2, FlipsDiffer
<1>3. CASE s \in FlipStages /\ t \in ByteStages
  BY <1>3, FlipNotByte
<1>4. CASE s \in FlipStages /\ t \in WordStages
  BY <1>4, FlipNotWord
<1>5. CASE s \in ByteStages /\ t \in FlipStages
  BY <1>5, FlipNotByte
<1>6. CASE s \in ByteStages /\ t \in ByteStages
  BY <1>6, BytesDiffer
<1>7. CASE s \in ByteStages /\ t \in WordStages
  BY <1>7, ByteNotWord
<1>8. CASE s \in WordStages /\ t \in FlipStages
  BY <1>8, FlipNotWord
<1>9. CASE s \in WordStages /\ t \in ByteStages
  BY <1>9, ByteNotWord
<1>10. CASE s \in WordStages /\ t \in WordStages
  <2>1. p \in WordPlaces /\ q \in WordPlaces
    BY <1>10, WordSlot
  <2>2. Len(buf) \in {1, 2}
    BY DEF BufOK
  <2>3. WordPlaces \subseteq {1}
    BY <2>2 DEF WordPlaces
  <2>4. p = q
    BY <2>1, <2>3
  <2>5. s = t /\ v = u
    BY <1>10, <2>4, WordsDiffer
  <2> QED BY <2>4, <2>5
<1> QED BY <1>1, <1>2, <1>3, <1>4, <1>5, <1>6, <1>7, <1>8, <1>9, <1>10

\* The two parts of NoDupes: the first follows from Provenance, the second with it.
OnlyAcross == Len(buf) <= 2 => \A m \in repeated : AcrossInFlip(m)

LEMMA NeverTheInput == TypeOK /\ Provenance => buf \notin executed
<1> SUFFICES ASSUME TypeOK, Provenance, buf \in executed PROVE FALSE
  OBVIOUS
<1>1. PICK s \in DOMAIN After : \E p \in 1 .. LastPlace(s), v \in 1 .. Variants(s) :
        New(s, p, v) /\ buf = Mutant(s, p, v)
  BY DEF Provenance
<1>2. PICK p \in 1 .. LastPlace(s), v \in 1 .. Variants(s) : New(s, p, v) /\ buf = Mutant(s, p, v)
  BY <1>1
<1>3. Slot(s, p, v)
  BY <1>2 DEF Slot
<1> QED BY <1>2, <1>3, TypeBuf, SlotChanges

LEMMA SameAcross ==
  ASSUME UNCHANGED buf, NEW m
  PROVE  AcrossInFlip(m)' <=> AcrossInFlip(m)
<1>1. /\ WordPlaces' = WordPlaces /\ Changed(m)' = Changed(m)
      /\ \A i : Word(i)' = Word(i) /\ MutantWord(i, m)' = MutantWord(i, m)
  BY DEF Changed, Word, MutantWord, WordPlaces
<1> QED BY <1>1 DEF AcrossInFlip

LEMMA AcrossStep == TypeOK /\ Provenance /\ OnlyAcross /\ [Next]_vars => OnlyAcross'
<1> SUFFICES ASSUME TypeOK, Provenance, OnlyAcross, [Next]_vars, Len(buf) <= 2,
                    NEW m \in repeated'
             PROVE  AcrossInFlip(m)
  BY BufUnchanged, SameAcross DEF OnlyAcross
<1>1. CASE m \in repeated
  BY <1>1 DEF OnlyAcross
<1>2. CASE m \notin repeated
  <2>1. Exec
    BY <1>2 DEF Next, Skip, NextStage, Abandon, vars
  <2>2. /\ InStage /\ New(stage, place, variant)
        /\ m = Mutant(stage, place, variant) /\ m \in executed
    BY <1>2, <2>1 DEF Exec
  <2>3. PICK s \in DOMAIN After : \E p \in 1 .. LastPlace(s), v \in 1 .. Variants(s) :
          Past(s, p, v) /\ New(s, p, v) /\ m = Mutant(s, p, v)
    BY <2>2 DEF Provenance
  <2>4. PICK p \in 1 .. LastPlace(s), v \in 1 .. Variants(s) :
          Past(s, p, v) /\ New(s, p, v) /\ m = Mutant(s, p, v)
    BY <2>3
  <2>5. Slot(s, p, v)
    BY <2>4 DEF Slot
  <2>6. BufOK /\ stage \in DOMAIN After
    BY <2>2, TypeBuf DEF InStage
  <2>7. LastPlace(stage) \in Nat /\ Variants(stage) \in Nat
    BY <2>6, LoopBounds
  <2>8. place \in 1 .. LastPlace(stage) /\ variant \in 1 .. Variants(stage)
    BY <2>2, <2>6, <2>7 DEF InStage, TypeOK
  <2>9. Slot(stage, place, variant)
    BY <2>2, <2>8 DEF Slot
  <2>10. ~(s = stage /\ p = place /\ v = variant)
    <3>1. Rank[stage] \in Int /\ place \in Int /\ variant \in Int
      BY <2>6, <2>7, <2>8, Ranks
    <3> QED BY <2>4, <3>1 DEF Past
  <2> QED BY <2>2, <2>4, <2>5, <2>6, <2>9, <2>10, SlotsDiffer
<1> QED BY <1>1, <1>2

\* Whatever the input, ARITH_MAX, the tables and the effector map, the target is not run
\* on the input itself, nor twice on a mutant of an input of one or two bytes, but for
\* flips of two and four bits across the byte border.
THEOREM NothingIsDuplicated == Spec => []NoDupes
<1>1. Init => TypeOK /\ Provenance /\ OnlyAcross
  BY TypeInit, RunInit DEF Init, OnlyAcross
<1>2. (TypeOK /\ Provenance /\ OnlyAcross) /\ [Next]_vars => (TypeOK /\ Provenance /\ OnlyAcross)'
  BY TypeStep, ProvenanceStep, AcrossStep
<1>3. TypeOK /\ Provenance /\ OnlyAcross => NoDupes
  BY NeverTheInput DEF OnlyAcross, NoDupes
<1> QED BY <1>1, <1>2, <1>3, PTL DEF Spec
=============================================================================
