---------------------------- MODULE Base64Proofs ----------------------------
(***************************************************************************)
(* Proofs about Base64, for tokens of every length: what the two loops     *)
(* compute although their accumulator keeps only the last 32 bits.         *)
(***************************************************************************)
EXTENDS Base64, SequenceTheorems, WellFoundedInduction, TLAPS

Byte == {x \in Nat : x < 256}
Six  == {x \in Nat : x < 64}
Half == {x \in Nat : x < 65536}

(* A non-empty set of naturals has a least element.                        *)
LEMMA LeastNat ==
  ASSUME NEW T \in SUBSET Nat, T # {}
  PROVE  \E m \in T : \A k \in T : m <= k
<1> DEFINE R == OpToRel(<, Nat)
<1>1. \A x, y \in Nat : x < y => <<x, y>> \in R
  BY DEF OpToRel
<1>2. IsWellFoundedOn(R, Nat)
  BY NatLessThanWellFounded
<1> HIDE DEF R
<1>3. PICK m \in T : \A k \in T : ~ (<<k, m>> \in R)
  BY <1>2, WFMin
<1>4. \A k \in T : ~ (k < m)
  BY <1>1, <1>3
<1> QED BY <1>3, <1>4

(* A set of steps that holds the first and, with each, the next, holds all.*)
LEMMA AllSteps ==
  ASSUME NEW n \in Nat, NEW T, 0 \in T, \A i \in 1 .. n : i - 1 \in T => i \in T
  PROVE  0 .. n \subseteq T
<1> DEFINE without == {i \in 0 .. n : i \notin T}
<1>1. SUFFICES ASSUME without # {} PROVE FALSE
  OBVIOUS
<1>2. without \in SUBSET Nat
  OBVIOUS
<1>3. PICK m \in without : \A k \in without : m <= k
  BY <1>1, <1>2, LeastNat
<1>4. m # 0 /\ m \in 1 .. n
  BY <1>3
<1>5. m - 1 \in 0 .. n /\ m - 1 \notin without
  BY <1>3, <1>4
<1> QED BY <1>3, <1>4, <1>5

-----------------------------------------------------------------------------
(* One step of the accumulator.  Only its lower half is ever looked at.    *)

ValOK(val) == val.hi \in Nat /\ val.lo \in Half

LEMMA Pushed8 ==
  ASSUME NEW val, ValOK(val), NEW c \in Byte
  PROVE  /\ ValOK(Push(val, 8, c))
         /\ Push(val, 8, c).lo = 256 * (val.lo % 256) + c
<1>1. /\ Push(val, 8, c).lo = ((val.lo * 256) % 65536) + c
      /\ Push(val, 8, c).hi = (val.hi * 256 + val.lo \div 256) % 65536
  BY DEF Push
<1>2. \A x \in Half : (x * 256) % 65536 = 256 * (x % 256)
  BY DEF Half
<1>3. \A x, y \in Nat : (x * 256 + y \div 256) % 65536 \in Nat
  OBVIOUS
<1>4. val.hi \in Nat /\ val.lo \in Half /\ val.lo \in Nat
  BY DEF ValOK, Half
<1>5. Push(val, 8, c).lo = 256 * (val.lo % 256) + c /\ Push(val, 8, c).hi \in Nat
  BY <1>1, <1>2, <1>3, <1>4
<1>6. Push(val, 8, c).lo \in Half
  BY <1>4, <1>5 DEF Byte, Half
<1>7. ValOK(Push(val, 8, c))
  BY <1>5, <1>6 DEF ValOK
<1> QED BY <1>5, <1>7

LEMMA Pushed6 ==
  ASSUME NEW val, ValOK(val), NEW c \in Six
  PROVE  /\ ValOK(Push(val, 6, c))
         /\ Push(val, 6, c).lo = 64 * (val.lo % 1024) + c
<1>1. /\ Push(val, 6, c).lo = ((val.lo * 64) % 65536) + c
      /\ Push(val, 6, c).hi = (val.hi * 64 + val.lo \div 1024) % 65536
  BY DEF Push
<1>2. \A x \in Half : (x * 64) % 65536 = 64 * (x % 1024)
  BY DEF Half
<1>3. \A x, y \in Nat : (x * 64 + y \div 1024) % 65536 \in Nat
  OBVIOUS
<1>4. val.hi \in Nat /\ val.lo \in Half /\ val.lo \in Nat
  BY DEF ValOK, Half
<1>5. Push(val, 6, c).lo = 64 * (val.lo % 1024) + c /\ Push(val, 6, c).hi \in Nat
  BY <1>1, <1>2, <1>3, <1>4
<1>6. Push(val, 6, c).lo \in Half
  BY <1>4, <1>5 DEF Six, Half
<1>7. ValOK(Push(val, 6, c))
  BY <1>5, <1>6 DEF ValOK
<1> QED BY <1>5, <1>7

LEMMA BitsAre ==
  ASSUME NEW val, ValOK(val)
  PROVE  /\ Bits(val, 0, 6) = val.lo % 64
         /\ Bits(val, 2, 6) = (val.lo \div 4) % 64
         /\ Bits(val, 4, 6) = (val.lo \div 16) % 64
         /\ Bits(val, 6, 6) = (val.lo \div 64) % 64
         /\ Bits(val, 0, 8) = val.lo % 256
         /\ Bits(val, 2, 8) = (val.lo \div 4) % 256
         /\ Bits(val, 4, 8) = (val.lo \div 16) % 256
<1> val.hi \in Nat /\ val.lo \in Nat
  BY DEF ValOK, Half
<1>1. Bits(val, 0, 6) = val.lo % 64
  BY DEF Bits
<1>2. Bits(val, 2, 6) = (val.lo \div 4) % 64
  BY DEF Bits
<1>3. Bits(val, 4, 6) = (val.lo \div 16) % 64
  BY DEF Bits
<1>4. Bits(val, 6, 6) = (val.lo \div 64) % 64
  BY DEF Bits
<1>5. Bits(val, 0, 8) = val.lo % 256
  BY DEF Bits
<1>6. Bits(val, 2, 8) = (val.lo \div 4) % 256
  BY DEF Bits
<1>7. Bits(val, 4, 8) = (val.lo \div 16) % 256
  BY DEF Bits
<1> QED BY <1>1, <1>2, <1>3, <1>4, <1>5, <1>6, <1>7

-----------------------------------------------------------------------------
(* The four sextets of a group of three bytes.                             *)

ByteAt(in, j) == IF j <= Len(in) THEN in[j] ELSE 0

LEMMA ByteBits ==
  ASSUME NEW c \in Byte
  PROVE  /\ c \div 4 = 32 * ((c \div 128) % 2) + 16 * ((c \div 64) % 2)
                       + 8 * ((c \div 32) % 2) + 4 * ((c \div 16) % 2)
                       + 2 * ((c \div 8) % 2) + ((c \div 4) % 2)
         /\ c % 4 = 2 * ((c \div 2) % 2) + (c % 2)
         /\ c \div 16 = 8 * ((c \div 128) % 2) + 4 * ((c \div 64) % 2)
                        + 2 * ((c \div 32) % 2) + ((c \div 16) % 2)
         /\ c % 16 = 8 * ((c \div 8) % 2) + 4 * ((c \div 4) % 2)
                     + 2 * ((c \div 2) % 2) + (c % 2)
         /\ c \div 64 = 2 * ((c \div 128) % 2) + ((c \div 64) % 2)
         /\ c % 64 = 32 * ((c \div 32) % 2) + 16 * ((c \div 16) % 2)
                     + 8 * ((c \div 8) % 2) + 4 * ((c \div 4) % 2)
                     + 2 * ((c \div 2) % 2) + (c % 2)
  BY DEF Byte

(* The bits of byte j of the input.                                        *)
LEMMA BitsOfByte ==
  ASSUME NEW in \in Seq(Byte), NEW j \in Nat
  PROVE  /\ BitOf(in, 8 * j) = (ByteAt(in, j + 1) \div 128) % 2
         /\ BitOf(in, 8 * j + 1) = (ByteAt(in, j + 1) \div 64) % 2
         /\ BitOf(in, 8 * j + 2) = (ByteAt(in, j + 1) \div 32) % 2
         /\ BitOf(in, 8 * j + 3) = (ByteAt(in, j + 1) \div 16) % 2
         /\ BitOf(in, 8 * j + 4) = (ByteAt(in, j + 1) \div 8) % 2
         /\ BitOf(in, 8 * j + 5) = (ByteAt(in, j + 1) \div 4) % 2
         /\ BitOf(in, 8 * j + 6) = (ByteAt(in, j + 1) \div 2) % 2
         /\ BitOf(in, 8 * j + 7) = ByteAt(in, j + 1) % 2
<1>1. Len(in) \in Nat
  OBVIOUS
<1>2. \A b \in 0 .. 7 : /\ (8 * j + b) \div 8 = j /\ (8 * j + b) % 8 = b
                        /\ 8 * j + b < 8 * Len(in) <=> j + 1 <= Len(in)
  BY <1>1
<1>3. \A b \in 0 .. 7 : BitOf(in, 8 * j + b) =
        IF j + 1 <= Len(in) THEN (in[j + 1] \div 2^(7 - b)) % 2 ELSE 0
  BY <1>2 DEF BitOf
<1>4. CASE ~ (j + 1 <= Len(in))
  <2>1. \A b \in 0 .. 7 : BitOf(in, 8 * j + b) = 0
    BY <1>3, <1>4
  <2>2. ByteAt(in, j + 1) = 0 /\ 8 * j = 8 * j + 0
    BY <1>4 DEF ByteAt
  <2>3. 0 % 2 = 0 /\ \A d \in {128, 64, 32, 16, 8, 4, 2} : (0 \div d) % 2 = 0
    OBVIOUS
  <2> QED BY <2>1, <2>2, <2>3
<1>5. CASE j + 1 <= Len(in)
  <2>1. ByteAt(in, j + 1) = in[j + 1]
    BY <1>5 DEF ByteAt
  <2>2. \A b \in 0 .. 7 : BitOf(in, 8 * j + b) = (in[j + 1] \div 2^(7 - b)) % 2
    BY <1>3, <1>5
  <2>3. in[j + 1] \in Byte
    BY <1>1, <1>5
  <2>4. 8 * j = 8 * j + 0 /\ \A x \in Byte : x \div 1 = x
    BY DEF Byte
  <2>5. /\ 2^(7 - 0) = 128 /\ 2^(7 - 1) = 64 /\ 2^(7 - 2) = 32 /\ 2^(7 - 3) = 16
        /\ 2^(7 - 4) = 8 /\ 2^(7 - 5) = 4 /\ 2^(7 - 6) = 2 /\ 2^(7 - 7) = 1
    OBVIOUS
  <2> QED BY <2>1, <2>2, <2>3, <2>4, <2>5
<1> QED BY <1>4, <1>5

(* The sextets of group q.                                                 *)
LEMMA SextetsAre ==
  ASSUME NEW in \in Seq(Byte), NEW q \in Nat
  PROVE  /\ Sextet(in, 4 * q) = ByteAt(in, 3 * q + 1) \div 4
         /\ Sextet(in, 4 * q + 1) = 16 * (ByteAt(in, 3 * q + 1) % 4)
                                    + ByteAt(in, 3 * q + 2) \div 16
         /\ Sextet(in, 4 * q + 2) = 4 * (ByteAt(in, 3 * q + 2) % 16)
                                    + ByteAt(in, 3 * q + 3) \div 64
         /\ Sextet(in, 4 * q + 3) = ByteAt(in, 3 * q + 3) % 64
<1> DEFINE a == ByteAt(in, 3 * q + 1)
           b == ByteAt(in, 3 * q + 2)
           c == ByteAt(in, 3 * q + 3)
<1>1. a \in Byte /\ b \in Byte /\ c \in Byte
  <2>1. \A j \in Nat \ {0} : ByteAt(in, j) \in Byte
    <3>1. 0 \in Byte /\ \A j \in 1 .. Len(in) : in[j] \in Byte
      BY DEF Byte
    <3> QED BY <3>1 DEF ByteAt
  <2> QED BY <2>1
<1>2. /\ (3 * q + 1) + 1 = 3 * q + 2 /\ (3 * q + 2) + 1 = 3 * q + 3
      /\ 3 * q \in Nat /\ 3 * q + 1 \in Nat /\ 3 * q + 2 \in Nat
  OBVIOUS
<1> DEFINE B(k) == BitOf(in, k)
<1>3. /\ B(8 * (3 * q)) = (a \div 128) % 2
      /\ B(8 * (3 * q) + 1) = (a \div 64) % 2
      /\ B(8 * (3 * q) + 2) = (a \div 32) % 2
      /\ B(8 * (3 * q) + 3) = (a \div 16) % 2
      /\ B(8 * (3 * q) + 4) = (a \div 8) % 2
      /\ B(8 * (3 * q) + 5) = (a \div 4) % 2
      /\ B(8 * (3 * q) + 6) = (a \div 2) % 2
      /\ B(8 * (3 * q) + 7) = a % 2
  BY <1>2, BitsOfByte
<1>4. /\ B(8 * (3 * q + 1)) = (b \div 128) % 2
      /\ B(8 * (3 * q + 1) + 1) = (b \div 64) % 2
      /\ B(8 * (3 * q + 1) + 2) = (b \div 32) % 2
      /\ B(8 * (3 * q + 1) + 3) = (b \div 16) % 2
      /\ B(8 * (3 * q + 1) + 4) = (b \div 8) % 2
      /\ B(8 * (3 * q + 1) + 5) = (b \div 4) % 2
      /\ B(8 * (3 * q + 1) + 6) = (b \div 2) % 2
      /\ B(8 * (3 * q + 1) + 7) = b % 2
  <2> DEFINE j == 3 * q + 1
  <2>1. j \in Nat /\ b = ByteAt(in, j + 1)
    BY <1>2
  <2> HIDE DEF j, b
  <2>2. /\ B(8 * j) = (b \div 128) % 2
        /\ B(8 * j + 1) = (b \div 64) % 2
        /\ B(8 * j + 2) = (b \div 32) % 2
        /\ B(8 * j + 3) = (b \div 16) % 2
        /\ B(8 * j + 4) = (b \div 8) % 2
        /\ B(8 * j + 5) = (b \div 4) % 2
        /\ B(8 * j + 6) = (b \div 2) % 2
        /\ B(8 * j + 7) = b % 2
    BY <2>1, BitsOfByte
  <2> QED BY <2>2 DEF j
<1>5. /\ B(8 * (3 * q + 2)) = (c \div 128) % 2
      /\ B(8 * (3 * q + 2) + 1) = (c \div 64) % 2
      /\ B(8 * (3 * q + 2) + 2) = (c \div 32) % 2
      /\ B(8 * (3 * q + 2) + 3) = (c \div 16) % 2
      /\ B(8 * (3 * q + 2) + 4) = (c \div 8) % 2
      /\ B(8 * (3 * q + 2) + 5) = (c \div 4) % 2
      /\ B(8 * (3 * q + 2) + 6) = (c \div 2) % 2
      /\ B(8 * (3 * q + 2) + 7) = c % 2
  <2> DEFINE j == 3 * q + 2
  <2>1. j \in Nat /\ c = ByteAt(in, j + 1)
    BY <1>2
  <2> HIDE DEF j, c
  <2>2. /\ B(8 * j) = (c \div 128) % 2
        /\ B(8 * j + 1) = (c \div 64) % 2
        /\ B(8 * j + 2) = (c \div 32) % 2
        /\ B(8 * j + 3) = (c \div 16) % 2
        /\ B(8 * j + 4) = (c \div 8) % 2
        /\ B(8 * j + 5) = (c \div 4) % 2
        /\ B(8 * j + 6) = (c \div 2) % 2
        /\ B(8 * j + 7) = c % 2
    BY <2>1, BitsOfByte
  <2> QED BY <2>2 DEF j
<1>6. /\ Sextet(in, 4 * q) =
           32 * B(8 * (3 * q)) + 16 * B(8 * (3 * q) + 1) + 8 * B(8 * (3 * q) + 2)
           + 4 * B(8 * (3 * q) + 3) + 2 * B(8 * (3 * q) + 4) + B(8 * (3 * q) + 5)
      /\ Sextet(in, 4 * q + 1) =
           32 * B(8 * (3 * q) + 6) + 16 * B(8 * (3 * q) + 7) + 8 * B(8 * (3 * q + 1))
           + 4 * B(8 * (3 * q + 1) + 1) + 2 * B(8 * (3 * q + 1) + 2) + B(8 * (3 * q + 1) + 3)
      /\ Sextet(in, 4 * q + 2) =
           32 * B(8 * (3 * q + 1) + 4) + 16 * B(8 * (3 * q + 1) + 5)
           + 8 * B(8 * (3 * q + 1) + 6) + 4 * B(8 * (3 * q + 1) + 7)
           + 2 * B(8 * (3 * q + 2)) + B(8 * (3 * q + 2) + 1)
      /\ Sextet(in, 4 * q + 3) =
           32 * B(8 * (3 * q + 2) + 2) + 16 * B(8 * (3 * q + 2) + 3)
           + 8 * B(8 * (3 * q + 2) + 4) + 4 * B(8 * (3 * q + 2) + 5)
           + 2 * B(8 * (3 * q + 2) + 6) + B(8 * (3 * q + 2) + 7)
  BY DEF Sextet
<1> HIDE DEF a, b, c, B
<1>7. Sextet(in, 4 * q) = a \div 4
  <2>1. a \div 4 = 32 * ((a \div 128) % 2) + 16 * ((a \div 64) % 2)
                    + 8 * ((a \div 32) % 2) + 4 * ((a \div 16) % 2)
                    + 2 * ((a \div 8) % 2) + ((a \div 4) % 2)
    BY <1>1, ByteBits
  <2> QED BY <1>3, <1>6, <2>1
<1>8. Sextet(in, 4 * q + 1) = 16 * (a % 4) + b \div 16
  <2> DEFINE u == (a \div 2) % 2
             v == a % 2
             w == (b \div 128) % 2
             x == (b \div 64) % 2
             y == (b \div 32) % 2
             z == (b \div 16) % 2
  <2>1. a % 4 = 2 * u + v /\ b \div 16 = 8 * w + 4 * x + 2 * y + z
    BY <1>1, ByteBits
  <2>2. /\ u \in Int /\ v \in Int /\ w \in Int
        /\ x \in Int /\ y \in Int /\ z \in Int
    BY <1>1 DEF Byte
  <2>3. Sextet(in, 4 * q + 1) = 32 * u + 16 * v + 8 * w + 4 * x + 2 * y + z
    BY <1>3, <1>4, <1>6
  <2> HIDE DEF u, v, w, x, y, z
  <2> QED BY <2>1, <2>2, <2>3
<1>9. Sextet(in, 4 * q + 2) = 4 * (b % 16) + c \div 64
  <2> DEFINE u == (b \div 8) % 2
             v == (b \div 4) % 2
             w == (b \div 2) % 2
             x == b % 2
             y == (c \div 128) % 2
             z == (c \div 64) % 2
  <2>1. b % 16 = 8 * u + 4 * v + 2 * w + x /\ c \div 64 = 2 * y + z
    BY <1>1, ByteBits
  <2>2. /\ u \in Int /\ v \in Int /\ w \in Int
        /\ x \in Int /\ y \in Int /\ z \in Int
    BY <1>1 DEF Byte
  <2>3. Sextet(in, 4 * q + 2) = 32 * u + 16 * v + 8 * w + 4 * x + 2 * y + z
    BY <1>4, <1>5, <1>6
  <2> HIDE DEF u, v, w, x, y, z
  <2> QED BY <2>1, <2>2, <2>3
<1>10. Sextet(in, 4 * q + 3) = c % 64
  BY <1>1, <1>5, <1>6, ByteBits DEF Byte
<1> QED BY <1>7, <1>8, <1>9, <1>10 DEF a, b, c

-----------------------------------------------------------------------------
(* Sequences of sextets.                                                   *)

LEMMA BytesOfSeq ==
  ASSUME NEW in \in Seq(Byte)
  PROVE  /\ Len(in) \in Nat
         /\ \A j \in 1 .. Len(in) : in[j] \in Byte /\ ByteAt(in, j) = in[j]
         /\ \A j \in Nat : j > Len(in) => ByteAt(in, j) = 0
         /\ \A j \in Nat \ {0} : ByteAt(in, j) \in Byte
<1>1. Len(in) \in Nat /\ \A j \in 1 .. Len(in) : in[j] \in Byte
  OBVIOUS
<1>2. \A j \in 1 .. Len(in) : ByteAt(in, j) = in[j]
  BY <1>1 DEF ByteAt
<1>3. \A j \in Nat : j > Len(in) => ByteAt(in, j) = 0
  BY <1>1 DEF ByteAt
<1>4. 0 \in Byte
  BY DEF Byte
<1>5. \A j \in Nat \ {0} : ByteAt(in, j) \in Byte
  BY <1>1, <1>4 DEF ByteAt
<1> QED BY <1>1, <1>2, <1>3, <1>5

LEMMA SextetIsSix ==
  ASSUME NEW in \in Seq(Byte), NEW k \in Nat
  PROVE  Sextet(in, k) \in Six
<1>1. PICK q \in Nat : k \in {4 * q, 4 * q + 1, 4 * q + 2, 4 * q + 3}
  <2>1. k \div 4 \in Nat /\ k \in {4 * (k \div 4), 4 * (k \div 4) + 1, 4 * (k \div 4) + 2, 4 * (k \div 4) + 3}
    OBVIOUS
  <2> QED BY <2>1
<1> DEFINE a == ByteAt(in, 3 * q + 1)
           b == ByteAt(in, 3 * q + 2)
           c == ByteAt(in, 3 * q + 3)
<1>2. a \in Byte /\ b \in Byte /\ c \in Byte
  BY BytesOfSeq
<1>3. /\ Sextet(in, 4 * q) = a \div 4
      /\ Sextet(in, 4 * q + 1) = 16 * (a % 4) + b \div 16
      /\ Sextet(in, 4 * q + 2) = 4 * (b % 16) + c \div 64
      /\ Sextet(in, 4 * q + 3) = c % 64
  BY SextetsAre
<1> HIDE DEF a, b, c
<1>4. /\ a \div 4 \in Six /\ 16 * (a % 4) + b \div 16 \in Six
      /\ 4 * (b % 16) + c \div 64 \in Six /\ c % 64 \in Six
  BY <1>2 DEF Byte, Six
<1> QED BY <1>1, <1>3, <1>4

(* out is the first m sextets of in.                                       *)
Sextets(in, out, m) ==
  out \in Seq(Nat) /\ Len(out) = m /\ \A j \in 1 .. m : out[j] = Sextet(in, j - 1)

LEMMA MoreSextets ==
  ASSUME NEW in \in Seq(Byte), NEW m \in Nat, NEW out, Sextets(in, out, m),
         NEW b \in Seq(Nat), \A j \in 1 .. Len(b) : b[j] = Sextet(in, (m + j) - 1)
  PROVE  Sextets(in, out \o b, m + Len(b))
<1>1. out \in Seq(Nat) /\ Len(out) = m /\ Len(b) \in Nat
  BY DEF Sextets
<1>2. /\ out \o b \in Seq(Nat) /\ Len(out \o b) = m + Len(b)
      /\ \A i \in 1 .. m + Len(b) : (out \o b)[i] = IF i <= m THEN out[i] ELSE b[i - m]
  BY <1>1, ConcatProperties
<1> DEFINE c == out \o b
<1> HIDE DEF c
<1>3. ASSUME NEW i \in 1 .. m + Len(b) PROVE c[i] = Sextet(in, i - 1)
  <2>1. CASE i <= m
    <3>1. i \in 1 .. m /\ c[i] = out[i]
      BY <1>1, <1>2, <2>1 DEF c
    <3> QED BY <3>1 DEF Sextets
  <2>2. CASE ~ (i <= m)
    <3>1. i - m \in 1 .. Len(b) /\ (m + (i - m)) - 1 = i - 1
      BY <1>1, <2>2
    <3>2. c[i] = b[i - m]
      BY <1>2, <2>2 DEF c
    <3>3. b[i - m] = Sextet(in, (m + (i - m)) - 1)
      BY <3>1
    <3> QED BY <3>1, <3>2, <3>3
  <2> QED BY <2>1, <2>2
<1> QED BY <1>2, <1>3 DEF c, Sextets

-----------------------------------------------------------------------------
(* The loop of the encoder.                                                *)

(* The state after i bytes.                                                *)
Encoded(in, i, st) ==
  /\ ValOK(st.val)
  /\ i > 0 => st.val.lo % 256 = in[i]
  /\ st.valb = 2 * (i % 3) - 6
  /\ Sextets(in, st.out, i + i \div 3)

(* The sextets of two neighbouring bytes, as the accumulator sees them.    *)
LEMMA TwoBytes ==
  ASSUME NEW p \in Byte, NEW c \in Byte
  PROVE  /\ ((256 * p + c) \div 4) % 64 = c \div 4
         /\ ((256 * p + c) \div 16) % 64 = 16 * (p % 4) + c \div 16
         /\ ((256 * p + c) \div 64) % 64 = 4 * (p % 16) + c \div 64
         /\ (256 * p + c) % 64 = c % 64
         /\ (256 * p + c) % 256 = c
  BY DEF Byte

LEMMA EncodeByteKept ==
  ASSUME NEW in \in Seq(Byte), NEW i \in 1 .. Len(in), NEW st, Encoded(in, i - 1, st)
  PROVE  Encoded(in, i, EncodeByte(st, in[i]))
<1> DEFINE c == in[i]
           p == st.val.lo % 256
           val == Push(st.val, 8, c)
           q == (i - 1) \div 3
           new == EncodeByte(st, c)
           valb == st.valb + 8
           n == IF valb >= 0 THEN valb \div 6 + 1 ELSE 0
           more == [j \in 1 .. n |-> Bits(val, valb - 6 * (j - 1), 6)]
<1>1. i \in Nat /\ c \in Byte /\ c = ByteAt(in, i)
  BY BytesOfSeq
<1>2. p \in Byte /\ st.val.lo \in Nat
  BY DEF Encoded, ValOK, Half, Byte
<1>3. i > 1 => p = ByteAt(in, i - 1)
  <2>1. ASSUME i > 1 PROVE i - 1 \in 1 .. Len(in) /\ i - 1 > 0
    BY <2>1, BytesOfSeq
  <2> QED BY <2>1, BytesOfSeq DEF Encoded
<1>4. ValOK(val) /\ val.lo = 256 * p + c
  BY <1>1, Pushed8 DEF Encoded
<1>5. /\ new.val = val /\ new.valb = valb - 6 * n /\ new.out = st.out \o more
  BY DEF EncodeByte
<1>6. val.lo % 256 = c
  BY <1>1, <1>2, <1>4, TwoBytes
<1>7. /\ st.valb = 2 * ((i - 1) % 3) - 6
      /\ Sextets(in, st.out, (i - 1) + (i - 1) \div 3)
  BY DEF Encoded
<1>8. /\ Bits(val, 0, 6) = c % 64 /\ Bits(val, 2, 6) = c \div 4
      /\ Bits(val, 4, 6) = 16 * (p % 4) + c \div 16
      /\ Bits(val, 6, 6) = 4 * (p % 16) + c \div 64
  BY <1>1, <1>2, <1>4, BitsAre, TwoBytes
<1>9. q \in Nat /\ i \in {3 * q + 1, 3 * q + 2, 3 * q + 3}
  BY <1>1
<1>10. /\ Sextet(in, 4 * q) = ByteAt(in, 3 * q + 1) \div 4
       /\ Sextet(in, 4 * q + 1) = 16 * (ByteAt(in, 3 * q + 1) % 4)
                                  + ByteAt(in, 3 * q + 2) \div 16
       /\ Sextet(in, 4 * q + 2) = 4 * (ByteAt(in, 3 * q + 2) % 16)
                                  + ByteAt(in, 3 * q + 3) \div 64
       /\ Sextet(in, 4 * q + 3) = ByteAt(in, 3 * q + 3) % 64
  BY <1>9, SextetsAre
<1>11. \A k \in Nat : Sextet(in, k) \in Nat
  BY SextetIsSix DEF Six
<1> HIDE DEF c, p, val, new, q
<1>12. CASE i = 3 * q + 1
  <2>1. (i - 1) % 3 = 0 /\ (i - 1) + (i - 1) \div 3 = 4 * q /\ i % 3 = 1 /\ i + i \div 3 = 4 * q + 1
    BY <1>9, <1>12
  <2>2. valb = 2 /\ n = 1 /\ valb - 6 * n = 2 * (i % 3) - 6
    BY <1>7, <2>1
  <2>3. more = [j \in 1 .. 1 |-> Bits(val, 2 - 6 * (j - 1), 6)]
    BY <2>2
  <2>4. Bits(val, 2 - 6 * (1 - 1), 6) = Sextet(in, 4 * q)
    BY <1>1, <1>8, <1>10, <1>12
  <2> HIDE DEF more, n, valb
  <2>5. more \in Seq(Nat) /\ Len(more) = 1 /\ more[1] = Sextet(in, (4 * q + 1) - 1)
    BY <1>9, <1>11, <2>3, <2>4
  <2>6. Sextets(in, st.out \o more, 4 * q + 1)
    <3> DEFINE m == 4 * q
    <3>1. m \in Nat /\ Sextets(in, st.out, m)
      BY <1>7, <1>9, <2>1
    <3>2. \A j \in 1 .. Len(more) : more[j] = Sextet(in, (m + j) - 1)
      BY <2>5
    <3>3. m + Len(more) = 4 * q + 1
      BY <1>9, <2>5
    <3> HIDE DEF m
    <3>4. Sextets(in, st.out \o more, m + Len(more))
      BY <2>5, <3>1, <3>2, MoreSextets
    <3> QED BY <3>3, <3>4
  <2> QED BY <1>1, <1>4, <1>5, <1>6, <2>1, <2>2, <2>6 DEF Encoded, c, new
<1>13. CASE i = 3 * q + 2
  <2>1. (i - 1) % 3 = 1 /\ (i - 1) + (i - 1) \div 3 = 4 * q + 1 /\ i % 3 = 2 /\ i + i \div 3 = 4 * q + 2
    BY <1>9, <1>13
  <2>2. valb = 4 /\ n = 1 /\ valb - 6 * n = 2 * (i % 3) - 6
    BY <1>7, <2>1
  <2>3. more = [j \in 1 .. 1 |-> Bits(val, 4 - 6 * (j - 1), 6)]
    BY <2>2
  <2>4. Bits(val, 4 - 6 * (1 - 1), 6) = Sextet(in, 4 * q + 1)
    <3>1. p = ByteAt(in, 3 * q + 1)
      BY <1>3, <1>9, <1>13
    <3> QED BY <1>1, <1>8, <1>10, <1>13, <3>1
  <2> HIDE DEF more, n, valb
  <2>5. more \in Seq(Nat) /\ Len(more) = 1 /\ more[1] = Sextet(in, ((4 * q + 1) + 1) - 1)
    BY <1>9, <1>11, <2>3, <2>4
  <2>6. Sextets(in, st.out \o more, 4 * q + 2)
    <3> DEFINE m == 4 * q + 1
    <3>1. m \in Nat /\ Sextets(in, st.out, m)
      BY <1>7, <1>9, <2>1
    <3>2. \A j \in 1 .. Len(more) : more[j] = Sextet(in, (m + j) - 1)
      BY <2>5
    <3>3. m + Len(more) = 4 * q + 2
      BY <1>9, <2>5
    <3> HIDE DEF m
    <3>4. Sextets(in, st.out \o more, m + Len(more))
      BY <2>5, <3>1, <3>2, MoreSextets
    <3> QED BY <3>3, <3>4
  <2> QED BY <1>1, <1>4, <1>5, <1>6, <1>9, <2>1, <2>2, <2>6 DEF Encoded, c, new
<1>14. CASE i = 3 * q + 3
  <2>1. (i - 1) % 3 = 2 /\ (i - 1) + (i - 1) \div 3 = 4 * q + 2 /\ i % 3 = 0 /\ i + i \div 3 = 4 * q + 4
    BY <1>9, <1>14
  <2>2. valb = 6 /\ n = 2 /\ valb - 6 * n = 2 * (i % 3) - 6
    BY <1>7, <2>1
  <2>3. more = [j \in 1 .. 2 |-> Bits(val, 6 - 6 * (j - 1), 6)]
    BY <2>2
  <2>4. /\ Bits(val, 6 - 6 * (1 - 1), 6) = Sextet(in, 4 * q + 2)
        /\ Bits(val, 6 - 6 * (2 - 1), 6) = Sextet(in, 4 * q + 3)
    <3>1. p = ByteAt(in, 3 * q + 2)
      BY <1>3, <1>9, <1>14
    <3> QED BY <1>1, <1>8, <1>10, <1>14, <3>1
  <2> HIDE DEF more, n, valb
  <2>5. /\ more \in Seq(Nat) /\ Len(more) = 2
        /\ more[1] = Sextet(in, ((4 * q + 2) + 1) - 1)
        /\ more[2] = Sextet(in, ((4 * q + 2) + 2) - 1)
    BY <1>9, <1>11, <2>3, <2>4
  <2>6. Sextets(in, st.out \o more, 4 * q + 4)
    <3> DEFINE m == 4 * q + 2
    <3>1. m \in Nat /\ Sextets(in, st.out, m)
      BY <1>7, <1>9, <2>1
    <3>2. \A j \in 1 .. Len(more) : more[j] = Sextet(in, (m + j) - 1)
      BY <2>5
    <3>3. m + Len(more) = 4 * q + 4
      BY <1>9, <2>5
    <3> HIDE DEF m
    <3>4. Sextets(in, st.out \o more, m + Len(more))
      BY <2>5, <3>1, <3>2, MoreSextets
    <3> QED BY <3>3, <3>4
  <2> QED BY <1>1, <1>4, <1>5, <1>6, <1>9, <2>1, <2>2, <2>6 DEF Encoded, c, new
<1> QED BY <1>9, <1>12, <1>13, <1>14

(* The states of the loop, one per byte.                                   *)
EncodeRun(s, in, n) ==
  s = [i \in 0 .. n |-> IF i = 0 THEN Start(-6) ELSE EncodeByte(s[i - 1], in[i])]

LEMMA EncodeRunExists ==
  ASSUME NEW in, NEW n \in Nat
  PROVE  \E s : EncodeRun(s, in, n)
<1> DEFINE T == {k \in 0 .. n : \E s : EncodeRun(s, in, k)}
<1>1. 0 \in T
  <2>1. EncodeRun([i \in 0 .. 0 |-> Start(-6)], in, 0)
    BY DEF EncodeRun
  <2> QED BY <2>1
<1>2. ASSUME NEW k \in 1 .. n, k - 1 \in T PROVE k \in T
  <2>1. PICK s : EncodeRun(s, in, k - 1)
    BY <1>2
  <2> DEFINE e == [i \in 0 .. k |-> IF i = k THEN EncodeByte(s[k - 1], in[k]) ELSE s[i]]
  <2>2. \A i \in 0 .. k - 1 :
          s[i] = IF i = 0 THEN Start(-6) ELSE EncodeByte(s[i - 1], in[i])
    BY <2>1 DEF EncodeRun
  <2>3. ASSUME NEW i \in 0 .. k
        PROVE  e[i] = IF i = 0 THEN Start(-6) ELSE EncodeByte(e[i - 1], in[i])
    <3>1. CASE i = k
      <4>1. e[i] = EncodeByte(s[k - 1], in[k]) /\ e[k - 1] = s[k - 1] /\ i # 0
        BY <3>1
      <4> QED BY <3>1, <4>1
    <3>2. CASE i # k
      <4>1. i \in 0 .. k - 1 /\ e[i] = s[i] /\ (i # 0 => e[i - 1] = s[i - 1])
        BY <3>2
      <4> QED BY <2>2, <4>1
    <3> QED BY <3>1, <3>2
  <2>4. EncodeRun(e, in, k)
    <3>1. e = [i \in 0 .. k |-> e[i]]
      OBVIOUS
    <3> HIDE DEF e
    <3> QED BY <2>3, <3>1 DEF EncodeRun
  <2> QED BY <2>4
<1> HIDE DEF T
<1>3. n \in T
  <2>1. 0 .. n \subseteq T
    BY <1>1, <1>2, AllSteps
  <2> QED BY <2>1
<1> QED BY <1>3 DEF T

(* Without a byte nothing is in the accumulator.                           *)
LEMMA EncodeStarts == ASSUME NEW in PROVE Encoded(in, 0, Start(-6))
<1>1. /\ Start(-6).val.hi = 0 /\ Start(-6).val.lo = 0
      /\ Start(-6).valb = -6 /\ Start(-6).out = <<>>
  BY DEF Start
<1>2. ValOK(Start(-6).val)
  BY <1>1 DEF ValOK, Half
<1>3. 0 % 3 = 0 /\ 0 + 0 \div 3 = 0
  OBVIOUS
<1>4. Sextets(in, <<>>, 0)
  BY DEF Sextets
<1> QED BY <1>1, <1>2, <1>3, <1>4 DEF Encoded

LEMMA EncodeLoop ==
  ASSUME NEW in \in Seq(Byte)
  PROVE  \E st : Encoded(in, Len(in), st) /\ base64Encode(in) = Padded(EncodeTail(st))
<1> DEFINE n == Len(in)
           P(f) == f = [i \in 0 .. n |-> IF i = 0 THEN Start(-6) ELSE EncodeByte(f[i - 1], in[i])]
           run == CHOOSE f : P(f)
<1>1. n \in Nat
  OBVIOUS
<1>2. base64Encode(in) = Padded(EncodeTail(run[n]))
  BY DEF base64Encode
<1>3. \E f : P(f)
  BY <1>1, EncodeRunExists DEF EncodeRun
<1>4. P(run)
  <2> HIDE DEF P
  <2> QED BY <1>3
<1>5. run[0] = Start(-6) /\ \A i \in 1 .. n : run[i] = EncodeByte(run[i - 1], in[i])
  <2> HIDE DEF run
  <2> QED BY <1>1, <1>4
<1> HIDE DEF run, P
<1> DEFINE T == {i \in 0 .. n : Encoded(in, i, run[i])}
<1>6. 0 \in T
  BY <1>1, <1>5, EncodeStarts
<1>7. ASSUME NEW i \in 1 .. n, i - 1 \in T PROVE i \in T
  <2>1. Encoded(in, i, EncodeByte(run[i - 1], in[i]))
    BY <1>7, EncodeByteKept
  <2> QED BY <1>5, <2>1
<1> HIDE DEF T
<1>8. n \in T
  <2>1. 0 .. n \subseteq T
    BY <1>1, <1>6, <1>7, AllSteps
  <2> QED BY <1>1, <2>1
<1> QED BY <1>2, <1>8 DEF T

-----------------------------------------------------------------------------
(* What follows the loop.                                                  *)

(* How many sextets n bytes have.                                          *)
Chars(n) == (4 * n + 2) \div 3

LEMMA TailIs ==
  ASSUME NEW in \in Seq(Byte), NEW st, Encoded(in, Len(in), st)
  PROVE  Sextets(in, EncodeTail(st), Chars(Len(in)))
<1> DEFINE n == Len(in)
           q == n \div 3
           p == st.val.lo % 256
           val == Push(st.val, 8, 0)
<1>1. n \in Nat /\ 0 \in Byte /\ p \in Byte
  BY DEF Encoded, ValOK, Half, Byte
<1>2. ValOK(val) /\ val.lo = 256 * p + 0
  BY <1>1, Pushed8 DEF Encoded
<1>3. Bits(val, 4, 6) = 16 * (p % 4) + 0 \div 16 /\ Bits(val, 6, 6) = 4 * (p % 16) + 0 \div 64
  BY <1>1, <1>2, BitsAre, TwoBytes
<1>4. q \in Nat /\ n \in {3 * q, 3 * q + 1, 3 * q + 2}
  BY <1>1
<1>5. /\ Sextet(in, 4 * q + 1) = 16 * (ByteAt(in, 3 * q + 1) % 4)
                                 + ByteAt(in, 3 * q + 2) \div 16
      /\ Sextet(in, 4 * q + 2) = 4 * (ByteAt(in, 3 * q + 2) % 16)
                                 + ByteAt(in, 3 * q + 3) \div 64
  BY <1>4, SextetsAre
<1>6. n > 0 => p = ByteAt(in, n)
  BY <1>1, BytesOfSeq DEF Encoded
<1>7. ByteAt(in, n + 1) = 0
  BY <1>1, BytesOfSeq
<1>8. st.valb = 2 * (n % 3) - 6 /\ Sextets(in, st.out, n + n \div 3)
  BY DEF Encoded
<1>9. \A k \in Nat : Sextet(in, k) \in Nat
  BY SextetIsSix DEF Six
<1>10. EncodeTail(st) = IF st.valb > -6 THEN Append(st.out, Bits(val, st.valb + 8, 6)) ELSE st.out
  BY DEF EncodeTail
<1> HIDE DEF n, q, p, val
<1>11. ASSUME NEW m \in Nat, NEW x, x = Sextet(in, m), Sextets(in, st.out, m)
       PROVE  Sextets(in, Append(st.out, x), m + 1)
  <2> DEFINE b == <<x>>
  <2>1. b \in Seq(Nat) /\ Len(b) = 1 /\ b[1] = Sextet(in, (m + 1) - 1)
    BY <1>9, <1>11
  <2>2. Append(st.out, x) = st.out \o b
    <3>1. st.out \in Seq(Nat) /\ x \in Nat
      BY <1>9, <1>11 DEF Sextets
    <3> QED BY <3>1, AppendIsConcat
  <2> HIDE DEF b
  <2>3. \A j \in 1 .. Len(b) : b[j] = Sextet(in, (m + j) - 1)
    BY <2>1
  <2> QED BY <1>11, <2>1, <2>2, <2>3, MoreSextets
<1>12. CASE n = 3 * q
  <2>1. n % 3 = 0 /\ n + n \div 3 = Chars(n)
    BY <1>4, <1>12 DEF Chars
  <2> QED BY <1>8, <1>10, <2>1 DEF n
<1>13. CASE n = 3 * q + 1
  <2>1. n % 3 = 1 /\ n + n \div 3 = 4 * q + 1 /\ Chars(n) = (4 * q + 1) + 1
    BY <1>4, <1>13 DEF Chars
  <2>2. st.valb + 8 = 4 /\ st.valb > -6
    BY <1>8, <2>1
  <2>3. p = ByteAt(in, 3 * q + 1) /\ ByteAt(in, 3 * q + 2) = 0
    <3>1. n + 1 = 3 * q + 2 /\ n > 0
      BY <1>4, <1>13
    <3> QED BY <1>6, <1>7, <1>13, <3>1
  <2>4. Bits(val, st.valb + 8, 6) = Sextet(in, 4 * q + 1)
    BY <1>3, <1>5, <2>2, <2>3
  <2> QED BY <1>4, <1>8, <1>10, <1>11, <2>1, <2>2, <2>4 DEF n
<1>14. CASE n = 3 * q + 2
  <2>1. n % 3 = 2 /\ n + n \div 3 = 4 * q + 2 /\ Chars(n) = (4 * q + 2) + 1
    BY <1>4, <1>14 DEF Chars
  <2>2. st.valb + 8 = 6 /\ st.valb > -6
    BY <1>8, <2>1
  <2>3. p = ByteAt(in, 3 * q + 2) /\ ByteAt(in, 3 * q + 3) = 0
    <3>1. n + 1 = 3 * q + 3 /\ n > 0
      BY <1>4, <1>14
    <3> QED BY <1>6, <1>7, <1>14, <3>1
  <2>4. Bits(val, st.valb + 8, 6) = Sextet(in, 4 * q + 2)
    BY <1>3, <1>5, <2>2, <2>3
  <2> QED BY <1>4, <1>8, <1>10, <1>11, <2>1, <2>2, <2>4 DEF n
<1> QED BY <1>4, <1>12, <1>13, <1>14 DEF n

LEMMA PaddedIs ==
  ASSUME NEW in \in Seq(Byte), NEW out, Sextets(in, out, Chars(Len(in)))
  PROVE  Padded(out) = Reference(in)
<1> DEFINE n == Len(in)
           m == Chars(n)
           k == (-m) % 4
           pads == [i \in 1 .. k |-> Pad]
           l == 4 * ((n + 2) \div 3)
<1>1. n \in Nat /\ m \in Nat /\ k \in Nat /\ l \in Nat /\ m + k = l
  <2>1. \A x \in Nat : (4 * x + 2) \div 3 \in Nat /\ 4 * ((x + 2) \div 3) \in Nat
    OBVIOUS
  <2>2. \A y \in Nat : (-y) % 4 \in Nat
    OBVIOUS
  <2>3. \A x \in Nat, y \in Nat :
          y = (4 * x + 2) \div 3 => y + ((-y) % 4) = 4 * ((x + 2) \div 3)
    OBVIOUS
  <2>4. n \in Nat /\ m = (4 * n + 2) \div 3
    BY DEF Chars
  <2> HIDE DEF n, m
  <2>5. m \in Nat
    BY <2>1, <2>4
  <2> QED BY <2>1, <2>2, <2>3, <2>4, <2>5
<1>2. out \in Seq(Nat) /\ Len(out) = m
  BY DEF Sextets
<1>3. Padded(out) = out \o pads
  BY <1>2 DEF Padded
<1>4. Reference(in) = [i \in 1 .. l |-> IF 6 * (i - 1) < 8 * n THEN Sextet(in, i - 1) ELSE Pad]
  BY DEF Reference
<1>5. \A i \in 1 .. l : 6 * (i - 1) < 8 * n <=> i <= m
  BY <1>1 DEF Chars
<1>6. \A j \in 1 .. m : out[j] = Sextet(in, j - 1)
  BY DEF Sextets
<1> HIDE DEF n, m, k, l
<1>7. pads \in Seq(Nat) /\ Len(pads) = k /\ \A i \in 1 .. k : pads[i] = Pad
  BY <1>1 DEF Pad
<1> HIDE DEF pads
<1>8. /\ Len(out \o pads) = m + k /\ out \o pads \in Seq(Nat)
      /\ \A i \in 1 .. m + k : (out \o pads)[i] = IF i <= m THEN out[i] ELSE pads[i - m]
  BY <1>2, <1>7, ConcatProperties
<1> DEFINE c == out \o pads
<1> HIDE DEF c
<1>9. ASSUME NEW i \in 1 .. l
      PROVE  c[i] = IF 6 * (i - 1) < 8 * n THEN Sextet(in, i - 1) ELSE Pad
  <2>1. CASE i <= m
    <3>1. i \in 1 .. m /\ c[i] = out[i]
      BY <1>1, <1>8, <2>1 DEF c
    <3> QED BY <1>5, <1>6, <2>1, <3>1
  <2>2. CASE ~ (i <= m)
    <3>1. i - m \in 1 .. k /\ c[i] = pads[i - m]
      BY <1>1, <1>8, <2>2 DEF c
    <3> QED BY <1>5, <1>7, <2>2, <3>1
  <2> QED BY <2>1, <2>2
<1>10. c = [i \in 1 .. l |-> c[i]]
  <2>1. c \in Seq(Nat) /\ Len(c) = l
    BY <1>1, <1>8 DEF c
  <2>2. c \in [1 .. Len(c) -> Nat]
    BY <2>1, LenProperties
  <2> QED BY <2>1, <2>2
<1>11. c = Reference(in)
  BY <1>4, <1>9, <1>10
<1> QED BY <1>3, <1>11 DEF c

(* For every input the encoder is base64: what the accumulator has shifted *)
(* out is never missed (base64_util.h:5-26).                               *)
THEOREM EncoderIsBase64 == \A in \in Seq(Byte) : base64Encode(in) = Reference(in)
<1> SUFFICES ASSUME NEW in \in Seq(Byte) PROVE base64Encode(in) = Reference(in)
  OBVIOUS
<1>1. PICK st : Encoded(in, Len(in), st) /\ base64Encode(in) = Padded(EncodeTail(st))
  BY EncodeLoop
<1>2. Sextets(in, EncodeTail(st), Chars(Len(in)))
  BY <1>1, TailIs
<1> QED BY <1>1, <1>2, PaddedIs

-----------------------------------------------------------------------------
(* The loop of the decoder, on what the encoder makes of in.               *)

(* out is the first m bytes of in.                                         *)
Restored(in, out, m) ==
  out \in Seq(Nat) /\ Len(out) = m /\ \A j \in 1 .. m : out[j] = ByteAt(in, j)

(* The state after i sextets.                                              *)
Decoded(in, i, st) ==
  /\ ValOK(st.val)
  /\ i > 0 => st.val.lo % 64 = Sextet(in, i - 1)
  /\ st.valb = IF i % 4 = 0 THEN -8 ELSE -2 * (i % 4)
  /\ Restored(in, st.out, (3 * i) \div 4)

(* A byte from two neighbouring sextets s and c, as the accumulator sees   *)
(* them, whatever else is in it.                                           *)
LEMMA TwoSextets ==
  ASSUME NEW lo \in Half, NEW c \in Six
  PROVE  /\ ((64 * (lo % 1024) + c) \div 16) % 256 = 4 * (lo % 64) + c \div 16
         /\ ((64 * (lo % 1024) + c) \div 4) % 256 = 16 * ((lo % 64) % 16) + c \div 4
         /\ (64 * (lo % 1024) + c) % 256 = 64 * ((lo % 64) % 4) + c
         /\ (64 * (lo % 1024) + c) % 64 = c
<1>1. lo % 1024 \in Nat /\ (lo % 1024) % 64 = lo % 64
  BY DEF Half
<1> DEFINE x == lo % 1024
<1> HIDE DEF x
<1>2. x \in Nat /\ x % 64 = lo % 64
  BY <1>1 DEF x
<1>3. /\ ((64 * x + c) \div 16) % 256 = 4 * (x % 64) + c \div 16
      /\ ((64 * x + c) \div 4) % 256 = 16 * ((x % 64) % 16) + c \div 4
      /\ (64 * x + c) % 256 = 64 * ((x % 64) % 4) + c
      /\ (64 * x + c) % 64 = c
  BY <1>2 DEF Six
<1> QED BY <1>2, <1>3 DEF x

(* The three bytes of a group from its four sextets.                       *)
LEMMA BytesBack ==
  ASSUME NEW a \in Byte, NEW b \in Byte, NEW c \in Byte
  PROVE  /\ 4 * (a \div 4) + (16 * (a % 4) + b \div 16) \div 16 = a
         /\ 16 * ((16 * (a % 4) + b \div 16) % 16) + (4 * (b % 16) + c \div 64) \div 4 = b
         /\ 64 * ((4 * (b % 16) + c \div 64) % 4) + (c % 64) = c
<1>1. 4 * (a \div 4) + (16 * (a % 4) + b \div 16) \div 16 = a
  <2>1. b \div 16 \in 0 .. 15
    BY DEF Byte
  <2>2. \A y \in 0 .. 15, z \in Nat : (16 * z + y) \div 16 = z
    OBVIOUS
  <2>3. a % 4 \in Nat /\ 4 * (a \div 4) + (a % 4) = a
    BY DEF Byte
  <2> QED BY <2>1, <2>2, <2>3
<1>2. 16 * ((16 * (a % 4) + b \div 16) % 16) + (4 * (b % 16) + c \div 64) \div 4 = b
  <2>1. b \div 16 \in 0 .. 15 /\ c \div 64 \in 0 .. 3
    BY DEF Byte
  <2>2. \A y \in 0 .. 15, z \in Nat : (16 * z + y) % 16 = y
    OBVIOUS
  <2>3. \A y \in 0 .. 3, z \in Nat : (4 * z + y) \div 4 = z
    OBVIOUS
  <2>4. a % 4 \in Nat /\ b % 16 \in Nat /\ 16 * (b \div 16) + (b % 16) = b
    BY DEF Byte
  <2> QED BY <2>1, <2>2, <2>3, <2>4
<1>3. 64 * ((4 * (b % 16) + c \div 64) % 4) + (c % 64) = c
  <2>1. c \div 64 \in 0 .. 3
    BY DEF Byte
  <2>2. \A y \in 0 .. 3, z \in Nat : (4 * z + y) % 4 = y
    OBVIOUS
  <2>3. b % 16 \in Nat /\ 64 * (c \div 64) + (c % 64) = c
    BY DEF Byte
  <2> QED BY <2>1, <2>2, <2>3
<1> QED BY <1>1, <1>2, <1>3

LEMMA OneMoreByte ==
  ASSUME NEW in \in Seq(Byte), NEW m \in Nat, NEW out, Restored(in, out, m),
         NEW x, x = ByteAt(in, m + 1)
  PROVE  Restored(in, Append(out, x), m + 1)
<1>1. x \in Nat
  BY BytesOfSeq DEF Byte
<1>2. /\ Append(out, x) \in Seq(Nat) /\ Len(Append(out, x)) = m + 1
      /\ \A j \in 1 .. m : Append(out, x)[j] = out[j]
      /\ Append(out, x)[m + 1] = x
  BY <1>1, AppendProperties DEF Restored
<1> DEFINE o == Append(out, x)
<1> HIDE DEF o
<1>3. ASSUME NEW j \in 1 .. m + 1 PROVE o[j] = ByteAt(in, j)
  <2>1. CASE j \in 1 .. m
    BY <1>2, <2>1 DEF o, Restored
  <2>2. CASE j = m + 1
    BY <1>2, <2>2 DEF o
  <2> QED BY <2>1, <2>2
<1> QED BY <1>2, <1>3 DEF o, Restored

LEMMA DecodeCharKept ==
  ASSUME NEW in \in Seq(Byte), NEW i \in Nat \ {0}, NEW st, Decoded(in, i - 1, st)
  PROVE  Decoded(in, i, DecodeChar(st, Sextet(in, i - 1)))
<1> DEFINE x == Sextet(in, i - 1)
           s == st.val.lo % 64
           val == Push(st.val, 6, x)
           q == (i - 1) \div 4
           new == DecodeChar(st, x)
           valb == st.valb + 6
           a == ByteAt(in, 3 * q + 1)
           b == ByteAt(in, 3 * q + 2)
           c == ByteAt(in, 3 * q + 3)
<1>1. x \in Six /\ x # Pad
  <2>1. i - 1 \in Nat
    OBVIOUS
  <2> QED BY <2>1, SextetIsSix DEF Six, Pad
<1>2. ValOK(st.val) /\ st.val.lo \in Half
  BY DEF Decoded, ValOK
<1>3. ValOK(val) /\ val.lo = 64 * (st.val.lo % 1024) + x
  BY <1>1, <1>2, Pushed6
<1>4. /\ new.val = val /\ new.valb = (IF valb >= 0 THEN valb - 8 ELSE valb)
      /\ new.out = (IF valb >= 0 THEN Append(st.out, Bits(val, valb, 8)) ELSE st.out)
  BY <1>1 DEF DecodeChar
<1>5. /\ Bits(val, 4, 8) = 4 * s + x \div 16
      /\ Bits(val, 2, 8) = 16 * (s % 16) + x \div 4
      /\ Bits(val, 0, 8) = 64 * (s % 4) + x
      /\ val.lo % 64 = x
  BY <1>1, <1>2, <1>3, BitsAre, TwoSextets
<1>6. q \in Nat /\ i \in {4 * q + 1, 4 * q + 2, 4 * q + 3, 4 * q + 4}
  OBVIOUS
<1>7. a \in Byte /\ b \in Byte /\ c \in Byte
  BY <1>6, BytesOfSeq
<1>8. /\ Sextet(in, 4 * q) = a \div 4
      /\ Sextet(in, 4 * q + 1) = 16 * (a % 4) + b \div 16
      /\ Sextet(in, 4 * q + 2) = 4 * (b % 16) + c \div 64
      /\ Sextet(in, 4 * q + 3) = c % 64
  BY <1>6, SextetsAre
<1>9. /\ i - 1 > 0 => s = Sextet(in, (i - 1) - 1)
      /\ st.valb = IF (i - 1) % 4 = 0 THEN -8 ELSE -2 * ((i - 1) % 4)
      /\ Restored(in, st.out, (3 * (i - 1)) \div 4)
  BY DEF Decoded
<1>10. new.val.lo % 64 = Sextet(in, i - 1) /\ ValOK(new.val)
  BY <1>3, <1>4, <1>5
<1>11. /\ 4 * (a \div 4) + (16 * (a % 4) + b \div 16) \div 16 = a
       /\ 16 * ((16 * (a % 4) + b \div 16) % 16) + (4 * (b % 16) + c \div 64) \div 4 = b
       /\ 64 * ((4 * (b % 16) + c \div 64) % 4) + (c % 64) = c
  BY <1>7, BytesBack
<1> HIDE DEF s, val, new, q
<1>12. CASE i = 4 * q + 1
  <2>1. (i - 1) % 4 = 0 /\ i % 4 = 1 /\ (3 * (i - 1)) \div 4 = 3 * q /\ (3 * i) \div 4 = 3 * q
    BY <1>6, <1>12
  <2>2. new.valb = -2 /\ new.out = st.out
    BY <1>4, <1>9, <2>1
  <2> HIDE DEF a, b, c, valb, x
  <2>3. new.valb = IF i % 4 = 0 THEN -8 ELSE -2 * (i % 4)
    BY <2>1, <2>2
  <2>4. Restored(in, new.out, (3 * i) \div 4)
    BY <1>9, <2>1, <2>2
  <2>5. Decoded(in, i, new)
    BY <1>10, <2>3, <2>4 DEF Decoded
  <2> QED BY <2>5 DEF new, x
<1>13. CASE i = 4 * q + 2
  <2>1. /\ (i - 1) % 4 = 1 /\ i % 4 = 2
        /\ (3 * (i - 1)) \div 4 = 3 * q /\ (3 * i) \div 4 = 3 * q + 1
        /\ i - 1 > 0 /\ (i - 1) - 1 = 4 * q /\ i - 1 = 4 * q + 1 /\ 3 * q \in Nat
    BY <1>6, <1>13
  <2>2. valb = 4
    BY <1>9, <2>1
  <2>3. new.valb = -4 /\ new.out = Append(st.out, Bits(val, 4, 8))
    BY <1>4, <2>2
  <2>4. s = a \div 4 /\ x = 16 * (a % 4) + b \div 16
    BY <1>8, <1>9, <2>1
  <2> HIDE DEF a, b, c, valb, x
  <2>5. Bits(val, 4, 8) = a
    BY <1>5, <1>11, <2>4
  <2>6. Restored(in, new.out, 3 * q + 1)
    <3>1. 3 * q \in Nat /\ Restored(in, st.out, 3 * q) /\ a = ByteAt(in, (3 * q) + 1)
      BY <1>9, <2>1 DEF a
    <3> QED BY <2>3, <2>5, <3>1, OneMoreByte
  <2>7. new.valb = IF i % 4 = 0 THEN -8 ELSE -2 * (i % 4)
    BY <2>1, <2>3
  <2>8. Restored(in, new.out, (3 * i) \div 4)
    BY <2>1, <2>6
  <2>9. Decoded(in, i, new)
    BY <1>10, <2>7, <2>8 DEF Decoded
  <2> QED BY <2>9 DEF new, x
<1>14. CASE i = 4 * q + 3
  <2>1. /\ (i - 1) % 4 = 2 /\ i % 4 = 3
        /\ (3 * (i - 1)) \div 4 = 3 * q + 1 /\ (3 * i) \div 4 = (3 * q + 1) + 1
        /\ (3 * q + 1) + 1 = 3 * q + 2
        /\ i - 1 > 0 /\ (i - 1) - 1 = 4 * q + 1 /\ i - 1 = 4 * q + 2 /\ 3 * q + 1 \in Nat
    BY <1>6, <1>14
  <2>2. valb = 2
    BY <1>9, <2>1
  <2>3. new.valb = -6 /\ new.out = Append(st.out, Bits(val, 2, 8))
    BY <1>4, <2>2
  <2>4. s = 16 * (a % 4) + b \div 16 /\ x = 4 * (b % 16) + c \div 64
    BY <1>8, <1>9, <2>1
  <2> HIDE DEF a, b, c, valb, x
  <2>5. Bits(val, 2, 8) = b
    BY <1>5, <1>11, <2>4
  <2>6. Restored(in, new.out, (3 * q + 1) + 1)
    <3>1. 3 * q + 1 \in Nat /\ Restored(in, st.out, 3 * q + 1) /\ b = ByteAt(in, (3 * q + 1) + 1)
      BY <1>9, <2>1 DEF b
    <3> QED BY <2>3, <2>5, <3>1, OneMoreByte
  <2>7. new.valb = IF i % 4 = 0 THEN -8 ELSE -2 * (i % 4)
    BY <2>1, <2>3
  <2>8. Restored(in, new.out, (3 * i) \div 4)
    BY <2>1, <2>6
  <2>9. Decoded(in, i, new)
    BY <1>10, <2>7, <2>8 DEF Decoded
  <2> QED BY <2>9 DEF new, x
<1>15. CASE i = 4 * q + 4
  <2>1. /\ (i - 1) % 4 = 3 /\ i % 4 = 0
        /\ (3 * (i - 1)) \div 4 = 3 * q + 2 /\ (3 * i) \div 4 = (3 * q + 2) + 1
        /\ (3 * q + 2) + 1 = 3 * q + 3
        /\ i - 1 > 0 /\ (i - 1) - 1 = 4 * q + 2 /\ i - 1 = 4 * q + 3 /\ 3 * q + 2 \in Nat
    BY <1>6, <1>15
  <2>2. valb = 0
    BY <1>9, <2>1
  <2>3. new.valb = -8 /\ new.out = Append(st.out, Bits(val, 0, 8))
    BY <1>4, <2>2
  <2>4. s = 4 * (b % 16) + c \div 64 /\ x = c % 64
    BY <1>8, <1>9, <2>1
  <2> HIDE DEF a, b, c, valb, x
  <2>5. Bits(val, 0, 8) = c
    BY <1>5, <1>11, <2>4
  <2>6. Restored(in, new.out, (3 * q + 2) + 1)
    <3>1. 3 * q + 2 \in Nat /\ Restored(in, st.out, 3 * q + 2) /\ c = ByteAt(in, (3 * q + 2) + 1)
      BY <1>9, <2>1 DEF c
    <3> QED BY <2>3, <2>5, <3>1, OneMoreByte
  <2>7. new.valb = IF i % 4 = 0 THEN -8 ELSE -2 * (i % 4)
    BY <2>1, <2>3
  <2>8. Restored(in, new.out, (3 * i) \div 4)
    BY <2>1, <2>6
  <2>9. Decoded(in, i, new)
    BY <1>10, <2>7, <2>8 DEF Decoded
  <2> QED BY <2>9 DEF new, x
<1> QED BY <1>6, <1>12, <1>13, <1>14, <1>15

(* The states of the loop, one per character.                              *)
DecodeRun(s, in, n) ==
  s = [i \in 0 .. n |-> IF i = 0 THEN Start(-8) ELSE DecodeChar(s[i - 1], in[i])]

LEMMA DecodeRunExists ==
  ASSUME NEW in, NEW n \in Nat
  PROVE  \E s : DecodeRun(s, in, n)
<1> DEFINE T == {k \in 0 .. n : \E s : DecodeRun(s, in, k)}
<1>1. 0 \in T
  <2>1. DecodeRun([i \in 0 .. 0 |-> Start(-8)], in, 0)
    BY DEF DecodeRun
  <2> QED BY <2>1
<1>2. ASSUME NEW k \in 1 .. n, k - 1 \in T PROVE k \in T
  <2>1. PICK s : DecodeRun(s, in, k - 1)
    BY <1>2
  <2> DEFINE e == [i \in 0 .. k |-> IF i = k THEN DecodeChar(s[k - 1], in[k]) ELSE s[i]]
  <2>2. \A i \in 0 .. k - 1 :
          s[i] = IF i = 0 THEN Start(-8) ELSE DecodeChar(s[i - 1], in[i])
    BY <2>1 DEF DecodeRun
  <2>3. ASSUME NEW i \in 0 .. k
        PROVE  e[i] = IF i = 0 THEN Start(-8) ELSE DecodeChar(e[i - 1], in[i])
    <3>1. CASE i = k
      <4>1. e[i] = DecodeChar(s[k - 1], in[k]) /\ e[k - 1] = s[k - 1] /\ i # 0
        BY <3>1
      <4> QED BY <3>1, <4>1
    <3>2. CASE i # k
      <4>1. i \in 0 .. k - 1 /\ e[i] = s[i] /\ (i # 0 => e[i - 1] = s[i - 1])
        BY <3>2
      <4> QED BY <2>2, <4>1
    <3> QED BY <3>1, <3>2
  <2>4. DecodeRun(e, in, k)
    <3>1. e = [i \in 0 .. k |-> e[i]]
      OBVIOUS
    <3> HIDE DEF e
    <3> QED BY <2>3, <3>1 DEF DecodeRun
  <2> QED BY <2>4
<1> HIDE DEF T
<1>3. n \in T
  <2>1. 0 .. n \subseteq T
    BY <1>1, <1>2, AllSteps
  <2> QED BY <2>1
<1> QED BY <1>3 DEF T

LEMMA DecodeStarts == ASSUME NEW in PROVE Decoded(in, 0, Start(-8))
<1>1. /\ Start(-8).val.hi = 0 /\ Start(-8).val.lo = 0
      /\ Start(-8).valb = -8 /\ Start(-8).out = <<>>
  BY DEF Start
<1>2. ValOK(Start(-8).val)
  BY <1>1 DEF ValOK, Half
<1>3. 0 % 4 = 0 /\ (3 * 0) \div 4 = 0
  OBVIOUS
<1>4. Restored(in, <<>>, 0)
  BY DEF Restored
<1> QED BY <1>1, <1>2, <1>3, <1>4 DEF Decoded

(* What the encoder has sent: the sextets, then padding.                   *)
LEMMA ReferenceIs ==
  ASSUME NEW in \in Seq(Byte)
  PROVE  /\ Chars(Len(in)) \in Nat /\ Len(Reference(in)) \in Nat
         /\ Chars(Len(in)) <= Len(Reference(in))
         /\ \A i \in 1 .. Len(Reference(in)) : Reference(in)[i] =
              IF i <= Chars(Len(in)) THEN Sextet(in, i - 1) ELSE Pad
<1> DEFINE n == Len(in)
           l == 4 * ((n + 2) \div 3)
           ref == Reference(in)
<1>1. n \in Nat
  OBVIOUS
<1>2. ref = [i \in 1 .. l |-> IF 6 * (i - 1) < 8 * n THEN Sextet(in, i - 1) ELSE Pad]
  BY DEF Reference
<1> HIDE DEF n, ref
<1>3. l \in Nat /\ Chars(n) \in Nat /\ Chars(n) <= l
  BY <1>1 DEF Chars
<1>4. \A i \in 1 .. l : 6 * (i - 1) < 8 * n <=> i <= Chars(n)
  BY <1>1 DEF Chars
<1> HIDE DEF l
<1>5. Len(ref) = l
  BY <1>2, <1>3
<1> QED BY <1>2, <1>3, <1>4, <1>5 DEF n, ref

LEMMA DecodeLoop ==
  ASSUME NEW in \in Seq(Byte)
  PROVE  \E st : /\ Decoded(in, Chars(Len(in)), st)
                 /\ base64Decode(Reference(in)) = st.out
<1> DEFINE ref == Reference(in)
           m == Chars(Len(in))
           n == Len(ref)
           P(f) == f = [i \in 0 .. n |-> IF i = 0 THEN Start(-8) ELSE DecodeChar(f[i - 1], ref[i])]
           run == CHOOSE f : P(f)
<1>1. /\ n \in Nat /\ m \in Nat /\ m <= n
      /\ \A i \in 1 .. n : ref[i] = IF i <= m THEN Sextet(in, i - 1) ELSE Pad
  BY ReferenceIs
<1>2. base64Decode(ref) = run[n].out
  BY DEF base64Decode
<1>3. \E f : P(f)
  BY <1>1, DecodeRunExists DEF DecodeRun
<1>4. P(run)
  <2> HIDE DEF P
  <2> QED BY <1>3
<1> HIDE DEF ref, m
<1>5. run[0] = Start(-8) /\ \A i \in 1 .. n : run[i] = DecodeChar(run[i - 1], ref[i])
  <2> HIDE DEF run
  <2> QED BY <1>1, <1>4
<1> HIDE DEF run, P, n
<1> DEFINE At(i) == IF i <= m THEN i ELSE m
           T == {i \in 0 .. n : Decoded(in, At(i), run[i])}
<1>6. 0 \in T
  BY <1>1, <1>5, DecodeStarts
<1>7. ASSUME NEW i \in 1 .. n, i - 1 \in T PROVE i \in T
  <2>1. run[i] = DecodeChar(run[i - 1], ref[i]) /\ i \in 0 .. n
    BY <1>1, <1>5
  <2>2. CASE i <= m
    <3>1. At(i) = i /\ At(i - 1) = i - 1 /\ i \in Nat \ {0} /\ ref[i] = Sextet(in, i - 1)
      BY <1>1, <2>2
    <3>2. Decoded(in, i - 1, run[i - 1])
      BY <1>7, <3>1
    <3>3. Decoded(in, i, run[i])
      BY <2>1, <3>1, <3>2, DecodeCharKept
    <3> QED BY <2>1, <3>1, <3>3
  <2>3. CASE ~ (i <= m)
    <3>1. At(i) = m /\ At(i - 1) = m /\ ref[i] = Pad
      BY <1>1, <2>3
    <3>2. run[i] = run[i - 1]
      BY <2>1, <3>1 DEF DecodeChar
    <3> QED BY <1>7, <2>1, <3>1, <3>2
  <2> QED BY <2>2, <2>3
<1> HIDE DEF T
<1>8. n \in T
  <2>1. 0 .. n \subseteq T
    BY <1>1, <1>6, <1>7, AllSteps
  <2> QED BY <1>1, <2>1
<1>9. Decoded(in, m, run[n])
  <2>1. At(n) = m
    BY <1>1
  <2> QED BY <1>8, <2>1 DEF T
<1> QED BY <1>2, <1>9 DEF ref, m

(* For every input, what the client decodes is what the engine produced    *)
(* (base64_util.h:28-46 undoes :5-26), long after the accumulators of both *)
(* have wrapped.                                                           *)
THEOREM DecoderUndoesEncoder == \A in \in Seq(Byte) : base64Decode(base64Encode(in)) = in
<1> SUFFICES ASSUME NEW in \in Seq(Byte) PROVE base64Decode(base64Encode(in)) = in
  OBVIOUS
<1> DEFINE n == Len(in)
           m == Chars(n)
<1>1. PICK st : Decoded(in, m, st) /\ base64Decode(Reference(in)) = st.out
  BY DecodeLoop
<1>2. base64Decode(base64Encode(in)) = st.out
  BY <1>1, EncoderIsBase64
<1>3. n \in Nat /\ (3 * m) \div 4 = n
  BY DEF Chars
<1>4. st.out \in Seq(Nat) /\ Len(st.out) = n /\ \A j \in 1 .. n : st.out[j] = ByteAt(in, j)
  BY <1>1, <1>3 DEF Decoded, Restored
<1>5. in \in Seq(Nat) /\ \A j \in 1 .. n : st.out[j] = in[j]
  BY <1>4, BytesOfSeq DEF Byte
<1>6. st.out = in
  BY <1>4, <1>5, SeqEqual
<1> QED BY <1>2, <1>6

-----------------------------------------------------------------------------
LEMMA TokenIsBytes == Base64Spec => [](token \in Seq(Byte))
<1>1. \A x \in 0 .. 255 : x \in Byte
  BY DEF Byte
<1>2. Bytes \subseteq Byte
  BY <1>1, Base64Assumption
<1>3. Base64Init => token \in Seq(Byte)
  BY DEF Base64Init
<1>4. token \in Seq(Byte) /\ [Base64Next]_token => (token \in Seq(Byte))'
  <2> SUFFICES ASSUME token \in Seq(Byte), [Base64Next]_token PROVE token' \in Seq(Byte)
    OBVIOUS
  <2>1. CASE \E c \in Bytes : token' = Append(token, c)
    <3>1. PICK c \in Byte : token' = Append(token, c)
      BY <1>2, <2>1
    <3> QED BY <3>1, AppendProperties
  <2>2. CASE token' = <<>>
    BY <2>2
  <2>3. CASE UNCHANGED token
    BY <2>3
  <2> QED BY <2>1, <2>2, <2>3 DEF Base64Next
<1> QED BY <1>3, <1>4, PTL DEF Base64Spec

(* The run's two properties, for bytes of every value and tokens of every  *)
(* length (base64_util.h:5-46).                                            *)
THEOREM TokensAreBase64 == Base64Spec => []EncodeIsBase64
<1>1. token \in Seq(Byte) => EncodeIsBase64
  BY EncoderIsBase64 DEF EncodeIsBase64
<1> QED BY <1>1, TokenIsBytes, PTL

(* And every token a client is sent comes out of its decoder unchanged.    *)
THEOREM TokensArriveWhole == Base64Spec => []RoundTrip
<1>1. token \in Seq(Byte) => RoundTrip
  BY DecoderUndoesEncoder DEF RoundTrip
<1> QED BY <1>1, TokenIsBytes, PTL

=============================================================================
