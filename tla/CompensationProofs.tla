------------------------- MODULE CompensationProofs -------------------------
(***************************************************************************)
(* The decoding of the calibration words in bme280.c, for every sensor:    *)
(* whatever bytes it was programmed with, h4 and h5 are the signed 12-bit  *)
(* numbers in them.  Then the three formulas, each for every sensor and    *)
(* reading within a range that is stated before its theorem: far enough    *)
(* outside of it an i32 of the code overflows, or a sensor can be imagined *)
(* whose words make the property false.                                    *)
(*                                                                         *)
(* Quotients by a number are bounded by what \div is; the squares, which   *)
(* are nonlinear, by NotNegative and ProductBound only.                    *)
(***************************************************************************)
EXTENDS Compensation, SequenceTheorems, TLAPS

Byte == 0 .. 255

(* The calibration bytes are bytes.                                        *)
HumInv == hum \in [1 .. 7 -> Byte]

(* Twelve bits, the upper eight of them a signed byte: in range, and taken *)
(* apart again by a remainder and a quotient.                              *)
Twelve(b, n) == I8(b) * 16 + n
Packs(h, b, n) == h \in -2048 .. 2047 /\ (h % 4096) \div 16 = b /\ h % 16 = n

LEMMA TwelveBits ==
  ASSUME NEW b \in Byte, NEW n \in 0 .. 15
  PROVE  Packs(Twelve(b, n), b, n)
<1>1. CASE b < 128
  <2>1. Twelve(b, n) = 16 * b + n /\ 16 * b + n \in 0 .. 2047
    BY <1>1 DEF Twelve, I8, Byte
  <2>2. /\ (16 * b + n) % 4096 = 16 * b + n /\ (16 * b + n) \div 16 = b
        /\ (16 * b + n) % 16 = n
    BY <1>1 DEF Byte
  <2> QED
    BY <2>1, <2>2 DEF Packs
<1>2. CASE ~(b < 128)
  <2>1. Twelve(b, n) = 16 * b + n - 4096 /\ 16 * b + n \in 2048 .. 4095
    BY <1>2 DEF Twelve, I8, Byte
  <2>2. /\ (16 * b + n - 4096) % 4096 = 16 * b + n /\ (16 * b + n) \div 16 = b
        /\ (16 * b + n - 4096) % 16 = n
    BY <1>2 DEF Byte
  <2> QED
    BY <2>1, <2>2 DEF Byte, Packs
<1> QED
  BY <1>1, <1>2

(* The byte that h4 and h5 share.                                          *)
LEMMA Halves ==
  ASSUME NEW b \in Byte
  PROVE  /\ b % 16 \in 0 .. 15 /\ b \div 16 \in 0 .. 15
         /\ (b \div 16) * 16 + (b % 16) = b
  BY DEF Byte

(* The bytes of the two words.                                             *)
LEMMA SharedBytes ==
  ASSUME HumInv
  PROVE  SubSeq(hum, 4, 6) = <<hum[4], hum[5], hum[6]>>
<1>1. \A i \in 4 .. 6 : hum[i] \in Byte
  BY DEF HumInv
<1> DEFINE s == SubSeq(hum, 4, 6)
           t == <<hum[4], hum[5], hum[6]>>
<1>2. s \in Seq(Byte) /\ Len(s) = 3 /\ \A i \in 1 .. 3 : s[i] = hum[4 + i - 1]
  BY <1>1, SubSeqProperties
<1>3. t \in Seq(Byte) /\ Len(t) = 3 /\ t[1] = hum[4] /\ t[2] = hum[5] /\ t[3] = hum[6]
  BY <1>1
<1>4. s[1] = hum[4] /\ s[2] = hum[5] /\ s[3] = hum[6]
  BY <1>2
<1> HIDE DEF s, t
<1>5. \A i \in 1 .. Len(s) : s[i] = t[i]
  BY <1>2, <1>3, <1>4
<1>6. s = t
  BY <1>2, <1>3, <1>5, SeqEqual, SMTT(30)
<1> QED
  BY <1>6 DEF s, t

(* get_hum_params decodes the packed words of every sensor: with their     *)
(* sign, and each with its half of the byte they share.                    *)
THEOREM WordsUnpacked == Spec => []Unpacked
<1>1. Init => HumInv
  BY CompensationAssumption DEF Init, HumInv, Byte
<1>2. HumInv /\ [Next]_vars => HumInv'
  BY DEF Next, CompensateT, CompensateP, CompensateH, vars, HumInv
<1>3. ASSUME HumInv PROVE Unpacked
  <2>1. hum[4] \in Byte /\ hum[5] \in Byte /\ hum[6] \in Byte
    BY <1>3 DEF HumInv
  <2>2. /\ hum[5] % 16 \in 0 .. 15 /\ hum[5] \div 16 \in 0 .. 15
        /\ (hum[5] \div 16) * 16 + (hum[5] % 16) = hum[5]
    BY <2>1, Halves
  <2>3. h4 = Twelve(hum[4], hum[5] % 16) /\ h5 = Twelve(hum[6], hum[5] \div 16)
    BY DEF h4, h5, Twelve
  <2>4. Packs(h4, hum[4], hum[5] % 16) /\ Packs(h5, hum[6], hum[5] \div 16)
    BY <2>1, <2>2, <2>3, TwelveBits
  <2>5. (h5 % 16) * 16 + (h4 % 16) = hum[5]
    BY <2>2, <2>4 DEF Packs
  <2>6. SubSeq(hum, 4, 6) = <<hum[4], hum[5], hum[6]>>
    BY <1>3, SharedBytes
  <2> QED
    BY <2>4, <2>5, <2>6 DEF Unpacked, Packs
<1> QED
  BY <1>1, <1>2, <1>3, PTL DEF Spec

-----------------------------------------------------------------------------
(* The bytes of both blocks and the readings are integers of their range.  *)
SensorInv ==
  /\ tp \in [1 .. 26 -> Byte] /\ hum \in [1 .. 7 -> Byte]
  /\ t_fine \in Int /\ adc \in Int

(* Every calibration word is one of its width.                             *)
Between(x, lo, hi) == x \in Int /\ lo =< x /\ x =< hi
IsU16(x) == Between(x, 0, 65535)
IsI16(x) == Between(x, -32768, 32767)
FitsI32(x) == Between(x, -2147483647 - 1, 2147483647)

LEMMA WordsFit ==
  ASSUME tp \in [1 .. 26 -> Byte]
  PROVE  IsU16(t1) /\ IsI16(t2) /\ IsI16(t3) /\ (\A i \in 2 .. 9 : IsI16(p(i))) /\ h1 \in Byte
<1>1. \A b \in 0 .. 255 : I8(b) \in -128 .. 127
  BY DEF I8
<1>2. \A l, h \in 0 .. 255 : IsI16(I16(l, h)) /\ IsU16(U16(l, h))
  <2> TAKE l, h \in 0 .. 255
  <2>1. I8(h) \in -128 .. 127
    BY <1>1
  <2>2. /\ h * 256 + l \in Int /\ 0 =< h * 256 + l /\ h * 256 + l =< 65535
        /\ \A s \in -128 .. 127 :
             s * 256 + l \in Int /\ -32768 =< s * 256 + l /\ s * 256 + l =< 32767
    OBVIOUS
  <2> QED
    BY <2>1, <2>2, SMTT(30) DEF I16, U16, Between, IsI16, IsU16
<1>3. \A i \in 1 .. 26 : tp[i] \in 0 .. 255
  BY DEF Byte
<1>4. \A i \in 1 .. 12 : 2 * i - 1 \in 1 .. 26 /\ 2 * i \in 1 .. 26
  OBVIOUS
<1>5. \A i \in 1 .. 12 : tp[2 * i - 1] \in 0 .. 255 /\ tp[2 * i] \in 0 .. 255
  BY <1>3, <1>4, SMTT(30)
<1>6. \A i \in 1 .. 12 : i = 1 \/ i = 4 => IsU16(TpWord(i))
  BY <1>2, <1>5 DEF TpWord
<1>7. \A i \in 1 .. 12 : i # 1 /\ i # 4 => IsI16(TpWord(i))
  BY <1>2, <1>5 DEF TpWord
<1>8. \A i \in 2 .. 9 : IsI16(p(i))
  BY <1>7 DEF p
<1>9. 26 \in 1 .. 26 /\ Byte = 0 .. 255
  BY DEF Byte
<1>10. IsU16(t1) /\ IsI16(t2) /\ IsI16(t3)
  <2>1. IsU16(TpWord(1)) /\ IsI16(TpWord(2)) /\ IsI16(TpWord(3))
    BY <1>6, <1>7
  <2> QED
    BY <2>1 DEF t1, t2, t3
<1>11. h1 \in Byte
  BY <1>3, <1>9, ZenonT(30) DEF h1
<1> QED
  BY <1>8, <1>10, <1>11

(* What \div and % are, for a divisor that is not a number.                *)
LEMMA DivMod ==
  ASSUME NEW n \in Int, NEW v \in Nat \ {0}
  PROVE  /\ n \div v \in Int /\ n % v \in 0 .. v - 1
         /\ n = v * (n \div v) + (n % v)
  OBVIOUS

(* A quotient is the only number whose multiple of v is that near.         *)
LEMMA QuotientIs ==
  ASSUME NEW n \in Int, NEW v \in Nat \ {0}, NEW m \in Int, v * m =< n, n < v * m + v
  PROVE  n \div v = m
<1>1. n \div v \in Int /\ n % v \in 0 .. v - 1 /\ n = v * (n \div v) + (n % v)
  BY DivMod
<1> DEFINE j == n \div v
<1> HIDE DEF j
<1>2. j \in Int /\ v * j =< n /\ n < v * j + v
  BY <1>1 DEF j
<1>3. CASE j < m
  <2>1. v * (j + 1) =< v * m
    BY <1>2, <1>3
  <2> QED
    BY <1>2, <2>1
<1>4. CASE m < j
  <2>1. v * (m + 1) =< v * j
    BY <1>2, <1>4
  <2> QED
    BY <1>2, <2>1
<1> QED
  BY <1>2, <1>3, <1>4 DEF j

(* MulDiv is the floor of the product's quotient, which it never forms.    *)
LEMMA MulDivIs ==
  ASSUME NEW k \in Int, NEW n \in Int, NEW v \in Nat \ {0}
  PROVE  MulDiv(k, n, v) = (k * n) \div v
<1> DEFINE m == n \div v
           s == n % v
           c == k * s
           t == c \div v
<1>1. m \in Int /\ s \in Int /\ n = v * m + s
  BY DivMod
<1>2. c \in Int
  BY <1>1
<1> HIDE DEF m, s, c
<1>3. t \in Int /\ c % v \in 0 .. v - 1 /\ c = v * t + (c % v)
  BY <1>2, DivMod
<1> HIDE DEF t
<1>4. v * t =< c /\ c < v * t + v
  BY <1>2, <1>3
<1>5. k * n = v * (k * m) + c
  BY <1>1 DEF c
<1>6. v * (k * m + t) = v * (k * m) + v * t /\ k * m + t \in Int /\ k * n \in Int
  BY <1>1, <1>3
<1>7. v * (k * m + t) =< k * n /\ k * n < v * (k * m + t) + v
  <2>1. v * (k * m) \in Int /\ v * t \in Int
    BY <1>1, <1>3
  <2> QED
    BY <1>2, <1>4, <1>5, <1>6, <2>1
<1>8. (k * n) \div v = k * m + t
  BY <1>6, <1>7, QuotientIs
<1> QED
  BY <1>8 DEF MulDiv, m, s, c, t

-----------------------------------------------------------------------------
(* The temperature formula and its rounding.                               *)

(* Readings and words within which no product of the formula leaves i32.   *)
InReach(e) == Between(e, -500000, 500000)
IsSmall(k) == Between(k, -8192, 8191)
TemperatureRange == InReach(adc - 16 * t1) /\ IsSmall(t3)

(* Dividing by 2^n is dividing by the number it is.                        *)
LEMMA Powers ==
  /\ 2 ^ 2 = 4 /\ 2 ^ 3 = 8 /\ 2 ^ 4 = 16 /\ 2 ^ 5 = 32 /\ 2 ^ 6 = 64 /\ 2 ^ 7 = 128
  /\ 2 ^ 8 = 256 /\ 2 ^ 10 = 1024 /\ 2 ^ 11 = 2048 /\ 2 ^ 12 = 4096 /\ 2 ^ 13 = 8192
  /\ 2 ^ 14 = 16384 /\ 2 ^ 15 = 32768 /\ 2 ^ 18 = 262144
  OBVIOUS

(* The product of two numbers is bounded by the product of their bounds.   *)
LEMMA NotNegative ==
  ASSUME NEW x \in Int, NEW y \in Int, 0 =< x, 0 =< y
  PROVE  0 =< x * y
  OBVIOUS

LEMMA ProductBound ==
  ASSUME NEW x \in Int, NEW y \in Int, NEW a \in Int, NEW b \in Int,
         Between(x, -a, a), Between(y, -b, b)
  PROVE  Between(x * y, -(a * b), a * b)
<1>1. 0 =< (a - x) * (b - y) /\ 0 =< (a + x) * (b + y)
      /\ 0 =< (a - x) * (b + y) /\ 0 =< (a + x) * (b - y)
  BY NotNegative DEF Between
<1>2. /\ (a - x) * (b - y) = a * b - a * y - x * b + x * y
      /\ (a + x) * (b + y) = a * b + a * y + x * b + x * y
      /\ (a - x) * (b + y) = a * b + a * y - x * b - x * y
      /\ (a + x) * (b - y) = a * b - a * y + x * b - x * y
  OBVIOUS
<1>3. x * y \in Int /\ a * b \in Int /\ a * y \in Int /\ x * b \in Int
  OBVIOUS
<1> QED
  BY <1>1, <1>2, <1>3 DEF Between

(* The two terms of the formula, and of the quadratic it stands for.       *)
Linear(e, k) == ((e \div 8) * k) \div 2048
ExactLinear(e, k) == (k * e) \div 16384
Quadratic(e, k) == ((((e \div 16) * (e \div 16)) \div 4096) * k) \div 16384
SquarePart(e) == ((e \div 32) * (e \div 32)) \div 64
ExactQuadratic(e, k) == (k * SquarePart(e)) \div 262144

(* The first term: two roundings of the same product, fourteen apart at    *)
(* most because the code drops three bits of e before it multiplies.       *)
LEMMA FirstTerm ==
  ASSUME NEW e \in Int, NEW k \in Int, IsI16(k)
  PROVE  /\ Linear(e, k) \in Int /\ ExactLinear(e, k) \in Int
         /\ Between(Linear(e, k) - ExactLinear(e, k), -14, 14)
<1> DEFINE f == e \div 8
           r == e % 8
           P == f * k
           Q == r * k
           R == k * e
<1>1. f \in Int /\ r \in 0 .. 7 /\ e = 8 * f + r
  OBVIOUS
<1> HIDE DEF f, r
<1>2. P \in Int /\ Q \in Int /\ R \in Int /\ R = 8 * P + Q
  BY <1>1
<1>3. Between(Q, -(7 * 32768), 7 * 32768)
  <2>1. Between(r, -7, 7) /\ Between(k, -32768, 32768)
    BY <1>1 DEF Between, IsI16
  <2> QED
    BY <1>1, <2>1, ProductBound
<1>4. Between(Q, -229376, 229376)
  BY <1>3 DEF Between
<1> HIDE DEF P, Q, R
<1>5. /\ P \div 2048 \in Int /\ R \div 16384 \in Int
      /\ Between((P \div 2048) - (R \div 16384), -14, 14)
  BY <1>2, <1>4 DEF Between
<1> QED
  BY <1>5 DEF Linear, ExactLinear, P, R, f

(* The second term: the square of e is taken of e / 16 by the code and of  *)
(* e / 32 by the property, so the squares differ by one cross product.     *)
LEMMA SecondTerm ==
  ASSUME NEW e \in Int, NEW k \in Int, InReach(e), IsSmall(k)
  PROVE  /\ Quadratic(e, k) \in Int /\ ExactQuadratic(e, k) \in Int /\ SquarePart(e) \in Int
         /\ Between(Quadratic(e, k) - ExactQuadratic(e, k), -9, 9)
<1> DEFINE d == e \div 16
           g == e \div 32
           s == d - 2 * g
           DD == d * d
           GG == g * g
           GS == g * s
           SS == s * s
<1>1. /\ g \in Int /\ -15625 =< g /\ g =< 15625
      /\ s \in 0 .. 1 /\ d \in Int /\ d = 2 * g + s
  BY DEF InReach, Between
<1> HIDE DEF d, g, s
<1>2. DD \in Int /\ GG \in Int /\ GS \in Int /\ SS \in Int
  BY <1>1
<1>3. DD = 4 * GG + 4 * GS + SS
  BY <1>1
<1>4. Between(GS, -15625, 15625) /\ Between(SS, 0, 1)
  <2>1. (s = 0 => GS = 0 /\ SS = 0) /\ (s = 1 => GS = g /\ SS = 1)
    BY <1>1
  <2>2. s = 0 \/ s = 1
    BY <1>1
  <2> QED
    BY <1>1, <2>1, <2>2 DEF Between
<1> HIDE DEF DD, GG, GS, SS
<1> DEFINE D == DD \div 4096
           N == GG \div 64
           X == 16 * D - N
<1>5. D \in Int /\ N \in Int /\ Between(X, -260, 260)
  BY <1>2, <1>3, <1>4 DEF Between
<1>6. X \in Int /\ 16 * D = N + X
  BY <1>5
<1> HIDE DEF D, N, X
<1> DEFINE W == D * k
           Y == k * N
           Z == X * k
<1>7. W \in Int /\ Y \in Int /\ Z \in Int /\ 16 * W = Y + Z
  BY <1>5, <1>6
<1>8. Between(Z, -(260 * 8192), 260 * 8192)
  <2>1. Between(k, -8192, 8192)
    BY DEF IsSmall, Between
  <2> QED
    BY <1>5, <1>6, <2>1, ProductBound
<1>9. Between(Z, -2129920, 2129920)
  BY <1>8 DEF Between
<1> HIDE DEF W, Y, Z
<1>10. /\ W \div 16384 \in Int /\ Y \div 262144 \in Int
       /\ Between((W \div 16384) - (Y \div 262144), -9, 9)
  BY <1>7, <1>9 DEF Between
<1> QED
  BY <1>5, <1>10 DEF Quadratic, ExactQuadratic, SquarePart, W, Y, D, DD, N, GG, d, g

(* Both terms, the sum's rounding and the property's own.                  *)
LEMMA TermsAreNear ==
  ASSUME NEW e \in Int, NEW k \in Int, NEW l \in Int, IsI16(k), InReach(e), IsSmall(l)
  PROVE  /\ Linear(e, k) + Quadratic(e, l) \in Int /\ SquarePart(e) \in Int
         /\ 256 * (((Linear(e, k) + Quadratic(e, l)) * 5 + 128) \div 256)
              - 5 * (ExactLinear(e, k) + ExactQuadratic(e, l)) \in -256 .. 256
<1> DEFINE A == Linear(e, k)
           E == ExactLinear(e, k)
           S == Quadratic(e, l)
           F == ExactQuadratic(e, l)
<1>1. Between(A - E, -14, 14) /\ A \in Int /\ E \in Int
  BY FirstTerm
<1>2. Between(S - F, -9, 9) /\ S \in Int /\ F \in Int /\ SquarePart(e) \in Int
  BY SecondTerm
<1> HIDE DEF A, E, S, F
<1>3. /\ A + S \in Int
      /\ 256 * (((A + S) * 5 + 128) \div 256) - 5 * (E + F) \in -256 .. 256
  BY <1>1, <1>2 DEF Between
<1> QED
  BY <1>2, <1>3 DEF A, E, S, F

(* Any reading's temperature is within 0.01 degrees of the quadratic.      *)
LEMMA TemperatureIsNear ==
  ASSUME NEW a \in Int, t1 \in Int, t2 \in Int, t3 \in Int,
         IsI16(t2), IsSmall(t3), InReach(a - 16 * t1)
  PROVE  TFine(a) \in Int /\ 256 * Temperature(TFine(a)) - 5 * Exact(a) \in -256 .. 256
<1> DEFINE e == a - 16 * t1
           k == t2
           l == t3
<1>1. Shr(a, 4) - t1 = e \div 16 /\ Shr(a, 3) - 2 * t1 = e \div 8
  BY Powers DEF Shr
<1>2. TFine(a) = Linear(e, k) + Quadratic(e, l)
  BY <1>1, Powers DEF TFine, Shr, Linear, Quadratic
<1>3. e \in Int /\ k \in Int /\ l \in Int
  OBVIOUS
<1>4. IsI16(k) /\ IsSmall(l) /\ InReach(e)
  OBVIOUS
<1>5. Exact(a) = MulDiv(k, e, 2 ^ 14) + MulDiv(l, Shr(Shr(e, 5) * Shr(e, 5), 6), 2 ^ 18)
  BY DEF Exact
<1> HIDE DEF e, k, l
<1>6. Shr(Shr(e, 5) * Shr(e, 5), 6) = SquarePart(e)
  BY Powers DEF Shr, SquarePart
<1>7. /\ Linear(e, k) + Quadratic(e, l) \in Int /\ SquarePart(e) \in Int
      /\ 256 * (((Linear(e, k) + Quadratic(e, l)) * 5 + 128) \div 256)
           - 5 * (ExactLinear(e, k) + ExactQuadratic(e, l)) \in -256 .. 256
  BY <1>3, <1>4, TermsAreNear, ZenonT(30)
<1>8. MulDiv(k, e, 16384) = ExactLinear(e, k)
  BY <1>3, MulDivIs DEF ExactLinear
<1>9. MulDiv(l, SquarePart(e), 262144) = ExactQuadratic(e, l)
  <2> DEFINE s == SquarePart(e)
  <2>1. s \in Int
    BY <1>7
  <2>2. ExactQuadratic(e, l) = (l * s) \div 262144
    BY DEF ExactQuadratic
  <2> HIDE DEF s
  <2>3. MulDiv(l, s, 262144) = (l * s) \div 262144
    BY <1>3, <2>1, MulDivIs
  <2> QED
    BY <2>2, <2>3 DEF s
<1>10. Exact(a) = ExactLinear(e, k) + ExactQuadratic(e, l)
  BY <1>5, <1>6, <1>8, <1>9, Powers
<1>11. Temperature(TFine(a)) = ((Linear(e, k) + Quadratic(e, l)) * 5 + 128) \div 256
  BY <1>2, Powers DEF Temperature, Shr
<1> QED
  BY <1>2, <1>7, <1>10, <1>11

(* Shifts, products and sums of integers are integers.                     *)
LEMMA ShrInt == ASSUME NEW x \in Int PROVE /\ Shr(x, 2) \in Int /\ Shr(x, 3) \in Int
                                           /\ Shr(x, 4) \in Int /\ Shr(x, 11) \in Int
                                           /\ Shr(x, 12) \in Int /\ Shr(x, 14) \in Int
                                           /\ Shr(x, 1) \in Int /\ Shr(x, 10) \in Int
                                           /\ Shr(x, 13) \in Int /\ Shr(x, 15) \in Int
                                           /\ Shr(x, 7) \in Int
  BY Powers DEF Shr

LEMMA TimesInt == ASSUME NEW x \in Int, NEW y \in Int PROVE x * y \in Int
  OBVIOUS

LEMMA TFineInt ==
  ASSUME NEW a \in Int, t1 \in Int, t2 \in Int, t3 \in Int
  PROVE  TFine(a) \in Int
<1> DEFINE d == Shr(a, 4) - t1
           f == Shr(a, 3) - 2 * t1
<1>1. d \in Int /\ f \in Int
  BY ShrInt
<1>2. TFine(a) = Shr(f * t2, 11) + Shr(Shr(d * d, 12) * t3, 14)
  BY DEF TFine
<1> HIDE DEF d, f
<1>3. Shr(d * d, 12) \in Int
  BY <1>1, TimesInt, ShrInt
<1>4. Shr(f * t2, 11) \in Int /\ Shr(Shr(d * d, 12) * t3, 14) \in Int
  BY <1>1, <1>3, TimesInt, ShrInt
<1> QED
  BY <1>2, <1>4

(* The state is of its type, and holds the result of the last formula.     *)
ResultInv ==
  /\ what = "t" => result = Temperature(TFine(adc))
  /\ what = "p" => result = Pressure(t_fine, adc)
  /\ what = "h" => result = Humidity(t_fine, adc)

(* A formula's value depends on the calibration, t_fine and the reading.   *)
LEMMA TemperatureDepends ==
  ASSUME NEW CONSTANT a, tp' = tp, adc' = a
  PROVE  Temperature(TFine(a)) = Temperature(TFine(adc))'
  BY DEF Temperature, TFine, Shr, t1, t2, t3, TpWord, I16, U16, I8

LEMMA PressureDepends ==
  ASSUME NEW CONSTANT a, tp' = tp, t_fine' = t_fine, adc' = a
  PROVE  Pressure(t_fine, a) = Pressure(t_fine, adc)'
<1>1. /\ p(1)' = p(1) /\ p(2)' = p(2) /\ p(3)' = p(3) /\ p(4)' = p(4) /\ p(5)' = p(5)
      /\ p(6)' = p(6) /\ p(7)' = p(7) /\ p(8)' = p(8) /\ p(9)' = p(9)
  BY DEF p, TpWord, I16, U16, I8
<1>2. PressureDivisor(Shr(t_fine, 1) - 64000)' = PressureDivisor(Shr(t_fine, 1) - 64000)
  BY <1>1 DEF PressureDivisor, Shr
<1>3. PressureInput(t_fine, adc)' = PressureInput(t_fine, a)
  <2>1. PressureOffset(Shr(t_fine, 1) - 64000)' = PressureOffset(Shr(t_fine, 1) - 64000)
    BY <1>1 DEF PressureOffset, Shr
  <2> QED
    BY <2>1 DEF PressureInput, Shr
<1> QED
  BY <1>1, <1>2, <1>3 DEF Pressure, Correction, Quotient, MulDiv, Shr

LEMMA HumidityDepends ==
  ASSUME NEW CONSTANT a, tp' = tp, hum' = hum, t_fine' = t_fine, adc' = a
  PROVE  Humidity(t_fine, a) = Humidity(t_fine, adc)'
  BY DEF Humidity, Clamp, Scaled, Bent, Raw, Gain, Shr, h1, h2, h3, h4, h5, h6, I16, I8

LEMMA InitInv == Init => SensorInv /\ ResultInv
<1> SUFFICES ASSUME Init PROVE SensorInv /\ ResultInv
  OBVIOUS
<1>1. tp \in Tp /\ hum \in Hum /\ t_fine = 0 /\ what = "none" /\ adc = 0
  BY Zenon DEF Init
<1>2. Tp \subseteq [1 .. 26 -> Byte] /\ Hum \subseteq [1 .. 7 -> Byte]
  BY CompensationAssumption, Zenon DEF Byte
<1>3. SensorInv
  BY <1>1, <1>2 DEF SensorInv
<1>4. ResultInv
  BY <1>1 DEF ResultInv
<1> QED
  BY <1>3, <1>4

LEMMA NextInv == SensorInv /\ ResultInv /\ [Next]_vars => (SensorInv /\ ResultInv)'
<1> SUFFICES ASSUME SensorInv, ResultInv, [Next]_vars
             PROVE  (SensorInv /\ ResultInv)'
  OBVIOUS
<1>1. t1 \in Int /\ t2 \in Int /\ t3 \in Int
  BY WordsFit DEF SensorInv, IsU16, IsI16, Between
<1> USE DEF SensorInv, ResultInv
<1>2. CASE CompensateT
  <2>1. PICK a \in AdcT : adc' = a /\ t_fine' = TFine(a) /\ result' = Temperature(TFine(a))
    BY <1>2 DEF CompensateT
  <2>2. a \in Int
    BY CompensationAssumption
  <2>3. tp' = tp /\ hum' = hum /\ what' = "t"
    BY <1>2 DEF CompensateT
  <2>4. TFine(a) \in Int
    BY <1>1, <2>2, TFineInt
  <2>5. Temperature(TFine(a)) = Temperature(TFine(adc))'
    BY <2>1, <2>3, TemperatureDepends
  <2> QED
    BY <2>1, <2>2, <2>3, <2>4, <2>5
<1>3. CASE CompensateP
  <2>1. PICK a \in AdcP : adc' = a /\ result' = Pressure(t_fine, a)
    BY <1>3 DEF CompensateP
  <2>2. a \in Int
    BY CompensationAssumption
  <2>3. tp' = tp /\ hum' = hum /\ t_fine' = t_fine /\ what' = "p"
    BY <1>3 DEF CompensateP
  <2>4. Pressure(t_fine, a) = Pressure(t_fine, adc)'
    BY <2>1, <2>3, PressureDepends
  <2> QED
    BY <2>1, <2>2, <2>3, <2>4
<1>4. CASE CompensateH
  <2>1. PICK a \in AdcH : adc' = a /\ result' = Humidity(t_fine, a)
    BY <1>4 DEF CompensateH
  <2>2. a \in Int
    BY CompensationAssumption
  <2>3. tp' = tp /\ hum' = hum /\ t_fine' = t_fine /\ what' = "h"
    BY <1>4 DEF CompensateH
  <2>4. Humidity(t_fine, a) = Humidity(t_fine, adc)'
    BY <2>1, <2>3, HumidityDepends
  <2> QED
    BY <2>1, <2>2, <2>3, <2>4
<1>5. CASE UNCHANGED vars
  <2>1. /\ Temperature(TFine(adc)) = Temperature(TFine(adc))'
        /\ Pressure(t_fine, adc) = Pressure(t_fine, adc)'
        /\ Humidity(t_fine, adc) = Humidity(t_fine, adc)'
    <3>1. PICK a : a = adc
      OBVIOUS
    <3>2. tp' = tp /\ hum' = hum /\ t_fine' = t_fine /\ adc' = a
      BY <1>5, <3>1 DEF vars
    <3> QED
      BY <3>1, <3>2, TemperatureDepends, PressureDepends, HumidityDepends
  <2> QED
    BY <1>5, <2>1 DEF vars
<1> QED
  BY <1>2, <1>3, <1>4, <1>5 DEF Next

(* Within the range, the printed hundredths are right to one hundredth.    *)
THEOREM TemperatureWithinAHundredth == Spec => [](TemperatureRange => Hundredth)
<1>1. SensorInv /\ ResultInv => (TemperatureRange => Hundredth)
  <2> SUFFICES ASSUME SensorInv, ResultInv, TemperatureRange, what = "t"
               PROVE  256 * result - 5 * Exact(adc) \in -256 .. 256
    BY DEF Hundredth
  <2>1. t1 \in Int /\ t2 \in Int /\ t3 \in Int /\ IsI16(t2) /\ adc \in Int
    BY WordsFit DEF SensorInv, IsU16, IsI16, Between
  <2>2. IsSmall(t3) /\ InReach(adc - 16 * t1) /\ result = Temperature(TFine(adc))
    BY DEF TemperatureRange, ResultInv
  <2> QED
    BY <2>1, <2>2, TemperatureIsNear
<1> QED
  BY <1>1, InitInv, NextInv, PTL DEF Spec

(* No product and no sum of bme280_compensate_t leaves an i32, which would *)
(* be undefined behaviour, whatever t1 and t2 are: e is adc_temp - 16 * t1, *)
(* within half a million of 0, and t3 is below 2^13.                       *)
THEOREM TemperatureStaysI32 ==
  ASSUME NEW e \in Int, NEW k \in Int, NEW l \in Int, IsI16(k), InReach(e), IsSmall(l)
  PROVE  /\ FitsI32((e \div 8) * k) /\ FitsI32((e \div 16) * (e \div 16))
         /\ FitsI32((((e \div 16) * (e \div 16)) \div 4096) * l)
         /\ FitsI32((Linear(e, k) + Quadratic(e, l)) * 5 + 128)
<1> DEFINE f == e \div 8
           d == e \div 16
           P == f * k
           S == d * d
           Q == S \div 4096
           R == Q * l
<1>1. /\ f \in Int /\ d \in Int /\ Between(f, -62500, 62500) /\ Between(d, -31250, 31250)
      /\ Between(k, -32768, 32768) /\ Between(l, -8192, 8192)
  BY DEF InReach, IsI16, IsSmall, Between
<1> HIDE DEF f, d
<1>2. Between(P, -(62500 * 32768), 62500 * 32768) /\ P \in Int
  BY <1>1, ProductBound, TimesInt
<1>3. Between(S, -(31250 * 31250), 31250 * 31250) /\ S \in Int /\ 0 =< S
  <2>1. 0 =< S
    <3>1. 0 =< d \/ 0 =< -d
      BY <1>1
    <3>2. (-d) * (-d) = d * d /\ -d \in Int
      BY <1>1
    <3> QED
      BY <1>1, <3>1, <3>2, NotNegative
  <2>2. Between(S, -(31250 * 31250), 31250 * 31250) /\ S \in Int
    BY <1>1, ProductBound, TimesInt
  <2> QED
    BY <2>1, <2>2
<1> HIDE DEF P, S
<1>4. Q \in Int /\ Between(Q, -238500, 238500)
  BY <1>3 DEF Between
<1> HIDE DEF Q
<1>5. Between(R, -(238500 * 8192), 238500 * 8192) /\ R \in Int
  BY <1>1, <1>4, ProductBound, TimesInt, SMTT(30)
<1> HIDE DEF R
<1>6. FitsI32(P) /\ FitsI32(S) /\ FitsI32(R)
  BY <1>2, <1>3, <1>5 DEF FitsI32, Between
<1>7. FitsI32((P \div 2048 + R \div 16384) * 5 + 128)
  BY <1>2, <1>5 DEF FitsI32, Between
<1> QED
  BY <1>6, <1>7 DEF Linear, Quadratic, P, S, R, Q, f, d

-----------------------------------------------------------------------------
(* The humidity formula: a product, a parabola subtracted from it, and a   *)
(* clamp.  The parabola is a staircase, so that the difference of the two  *)
(* rises only between values further apart than one of its steps: gain     *)
(* below is what a step of the reading changes the product by.             *)
IsGain(g) == Between(g, 32768, 196608)
HumidityGain == Gain(2097162, 1892, t_fine)
HumidityRange ==
  /\ IsGain(HumidityGain)
  /\ FitsI32(Raw(t_fine, adc) * HumidityGain)
  /\ FitsI32(Raw(t_fine, adc + Near) * HumidityGain)

(* The step of the parabola, for values at least one of its treads apart.  *)
Step(v) == v \div 32768
Parabola(v, c) == (((Step(v) * Step(v)) \div 128) * c) \div 16
Apart(v, w) == v + 32768 =< w
WithinGain(v, w, i) == w - v =< 196608 * i

LEMMA ParabolaChange ==
  ASSUME NEW v \in Int, NEW w \in Int, NEW c \in Byte,
         FitsI32(v), FitsI32(w), Apart(v, w)
  PROVE  /\ Parabola(v, c) \in Int /\ Parabola(w, c) \in Int
         /\ Between(Parabola(w, c) - Parabola(v, c), v - w, w - v)
<1> DEFINE x == Step(v)
           y == Step(w)
           d == y - x
           s == y + x
<1>1. x \in Int /\ y \in Int /\ -65536 =< x /\ x =< 65535 /\ -65536 =< y /\ y =< 65535
  BY DEF Step, FitsI32, Between
<1>2. d \in Int /\ 0 =< d /\ 32768 * d =< w - v + 32767
  BY DEF Step, Apart
<1>3. s \in Int /\ Between(s, -131072, 131072) /\ Between(d, -d, d)
  BY <1>1, <1>2 DEF Between
<1>4. x = y - d /\ s = y + x
  BY <1>1
<1> DEFINE xx == x * x
           yy == y * y
           ds == d * s
<1>5. xx \in Int /\ yy \in Int /\ ds \in Int
  BY <1>1, <1>2, <1>3
<1>6. yy - xx = ds
  <2>1. (y - x) * (y + x) = y * y - x * x
    BY <1>1
  <2> QED
    BY <2>1
<1>7. Between(ds, -(d * 131072), d * 131072)
  BY <1>2, <1>3, ProductBound
<1> HIDE DEF xx, yy, ds, d, s, x, y
<1> DEFINE A == xx \div 128
           B == yy \div 128
           Y == B - A
<1>8. A \in Int /\ B \in Int /\ Y \in Int /\ -1024 * d =< Y /\ Y =< 1024 * d
  BY <1>2, <1>5, <1>6, <1>7 DEF Between
<1> HIDE DEF A, B
<1>9. Between(Y * c, -((1024 * d) * 255), (1024 * d) * 255)
  <2>1. Between(Y, -(1024 * d), 1024 * d) /\ Between(c, -255, 255) /\ 1024 * d \in Int
    BY <1>2, <1>8 DEF Between, Byte
  <2>2. c \in Int
    BY DEF Byte
  <2> QED
    BY <1>8, <2>1, <2>2, ProductBound, SMTT(30)
<1> DEFINE ac == A * c
           bc == B * c
           yc == Y * c
<1>10. ac \in Int /\ bc \in Int /\ bc - ac = yc
  BY <1>8 DEF Byte
<1>11. yc \in Int /\ -261120 * d =< yc /\ yc =< 261120 * d
  BY <1>2, <1>9 DEF Between
<1> HIDE DEF ac, bc, yc
<1>12. /\ ac \div 16 \in Int /\ bc \div 16 \in Int
       /\ -16320 * d =< (bc \div 16) - (ac \div 16) /\ (bc \div 16) - (ac \div 16) =< 16320 * d
  BY <1>2, <1>10, <1>11
<1>13. 16320 * d =< w - v
  BY <1>2 DEF Apart
<1>14. Between((bc \div 16) - (ac \div 16), v - w, w - v)
  BY <1>2, <1>12, <1>13 DEF Between
<1> QED
  BY <1>12, <1>14 DEF Parabola, x, y, xx, yy, A, B, ac, bc

(* A reading n higher is at most half of n + 1 higher after its scaling.   *)
LEMMA RawRises ==
  ASSUME NEW b \in Int, NEW c \in Int, NEW n \in Nat
  PROVE  /\ (b + c) \div 32768 \in Int /\ (b + n * 16384 + c) \div 32768 \in Int
         /\ 0 =< (b + n * 16384 + c) \div 32768 - (b + c) \div 32768
         /\ 2 * ((b + n * 16384 + c) \div 32768 - (b + c) \div 32768) =< n + 1
<1> DEFINE x == b + c
           i == (x + n * 16384) \div 32768 - x \div 32768
<1>1. x \in Int /\ b + n * 16384 + c = x + n * 16384
  OBVIOUS
<1> HIDE DEF x
<1>2. x \div 32768 \in Int /\ (x + n * 16384) \div 32768 \in Int /\ 0 =< i /\ 2 * i =< n + 1
  BY <1>1
<1> QED
  BY <1>1, <1>2 DEF x

(* The last steps of the formula: bend, clamp, drop twelve bits.           *)
Percent(v) == Shr(Clamp(v), 12)

LEMMA PercentRises ==
  ASSUME NEW v \in Int, NEW w \in Int, v =< w
  PROVE  /\ Percent(v) \in Int /\ 0 =< Percent(v) /\ Percent(v) =< 102400
         /\ 0 =< Percent(w) - Percent(v) /\ 4096 * (Percent(w) - Percent(v)) =< w - v + 4095
<1>1. /\ Clamp(v) \in Int /\ Clamp(w) \in Int /\ 0 =< Clamp(v) /\ Clamp(v) =< 419430400
      /\ 0 =< Clamp(w) - Clamp(v) /\ Clamp(w) - Clamp(v) =< w - v
  BY DEF Clamp
<1>2. Percent(v) = Clamp(v) \div 4096 /\ Percent(w) = Clamp(w) \div 4096
  BY Powers DEF Percent, Shr
<1> DEFINE x == Clamp(v)
           y == Clamp(w)
<1> HIDE DEF x, y
<1>3. /\ x \in Int /\ y \in Int /\ 0 =< x /\ x =< 419430400
      /\ 0 =< y - x /\ y - x =< w - v
  BY <1>1 DEF x, y
<1>4. /\ x \div 4096 \in Int /\ 0 =< x \div 4096 /\ x \div 4096 =< 102400
      /\ 0 =< (y \div 4096) - (x \div 4096)
      /\ 4096 * ((y \div 4096) - (x \div 4096)) =< w - v + 4095
  BY <1>3
<1> QED
  BY <1>2, <1>4 DEF x, y

(* A step of the product moves it further than the parabola can take back, *)
(* and the percentage by 96 for each unit of the scaled reading at most.   *)
LEMMA PercentMoves ==
  ASSUME NEW v \in Int, NEW w \in Int, NEW i \in Int, NEW c \in Byte, NEW n \in Nat \ {0},
         2 * i =< n + 1, FitsI32(v), FitsI32(w), Apart(v, w), WithinGain(v, w, i)
  PROVE  Between(Percent(w - Parabola(w, c)) - Percent(v - Parabola(v, c)), 0, 100 * n)
<1> DEFINE a == Parabola(v, c)
           b == Parabola(w, c)
           x == v - a
           y == w - b
           r == Percent(x)
           t == Percent(y)
<1>1. Between(b - a, v - w, w - v) /\ a \in Int /\ b \in Int
  BY ParabolaChange
<1> HIDE DEF a, b
<1>2. x \in Int /\ y \in Int /\ x =< y
  BY <1>1 DEF Between
<1>3. y - x =< 393216 * i
  BY <1>1 DEF Between, WithinGain
<1> HIDE DEF x, y
<1>4. t \in Int
  BY <1>2, PercentRises
<1>5. r \in Int
  BY <1>2, PercentRises
<1>6. 0 =< t - r
  BY <1>2, PercentRises
<1>7. 4096 * (t - r) =< y - x + 4095
  BY <1>2, PercentRises
<1> HIDE DEF r, t
<1>8. Between(t - r, 0, 100 * n)
  BY <1>2, <1>3, <1>4, <1>5, <1>6, <1>7 DEF Between
<1> QED
  BY <1>8 DEF r, t, x, y, a, b

LEMMA ParabolaInt ==
  ASSUME NEW v \in Int, NEW c \in Int
  PROVE  Parabola(v, c) \in Int
<1> DEFINE s == Step(v)
           ss == s * s
           q == ss \div 128
           qc == q * c
<1>1. s \in Int
  BY DEF Step
<1>2. ss \in Int
  BY <1>1
<1>3. q \in Int
  BY <1>2
<1>4. qc \in Int
  BY <1>3
<1>5. qc \div 16 \in Int
  BY <1>4
<1> QED
  BY <1>5 DEF Parabola

(* A scaled reading i higher moves the product by i times the gain.        *)
LEMMA GainMovesOn ==
  ASSUME NEW u \in Int, NEW i \in Int, NEW g \in Int, NEW c \in Byte, NEW n \in Nat \ {0},
         0 =< i, 2 * i =< n + 1, IsGain(g), FitsI32(u * g), FitsI32((u + i) * g)
  PROVE  Between(Percent((u + i) * g - Parabola((u + i) * g, c))
                   - Percent(u * g - Parabola(u * g, c)), 0, 100 * n)
<1> DEFINE v == u * g
           w == (u + i) * g
           ig == i * g
<1>1. v \in Int /\ w \in Int /\ ig \in Int /\ w = v + ig
  OBVIOUS
<1>2. i = 0 => w = v
  OBVIOUS
<1>3. i # 0 => 32768 =< ig /\ ig =< 196608 * i
  <2> SUFFICES ASSUME i # 0 PROVE 32768 =< ig /\ ig =< 196608 * i
    OBVIOUS
  <2>1. 0 =< (i - 1) * g /\ 0 =< i * (196608 - g)
    BY NotNegative DEF IsGain, Between
  <2>2. (i - 1) * g = ig - g /\ i * (196608 - g) = 196608 * i - ig
    OBVIOUS
  <2> HIDE DEF ig
  <2> QED
    BY <1>1, <2>1, <2>2 DEF IsGain, Between
<1>4. FitsI32(v) /\ FitsI32(w)
  OBVIOUS
<1> HIDE DEF v, w, ig
<1>5. CASE i = 0
  <2> DEFINE r == Percent(v - Parabola(v, c))
  <2>1. r \in Int
    <3>1. c \in Int
      BY DEF Byte
    <3>2. Parabola(v, c) \in Int
      BY <1>1, <3>1, ParabolaInt
    <3>3. v - Parabola(v, c) \in Int
      BY <1>1, <3>2
    <3> QED
      BY <3>3, PercentRises
  <2>2. Percent(w - Parabola(w, c)) = r
    BY <1>2, <1>5
  <2> HIDE DEF r
  <2>3. Between(r - r, 0, 100 * n)
    BY <2>1 DEF Between
  <2> QED
    BY <2>2, <2>3 DEF r, v, w
<1>6. CASE i # 0
  <2>1. Apart(v, w)
    BY <1>1, <1>3, <1>6 DEF Apart
  <2>3. WithinGain(v, w, i)
    BY <1>1, <1>3, <1>6 DEF WithinGain
  <2>2. Between(Percent(w - Parabola(w, c)) - Percent(v - Parabola(v, c)), 0, 100 * n)
    BY <1>1, <1>4, <2>1, <2>3, PercentMoves
  <2> QED
    BY <2>2 DEF v, w
<1> QED
  BY <1>5, <1>6

(* The formula of the model, in these terms.                               *)
LEMMA HumidityIs ==
  ASSUME NEW a
  PROVE  Humidity(t_fine, a) =
           Percent(Raw(t_fine, a) * HumidityGain - Parabola(Raw(t_fine, a) * HumidityGain, h1))
  BY Powers DEF Humidity, Percent, Scaled, Bent, Parabola, Step, HumidityGain, Shr

(* The words h4 and h5 shift the raw reading, whatever they are.           *)
LEMMA RawMoves ==
  ASSUME NEW a \in Int, NEW n \in Nat, t_fine \in Int, hum \in [1 .. 7 -> Byte]
  PROVE  \E i \in Int : /\ Raw(t_fine, a) \in Int /\ Raw(t_fine, a + n) = Raw(t_fine, a) + i
                        /\ 0 =< i /\ 2 * i =< n + 1
<1>1. h4 \in Int /\ h5 \in Int
  <2>1. \A b \in Byte : I8(b) \in Int /\ b % 16 \in Int /\ b \div 16 \in Int
    BY DEF Byte, I8
  <2>2. hum[4] \in Byte /\ hum[5] \in Byte /\ hum[6] \in Byte
    OBVIOUS
  <2> QED
    BY <2>1, <2>2 DEF h4, h5
<1> DEFINE x == t_fine - 76800
           hx == h5 * x
           c == 16384 - h4 * 1048576 - hx
           b == a * 16384
<1>2. x \in Int /\ hx \in Int
  BY <1>1, TimesInt
<1> HIDE DEF hx
<1>3. c \in Int /\ b \in Int
  BY <1>1, <1>2
<1>4. a * 16384 - h4 * 1048576 - hx + 16384 = b + c
  BY <1>1, <1>2
<1>5. (a + n) * 16384 - h4 * 1048576 - hx + 16384 = b + n * 16384 + c
  BY <1>1, <1>2
<1>6. /\ Raw(t_fine, a) = (b + c) \div 32768
      /\ Raw(t_fine, a + n) = (b + n * 16384 + c) \div 32768
  BY <1>4, <1>5, Powers DEF Raw, Shr, hx
<1> HIDE DEF b, c
<1> DEFINE r == (b + c) \div 32768
           s == (b + n * 16384 + c) \div 32768
<1>7. r \in Int /\ s \in Int /\ 0 =< s - r /\ 2 * (s - r) =< n + 1
  BY <1>3, RawRises
<1> HIDE DEF r, s
<1>8. s - r \in Int /\ s = r + (s - r)
  BY <1>7
<1>9. Raw(t_fine, a) = r /\ Raw(t_fine, a + n) = s
  BY <1>6 DEF r, s
<1> QED
  BY <1>7, <1>8, <1>9

LEMMA Interval ==
  ASSUME NEW lo \in Int, NEW hi \in Int, NEW x, Between(x, lo, hi)
  PROVE  x \in lo .. hi
  BY SMTT(30) DEF Between

(* Where a step of the reading changes the product by more than a step of  *)
(* the parabola, and the product is an i32, humidity rises with the        *)
(* reading and stays within 0 to 100 %, for every sensor's words.          *)
THEOREM HumidityRisesWithGain == Spec => [](HumidityRange => HumidityRises)
<1>1. SensorInv /\ ResultInv => (HumidityRange => HumidityRises)
  <2> SUFFICES ASSUME SensorInv, ResultInv, HumidityRange, what = "h"
               PROVE  /\ result \in 0 .. 100 * 1024
                      /\ Humidity(t_fine, adc + Near) - result \in 0 .. 100 * Near
    BY DEF HumidityRises
  <2>1. adc \in Int /\ t_fine \in Int /\ h1 \in Byte /\ Near \in Nat \ {0}
    BY CompensationAssumption, WordsFit DEF SensorInv
  <2> DEFINE g == HumidityGain
             u == Raw(t_fine, adc)
  <2>2. PICK i \in Int : /\ u \in Int /\ Raw(t_fine, adc + Near) = u + i
                         /\ 0 =< i /\ 2 * i =< Near + 1
    BY <2>1, RawMoves DEF SensorInv
  <2>3. g \in Int /\ IsGain(g) /\ FitsI32(u * g) /\ FitsI32((u + i) * g)
    BY <2>2 DEF HumidityRange, IsGain, Between
  <2>4. result = Percent(u * g - Parabola(u * g, h1))
    BY <2>1, HumidityIs DEF ResultInv
  <2>5. Humidity(t_fine, adc + Near) = Percent((u + i) * g - Parabola((u + i) * g, h1))
    BY <2>2, HumidityIs
  <2> HIDE DEF g, u
  <2>6. Between(Humidity(t_fine, adc + Near) - result, 0, 100 * Near)
    BY <2>1, <2>2, <2>3, <2>4, <2>5, GainMovesOn
  <2>7. Humidity(t_fine, adc + Near) - result \in 0 .. 100 * Near
    BY <2>1, <2>6, Interval
  <2> DEFINE N == 100 * 1024
  <2>8. u * g - Parabola(u * g, h1) \in Int
    <3> DEFINE v == u * g
    <3>1. v \in Int /\ h1 \in Int
      BY <2>1, <2>2, <2>3 DEF Byte
    <3> HIDE DEF v
    <3>2. Parabola(v, h1) \in Int
      BY <3>1, ParabolaInt
    <3>3. v - Parabola(v, h1) \in Int
      BY <3>1, <3>2
    <3> QED
      BY <3>3 DEF v
  <2>9. Between(result, 0, N) /\ N \in Int
    <3> DEFINE v == u * g - Parabola(u * g, h1)
    <3>1. v \in Int
      BY <2>8
    <3> HIDE DEF v
    <3>2. Percent(v) \in Int /\ 0 =< Percent(v) /\ Percent(v) =< 102400
      BY <3>1, PercentRises
    <3>3. result = Percent(v)
      BY <2>4 DEF v
    <3> QED
      BY <3>2, <3>3 DEF Between
  <2> HIDE DEF N
  <2>10. result \in 0 .. N
    BY <2>9, Interval
  <2> QED
    BY <2>7, <2>10, ZenonT(30) DEF N
<1> QED
  BY <1>1, InitInv, NextInv, PTL DEF Spec

-----------------------------------------------------------------------------
(* The pressure formula: the quotient, in either order of division, then a *)
(* correction that is a small fraction of it.                              *)

(* Either branch of the quotient is below twice the divisor of 6250 * n.   *)
Covers(n, v, q) == q \in Int /\ v * q =< 6250 * n /\ 6250 * n < v * q + 2 * v

LEMMA QuotientCovers ==
  ASSUME NEW n \in Nat, NEW v \in Nat \ {0}
  PROVE  Covers(n, v, Quotient(n, v)) /\ 0 =< Quotient(n, v)
<1>1. ASSUME NEW k \in Nat
      PROVE  /\ MulDiv(k, n, v) \in Int /\ 0 =< MulDiv(k, n, v)
             /\ v * MulDiv(k, n, v) =< k * n /\ k * n < v * MulDiv(k, n, v) + v
  <2> DEFINE c == k * n
             t == c \div v
  <2>1. c \in Int /\ 0 =< c
    BY NotNegative
  <2>2. MulDiv(k, n, v) = t
    BY MulDivIs
  <2> HIDE DEF c
  <2>3. t \in Int /\ c % v \in 0 .. v - 1 /\ c = v * t + (c % v)
    BY <2>1, DivMod
  <2> HIDE DEF t
  <2>4. v * t \in Int /\ v * t =< c /\ c < v * t + v
    BY <2>3
  <2>5. 0 =< t
    <3> SUFFICES ASSUME t < 0 PROVE FALSE
      BY <2>3
    <3>1. 0 =< v * (-1 - t) /\ v * (-1 - t) = -v - v * t
      BY <2>3, NotNegative
    <3> QED
      BY <2>1, <2>4, <3>1
  <2> QED
    BY <2>2, <2>3, <2>4, <2>5 DEF c
<1>2. CASE n =< 687194
  <2> DEFINE q == MulDiv(6250, n, v)
  <2>1. q \in Int /\ 0 =< q /\ v * q =< 6250 * n /\ 6250 * n < v * q + v
    BY <1>1
  <2>2. Quotient(n, v) = q
    BY <1>2 DEF Quotient
  <2> HIDE DEF q
  <2>3. v * q \in Int
    BY <2>1
  <2>4. Covers(n, v, q)
    BY <2>1, <2>3 DEF Covers
  <2> QED
    BY <2>1, <2>2, <2>4
<1>3. CASE ~(n =< 687194)
  <2> DEFINE t == MulDiv(3125, n, v)
  <2>1. t \in Int /\ 0 =< t /\ v * t =< 3125 * n /\ 3125 * n < v * t + v
    BY <1>1
  <2>2. Quotient(n, v) = t * 2
    BY <1>3 DEF Quotient
  <2> HIDE DEF t
  <2>3. v * t \in Int /\ v * (t * 2) = 2 * (v * t) /\ t * 2 \in Int
    BY <2>1
  <2>4. Covers(n, v, t * 2)
    BY <2>1, <2>3 DEF Covers
  <2> QED
    BY <2>1, <2>2, <2>4
<1> QED
  BY <1>2, <1>3

(* A reading d higher makes the quotient smaller across the seam, too, by  *)
(* two at least and d / 2 + 1 at most, if the divisor is of this size.     *)
IsDivisor(v, d) == v \in Nat /\ 12500 =< v /\ 3 * v =< 6250 * d

LEMMA QuotientFalls ==
  ASSUME NEW m \in Nat, NEW d \in Nat, NEW v, IsDivisor(v, d)
  PROVE  /\ Quotient(m, v) \in Int /\ Quotient(m + d, v) \in Int
         /\ 0 =< Quotient(m, v) /\ Quotient(m, v) + 2 =< Quotient(m + d, v)
         /\ 2 * (Quotient(m + d, v) - Quotient(m, v)) =< d + 3
<1> DEFINE r == Quotient(m, v)
           q == Quotient(m + d, v)
<1>1. v \in Nat \ {0} /\ m + d \in Nat
  BY DEF IsDivisor
<1>2. Covers(m, v, r) /\ 0 =< r /\ Covers(m + d, v, q)
  BY <1>1, QuotientCovers
<1> HIDE DEF r, q
<1> DEFINE vr == v * r
           vq == v * q
           e == q - r
           ve == v * e
<1>3. /\ r \in Int /\ vr =< 6250 * m /\ 6250 * m < vr + 2 * v
      /\ q \in Int /\ vq =< 6250 * (m + d) /\ 6250 * (m + d) < vq + 2 * v
  BY <1>2 DEF Covers
<1>4. vr \in Int /\ vq \in Int /\ ve \in Int /\ e \in Int /\ ve = vq - vr
  BY <1>1, <1>3
<1> HIDE DEF vr, vq
<1>5. 6250 * d - 2 * v < ve /\ ve < 6250 * d + 2 * v
  BY <1>1, <1>3, <1>4
<1>6. v < ve /\ 2 * ve < v * d + 4 * v
  <2>1. 12500 * d =< v * d
    <3>1. 0 =< (v - 12500) * d /\ (v - 12500) * d = v * d - 12500 * d
      BY <1>1, NotNegative DEF IsDivisor
    <3> QED
      BY <1>1, <3>1
  <2>2. v * d \in Int
    BY <1>1
  <2> QED
    BY <1>1, <1>4, <1>5, <2>1, <2>2 DEF IsDivisor
<1>7. 2 =< e
  <2> SUFFICES ASSUME e =< 1 PROVE FALSE
    BY <1>4
  <2>1. 0 =< v * (1 - e) /\ v * (1 - e) = v - ve
    BY <1>1, <1>4, NotNegative
  <2> QED
    BY <1>1, <1>4, <1>6, <2>1
<1>8. 2 * e =< d + 3
  <2> SUFFICES ASSUME d + 4 =< 2 * e PROVE FALSE
    BY <1>4
  <2>1. 0 =< v * (2 * e - d - 4) /\ v * (2 * e - d - 4) = 2 * ve - v * d - 4 * v
    BY <1>1, <1>4, NotNegative
  <2>2. v * d \in Int
    BY <1>1
  <2> QED
    BY <1>1, <1>4, <1>6, <2>1, <2>2
<1> QED
  BY <1>2, <1>3, <1>4, <1>7, <1>8 DEF r, q

(* The correction's two parts, for words k and l, and the change of each   *)
(* over a fall of the quotient.                                            *)
Square(q) == ((q \div 8) * (q \div 8)) \div 8192
SquareTerm(q, k) == (k * Square(q)) \div 4096
LinearTerm(q, k) == ((q \div 4) * k) \div 8192
IsQuotient(q) == Between(q, 0, 262143)
IsP9(k) == Between(k, -16384, 16384)

LEMMA SquareTermChange ==
  ASSUME NEW r \in Int, NEW q \in Int, NEW k \in Int, IsQuotient(r), IsQuotient(q), r =< q, IsP9(k)
  PROVE  /\ SquareTerm(r, k) \in Int /\ SquareTerm(q, k) \in Int
         /\ \E e \in Int : /\ 0 =< e /\ 8 * e =< q - r + 7
                           /\ Between(SquareTerm(q, k) - SquareTerm(r, k), -(32 * e), 32 * e)
<1> DEFINE z == r \div 8
           y == q \div 8
           e == y - z
           s == y + z
           zz == z * z
           yy == y * y
           es == e * s
<1>1. /\ z \in Int /\ 0 =< z /\ z =< 32767 /\ y \in Int /\ 0 =< y /\ y =< 32767
      /\ 0 =< e /\ 8 * e =< q - r + 7
  BY DEF IsQuotient, Between
<1>2. e \in Int /\ s \in Int /\ Between(e, -e, e) /\ 0 =< s /\ Between(s, -65536, 65536)
  BY <1>1 DEF Between
<1>3. zz \in Int /\ yy \in Int /\ es \in Int /\ yy - zz = es
  <2>1. (y - z) * (y + z) = y * y - z * z
    BY <1>1
  <2> QED
    BY <1>1, <1>2, <2>1
<1>4. Between(es, -(e * 65536), e * 65536) /\ 0 =< es
  <2>1. Between(es, -(e * 65536), e * 65536)
    BY <1>2, ProductBound
  <2>2. 0 =< es
    BY <1>1, <1>2, NotNegative
  <2> QED
    BY <2>1, <2>2
<1> HIDE DEF z, y, e, s, zz, yy, es
<1> DEFINE A == zz \div 8192
           B == yy \div 8192
           X == B - A
<1>5. A \in Int /\ B \in Int /\ X \in Int /\ Between(X, -(8 * e), 8 * e)
  BY <1>2, <1>3, <1>4 DEF Between
<1> HIDE DEF A, B
<1> DEFINE ka == k * A
           kb == k * B
           kx == k * X
<1>6. ka \in Int /\ kb \in Int /\ kx \in Int /\ kb - ka = kx
  BY <1>5
<1>7. Between(kx, -(16384 * (8 * e)), 16384 * (8 * e))
  <2>1. Between(k, -16384, 16384) /\ 8 * e \in Int
    BY <1>2 DEF IsP9
  <2> QED
    BY <1>5, <2>1, ProductBound, SMTT(30)
<1>8. -131072 * e =< kx /\ kx =< 131072 * e
  BY <1>2, <1>7 DEF Between
<1> HIDE DEF ka, kb, kx
<1>9. /\ ka \div 4096 \in Int /\ kb \div 4096 \in Int
      /\ Between((kb \div 4096) - (ka \div 4096), -(32 * e), 32 * e)
  BY <1>1, <1>2, <1>6, <1>8 DEF Between
<1>10. SquareTerm(r, k) = ka \div 4096 /\ SquareTerm(q, k) = kb \div 4096
  BY DEF SquareTerm, Square, ka, kb, A, B, zz, yy, z, y
<1> QED
  BY <1>1, <1>2, <1>9, <1>10

LEMMA LinearTermChange ==
  ASSUME NEW r \in Int, NEW q \in Int, NEW k \in Int, r =< q, IsI16(k)
  PROVE  /\ LinearTerm(r, k) \in Int /\ LinearTerm(q, k) \in Int
         /\ \E f \in Int : /\ 0 =< f /\ 4 * f =< q - r + 3
                           /\ Between(LinearTerm(q, k) - LinearTerm(r, k), -(4 * f), 4 * f)
<1> DEFINE z == r \div 4
           y == q \div 4
           f == y - z
<1>1. z \in Int /\ y \in Int /\ f \in Int /\ 0 =< f /\ 4 * f =< q - r + 3
  OBVIOUS
<1> HIDE DEF z, y
<1> DEFINE zk == z * k
           yk == y * k
           fk == f * k
<1>2. zk \in Int /\ yk \in Int /\ fk \in Int /\ yk - zk = fk
  BY <1>1
<1>3. Between(fk, -(f * 32768), f * 32768)
  <2>1. Between(f, -f, f) /\ Between(k, -32768, 32768)
    BY <1>1 DEF IsI16, Between
  <2> QED
    BY <1>1, <2>1, ProductBound
<1>4. -32768 * f =< fk /\ fk =< 32768 * f
  BY <1>1, <1>3 DEF Between
<1> HIDE DEF zk, yk, fk, f
<1>5. /\ zk \div 8192 \in Int /\ yk \div 8192 \in Int
      /\ Between((yk \div 8192) - (zk \div 8192), -(4 * f), 4 * f)
  BY <1>1, <1>2, <1>4 DEF Between
<1>6. LinearTerm(r, k) = zk \div 8192 /\ LinearTerm(q, k) = yk \div 8192
  BY DEF LinearTerm, zk, yk, z, y
<1> QED
  BY <1>1, <1>5, <1>6

(* The correction takes back no more than 1 Pa of a fall, and adds little. *)
Corrected(q, k9, k8, k7) == q + (SquareTerm(q, k9) + LinearTerm(q, k8) + k7) \div 16

LEMMA CorrectionSmall ==
  ASSUME NEW r \in Int, NEW q \in Int, NEW d \in Nat,
         NEW k9 \in Int, NEW k8 \in Int, NEW k7 \in Int,
         IsQuotient(r), IsQuotient(q), IsP9(k9), IsI16(k8),
         r + 2 =< q, 2 * (q - r) =< d + 3, 16 =< d
  PROVE  Between(Corrected(r, k9, k8, k7) - Corrected(q, k9, k8, k7), -d, 1)
<1> DEFINE A == SquareTerm(r, k9)
           B == SquareTerm(q, k9)
           C == LinearTerm(r, k8)
           D == LinearTerm(q, k8)
<1>1. r =< q
  OBVIOUS
<1>2. PICK e \in Int : 0 =< e /\ 8 * e =< q - r + 7 /\ Between(B - A, -(32 * e), 32 * e)
  BY <1>1, SquareTermChange
<1>3. PICK f \in Int : 0 =< f /\ 4 * f =< q - r + 3 /\ Between(D - C, -(4 * f), 4 * f)
  BY <1>1, LinearTermChange
<1>4. A \in Int /\ B \in Int
  BY <1>1, SquareTermChange
<1>5. C \in Int /\ D \in Int
  BY <1>1, LinearTermChange
<1> HIDE DEF A, B, C, D
<1> DEFINE a == A + C + k7
           b == B + D + k7
<1>6. /\ a \in Int /\ b \in Int
      /\ -(5 * (q - r) + 31) =< b - a /\ b - a =< 5 * (q - r) + 31
  BY <1>2, <1>3, <1>4, <1>5 DEF Between
<1> HIDE DEF a, b
<1>7. Between((r + a \div 16) - (q + b \div 16), -d, 1)
  BY <1>6 DEF Between
<1> QED
  BY <1>7 DEF Corrected, a, b, A, B, C, D

(* Readings with an input the u32 holds, of a sensor whose divisor is that *)
(* of a pressure sensor, or 0.                                             *)
Divisor == PressureDivisor(Shr(t_fine, 1) - 64000)
Input(a) == PressureInput(t_fine, a)
PressureRange ==
  /\ 16 =< Near /\ Near =< Input(adc) /\ Input(adc) =< LastInput /\ IsP9(p(9))
  /\ \/ Divisor = 0
     \/ IsDivisor(Divisor, Near) /\ IsQuotient(Quotient(Input(adc), Divisor))

(* The input falls by what the reading rises.                              *)
LEMMA InputFalls ==
  ASSUME SensorInv, NEW a \in Int, NEW n \in Int
  PROVE  Input(a) \in Int /\ Input(a + n) = Input(a) - n
<1>1. p(4) \in Int /\ p(5) \in Int /\ p(6) \in Int
  BY WordsFit DEF SensorInv, IsI16, Between
<1> DEFINE x == Shr(t_fine, 1) - 64000
           h == Shr(x, 2)
           sq == h * h
           t == Shr(sq, 11)
           u == t * p(6)
           w == x * p(5)
           o == Shr(u + 2 * w, 2) + p(4) * 65536
           f == Shr(o, 12)
<1>2. x \in Int
  BY ShrInt DEF SensorInv
<1> HIDE DEF x
<1>3. h \in Int
  BY <1>2, ShrInt
<1> HIDE DEF h
<1>4. sq \in Int
  BY <1>3
<1> HIDE DEF sq
<1>5. t \in Int
  BY <1>4, ShrInt
<1> HIDE DEF t
<1>6. u \in Int /\ w \in Int
  BY <1>1, <1>2, <1>5, TimesInt
<1> HIDE DEF u, w
<1>7. u + 2 * w \in Int
  BY <1>6
<1>8. Shr(u + 2 * w, 2) \in Int
  BY <1>7, ShrInt
<1>9. o \in Int
  BY <1>1, <1>8
<1> HIDE DEF o
<1>10. f \in Int
  BY <1>9, ShrInt
<1>11. /\ Input(a) = 1048576 - a - f
       /\ Input(a + n) = 1048576 - (a + n) - f
  BY DEF Input, PressureInput, PressureOffset, o, u, w, t, sq, h, x
<1> HIDE DEF f
<1> QED
  BY <1>10, <1>11

(* The formula of the model, in these terms.                               *)
LEMMA PressureIs ==
  ASSUME NEW a
  PROVE  Pressure(t_fine, a) =
           IF Divisor = 0 THEN 0 ELSE Corrected(Quotient(Input(a), Divisor), p(9), p(8), p(7))
<1>1. ASSUME NEW q
      PROVE  q + Correction(q) = Corrected(q, p(9), p(8), p(7))
  BY Powers DEF Correction, Corrected, SquareTerm, Square, LinearTerm, Shr
<1> QED
  BY <1>1 DEF Pressure, Divisor, Input

(* For every sensor's words p1 to p8, and p9 below 2^14, pressure has no   *)
(* seam wherever the divisor is that of a pressure sensor, or is 0.        *)
THEOREM PressureHasNoSeam == Spec => [](PressureRange => NoSeam)
<1>1. SensorInv /\ ResultInv => (PressureRange => NoSeam)
  <2> SUFFICES ASSUME SensorInv, ResultInv, PressureRange, what = "p"
               PROVE  /\ PressureInput(t_fine, adc) \in 0 .. LastInput
                      /\ Pressure(t_fine, adc + Near) - result \in -Near .. 1
    BY DEF NoSeam
  <2>1. adc \in Int /\ Near \in Nat \ {0} /\ IsI16(p(8)) /\ p(8) \in Int /\ p(7) \in Int
    BY CompensationAssumption, WordsFit DEF SensorInv, IsI16, Between
  <2>2. result = Pressure(t_fine, adc)
    BY DEF ResultInv
  <2> DEFINE n == Input(adc)
             m == n - Near
             N == LastInput
  <2>3. n \in Int /\ Input(adc + Near) = m
    <3>1. n \in Int
      BY <2>1, InputFalls
    <3>2. Input(adc + Near) = Input(adc) - Near
      BY <2>1, InputFalls
    <3> QED
      BY <3>1, <3>2
  <2>4. Between(n, 0, N) /\ N \in Int
    BY <2>1, <2>3 DEF PressureRange, Between, LastInput
  <2>5. m \in Nat /\ n = m + Near
    BY <2>1, <2>3 DEF PressureRange
  <2> HIDE DEF m, N
  <2>6. n \in 0 .. N
    BY <2>4, Interval
  <2>7. Between(Pressure(t_fine, adc + Near) - result, -Near, 1)
    <3>1. CASE Divisor = 0
      <4>1. Pressure(t_fine, adc + Near) = 0 /\ result = 0
        BY <2>2, <3>1, PressureIs
      <4> QED
        BY <2>1, <4>1 DEF Between
    <3>2. CASE Divisor # 0
      <4> DEFINE v == Divisor
                 q == Quotient(m + Near, v)
                 r == Quotient(m, v)
      <4>1. IsDivisor(v, Near) /\ IsQuotient(Quotient(n, v))
        BY <3>2 DEF PressureRange
      <4>2. q = Quotient(n, v)
        BY <2>5
      <4>3. /\ result = Corrected(q, p(9), p(8), p(7))
            /\ Pressure(t_fine, adc + Near) = Corrected(r, p(9), p(8), p(7))
        BY <2>2, <2>3, <3>2, <4>2, PressureIs
      <4>4. Near \in Nat /\ 16 =< Near /\ IsP9(p(9)) /\ p(9) \in Int
        BY <2>1 DEF PressureRange, IsP9, Between
      <4> HIDE DEF v
      <4>5. /\ r \in Int /\ q \in Int /\ 0 =< r /\ r + 2 =< q /\ 2 * (q - r) =< Near + 3
        BY <2>5, <4>1, <4>4, QuotientFalls
      <4> HIDE DEF q, r
      <4>6. IsQuotient(q) /\ IsQuotient(r)
        BY <4>1, <4>2, <4>5 DEF IsQuotient, Between
      <4>7. Between(Corrected(r, p(9), p(8), p(7)) - Corrected(q, p(9), p(8), p(7)), -Near, 1)
        BY <2>1, <4>4, <4>5, <4>6, CorrectionSmall
      <4> QED
        BY <4>3, <4>7
    <3> QED
      BY <3>1, <3>2
  <2>8. Pressure(t_fine, adc + Near) - result \in -Near .. 1
    <3>1. -Near \in Int /\ 1 \in Int
      BY <2>1
    <3> QED
      BY <2>7, <3>1, Interval
  <2> QED
    BY <2>6, <2>8 DEF N, Input
<1> QED
  BY <1>1, InitInv, NextInv, PTL DEF Spec
=============================================================================
