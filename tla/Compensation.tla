---------------------------- MODULE Compensation ----------------------------
(***************************************************************************)
(* bme280.c 49-130: the calibration bytes of the sensor become dig_*       *)
(* words, and three formulas turn raw readings into temperature, pressure  *)
(* and humidity.  The temperature formula leaves t_fine for the other two. *)
(* TLC's integers have the width of the code's i32 and stop a run that     *)
(* leaves it: a run that ends has seen no signed overflow.                 *)
(*                                                                         *)
(* A definition with a suffix Bug... is not part of the model: it is the   *)
(* definition it is named after with one plausible mistake in it.          *)
(***************************************************************************)
EXTENDS Integers, Sequences

CONSTANTS
  Tp,         \* sensors: the 26 bytes from register 0x88 on
  Hum,        \* sensors: the 7 bytes from register 0xE1 on
  AdcT, AdcP, AdcH,  \* raw readings
  Near               \* distance of the readings the properties compare

ASSUME CompensationAssumption ==
  /\ Tp \subseteq [1 .. 26 -> 0 .. 255] /\ Hum \subseteq [1 .. 7 -> 0 .. 255]
  /\ AdcT \cup AdcP \cup AdcH \subseteq Int /\ Near \in Nat \ {0}

VARIABLES
  tp, hum,           \* the sensor's calibration bytes
  t_fine,
  what, adc, result  \* the last formula used, on what, and what it gave

vars == <<tp, hum, t_fine, what, adc, result>>

Shr(x, n) == x \div 2 ^ n      \* >> of i32 keeps the sign, as \div does

U16(lsb, msb) == msb * 256 + lsb
I8(b) == IF b < 128 THEN b ELSE b - 256
I16(lsb, msb) == I8(msb) * 256 + lsb       \* COMBINE_I16

(* bme280_calib_t, which the first read fills in place: little endian      *)
(* words, a byte of padding, dig_h1.                                       *)
TpWord(i) == IF i \in {1, 4} THEN U16(tp[2 * i - 1], tp[2 * i]) ELSE I16(tp[2 * i - 1], tp[2 * i])
t1 == TpWord(1)
t2 == TpWord(2)
t3 == TpWord(3)
p(i) == TpWord(3 + i)
h1 == tp[26]

(* get_hum_params: h4 and h5 are 12 bits each and share the byte between.  *)
h2 == I16(hum[1], hum[2])
h3 == hum[3]
h4BugUnsigned == hum[4] * 16 + (hum[5] % 16)
h4 == I8(hum[4]) * 16 + (hum[5] % 16)
h5 == I8(hum[6]) * 16 + hum[5] \div 16
h6 == I8(hum[7])

-----------------------------------------------------------------------------
(* bme280_compensate_t: t_fine; the temperature follows from it.           *)
TFineBugHalf(a) ==
  LET d == Shr(a, 4) - t1
  IN  Shr((Shr(a, 3) - t1) * t2, 11) + Shr(Shr(d * d, 12) * t3, 14)
TFine(a) ==
  LET d == Shr(a, 4) - t1
  IN  Shr((Shr(a, 3) - 2 * t1) * t2, 11) + Shr(Shr(d * d, 12) * t3, 14)
Temperature(tf) == Shr(tf * 5 + 128, 8)

(* floor(k * n / v) without leaving the integers' width.                   *)
MulDiv(k, n, v) == k * (n \div v) + (k * (n % v)) \div v

(* bme280_compensate_p.  The u32 p is 3125 * n here: it is below 2^31      *)
(* exactly when n <= 687194.                                               *)
QuotientBugHalf(n, v) == IF n <= 687194 THEN MulDiv(2 * 3125, n, v) ELSE MulDiv(3125, n, v)
Quotient(n, v) == IF n <= 687194 THEN MulDiv(2 * 3125, n, v) ELSE MulDiv(3125, n, v) * 2

PressureDivisor(x) ==
  LET sq == Shr(x, 2) * Shr(x, 2)
  IN  Shr((32768 + Shr(Shr(p(3) * Shr(sq, 13), 3) + Shr(p(2) * x, 1), 18)) * p(1), 15)
PressureOffset(x) ==
  LET sq == Shr(x, 2) * Shr(x, 2)
  IN  Shr(Shr(sq, 11) * p(6) + 2 * (x * p(5)), 2) + p(4) * 65536
PressureInput(tf, a) == 1048576 - a - Shr(PressureOffset(Shr(tf, 1) - 64000), 12)

Correction(q) ==
  LET sq == Shr(q, 3) * Shr(q, 3)
  IN  Shr(Shr(p(9) * Shr(sq, 13), 12) + Shr(Shr(q, 2) * p(8), 13) + p(7), 4)
Pressure(tf, a) ==
  LET v == PressureDivisor(Shr(tf, 1) - 64000)
      q == Quotient(PressureInput(tf, a), v)
  IN  IF v = 0 THEN 0 ELSE q + Correction(q)

(* bme280_compensate_h; `half' is what line 121 adds before its last >>.   *)
Raw(tf, a) == Shr(a * 16384 - h4 * 1048576 - h5 * (tf - 76800) + 16384, 15)
Gain(one, half, tf) ==
  LET x == tf - 76800
  IN  Shr((Shr(Shr(x * h6, 10) * (Shr(x * h3, 11) + 32768), 10) + one) * h2 + half, 14)
Bent(v) == v - Shr(Shr(Shr(v, 15) * Shr(v, 15), 7) * h1, 4)
Scaled(one, half, tf, a) == Bent(Raw(tf, a) * Gain(one, half, tf))
ClampBugLow(v) == IF v > 419430400 THEN 419430400 ELSE v
Clamp(v) == IF v < 0 THEN 0 ELSE IF v > 419430400 THEN 419430400 ELSE v
Humidity(tf, a) == Shr(Clamp(Scaled(2097162, 1892, tf, a)), 12)

-----------------------------------------------------------------------------
(* A caller takes the temperature first, as t_fine starts at 0.  Pressure  *)
(* and humidity change nothing the others read, so one after each          *)
(* temperature stands for any number of them.                              *)
Init ==
  /\ tp \in Tp /\ hum \in Hum /\ t_fine = 0
  /\ what = "none" /\ adc = 0 /\ result = 0

CompensateT ==
  /\ \E a \in AdcT :
       adc' = a /\ t_fine' = TFine(a) /\ result' = Temperature(TFine(a))
  /\ what' = "t" /\ UNCHANGED <<tp, hum>>
CompensateP ==
  /\ what = "t" /\ \E a \in AdcP : adc' = a /\ result' = Pressure(t_fine, a)
  /\ what' = "p" /\ UNCHANGED <<tp, hum, t_fine>>
CompensateH ==
  /\ what = "t" /\ \E a \in AdcH : adc' = a /\ result' = Humidity(t_fine, a)
  /\ what' = "h" /\ UNCHANGED <<tp, hum, t_fine>>

Next == CompensateT \/ CompensateP \/ CompensateH
Spec == Init /\ [][Next]_vars

-----------------------------------------------------------------------------
(* The 12-bit words are the two's complement numbers the sensor packed     *)
(* into three bytes: packing them again gives the bytes back.              *)
Unpacked ==
  /\ {h4, h5} \subseteq -2048 .. 2047
  /\ <<(h4 % 4096) \div 16, (h5 % 16) * 16 + (h4 % 16), (h5 % 4096) \div 16>> =
       SubSeq(hum, 4, 6)

(* The temperature has the resolution the header promises: with all its    *)
(* shifts it is within 0.01 degrees of 5/256 of the quadratic              *)
(* e * t2 / 2^14 + e^2 * t3 / 2^34, e = adc - 16 * t1.                     *)
Exact(a) ==
  LET e == a - 16 * t1
  IN  MulDiv(t2, e, 2 ^ 14) + MulDiv(t3, Shr(Shr(e, 5) * Shr(e, 5), 6), 2 ^ 18)
Hundredth == what = "t" => 256 * result - 5 * Exact(adc) \in -256 .. 256

(* The last n with 3125 * n below 2^32.                                    *)
LastInput == 1374389

(* Pressure has no seam: neither where the formula changes its order of    *)
(* division nor anywhere else does a slightly higher reading give more     *)
(* than 1 Pa more, or much less; and the u32 it divides does not wrap.     *)
NoSeam ==
  what = "p" =>
    /\ PressureInput(t_fine, adc) \in 0 .. LastInput
    /\ Pressure(t_fine, adc + Near) - result \in -Near .. 1

(* Humidity rises with the reading, from 0 to no more than 100 %, also     *)
(* where intermediate values are negative.                                 *)
HumidityRises ==
  what = "h" =>
    /\ result \in 0 .. 100 * 1024
    /\ Humidity(t_fine, adc + Near) - result \in 0 .. 100 * Near

(* The formula is the one of the datasheet it names, whose constants are   *)
(* 2^21, for 1, and 2^13, half a unit of the shift by 14.                  *)
DatasheetHumidity ==
  what = "h" => result = Shr(Clamp(Scaled(2097152, 8192, t_fine, adc)), 12)
=============================================================================
