---------------------------- MODULE Conversions ----------------------------
(***************************************************************************)
(* Numbers to text in Writer.c: narrowing, decimal two digits at a time,   *)
(* hexadecimal with all digits of a word in parallel.  A text is a         *)
(* sequence of character codes.                                            *)
(*                                                                         *)
(* A definition with a suffix Bug... is not part of the model: it is the   *)
(* definition it is named after with one plausible mistake in it.          *)
(***************************************************************************)
EXTENDS Integers, Sequences, FiniteSetsExt

CONSTANT WordBits   \* 32; TLC's integers hold 30, still ten digits

ASSUME ConversionsAssumption == WordBits \in 17 .. 32

Bits == [BYTE |-> 8, HALF |-> 16, WORD |-> WordBits]

UnsignedTrunc(size, num) == num % 2 ^ Bits[size]

(* A cast to a signed type of the same width.                              *)
SignExtendBugMissing(size, num) == num % 2 ^ Bits[size]
SignExtend(size, num) ==
  LET u == num % 2 ^ Bits[size]
  IN  IF u >= 2 ^ (Bits[size] - 1) THEN u - 2 ^ Bits[size] ELSE u

-----------------------------------------------------------------------------
(* char_table holds the pairs 00 to 99 and a terminating 0; what lies      *)
(* behind it is not a digit either.                                        *)
pow_of_10_table == [i \in 0 .. 9 |-> 10 ^ i]
CharPair(d) == IF d < 100 THEN <<48 + d \div 10, 48 + (d % 10)>> ELSE <<0, 0>>

CountDigitsBugEqual(num) == Min({r \in 1 .. 10 : r < 10 => num <= pow_of_10_table[r]})
CountDigits(num) == Min({r \in 1 .. 10 : r < 10 => num < pow_of_10_table[r]})

(* The two digits the turn writes.                                        *)
PairDigits(s) == s.num \div pow_of_10_table[s.length - 2]

(* A turn of the loop of u32_to_string, s.length being the digits left;    *)
(* ten digits take five turns.                                             *)
Turn(s) ==
  IF s.length < 2 THEN s
  ELSE [num |-> s.num - PairDigits(s) * pow_of_10_table[s.length - 2],
        length |-> s.length - 2, buff |-> s.buff \o CharPair(PairDigits(s))]
LastDigit(s) == IF s.length = 1 THEN s.buff \o <<48 + s.num>> ELSE s.buff
U32ToString(num) ==
  LastDigit(Turn(Turn(Turn(Turn(Turn(
    [num |-> num, length |-> CountDigits(num), buff |-> <<>>]))))))

(* The magnitude is computed in unsigned arithmetic, as the least i32 has  *)
(* no negative.                                                            *)
I32ToString(num) ==
  IF num < 0 THEN <<45>> \o U32ToString((0 - num) % 2 ^ WordBits) ELSE U32ToString(num)

-----------------------------------------------------------------------------
(* The two digits of a byte go to a byte each, the low digit to the upper, *)
(* from where copy16 takes it last; four digits are two bytes, the upper   *)
(* byte of num first.  In m are the lowest bits of every byte, set for the *)
(* digits above 9, which the addition of 6 carries out of their half; they *)
(* get 39 more, from the character after 9 to a.                           *)
Halves(b) == (b % 16) * 256 + b \div 16
LowBits(x) == (x % 2) + ((x \div 256) % 2) * 256

Spread16(num) ==
  LET y == Halves(num)
      m == LowBits((y + \h0606) \div 16)
  IN  y + \h3030 + m * 39
Spread32BugCarry(num) ==
  LET y == Halves(num % 256) * 65536 + Halves(num \div 256)
      z == (y + \h05050505) \div 16
      m == LowBits(z) + LowBits(z \div 65536) * 65536
  IN  y + \h30303030 + m * 39
Spread32(num) ==
  LET y == Halves(num % 256) * 65536 + Halves(num \div 256)
      z == (y + \h06060606) \div 16
      m == LowBits(z) + LowBits(z \div 65536) * 65536
  IN  y + \h30303030 + m * 39

(* copy16 and copy32: the lowest byte first.                               *)
CopyBytes(n, num) == [i \in 1 .. n |-> (num \div 256 ^ (i - 1)) % 256]

ToHex(size, value) ==
  <<48, 120>> \o
    (CASE size = "BYTE" -> CopyBytes(2, Spread16(value % 256))
       [] size = "HALF" -> CopyBytes(4, Spread32(value % 65536))
       [] size = "WORD" -> CopyBytes(4, Spread32((value \div 65536) % 65536))
                           \o CopyBytes(4, Spread32(value % 65536)))

-----------------------------------------------------------------------------
(* What a reader makes of a text of up to ten digits: the number, or -1.   *)
DigitValue(c) == IF c \in 48 .. 57 THEN c - 48
                 ELSE IF c \in 97 .. 102 THEN c - 87 ELSE 16
DigitAt(text, k) == IF k < Len(text) THEN DigitValue(text[Len(text) - k]) ELSE 0
Value(base, text) ==
  LET d(k) == DigitAt(text, k)
  IN  d(0) + base * (d(1) + base * (d(2) + base * (d(3) + base * (d(4) + base *
        (d(5) + base * (d(6) + base * (d(7) + base * (d(8) + base * d(9)))))))))
ReadNumber(base, text) ==
  IF Len(text) \in 1 .. 10 /\ \A i \in 1 .. Len(text) : DigitValue(text[i]) < base
  THEN Value(base, text) ELSE -1

(* The shortest decimal text for a number of 0 and above.                  *)
IsDecimal(text, num) == ReadNumber(10, text) = num /\ (text[1] = 48 => Len(text) = 1)
=============================================================================
