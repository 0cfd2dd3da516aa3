------------------------------- MODULE Format -------------------------------
(***************************************************************************)
(* writer_print of Writer.c: a format string is read character by          *)
(* character, its literals are copied, each {...} takes one argument and   *)
(* prints it, and anything else after a { ends in _DEFAULT_Handler.  The   *)
(* characters and arguments are chosen when they are read.  What happens   *)
(* to the printed text is in module Console.                               *)
(***************************************************************************)
EXTENDS Conversions, SequencesExt

CONSTANTS
  Capacity,   \* of the Writer's buffer
  MaxLength,  \* bound: the longest format string
  Numbers,    \* u32 values of integer arguments
  Strings     \* string arguments, sequences of character codes

ASSUME FormatAssumption ==
  /\ Capacity \in Nat /\ MaxLength \in Nat
  /\ Numbers \subseteq 0 .. 2 ^ WordBits - 1

VARIABLES
  length,  \* of the format string
  fmt,     \* the characters read of it
  place,   \* in the text or within a pair of braces; or the outcome
  kind,    \* of the argument: what the braces said so far
  size,    \* of an integer argument
  arg,     \* the last argument taken
  text     \* its text

vars == <<length, fmt, place, kind, size, arg, text>>

(* Outside of braces only { matters: a and } stand for all the others.     *)
Literal == {"a", "}"}
Inside == {"s", "z", "d", "u", ":", "x", "b", "}", "{"}

(* next: the NUL it returns at the end is no character any place accepts.  *)
Reads(c) == Len(fmt) < length /\ fmt' = Append(fmt, c)

Init ==
  /\ length \in 0 .. MaxLength
  /\ fmt = <<>> /\ kind = "none" /\ size = "WORD" /\ arg = 0 /\ text = <<>>
  /\ place = IF length >= Capacity THEN "too_big" ELSE "text"

Copy ==
  /\ place = "text" /\ \E c \in Literal : Reads(c)
  /\ kind' = "none" /\ arg' = 0 /\ text' = <<>> /\ size' = "WORD"
  /\ UNCHANGED <<length, place>>

Open ==
  /\ place = "text" /\ Reads("{")
  /\ place' = "open" /\ kind' = "none" /\ arg' = 0 /\ text' = <<>> /\ size' = "WORD"
  /\ UNCHANGED length

(* Where a character leads to within braces, and what it says.             *)
Kinds == [s |-> "string", z |-> "c_string", d |-> "signed", u |-> "unsigned"]
Kind(c) ==
  /\ place = "open" /\ c \in DOMAIN Kinds
  /\ kind' = Kinds[c] /\ place' = IF c \in {"s", "z"} THEN "close" ELSE "number"
  /\ UNCHANGED size

Colon(c) ==
  /\ place = "number" /\ c = ":"
  /\ place' = "spec"
  /\ UNCHANGED <<kind, size>>

Hex(c) ==
  /\ place = "spec" /\ c = "x"
  /\ place' = "size" /\ kind' = "hex"
  /\ UNCHANGED size

SizeBugClosed(c) ==
  /\ place \in {"spec", "size"} /\ c \in {"b", "s"}
  /\ size' = (IF c = "b" THEN "BYTE" ELSE "HALF") /\ place' = place
  /\ UNCHANGED kind
Size(c) ==
  /\ place \in {"spec", "size"} /\ c \in {"b", "s"}
  /\ size' = (IF c = "b" THEN "BYTE" ELSE "HALF") /\ place' = "close"
  /\ UNCHANGED kind

Describe ==
  /\ \E c \in Inside : Reads(c) /\ (Kind(c) \/ Colon(c) \/ Hex(c) \/ Size(c))
  /\ UNCHANGED <<length, arg, text>>

(* va_arg and the conversion.  strlen ends a C string at its first NUL.    *)
CString(s) == SubSeq(s, 1, SelectInSeq(s, LAMBDA c : c = 0) - 1)
Rendered(a) ==
  CASE kind = "string"   -> a
    [] kind = "c_string" -> CString(a)
    [] kind = "unsigned" -> U32ToString(UnsignedTrunc(size, a))
    [] kind = "signed"   -> I32ToString(SignExtend(size, a))
    [] kind = "hex"      -> ToHex(size, a)

Close ==
  /\ place \in {"close", "number", "spec", "size"} /\ Reads("}")
  /\ \E a \in (IF kind \in {"string", "c_string"} THEN Strings ELSE Numbers) :
       arg' = a /\ text' = Rendered(a)
  /\ place' = "text"
  /\ UNCHANGED <<length, kind, size>>

(* ERROR_HANDLER: a character no branch asks for, or the NUL of `next'.    *)
Accepted == [open |-> DOMAIN Kinds, number |-> {":", "}"}, spec |-> {"x", "b", "s", "}"},
             size |-> {"b", "s", "}"}, close |-> {"}"}]
Panic ==
  /\ place \in DOMAIN Accepted
  /\ \/ Len(fmt) = length /\ UNCHANGED fmt
     \/ \E c \in Inside \ Accepted[place] : Reads(c)
  /\ place' = "panic"
  /\ UNCHANGED <<length, kind, size, arg, text>>

Return ==
  /\ place = "text" /\ Len(fmt) = length
  /\ place' = "done"
  /\ UNCHANGED <<length, fmt, kind, size, arg, text>>

Next == Copy \/ Open \/ Describe \/ Close \/ Panic \/ Return
Spec == Init /\ [][Next]_vars

-----------------------------------------------------------------------------
(* The pairs of braces the documentation of the Writer allows.             *)
Directives ==
  {<<"{", c, "}">> : c \in {"s", "z", "d", "u"}} \cup
  UNION {{<<"{", c, ":", "}">>, <<"{", c, ":", "b", "}">>, <<"{", c, ":", "s", "}">>,
          <<"{", c, ":", "x", "}">>, <<"{", c, ":", "x", "b", "}">>,
          <<"{", c, ":", "x", "s", "}">>} : c \in {"d", "u"}}
StartsAt(i, d) == i + Len(d) - 1 <= Len(fmt) /\ SubSeq(fmt, i, i + Len(d) - 1) = d

(* A format string is printed to its end exactly when every { in it starts *)
(* one of the pairs above: none of them is refused, wherever it stands, a  *)
(* string that ends within braces never counts as whole, and `next' never  *)
(* reads past the end.                                                     *)
PrintsTheGrammar ==
  place \in {"done", "panic"} =>
    (place = "done" <=>
       \A i \in DOMAIN fmt : fmt[i] = "{" => \E d \in Directives : StartsAt(i, d))

(* The text of a conversion, read back, is the argument narrowed to the    *)
(* size in the braces: decimal without leading zeros, the least number of  *)
(* each size with its sign and every digit, hexadecimal with 0x and all    *)
(* digits of the size in lower case.                                       *)
ReadsBack ==
  /\ kind = "unsigned" /\ text # <<>> => IsDecimal(text, arg % 2 ^ Bits[size])
  /\ kind = "signed" /\ text # <<>> =>
       LET minus == text[1] = 45
           digits == IF minus THEN Tail(text) ELSE text
           num == ReadNumber(10, digits)
       IN  /\ IsDecimal(digits, num)
           /\ (IF minus THEN arg + num ELSE arg - num) % 2 ^ Bits[size] = 0
           /\ num \in (IF minus THEN 1 ELSE 0) ..
                       (2 ^ (Bits[size] - 1) - (IF minus THEN 0 ELSE 1))
  /\ kind = "hex" /\ text # <<>> =>
       /\ SubSeq(text, 1, 2) = <<48, 120>>
       /\ Len(text) = 2 + (CASE size = "BYTE" -> 2 [] size = "HALF" -> 4 [] OTHER -> 8)
       /\ ReadNumber(16, SubSeq(text, 3, Len(text))) = arg % 2 ^ Bits[size]
=============================================================================
