------------------------------ MODULE MCFormat ------------------------------
(* Arguments for Format: the edges of every size and every power of ten,   *)
(* and every byte of four digits from both ends of the hexadecimal range.  *)
EXTENDS Format

Around(S) == {n + i : n \in S, i \in {-1, 0, 1}} \cap 0 .. 2 ^ WordBits - 1
Digit == {0, 9, 10, 15}
MCNumbers ==
  Around({0} \cup {10 ^ i : i \in 1 .. 9} \cup {2 ^ i : i \in {7, 8, 15, 16, 29, 30} \ {30}})
  \cup {4096 * a + 256 * b + 16 * c + d : a, b, c, d \in Digit}
  \cup {2 ^ WordBits - i : i \in 1 .. 3} \cup {2 ^ WordBits - 2 ^ 15, 2 ^ WordBits - 2 ^ 7}
  \cup {123456789, 305419896, 987654321, 1000000007}
MCStrings == {<<0>>, <<97, 0>>, <<97, 0, 98, 0>>}
=============================================================================
