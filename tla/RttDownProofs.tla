---------------------------- MODULE RttDownProofs ----------------------------
(***************************************************************************)
(* Proofs about RttDown: rtt_read hands over every byte the host sends,    *)
(* once and in order, for every size of the ring, every max and every      *)
(* interleaving of the two sides' accesses to the control block.           *)
(***************************************************************************)
EXTENDS RttDown, SequenceTheorems, TLAPS

-----------------------------------------------------------------------------
(* The circle.                                                             *)

(* A distance is a number of slots, below the size of the ring.            *)
LEMMA DistanceIs ==
  ASSUME NEW i \in Slot, NEW j \in Slot
  PROVE  /\ Distance(i, j) = IF j >= i THEN j - i ELSE j - i + DownSize
         /\ Distance(i, j) \in 0 .. DownSize - 1
         /\ Distance(i, j) = 0 <=> i = j
<1>1. DownSize \in Nat \ {0}
  BY DownAssumption
<1>2. \A r \in Nat \ {0} : \A a \in Int :
        /\ a >= 0 /\ a < r => a % r = a
        /\ a < 0 /\ a + r >= 0 => a % r = a + r
  OBVIOUS
<1>3. i \in Nat /\ j \in Nat /\ i < DownSize /\ j < DownSize /\ j - i \in Int
  BY <1>1 DEF Slot
<1>4. j >= i => Distance(i, j) = j - i
  BY <1>1, <1>2, <1>3 DEF Distance
<1>5. ~(j >= i) => Distance(i, j) = j - i + DownSize
  BY <1>1, <1>2, <1>3 DEF Distance
<1> QED
  BY <1>1, <1>3, <1>4, <1>5

(* Less than a round of a circle, and less than another.                   *)
LEMMA FirstRound == ASSUME NEW r \in Nat \ {0}, NEW a \in 0 .. r - 1 PROVE a % r = a
  OBVIOUS

LEMMA SecondRound ==
  ASSUME NEW r \in Nat \ {0}, NEW a \in r .. 2 * r - 1 PROVE a % r = a - r
  OBVIOUS

(* The slot k places on from slot i.                                       *)
Ahead(i, k) == (i + k) % DownSize

LEMMA AheadIs ==
  ASSUME NEW i \in Slot, NEW k \in 0 .. DownSize - 1
  PROVE  /\ Ahead(i, k) = IF i + k < DownSize THEN i + k ELSE i + k - DownSize
         /\ Ahead(i, k) \in Slot
<1>1. DownSize \in Nat \ {0}
  BY DownAssumption
<1>3. i \in Nat /\ k \in Nat /\ i < DownSize /\ k < DownSize
  BY <1>1 DEF Slot
<1>4. /\ i + k < DownSize => i + k \in 0 .. DownSize - 1
      /\ ~(i + k < DownSize) => i + k \in DownSize .. 2 * DownSize - 1
  BY <1>1, <1>3
<1>5. i + k < DownSize => Ahead(i, k) = i + k
  BY <1>1, <1>4, FirstRound DEF Ahead
<1>6. ASSUME ~(i + k < DownSize) PROVE Ahead(i, k) = i + k - DownSize
  <2> DEFINE a == i + k
  <2>1. a \in DownSize .. 2 * DownSize - 1
    BY <1>4, <1>6
  <2> HIDE DEF a
  <2>2. a % DownSize = a - DownSize
    BY <1>1, <2>1, SecondRound
  <2> QED
    BY <1>1, <1>3, <2>2 DEF Ahead, a
<1>7. Ahead(i, k) = IF i + k < DownSize THEN i + k ELSE i + k - DownSize
  BY <1>5, <1>6
<1> QED
  BY <1>1, <1>3, <1>7 DEF Slot

(* The next slot is a slot, one further away unless it closes the circle,  *)
(* and one nearer to where another one lies ahead.                         *)
LEMMA AfterIs ==
  ASSUME NEW i \in Slot, NEW j \in Slot
  PROVE  /\ After(i) \in Slot
         /\ After(i) # j => Distance(j, After(i)) = Distance(j, i) + 1
         /\ i # j => Distance(After(i), j) = Distance(i, j) - 1
<1>1. DownSize \in Nat \ {0, 1}
  BY DownAssumption
<1>2. i \in Nat /\ j \in Nat /\ i < DownSize /\ j < DownSize
  BY <1>1 DEF Slot
<1>3. After(i) = IF i + 1 = DownSize THEN 0 ELSE i + 1
  BY <1>1, <1>2 DEF After
<1>4. After(i) \in Slot
  BY <1>1, <1>2, <1>3 DEF Slot
<1>5. /\ Distance(j, After(i)) = IF After(i) >= j THEN After(i) - j ELSE After(i) - j + DownSize
      /\ Distance(After(i), j) = IF j >= After(i) THEN j - After(i) ELSE j - After(i) + DownSize
  BY <1>4, DistanceIs
<1>6. /\ Distance(j, i) = IF i >= j THEN i - j ELSE i - j + DownSize
      /\ Distance(i, j) = IF j >= i THEN j - i ELSE j - i + DownSize
  BY DistanceIs
<1>7. ASSUME After(i) # j PROVE Distance(j, After(i)) = Distance(j, i) + 1
  BY <1>1, <1>2, <1>3, <1>5, <1>6, <1>7
<1>8. ASSUME i # j PROVE Distance(After(i), j) = Distance(i, j) - 1
  BY <1>1, <1>2, <1>3, <1>5, <1>6, <1>8
<1> QED
  BY <1>4, <1>7, <1>8

(* Seen from the next slot, everything ahead is one place nearer.          *)
LEMMA AheadOfNext ==
  ASSUME NEW i \in Slot, NEW k \in 0 .. DownSize - 2
  PROVE  Ahead(After(i), k) = Ahead(i, k + 1)
<1>1. DownSize \in Nat \ {0, 1}
  BY DownAssumption
<1>2. i \in Nat /\ i < DownSize /\ k \in Nat /\ k + 1 < DownSize
  BY <1>1 DEF Slot
<1>3. After(i) = (IF i + 1 = DownSize THEN 0 ELSE i + 1) /\ After(i) \in Slot
  BY <1>1, <1>2, AfterIs DEF After
<1>4. k \in 0 .. DownSize - 1 /\ k + 1 \in 0 .. DownSize - 1
  BY <1>1, <1>2
<1>5. /\ Ahead(After(i), k) = IF After(i) + k < DownSize THEN After(i) + k
                              ELSE After(i) + k - DownSize
      /\ Ahead(i, k + 1) = IF i + (k + 1) < DownSize THEN i + (k + 1) ELSE i + (k + 1) - DownSize
  BY <1>3, <1>4, AheadIs
<1> QED
  BY <1>1, <1>2, <1>3, <1>5

(* The slot a distance ahead is the one the distance leads to, and no      *)
(* other one before it is.                                                 *)
LEMMA AheadMeets ==
  ASSUME NEW i \in Slot, NEW j \in Slot, NEW k \in 0 .. DownSize - 1
  PROVE  Ahead(i, k) = j <=> k = Distance(i, j)
<1>1. /\ DownSize \in Nat /\ i \in Nat /\ i < DownSize /\ j \in Nat /\ j < DownSize
      /\ k \in Nat /\ k < DownSize
  BY DownAssumption DEF Slot
<1>2. /\ Ahead(i, k) = IF i + k < DownSize THEN i + k ELSE i + k - DownSize
      /\ Distance(i, j) = IF j >= i THEN j - i ELSE j - i + DownSize
  BY AheadIs, DistanceIs
<1> QED
  BY <1>1, <1>2

(* On a circle, a stage that ends later is longer, and what is left of a   *)
(* journey is never longer than the journey.                               *)
LEMMA Stages ==
  ASSUME NEW i \in Slot, NEW j \in Slot, NEW k \in Slot, NEW l \in Slot,
         Distance(i, j) <= Distance(i, k), Distance(i, k) <= Distance(i, l)
  PROVE  /\ Distance(j, k) <= Distance(j, l)
         /\ Distance(j, k) = Distance(i, k) - Distance(i, j)
<1>1. /\ DownSize \in Nat /\ i \in Nat /\ i < DownSize /\ j \in Nat /\ j < DownSize
      /\ k \in Nat /\ k < DownSize /\ l \in Nat /\ l < DownSize
  BY DownAssumption DEF Slot
<1>2. /\ Distance(i, j) = IF j >= i THEN j - i ELSE j - i + DownSize
      /\ Distance(i, k) = IF k >= i THEN k - i ELSE k - i + DownSize
      /\ Distance(i, l) = IF l >= i THEN l - i ELSE l - i + DownSize
      /\ Distance(j, k) = IF k >= j THEN k - j ELSE k - j + DownSize
      /\ Distance(j, l) = IF l >= j THEN l - j ELSE l - j + DownSize
  BY DistanceIs
<1> QED
  BY <1>1, <1>2

-----------------------------------------------------------------------------
(* Everything has its type.                                                *)
DownTypeOK ==
  /\ {WrOff, RdOff, wr_idx, rd_idx, host_rd, host_wr} \subseteq Slot
  /\ rtt_buffer_down \in [Slot -> Nat]
  /\ reading \in BOOLEAN /\ max \in Nat /\ there \in Nat /\ sent \in Nat
  /\ buf \in Seq(Nat) /\ received \in Seq(Nat)

(* Where rtt_read is, or will begin.                                       *)
Front == IF reading THEN rd_idx ELSE RdOff

(* From what the host remembers of RdOff round the circle come RdOff,      *)
(* rtt_read, the WrOff it remembers, WrOff, and where the host stores.     *)
OrderInv ==
  LET From(i) == Distance(host_rd, i)
  IN  /\ From(RdOff) <= From(Front)
      /\ reading => From(rd_idx) <= From(wr_idx) /\ From(wr_idx) <= From(WrOff)
      /\ From(Front) <= From(WrOff) /\ From(WrOff) <= From(host_wr)

(* The first n bytes the host sends.                                       *)
Count(n) == [i \in 1 .. n |-> i]

(* What was handed over, and what is in the ring, continue one another.    *)
Handed == Len(received) + Len(buf)

ContentInv ==
  /\ ~reading => buf = <<>>
  /\ received \o buf = Count(Handed)
  /\ Handed + Distance(Front, host_wr) = sent
  /\ \A k \in 0 .. Distance(Front, host_wr) - 1 :
       rtt_buffer_down[Ahead(Front, k)] = Handed + k + 1

(* What was there is read, or is still ahead.                              *)
TakenInv ==
  reading => Len(buf) + Distance(rd_idx, wr_idx) = there /\ Len(buf) <= max

DownInv == DownTypeOK /\ OrderInv /\ ContentInv /\ TakenInv

-----------------------------------------------------------------------------
(* The numbered bytes.                                                     *)

(* One more byte of the series.                                            *)
LEMMA CountOn ==
  ASSUME NEW r \in Seq(Nat), NEW b \in Seq(Nat), NEW n \in Nat, n = Len(r) + Len(b),
         r \o b = Count(n)
  PROVE  r \o Append(b, n + 1) = Count(n + 1)
<1> DEFINE s == r \o b
           t == r \o Append(b, n + 1)
<1>1. /\ Append(b, n + 1) \in Seq(Nat) /\ Len(Append(b, n + 1)) = Len(b) + 1
      /\ Append(b, n + 1)[Len(b) + 1] = n + 1
      /\ \A k \in 1 .. Len(b) : Append(b, n + 1)[k] = b[k]
  BY AppendProperties
<1>2. /\ t \in Seq(Nat) /\ Len(t) = n + 1
      /\ \A k \in 1 .. n + 1 :
           t[k] = IF k <= Len(r) THEN r[k] ELSE Append(b, n + 1)[k - Len(r)]
  BY <1>1, ConcatProperties
<1>3. \A k \in 1 .. Len(r) + Len(b) : s[k] = IF k <= Len(r) THEN r[k] ELSE b[k - Len(r)]
  BY ONLY r \in Seq(Nat), b \in Seq(Nat), ConcatProperties
<1>4. \A k \in 1 .. n : s[k] = k
  BY DEF Count
<1>5. Len(r) \in Nat /\ Len(b) \in Nat
  BY LenProperties
<1> HIDE DEF s, t
<1>6. ASSUME NEW k \in 1 .. n PROVE t[k] = k
  <2>1. k \in 1 .. n + 1 /\ k \in 1 .. Len(r) + Len(b)
    OBVIOUS
  <2>2. CASE k <= Len(r)
    BY <1>2, <1>3, <1>4, <2>1, <2>2
  <2>3. CASE ~(k <= Len(r))
    <3>1. k - Len(r) \in 1 .. Len(b)
      BY <1>5, <2>3
    <3> QED
      BY <1>1, <1>2, <1>3, <1>4, <2>1, <2>3, <3>1
  <2> QED
    BY <2>2, <2>3
<1>7. t[n + 1] = n + 1
  <2>1. n + 1 \in 1 .. n + 1 /\ ~(n + 1 <= Len(r)) /\ n + 1 - Len(r) = Len(b) + 1
    BY <1>5
  <2>2. t[n + 1] = Append(b, n + 1)[n + 1 - Len(r)]
    BY <1>2, <2>1
  <2> QED
    BY <1>1, <2>1, <2>2
<1>8. \A k \in 1 .. n + 1 : t[k] = k
  <2>1. \A k \in 1 .. n + 1 : k \in 1 .. n \/ k = n + 1
    OBVIOUS
  <2> QED
    BY <1>6, <1>7, <2>1
<1>9. t = [k \in 1 .. n + 1 |-> t[k]]
  BY <1>2
<1>10. t = [k \in 1 .. n + 1 |-> k]
  BY <1>8, <1>9
<1> QED
  BY <1>10 DEF t, Count

(* The series continued.                                                   *)
LEMMA CountFrom ==
  ASSUME NEW n \in Nat, NEW m \in Nat
  PROVE  Count(n) \o [k \in 1 .. m |-> n + k] = Count(n + m)
<1> DEFINE r == [i \in 1 .. n |-> i]
           b == [k \in 1 .. m |-> n + k]
           t == r \o b
<1>1. r \in Seq(Nat) /\ Len(r) = n /\ b \in Seq(Nat) /\ Len(b) = m
  OBVIOUS
<1>2. \A k \in 1 .. n : r[k] = k
  OBVIOUS
<1>3. \A k \in 1 .. m : b[k] = n + k
  OBVIOUS
<1> HIDE DEF r, b
<1>4. /\ t \in Seq(Nat) /\ Len(t) = n + m
      /\ \A k \in 1 .. n + m : t[k] = IF k <= n THEN r[k] ELSE b[k - n]
  BY <1>1, ConcatProperties
<1> HIDE DEF t
<1>5. \A k \in 1 .. n + m : t[k] = k
  <2> SUFFICES ASSUME NEW k \in 1 .. n + m PROVE t[k] = k
    OBVIOUS
  <2>1. CASE k <= n
    BY <1>2, <1>4, <2>1
  <2>2. CASE ~(k <= n)
    <3>1. k - n \in 1 .. m
      BY <2>2
    <3>2. t[k] = b[k - n]
      BY <1>4, <2>2
    <3>3. b[k - n] = n + (k - n)
      BY <1>3, <3>1
    <3> QED
      BY <3>2, <3>3
  <2> QED
    BY <2>1, <2>2
<1>6. t = [k \in 1 .. n + m |-> t[k]]
  BY <1>4
<1>7. t = [k \in 1 .. n + m |-> k]
  BY <1>5, <1>6
<1> QED
  BY <1>7 DEF t, r, b, Count

-----------------------------------------------------------------------------
(* The invariant is inductive.                                             *)

LEMMA DownInit == Init => DownInv
<1> SUFFICES ASSUME Init PROVE DownInv
  OBVIOUS
<1>1. 0 \in Slot /\ <<>> \in Seq(Nat) /\ Len(<<>>) = 0
  BY DownAssumption, EmptySeq DEF Slot
<1>2. DownTypeOK
  BY <1>1 DEF Init, DownTypeOK
<1>3. Front = 0 /\ Distance(0, 0) = 0
  BY <1>1, DistanceIs DEF Init, Front
<1>4. OrderInv
  BY <1>3 DEF Init, OrderInv
<1>5. Handed = 0 /\ received \o buf = <<>>
  BY <1>1, ConcatEmptySeq DEF Init, Handed
<1>6. <<>> = Count(0)
  BY DEF Count
<1>7. ContentInv
  BY <1>3, <1>5, <1>6 DEF Init, ContentInv
<1>8. TakenInv
  BY DEF Init, TakenInv
<1> QED
  BY <1>2, <1>4, <1>7, <1>8 DEF DownInv

(* The distances that OrderInv compares are numbers.                       *)
LEMMA Distances ==
  ASSUME DownTypeOK
  PROVE  /\ Front \in Slot
         /\ \A i, j \in {WrOff, RdOff, wr_idx, rd_idx, host_rd, host_wr, Front} :
              Distance(i, j) \in 0 .. DownSize - 1 /\ Distance(i, j) \in Nat
<1>1. Front \in Slot
  BY DEF DownTypeOK, Front
<1>2. \A n \in 0 .. DownSize - 1 : n \in Nat
  BY DownAssumption
<1>3. \A i, j \in Slot : Distance(i, j) \in 0 .. DownSize - 1
  BY DistanceIs
<1> QED
  BY <1>1, <1>2, <1>3 DEF DownTypeOK

(* rtt_read begins: it is where RdOff is.                                  *)
LEMMA CallInv == ASSUME DownInv, NEW n \in 0 .. MaxRead, Call(n) PROVE DownInv'
<1>1. /\ ~reading /\ reading' = TRUE /\ wr_idx' = WrOff /\ rd_idx' = RdOff /\ max' = n
      /\ buf' = <<>> /\ there' = Distance(RdOff, WrOff)
      /\ UNCHANGED <<RdOff, received, rtt_buffer_down, WrOff, host_rd, host_wr, sent>>
  BY DEF Call, hostvars
<1>2. DownTypeOK /\ buf = <<>> /\ n \in Nat /\ <<>> \in Seq(Nat) /\ Len(<<>>) = 0
  BY <1>1, DownAssumption, EmptySeq DEF DownInv, ContentInv
<1>3. Front = RdOff /\ Front' = RdOff /\ Handed' = Handed
  BY <1>1, <1>2 DEF Front, Handed
<1>4. Distance(RdOff, WrOff) \in Nat
  BY <1>2, Distances
<1>5. DownTypeOK'
  BY <1>1, <1>2, <1>4 DEF DownTypeOK
<1>6. Distance(host_rd, WrOff) \in Nat
  BY <1>2, Distances
<1>7. OrderInv'
  BY <1>1, <1>3, <1>6 DEF DownInv, OrderInv, Distance
<1>8. ContentInv'
  BY <1>1, <1>2, <1>3 DEF DownInv, ContentInv, Distance, Ahead
<1>9. TakenInv'
  BY <1>1, <1>2, <1>4 DEF TakenInv, Distance
<1> QED
  BY <1>5, <1>7, <1>8, <1>9 DEF DownInv

(* One byte is read.                                                       *)
LEMMA LoadByteInv == ASSUME DownInv, LoadByte PROVE DownInv'
<1>1. /\ reading /\ rd_idx # wr_idx /\ Len(buf) < max
      /\ buf' = Append(buf, rtt_buffer_down[rd_idx]) /\ rd_idx' = After(rd_idx)
      /\ UNCHANGED <<RdOff, reading, wr_idx, max, there, received, rtt_buffer_down, WrOff,
                     host_rd, host_wr, sent>>
  BY DEF LoadByte, More, hostvars
<1>2. /\ DownTypeOK /\ Front = rd_idx /\ Front' = After(rd_idx)
      /\ {WrOff, RdOff, wr_idx, rd_idx, host_rd, host_wr} \subseteq Slot
  BY <1>1 DEF DownInv, DownTypeOK, Front
<1> DEFINE From(i) == Distance(host_rd, i)
<1>3. /\ From(RdOff) <= From(rd_idx) /\ From(rd_idx) <= From(wr_idx)
      /\ From(wr_idx) <= From(WrOff) /\ From(WrOff) <= From(host_wr)
  BY <1>1, <1>2 DEF DownInv, OrderInv
<1>4. /\ \A i \in {WrOff, RdOff, wr_idx, rd_idx, host_wr} :
           From(i) \in Nat /\ From(i) <= DownSize - 1
      /\ DownSize \in Nat
  BY <1>2, DistanceIs, DownAssumption
<1>5. From(rd_idx) < From(wr_idx)
  <2>1. From(rd_idx) # From(wr_idx)
    <3>1. /\ From(rd_idx) = IF rd_idx >= host_rd THEN rd_idx - host_rd ELSE rd_idx - host_rd + DownSize
          /\ From(wr_idx) = IF wr_idx >= host_rd THEN wr_idx - host_rd ELSE wr_idx - host_rd + DownSize
      BY <1>2, DistanceIs
    <3>2. \A i \in {rd_idx, wr_idx, host_rd} : i \in Nat /\ i < DownSize
      BY <1>2, <1>4 DEF Slot
    <3> QED
      BY <1>1, <1>4, <3>1, <3>2, SMTT(30)
  <2> QED
    BY <1>3, <1>4, <2>1
<1>6. After(rd_idx) \in Slot /\ After(rd_idx) # host_rd /\ From(After(rd_idx)) = From(rd_idx) + 1
  <2>1. After(rd_idx) \in Slot /\ (After(rd_idx) # host_rd => From(After(rd_idx)) = From(rd_idx) + 1)
    BY <1>2, AfterIs
  <2>2. After(rd_idx) # host_rd
    <3> SUFFICES ASSUME After(rd_idx) = host_rd PROVE FALSE
      OBVIOUS
    <3>1. rd_idx \in Nat /\ rd_idx < DownSize
      BY <1>2, <1>4 DEF Slot
    <3>2. host_rd = IF rd_idx + 1 = DownSize THEN 0 ELSE rd_idx + 1
      BY <1>4, <3>1 DEF After
    <3>3. From(rd_idx) = IF rd_idx >= host_rd THEN rd_idx - host_rd ELSE rd_idx - host_rd + DownSize
      BY <1>2, DistanceIs
    <3>4. From(rd_idx) = DownSize - 1
      BY <1>4, <3>1, <3>2, <3>3
    <3> QED
      BY <1>4, <1>5, <3>4
  <2> QED
    BY <2>1, <2>2
<1>7. /\ Distance(rd_idx, wr_idx) \in Nat \ {0}
      /\ Distance(rd_idx, host_wr) \in 1 .. DownSize - 1
      /\ Distance(After(rd_idx), wr_idx) = Distance(rd_idx, wr_idx) - 1
      /\ Distance(After(rd_idx), host_wr) = Distance(rd_idx, host_wr) - 1
  <2>1. From(rd_idx) <= From(host_wr) /\ From(rd_idx) # From(host_wr)
    BY <1>3, <1>4, <1>5
  <2>2. rd_idx # host_wr
    BY <2>1
  <2>3. Distance(rd_idx, wr_idx) # 0 /\ Distance(rd_idx, host_wr) # 0
    BY <1>1, <1>2, <2>2, DistanceIs
  <2>4. /\ Distance(rd_idx, wr_idx) \in 0 .. DownSize - 1
        /\ Distance(rd_idx, host_wr) \in 0 .. DownSize - 1
    BY <1>2, DistanceIs
  <2> QED
    BY <1>1, <1>2, <1>4, <2>2, <2>3, <2>4, AfterIs
<1>8. /\ buf \in Seq(Nat) /\ received \in Seq(Nat) /\ Handed \in Nat
      /\ Len(buf) \in Nat /\ Len(received) \in Nat
  BY <1>2, LenProperties DEF DownTypeOK, Handed
<1>9. rtt_buffer_down[rd_idx] = Handed + 1
  <2>1. rtt_buffer_down[Ahead(rd_idx, 0)] = Handed + 0 + 1
    BY <1>2, <1>7 DEF DownInv, ContentInv
  <2>2. Ahead(rd_idx, 0) = rd_idx
    <3>1. 0 \in 0 .. DownSize - 1 /\ rd_idx \in Nat /\ rd_idx < DownSize
      BY <1>2, DownAssumption DEF Slot
    <3> QED
      BY <1>2, <3>1, AheadIs
  <2> QED
    BY <1>8, <2>1, <2>2
<1>10. buf' \in Seq(Nat) /\ Len(buf') = Len(buf) + 1 /\ Handed' = Handed + 1
  <2>1. Handed + 1 \in Nat
    BY <1>8
  <2>2. buf' \in Seq(Nat) /\ Len(buf') = Len(buf) + 1
    BY <1>1, <1>8, <1>9, <2>1, AppendProperties
  <2> QED
    BY <1>1, <1>8, <2>2 DEF Handed
<1>11. DownTypeOK'
  BY <1>1, <1>2, <1>6, <1>10 DEF DownTypeOK
<1>12. OrderInv'
  <2>1. From(RdOff) <= From(After(rd_idx)) /\ From(After(rd_idx)) <= From(wr_idx)
        /\ From(After(rd_idx)) <= From(WrOff)
    BY <1>3, <1>4, <1>5, <1>6
  <2> QED
    BY <1>1, <1>2, <1>3, <2>1 DEF OrderInv, Distance
<1>13. ContentInv'
  <2>1. received' \o buf' = Count(Handed')
    <3>1. received \o buf = Count(Handed) /\ Handed = Len(received) + Len(buf)
      BY DEF DownInv, ContentInv, Handed
    <3>2. received \o Append(buf, Handed + 1) = Count(Handed + 1)
      BY <1>8, <3>1, CountOn
    <3> QED
      BY <1>1, <1>9, <1>10, <3>2
  <2> DEFINE d == Distance(rd_idx, host_wr)
  <2>2. Handed + d = sent /\ d \in 1 .. DownSize - 1 /\ DownSize \in Nat
    BY <1>2, <1>4, <1>7 DEF DownInv, ContentInv
  <2>3. Distance(Front, host_wr)' = d - 1
    BY <1>1, <1>2, <1>7 DEF Distance
  <2>4. (Handed + 1) + (d - 1) = sent
    BY <1>8, <2>2
  <2>5. ASSUME NEW k \in 0 .. (d - 1) - 1
        PROVE  rtt_buffer_down[Ahead(After(rd_idx), k)] = (Handed + 1) + k + 1
    <3>1. k + 1 \in 0 .. d - 1 /\ k \in 0 .. DownSize - 2 /\ k \in Nat
      BY <2>2
    <3>2. Ahead(After(rd_idx), k) = Ahead(rd_idx, k + 1)
      BY <1>2, <3>1, AheadOfNext
    <3>3. rtt_buffer_down[Ahead(rd_idx, k + 1)] = Handed + (k + 1) + 1
      BY <1>2, <3>1 DEF DownInv, ContentInv
    <3> QED
      BY <1>8, <3>1, <3>2, <3>3
  <2> HIDE DEF d
  <2>6. \A k : Ahead(Front, k)' = Ahead(After(rd_idx), k)
    BY <1>2 DEF Ahead
  <2> QED
    BY <1>1, <1>10, <2>1, <2>3, <2>4, <2>5, <2>6 DEF ContentInv
<1>14. TakenInv'
  <2>1. Len(buf) + Distance(rd_idx, wr_idx) = there /\ max \in Nat
    BY <1>1 DEF DownInv, TakenInv, DownTypeOK
  <2>2. Distance(rd_idx, wr_idx)' = Distance(rd_idx, wr_idx) - 1
    BY <1>1, <1>7 DEF Distance
  <2> QED
    BY <1>1, <1>7, <1>8, <1>10, <2>1, <2>2 DEF TakenInv
<1> QED
  BY <1>11, <1>12, <1>13, <1>14 DEF DownInv

(* The slots are handed back.                                              *)
LEMMA ReturnInv == ASSUME DownInv, Return PROVE DownInv'
<1>1. /\ reading /\ reading' = FALSE /\ RdOff' = rd_idx /\ received' = received \o buf
      /\ buf' = <<>>
      /\ UNCHANGED <<wr_idx, rd_idx, max, there, rtt_buffer_down, WrOff, host_rd, host_wr, sent>>
  BY DEF Return, hostvars
<1>2. /\ DownTypeOK /\ Front = rd_idx /\ Front' = rd_idx
      /\ buf \in Seq(Nat) /\ received \in Seq(Nat) /\ <<>> \in Seq(Nat)
  BY <1>1, EmptySeq DEF DownInv, DownTypeOK, Front
<1>3. received' \in Seq(Nat) /\ Len(received') = Len(received) + Len(buf)
  BY <1>1, <1>2, ConcatProperties
<1>4. Handed' = Handed /\ received' \o buf' = received \o buf
  <2>1. Len(<<>>) = 0 /\ Len(received) \in Nat /\ Len(buf) \in Nat
    BY <1>2, EmptySeq, LenProperties
  <2> QED
    BY <1>1, <1>2, <1>3, <2>1, ConcatEmptySeq DEF Handed
<1>5. DownTypeOK'
  BY <1>1, <1>2, <1>3 DEF DownTypeOK
<1>6. Distance(host_rd, rd_idx) \in Nat
  BY <1>2, Distances
<1>7. OrderInv'
  BY <1>1, <1>2, <1>6 DEF DownInv, OrderInv, Distance
<1>8. ContentInv'
  BY <1>1, <1>2, <1>4 DEF DownInv, ContentInv, Distance, Ahead
<1>9. TakenInv'
  BY <1>1 DEF TakenInv
<1> QED
  BY <1>5, <1>7, <1>8, <1>9 DEF DownInv

(* The host learns how far rtt_read is, which is now where its circle      *)
(* begins.                                                                 *)
LEMMA HostLookInv == ASSUME DownInv, HostLook PROVE DownInv'
<1>1. host_rd' = RdOff /\ UNCHANGED <<RdOff, thevars, rtt_buffer_down, WrOff, host_wr, sent>>
  BY DEF HostLook
<1>2. /\ DownTypeOK /\ Front' = Front /\ Front \in Slot
      /\ {WrOff, RdOff, wr_idx, rd_idx, host_rd, host_wr} \subseteq Slot
  BY <1>1 DEF DownInv, DownTypeOK, Front, thevars
<1>3. DownTypeOK'
  BY <1>1, <1>2 DEF DownTypeOK, thevars
<1>4. OrderInv'
  <2>1. \A i \in {WrOff, RdOff, wr_idx, rd_idx, host_wr, Front} : Distance(host_rd, i) \in Nat
    BY <1>2, Distances
  <2>2. /\ Distance(host_rd, RdOff) <= Distance(host_rd, Front)
        /\ Distance(host_rd, Front) <= Distance(host_rd, WrOff)
        /\ Distance(host_rd, WrOff) <= Distance(host_rd, host_wr)
        /\ reading => /\ Front = rd_idx /\ Distance(host_rd, rd_idx) <= Distance(host_rd, wr_idx)
                      /\ Distance(host_rd, wr_idx) <= Distance(host_rd, WrOff)
    BY DEF DownInv, OrderInv, Front
  <2>3. Distance(host_rd, RdOff) <= Distance(host_rd, WrOff)
    BY <2>1, <2>2
  <2>4. /\ Distance(RdOff, Front) <= Distance(RdOff, WrOff)
        /\ Distance(RdOff, WrOff) <= Distance(RdOff, host_wr)
    BY <1>2, <2>2, <2>3, Stages
  <2>5. reading => /\ Distance(RdOff, rd_idx) <= Distance(RdOff, wr_idx)
                   /\ Distance(RdOff, wr_idx) <= Distance(RdOff, WrOff)
    <3>1. reading => Distance(host_rd, RdOff) <= Distance(host_rd, wr_idx)
      BY <2>1, <2>2
    <3> QED
      BY <1>2, <2>2, <3>1, Stages
  <2>6. Distance(RdOff, RdOff) <= Distance(RdOff, Front)
    <3>1. Distance(RdOff, RdOff) = 0 /\ Distance(RdOff, Front) \in Nat
      BY <1>2, DistanceIs, Distances
    <3> QED
      BY <3>1
  <2> QED
    BY <1>1, <1>2, <2>4, <2>5, <2>6 DEF OrderInv, Distance, thevars
<1>5. ContentInv' /\ TakenInv'
  BY <1>1, <1>2 DEF DownInv, ContentInv, TakenInv, Handed, Distance, Ahead, thevars
<1> QED
  BY <1>3, <1>4, <1>5 DEF DownInv

(* The host stores a byte behind the others.                               *)
LEMMA HostStoreInv == ASSUME DownInv, HostStore PROVE DownInv'
<1>1. /\ After(host_wr) # host_rd
      /\ rtt_buffer_down' = [rtt_buffer_down EXCEPT ![host_wr] = sent + 1]
      /\ sent' = sent + 1 /\ host_wr' = After(host_wr)
      /\ UNCHANGED <<RdOff, thevars, WrOff, host_rd>>
  BY DEF HostStore
<1>2. /\ DownTypeOK /\ Front' = Front /\ Front \in Slot
      /\ {WrOff, RdOff, wr_idx, rd_idx, host_rd, host_wr} \subseteq Slot
      /\ rtt_buffer_down \in [Slot -> Nat] /\ sent \in Nat
  BY <1>1 DEF DownInv, DownTypeOK, Front, thevars
<1>3. /\ After(host_wr) \in Slot
      /\ Distance(host_rd, After(host_wr)) = Distance(host_rd, host_wr) + 1
  BY <1>1, <1>2, AfterIs
<1>4. /\ Distance(host_rd, Front) <= Distance(host_rd, WrOff)
      /\ Distance(host_rd, WrOff) <= Distance(host_rd, host_wr)
      /\ \A i \in {Front, WrOff, host_wr} : Distance(host_rd, i) \in Nat
  BY <1>2, Distances DEF DownInv, OrderInv
<1>5. /\ After(host_wr) # Front
      /\ Distance(Front, After(host_wr)) = Distance(Front, host_wr) + 1
  <2>1. After(host_wr) # Front
    BY <1>3, <1>4
  <2> QED
    BY <1>2, <2>1, AfterIs
<1>6. DownTypeOK'
  BY <1>1, <1>2, <1>3 DEF DownTypeOK, thevars
<1>7. OrderInv'
  <2>1. Distance(host_rd, WrOff) <= Distance(host_rd, After(host_wr))
    BY <1>3, <1>4
  <2> QED
    BY <1>1, <1>2, <2>1 DEF DownInv, OrderInv, Distance, thevars
<1>8. ContentInv'
  <2> DEFINE d == Distance(Front, host_wr)
  <2>1. /\ d \in 0 .. DownSize - 1 /\ DownSize \in Nat /\ Handed + d = sent
        /\ \A k \in 0 .. d - 1 : rtt_buffer_down[Ahead(Front, k)] = Handed + k + 1
    BY <1>2, DistanceIs, DownAssumption DEF DownInv, ContentInv
  <2>2. Handed \in Nat
    BY <1>2, LenProperties DEF Handed, DownTypeOK
  <2>3. ASSUME NEW k \in 0 .. (d + 1) - 1
        PROVE  rtt_buffer_down'[Ahead(Front, k)] = Handed + k + 1
    <3>1. k \in 0 .. DownSize - 1 /\ k \in Nat
      BY <2>1
    <3>2. Ahead(Front, k) \in Slot /\ (Ahead(Front, k) = host_wr <=> k = d)
      BY <1>2, <3>1, AheadIs, AheadMeets
    <3>3. CASE k = d
      BY <1>1, <1>2, <2>1, <2>2, <3>2, <3>3
    <3>4. CASE k # d
      <4>1. k \in 0 .. d - 1
        BY <2>1, <3>1, <3>4
      <4> QED
        BY <1>1, <1>2, <2>1, <3>2, <3>4, <4>1
    <3> QED
      BY <3>3, <3>4
  <2>4. Handed + (d + 1) = sent + 1
    BY <2>1, <2>2
  <2>5. Distance(Front, host_wr)' = d + 1
    BY <1>1, <1>2, <1>5 DEF Distance
  <2>6. /\ Handed' = Handed /\ UNCHANGED <<reading, received, buf>>
        /\ \A k : Ahead(Front, k)' = Ahead(Front, k)
    BY <1>1, <1>2 DEF Handed, Ahead, thevars
  <2>7. (~reading => buf = <<>>) /\ received \o buf = Count(Handed)
    BY DEF DownInv, ContentInv
  <2> HIDE DEF d
  <2> QED
    BY <1>1, <2>3, <2>4, <2>5, <2>6, <2>7 DEF ContentInv
<1>9. TakenInv'
  BY <1>1 DEF DownInv, TakenInv, Distance, thevars
<1> QED
  BY <1>6, <1>7, <1>8, <1>9 DEF DownInv

(* The host tells how far it has come.                                     *)
LEMMA HostPublishInv == ASSUME DownInv, HostPublish PROVE DownInv'
<1>1. WrOff' = host_wr /\ UNCHANGED <<RdOff, thevars, rtt_buffer_down, host_rd, host_wr, sent>>
  BY DEF HostPublish
<1>2. DownTypeOK /\ Front' = Front
  BY <1>1 DEF DownInv, Front, thevars
<1>3. DownTypeOK'
  BY <1>1, <1>2 DEF DownTypeOK, thevars
<1>4. OrderInv'
  <2>1. \A i \in {WrOff, RdOff, wr_idx, rd_idx, host_wr, Front} : Distance(host_rd, i) \in Nat
    BY <1>2, Distances
  <2>2. /\ Distance(host_rd, Front) <= Distance(host_rd, host_wr)
        /\ Distance(host_rd, host_wr) <= Distance(host_rd, host_wr)
        /\ reading => Distance(host_rd, wr_idx) <= Distance(host_rd, host_wr)
    BY <2>1 DEF DownInv, OrderInv
  <2> QED
    BY <1>1, <1>2, <2>2 DEF DownInv, OrderInv, Distance, thevars
<1>5. ContentInv' /\ TakenInv'
  BY <1>1, <1>2 DEF DownInv, ContentInv, TakenInv, Handed, Distance, Ahead, thevars
<1> QED
  BY <1>3, <1>4, <1>5 DEF DownInv

LEMMA DownStep == DownInv /\ [Next]_vars => DownInv'
<1> SUFFICES ASSUME DownInv, [Next]_vars PROVE DownInv'
  OBVIOUS
<1>1. CASE UNCHANGED vars
  <2>1. /\ UNCHANGED <<RdOff, reading, wr_idx, rd_idx, max, buf, there, received,
                       rtt_buffer_down, WrOff, host_rd, host_wr, sent>>
    BY <1>1 DEF vars, thevars, hostvars
  <2>2. DownTypeOK' /\ OrderInv' /\ TakenInv'
    BY <2>1 DEF DownInv, DownTypeOK, OrderInv, TakenInv, Front, Distance
  <2>3. ContentInv'
    BY <2>1 DEF DownInv, ContentInv, Front, Handed, Distance, Ahead
  <2> QED
    BY <2>2, <2>3 DEF DownInv
<1> QED
  BY <1>1, CallInv, LoadByteInv, ReturnInv, HostLookInv, HostStoreInv, HostPublishInv DEF Next

(* The ring holds what comes after what was handed over, up to the last    *)
(* byte sent.                                                              *)
LEMMA DownInvDelivers == DownInv => Delivered
<1> SUFFICES ASSUME DownInv PROVE Delivered
  OBVIOUS
<1> DEFINE d == Distance(Front, host_wr)
<1>1. DownTypeOK /\ Front \in Slot /\ host_wr \in Slot
  BY Distances DEF DownInv, DownTypeOK
<1>2. d \in Nat /\ Handed \in Nat
  BY <1>1, Distances, LenProperties DEF DownTypeOK, Handed
<1>3. /\ received \o buf = Count(Handed) /\ Handed + d = sent
      /\ \A k \in 0 .. d - 1 : rtt_buffer_down[Ahead(Front, k)] = Handed + k + 1
  BY DEF DownInv, ContentInv
<1>4. Ring(Front, host_wr) = [k \in 1 .. d |-> Handed + k]
  <2>1. ASSUME NEW k \in 1 .. d
        PROVE  rtt_buffer_down[(Front + k - 1) % DownSize] = Handed + k
    <3>1. k - 1 \in 0 .. d - 1 /\ Front \in Nat /\ k \in Nat
      BY <1>1, <1>2, DownAssumption DEF Slot
    <3>2. Front + k - 1 = Front + (k - 1) /\ Handed + (k - 1) + 1 = Handed + k
      BY <1>2, <3>1
    <3>3. rtt_buffer_down[Ahead(Front, k - 1)] = Handed + (k - 1) + 1
      BY <1>3, <3>1
    <3> QED
      BY <3>2, <3>3 DEF Ahead
  <2> QED
    BY <2>1 DEF Ring
<1>5. (received \o buf) \o Ring(Front, host_wr) = Count(sent)
  BY <1>2, <1>3, <1>4, CountFrom
<1> QED
  BY <1>5 DEF Delivered, Front, Count

(* Every byte the host ever sent is with the callers of rtt_read, in the   *)
(* buffer of the running call or in the ring: none is lost, read twice,    *)
(* overwritten before it was read or read before it was there.             *)
THEOREM AllDelivered == Spec => []Delivered
<1> QED
  BY DownInit, DownStep, DownInvDelivers, PTL DEF Spec

(* rtt_read takes what was in the ring when it began, up to max, and       *)
(* nothing that came later.                                                *)
THEOREM TakesExactly == Spec => TakesWhatIsThere
<1>1. ASSUME DownInv, [Next]_vars
      PROVE  [reading /\ ~reading' =>
                Len(received') - Len(received) = IF there < max THEN there ELSE max]_vars
  <2> SUFFICES ASSUME reading, ~reading'
               PROVE  Len(received') - Len(received) = IF there < max THEN there ELSE max
    OBVIOUS
  <2>1. received' = received \o buf /\ ~(rd_idx # wr_idx /\ Len(buf) < max)
    BY <1>1 DEF Next, Call, LoadByte, Return, More, HostLook, HostStore, HostPublish, thevars, vars
  <2>2. /\ received \in Seq(Nat) /\ buf \in Seq(Nat) /\ max \in Nat /\ there \in Nat
        /\ rd_idx \in Slot /\ wr_idx \in Slot
    BY <1>1 DEF DownInv, DownTypeOK
  <2>3. Len(received') = Len(received) + Len(buf) /\ Len(received) \in Nat /\ Len(buf) \in Nat
    BY <2>1, <2>2, ConcatProperties, LenProperties
  <2>4. Len(buf) + Distance(rd_idx, wr_idx) = there /\ Len(buf) <= max
    BY <1>1 DEF DownInv, TakenInv
  <2>5. Distance(rd_idx, wr_idx) \in Nat /\ (Distance(rd_idx, wr_idx) = 0 <=> rd_idx = wr_idx)
    BY <1>1, <2>2, DistanceIs, Distances DEF DownInv
  <2> QED
    BY <2>1, <2>2, <2>3, <2>4, <2>5
<1> QED
  BY <1>1, DownInit, DownStep, PTL DEF Spec, TakesWhatIsThere
=============================================================================
