---------------------------- MODULE ConsoleProofs ----------------------------
(***************************************************************************)
(* Proofs about Console, for every size of the ring and of the Writer's    *)
(* buffer: rtt_write never stores into a slot the host may still read;     *)
(* what it drops is what exceeds the room it saw, and all of it is         *)
(* counted; the rest reaches the host in the order it was written.         *)
(***************************************************************************)
EXTENDS Console, SequenceTheorems, TLAPS

(* All indices are slots of the ring.                                      *)
Indices == {WrOff, RdOff, wr_idx, rd_idx, host_wr, host_rd} \subseteq Slot

(* Going round from any index, the ones that depend on each other keep     *)
(* their order: what rtt_write remembers of RdOff is behind the host, the  *)
(* host never passes WrOff, and WrOff is never ahead of rtt_write.         *)
Ordered ==
  /\ InRtt => /\ Distance(rd_idx, RdOff) <= Distance(rd_idx, WrOff)
              /\ Distance(rd_idx, WrOff) <= Distance(rd_idx, wr_idx)
  /\ host = "reading" => Distance(RdOff, host_wr) <= Distance(RdOff, WrOff)

RingInv == Indices /\ Ordered /\ rtt_buffer_up \in [Slot -> Int]

(* The next slot is a slot, one further away unless it closes the circle.  *)
LEMMA AfterSlot ==
  ASSUME NEW i \in Slot, NEW j \in Slot
  PROVE /\ After(i) \in Slot
        /\ After(i) # j => Distance(j, After(i)) = Distance(j, i) + 1
  BY UpAssumption DEF Slot, After, Distance

(* A distance is a number of slots, below the size of the ring.            *)
LEMMA DistanceNat ==
  ASSUME NEW i \in Slot, NEW j \in Slot
  PROVE  Distance(i, j) \in Nat /\ Distance(i, i) = 0
  BY UpAssumption DEF Slot, Distance

(* Two slots at one distance are the same.                                 *)
LEMMA DistanceOne ==
  ASSUME NEW i \in Slot, NEW j \in Slot, NEW k \in Slot, Distance(i, j) = Distance(i, k)
  PROVE  j = k
  BY UpAssumption DEF Slot, Distance

(* On a circle, a stage that ends later is longer, and what is left of a   *)
(* journey is never longer than the journey.                               *)
LEMMA Stages ==
  ASSUME NEW i \in Slot, NEW j \in Slot, NEW k \in Slot, NEW l \in Slot,
         Distance(i, j) <= Distance(i, k)
  PROVE /\ Distance(i, k) <= Distance(i, l) => Distance(j, k) <= Distance(j, l)
        /\ Distance(l, i) <= Distance(l, k) => Distance(l, j) <= Distance(l, k)
  BY UpAssumption DEF Slot, Distance

(***************************************************************************)
(* TypeOK is inductive.                                                    *)

(* The texts of the callers are sequences of numbers.                      *)
LEMMA TextType ==
  ASSUME NEW n \in Nat, NEW w \in Nat
  PROVE  /\ [i \in 1 .. n |-> w + i] \in Seq(Nat)
         /\ [i \in 1 .. n |-> -(w + i)] \in Seq(Int)
<1>1. [i \in 1 .. n |-> w + i] \in Seq(Nat)
  OBVIOUS
<1>2. [i \in 1 .. n |-> -(w + i)] \in [1 .. n -> Int]
  OBVIOUS
<1> QED
  BY <1>1, <1>2

(* memcpy of a prefix: both pieces are texts, and the lengths add up.      *)
LEMMA SplitType ==
  ASSUME NEW s \in Seq(Nat), NEW t \in Seq(Nat), NEW k \in 0 .. Len(t)
  PROVE  /\ s \o SubSeq(t, 1, k) \in Seq(Nat)
         /\ Len(s \o SubSeq(t, 1, k)) = Len(s) + k
         /\ SubSeq(t, k + 1, Len(t)) \in Seq(Nat)
<1>1. SubSeq(t, 1, k) \in Seq(Nat) /\ Len(SubSeq(t, 1, k)) = k
  OBVIOUS
<1>2. SubSeq(t, k + 1, Len(t)) \in Seq(Nat)
  OBVIOUS
<1> QED
  BY <1>1, <1>2, ConcatProperties

(* An emptied buffer holds text, of length 0.                              *)
LEMMA EmptyText == <<>> \in Seq(Nat) /\ Len(<<>>) = 0
<1>1. <<>> \in Seq(Nat)
  BY EmptySeq
<1> QED
  BY <1>1, EmptySeq

(* After writer_init every variable has its type.                          *)
LEMMA TypeInit == Init => TypeOK
  BY UpAssumption, ConsoleAssumption DEF Init, UpInit, TypeOK, UpTypeOK, Slot, Place

(* The ring's side: rtt_write and the host.                                *)
LEMMA RttWriteType ==
  ASSUME UpTypeOK, NEW s \in Seq(Int), RttWrite(s)
  PROVE  UpTypeOK'
  BY DEF UpTypeOK, RttWrite, offsets, hostvars

(* One byte stored.                                                        *)
LEMMA StoreByteType == ASSUME UpTypeOK, StoreByte PROVE UpTypeOK'
<1>1. Head(str) \in Int /\ Tail(str) \in Seq(Int)
  BY DEF UpTypeOK, StoreByte
<1>2. After(wr_idx) \in Slot
  BY AfterSlot DEF UpTypeOK
<1> QED
  BY <1>1, <1>2 DEF UpTypeOK, StoreByte, offsets, hostvars

(* rtt_bytes_dropped wraps around.                                         *)
LEMMA PublishType == ASSUME UpTypeOK, Publish PROVE UpTypeOK'
<1>1. Len(str) \in Nat /\ rtt_bytes_dropped \in Nat
  BY DEF UpTypeOK
<1>2. (rtt_bytes_dropped + Len(str)) % Wrap \in 0 .. Wrap - 1
  BY <1>1, UpAssumption
<1> QED
  BY <1>2 DEF UpTypeOK, Publish, hostvars

(* The host receives what is in the slots.                                 *)
LEMMA HostType == ASSUME UpTypeOK, HostNext PROVE UpTypeOK'
<1>1. CASE HostLook
  BY <1>1 DEF UpTypeOK, HostLook, offsets, callvars
<1>2. CASE HostCopy
  <2>1. rtt_buffer_up[host_rd] \in Int
    BY DEF UpTypeOK
  <2>2. Append(got, rtt_buffer_up[host_rd]) \in Seq(Int)
    BY <2>1 DEF UpTypeOK
  <2>3. After(host_rd) \in Slot
    BY AfterSlot DEF UpTypeOK
  <2> QED
    BY <1>2, <2>2, <2>3 DEF UpTypeOK, HostCopy, offsets, callvars
<1>3. CASE HostRelease
  BY <1>3 DEF UpTypeOK, HostRelease, callvars
<1> QED
  BY <1>1, <1>2, <1>3 DEF HostNext

(* Every step keeps the types, and the Writer inside its buffer.           *)
LEMMA TypeStep == ASSUME TypeOK, [Next]_vars PROVE TypeOK'
<1>0. UpTypeOK /\ writer_buf \in Seq(Int)
  BY DEF TypeOK
<1>1. ASSUME NEW n \in 1 .. MaxText, Write(n) PROVE TypeOK'
  <2>1. rest' \in Seq(Nat) /\ written' \in Nat
    BY <1>1, TextType DEF Write, TypeOK
  <2>2. UpTypeOK'
    BY <1>0, <1>1 DEF Write, UpTypeOK, upvars, offsets, callvars, hostvars
  <2> QED
    BY <1>1, <2>1, <2>2 DEF Write, TypeOK, Place
<1>2. ASSUME NEW n \in 1 .. MaxText, WriterError(n) PROVE TypeOK'
  <2>1. UpTypeOK' /\ errors' \in Nat
    BY <1>0, <1>2, TextType, RttWriteType DEF WriterError, TypeOK
  <2> QED
    BY <1>2, <2>1 DEF WriterError, TypeOK, Place
<1>3. CASE Flush \/ WriteFull
  <2>1. UpTypeOK'
    BY <1>0, <1>3, RttWriteType DEF Flush, WriteFull
  <2> QED
    BY <1>3, <2>1 DEF Flush, WriteFull, TypeOK, Place
<1>4. CASE WriteTurn
  <2>1. Portion \in 0 .. Len(rest) /\ Len(writer_buf) + Portion <= Capacity
    BY <1>4, ConsoleAssumption DEF WriteTurn, Portion, Space, TypeOK
  <2>2. /\ writer_buf' \in Seq(Nat) /\ rest' \in Seq(Nat)
        /\ Len(writer_buf') = Len(writer_buf) + Portion
    BY <1>4, <2>1, SplitType DEF WriteTurn, TypeOK
  <2>3. UpTypeOK'
    BY <1>0, <1>4 DEF WriteTurn, UpTypeOK, upvars, offsets, callvars, hostvars
  <2> QED
    BY <1>4, <2>1, <2>2, <2>3 DEF WriteTurn, TypeOK
<1>5. CASE WriteReturn
  <2>1. UpTypeOK'
    BY <1>0, <1>5 DEF WriteReturn, UpTypeOK, upvars, offsets, callvars, hostvars
  <2> QED
    BY <1>5, <2>1 DEF WriteReturn, TypeOK, Place
<1>6. CASE RttStep
  BY <1>0, <1>6, StoreByteType DEF RttStep, TypeOK, writervars
<1>7. CASE RttReturn
  <2>1. UpTypeOK'
    BY <1>0, <1>7, PublishType DEF RttReturn
  <2>2. writer_buf' = writer_buf \/ writer_buf' = <<>>
    BY <1>7 DEF RttReturn
  <2>3. writer_buf' \in Seq(Nat) /\ Len(writer_buf') <= Capacity
    <3>1. CASE writer_buf' = writer_buf
      BY <3>1 DEF TypeOK
    <3>2. CASE writer_buf' = <<>>
      <4>1. 0 <= Capacity
        BY ConsoleAssumption
      <4> QED
        BY <3>2, <4>1, EmptyText
    <3> QED
      BY <2>2, <3>1, <3>2
  <2> QED
    BY <1>7, <2>1, <2>3 DEF RttReturn, TypeOK, Place
<1>8. CASE HostNext /\ UNCHANGED writervars
  BY <1>0, <1>8, HostType DEF TypeOK, writervars
<1>9. CASE UNCHANGED vars
  BY <1>9 DEF vars, writervars, upvars, offsets, callvars, hostvars, TypeOK, UpTypeOK
<1> QED
  BY <1>1, <1>2, <1>3, <1>4, <1>5, <1>6, <1>7, <1>8, <1>9 DEF Next, Call, Run

(* Indices stay in the ring and texts in their buffers, for every size of  *)
(* both and whatever the host does.                                        *)
THEOREM ConsoleTypeCorrect == Spec => []TypeOK
<1> QED
  BY TypeInit, TypeStep, PTL DEF Spec

(***************************************************************************)
(* The ring and its two sides.                                             *)

(* The console starts with an empty ring and nobody in it.                 *)
LEMMA RingInvInit == Init => RingInv
  BY UpAssumption DEF Init, UpInit, RingInv, Indices, Ordered, InRtt, Slot, Distance

(* Every step of the Writer, of rtt_write and of the host keeps the order. *)
LEMMA RingInvStep ==
  ASSUME RingInv, TypeOK, [Next]_vars
  PROVE  RingInv'
<1>0. Indices /\ Ordered /\ rtt_buffer_up \in [Slot -> Int]
  BY DEF RingInv
<1>1. CASE UNCHANGED <<upvars, thread>>
  BY <1>0, <1>1 DEF RingInv, Indices, Ordered, InRtt, upvars, offsets, callvars, hostvars,
     Distance
<1>2. ASSUME NEW s, RttWrite(s) PROVE RingInv'
  <2>1. /\ rd_idx' = RdOff /\ wr_idx' = WrOff
        /\ UNCHANGED <<rtt_buffer_up, WrOff, RdOff, host, host_wr, host_rd>>
    BY <1>2 DEF RttWrite, offsets, hostvars
  <2>2. Indices'
    BY <1>0, <2>1 DEF Indices
  <2>3. Distance(RdOff, RdOff) <= Distance(RdOff, WrOff)
    BY <1>0, DistanceNat DEF Indices
  <2>4. Ordered'
    BY <1>0, <2>1, <2>3, DistanceNat DEF Ordered, Indices, Distance
  <2> QED
    BY <1>0, <2>1, <2>2, <2>4 DEF RingInv
<1>3. CASE RttStep
  <2>1. /\ InRtt /\ After(wr_idx) # rd_idx
        /\ wr_idx' = After(wr_idx) /\ thread' = thread
        /\ UNCHANGED <<WrOff, RdOff, rd_idx, host, host_wr, host_rd>>
        /\ rtt_buffer_up' = [rtt_buffer_up EXCEPT ![wr_idx] = Head(str)]
        /\ str # <<>>
    BY <1>3 DEF RttStep, StoreByte, HasRoom, offsets, hostvars, writervars
  <2>2. Indices'
    BY <1>0, <2>1, AfterSlot DEF Indices
  <2>3. Distance(rd_idx, wr_idx') = Distance(rd_idx, wr_idx) + 1
    BY <1>0, <2>1, AfterSlot DEF Indices
  <2>4. Distance(rd_idx, WrOff) \in Nat /\ Distance(rd_idx, wr_idx) \in Nat
    BY <1>0, DistanceNat DEF Indices
  <2>5. Ordered'
    BY <1>0, <2>1, <2>3, <2>4 DEF Ordered, InRtt, Distance
  <2>6. Head(str) \in Int
    BY <2>1 DEF TypeOK, UpTypeOK
  <2> QED
    BY <1>0, <2>1, <2>2, <2>5, <2>6 DEF RingInv, Indices
<1>4. CASE RttReturn
  <2>1. /\ InRtt /\ ~InRtt' /\ WrOff' = wr_idx
        /\ UNCHANGED <<rtt_buffer_up, RdOff, wr_idx, rd_idx, host, host_wr, host_rd>>
    BY <1>4 DEF RttReturn, Publish, InRtt, hostvars
  <2>2. Indices'
    BY <1>0, <2>1 DEF Indices
  <2>3. Distance(RdOff, WrOff) <= Distance(RdOff, wr_idx)
    BY <1>0, <2>1, Stages DEF Ordered, Indices
  <2>4. Distance(RdOff, WrOff) \in Int /\ Distance(RdOff, wr_idx) \in Int
        /\ Distance(RdOff, host_wr) \in Int
    BY <1>0, DistanceNat DEF Indices
  <2>5. Ordered'
    BY <1>0, <2>1, <2>3, <2>4 DEF Ordered, Distance
  <2> QED
    BY <1>0, <2>1, <2>2, <2>5 DEF RingInv
<1>5. CASE HostNext /\ UNCHANGED writervars
  <2>1. UNCHANGED <<thread, wr_idx, rd_idx, WrOff, rtt_buffer_up>>
    BY <1>5 DEF HostNext, HostLook, HostCopy, HostRelease, writervars, offsets, callvars
  <2>2. CASE HostLook
    <3>1. host_wr' = WrOff /\ host_rd' = RdOff /\ RdOff' = RdOff
      BY <2>2 DEF HostLook, offsets
    <3>2. Distance(RdOff, WrOff) <= Distance(RdOff, WrOff)
      BY <1>0, DistanceNat DEF Indices
    <3> QED
      BY <1>0, <2>1, <3>1, <3>2 DEF RingInv, Indices, Ordered, InRtt, Distance
  <2>3. CASE HostCopy
    <3>1. host_rd' = After(host_rd) /\ UNCHANGED <<RdOff, host, host_wr>>
      BY <2>3 DEF HostCopy, offsets
    <3>2. Indices'
      BY <1>0, <2>1, <3>1, AfterSlot DEF Indices
    <3> QED
      BY <1>0, <2>1, <3>1, <3>2 DEF RingInv, Ordered, InRtt, Distance
  <2>4. CASE HostRelease
    <3>1. host = "reading" /\ host' = "away" /\ RdOff' = host_wr
          /\ UNCHANGED <<host_wr, host_rd>>
      BY <2>4 DEF HostRelease
    <3>2. Indices'
      BY <1>0, <2>1, <3>1 DEF Indices
    <3>3. InRtt => Distance(rd_idx, host_wr) <= Distance(rd_idx, WrOff)
      BY <1>0, <3>1, Stages DEF Ordered, Indices
    <3>4. Ordered'
      BY <1>0, <2>1, <3>1, <3>3 DEF Ordered, InRtt, Distance
    <3> QED
      BY <1>0, <2>1, <3>2, <3>4 DEF RingInv
  <2> QED
    BY <1>5, <2>2, <2>3, <2>4 DEF HostNext
<1>6. ASSUME NEW n \in 1 .. MaxText, Write(n) PROVE RingInv'
  <2>1. UNCHANGED <<upvars>> /\ ~InRtt'
    BY <1>6 DEF Write, InRtt
  <2> QED
    BY <1>0, <2>1 DEF RingInv, Indices, Ordered, upvars, offsets, callvars, hostvars, Distance
<1>7. CASE WriteTurn \/ WriteReturn
  <2>1. UNCHANGED <<upvars>> /\ ~InRtt'
    BY <1>7 DEF WriteTurn, WriteReturn, InRtt
  <2> QED
    BY <1>0, <2>1 DEF RingInv, Indices, Ordered, upvars, offsets, callvars, hostvars, Distance
<1> QED
  BY <1>1, <1>2, <1>3, <1>4, <1>5, <1>6, <1>7
  DEF Next, Call, Run, Flush, WriteFull, WriterError, vars, writervars

(* rtt_write, on text of any kind, keeps what the host may still read: its *)
(* next slot is never between RdOff and WrOff.                             *)
LEMMA SparesUnread ==
  ASSUME RingInv, [Next]_vars
  PROVE  \A s \in Between(RdOff, WrOff) : rtt_buffer_up'[s] = rtt_buffer_up[s]
<1> SUFFICES ASSUME NEW s \in Between(RdOff, WrOff)
             PROVE  rtt_buffer_up'[s] = rtt_buffer_up[s]
  OBVIOUS
<1>0. Indices /\ Ordered /\ rtt_buffer_up \in [Slot -> Int] /\ s \in Slot
  BY DEF RingInv, Between
<1>1. CASE RttStep
  <2>1. InRtt /\ rtt_buffer_up' = [rtt_buffer_up EXCEPT ![wr_idx] = Head(str)]
    BY <1>1 DEF RttStep, StoreByte
  <2>2. Distance(RdOff, WrOff) <= Distance(RdOff, wr_idx)
    BY <1>0, <2>1, Stages DEF Ordered, Indices
  <2>3. s # wr_idx
    BY <1>0, <2>2, DistanceNat DEF Between, Indices
  <2> QED
    BY <1>0, <2>1, <2>3
<1>2. CASE ~RttStep
  <2>1. rtt_buffer_up' = rtt_buffer_up
    BY <1>2 DEF Next, Call, Run, Flush, WriteFull, Write, WriteTurn, WriteReturn, WriterError,
       RttReturn, RttWrite, Publish, HostNext, HostLook, HostCopy, HostRelease, vars, upvars
  <2> QED
    BY <2>1
<1> QED
  BY <1>1, <1>2

(* rtt_write never stores into a slot the host has not handed back, though *)
(* it reads RdOff only once and the host moves all the time.               *)
THEOREM UnreadIsKept == Spec => NoOverwrite
<1>1. Spec => [](TypeOK /\ RingInv)
  BY TypeInit, TypeStep, RingInvInit, RingInvStep, PTL DEF Spec
<1>2. ASSUME RingInv, [Next]_vars
      PROVE  [\A s \in Between(RdOff, WrOff) : rtt_buffer_up'[s] = rtt_buffer_up[s]]_upvars
  BY <1>2, SparesUnread
<1> QED
  BY <1>1, <1>2, PTL DEF Spec, NoOverwrite

(***************************************************************************)
(* The ring as a text: what StoreByte adds and HostCopy takes.             *)

Nth(i, k) == (i + k - 1) % UpSize
RingOf(buf, i, j) == [k \in 1 .. Distance(i, j) |-> buf[Nth(i, k)]]

(* A remainder, for a number up to one round too large.                    *)
LEMMA FirstRound ==
  ASSUME NEW r \in Nat \ {0}, NEW a \in 0 .. r - 1 PROVE a % r = a
  OBVIOUS

LEMMA SecondRound ==
  ASSUME NEW r \in Nat \ {0}, NEW a \in r .. 2 * r - 1 PROVE a % r = a - r
  OBVIOUS

(* The k-th slot from i on.                                                *)
LEMMA NthIs ==
  ASSUME NEW i \in Slot, NEW k \in 1 .. UpSize - 1
  PROVE  Nth(i, k) = IF i + k - 1 < UpSize THEN i + k - 1 ELSE i + k - 1 - UpSize
<1> DEFINE a == i + k - 1
<1>1. /\ UpSize \in Nat \ {0} /\ a \in Nat /\ a <= 2 * UpSize - 1
      /\ i \in Int /\ k \in Int
  BY UpAssumption DEF Slot
<1>2. CASE a < UpSize
  <2>1. a \in 0 .. UpSize - 1
    BY <1>1, <1>2
  <2> HIDE DEF a
  <2>2. a % UpSize = a
    BY <1>1, <2>1, FirstRound
  <2> QED
    BY <1>2, <2>2 DEF Nth, a
<1>3. CASE ~(a < UpSize)
  <2>1. a \in UpSize .. 2 * UpSize - 1
    BY <1>1, <1>3
  <2> HIDE DEF a
  <2>2. a % UpSize = a - UpSize
    BY <1>1, <2>1, SecondRound
  <2>3. Nth(i, k) = a % UpSize
    BY DEF Nth, a
  <2>4. Nth(i, k) = a - UpSize
    BY <2>2, <2>3
  <2> QED
    BY ONLY <1>1, <1>3, <2>4 DEF a
<1> QED
  BY <1>2, <1>3

LEMMA RingSlot ==
  ASSUME NEW i \in Slot, NEW j \in Slot, NEW k \in 1 .. Distance(i, j)
  PROVE  Nth(i, k) \in Slot /\ Distance(i, Nth(i, k)) = k - 1
<1>1. k \in 1 .. UpSize - 1
  BY UpAssumption DEF Slot, Distance
<1> QED
  BY <1>1, NthIs, UpAssumption DEF Slot, Distance

(* One further from i is one nearer from the slot after it.                *)
LEMMA NthAfter ==
  ASSUME NEW i \in Slot, NEW k \in 2 .. UpSize - 1
  PROVE  Nth(i, 1) = i /\ Nth(i, k) = Nth(After(i), k - 1)
<1>1. After(i) \in Slot /\ k - 1 \in 1 .. UpSize - 1 /\ 1 \in 1 .. UpSize - 1
      /\ k \in 1 .. UpSize - 1
  BY UpAssumption DEF Slot, After
<1>2. Nth(After(i), k - 1) = IF After(i) + (k - 1) - 1 < UpSize THEN After(i) + (k - 1) - 1
                            ELSE After(i) + (k - 1) - 1 - UpSize
  BY <1>1, NthIs
<1>3. Nth(i, k) = IF i + k - 1 < UpSize THEN i + k - 1 ELSE i + k - 1 - UpSize
  BY <1>1, NthIs
<1>4. Nth(i, 1) = i
  BY <1>1, NthIs, UpAssumption DEF Slot
<1> QED
  BY <1>2, <1>3, <1>4, UpAssumption DEF Slot, After

(* The text between two indices, its length and its letters.               *)
LEMMA RingOfType ==
  ASSUME NEW buf \in [Slot -> Int], NEW i \in Slot, NEW j \in Slot
  PROVE  /\ RingOf(buf, i, j) \in Seq(Int)
         /\ Len(RingOf(buf, i, j)) = Distance(i, j)
         /\ \A k \in 1 .. Distance(i, j) :
              RingOf(buf, i, j)[k] = buf[Nth(i, k)]
<1>1. Distance(i, j) \in Nat
  BY DistanceNat
<1>2. \A k \in 1 .. Distance(i, j) : buf[Nth(i, k)] \in Int
  BY RingSlot
<1> QED
  BY <1>1, <1>2 DEF RingOf

(* The slot before the end of a journey.                                   *)
LEMMA DistanceAfter ==
  ASSUME NEW i \in Slot, NEW j \in Slot, i # j
  PROVE  /\ Distance(i, j) >= 1
         /\ Distance(After(i), j) = Distance(i, j) - 1
         /\ After(j) # i => Distance(i, After(j)) = Distance(i, j) + 1
  BY UpAssumption DEF Slot, After, Distance

(* The host's next letter is the first of what lies between.               *)
LEMMA RingTake ==
  ASSUME NEW buf \in [Slot -> Int], NEW i \in Slot, NEW j \in Slot, i # j
  PROVE  RingOf(buf, i, j) = <<buf[i]>> \o RingOf(buf, After(i), j)
<1> DEFINE s == RingOf(buf, i, j)
           t == RingOf(buf, After(i), j)
           d == Distance(i, j)
<1>1. After(i) \in Slot /\ d \in Nat /\ d >= 1 /\ Distance(After(i), j) = d - 1
  BY AfterSlot, DistanceAfter, DistanceNat
<1>2. s \in Seq(Int) /\ Len(s) = d
      /\ \A k \in 1 .. d : s[k] = buf[Nth(i, k)]
  BY RingOfType
<1>3. t \in Seq(Int) /\ Len(t) = d - 1
      /\ \A k \in 1 .. d - 1 : t[k] = buf[Nth(After(i), k)]
  <2> HIDE DEF d
  <2>1. /\ RingOf(buf, After(i), j) \in Seq(Int)
        /\ Len(RingOf(buf, After(i), j)) = Distance(After(i), j)
        /\ \A k \in 1 .. Distance(After(i), j) :
             RingOf(buf, After(i), j)[k] = buf[Nth(After(i), k)]
    BY <1>1, RingOfType
  <2> QED
    BY <1>1, <2>1
<1>4. <<buf[i]>> \in Seq(Int) /\ Len(<<buf[i]>>) = 1 /\ <<buf[i]>>[1] = buf[i]
  OBVIOUS
<1>5. /\ <<buf[i]>> \o t \in Seq(Int) /\ Len(<<buf[i]>> \o t) = d
      /\ \A k \in 1 .. d : (<<buf[i]>> \o t)[k] = IF k <= 1 THEN buf[i] ELSE t[k - 1]
  <2> HIDE DEF s, t, d
  <2>1. /\ <<buf[i]>> \o t \in Seq(Int)
        /\ Len(<<buf[i]>> \o t) = 1 + (d - 1)
        /\ \A k \in 1 .. 1 + (d - 1) : (<<buf[i]>> \o t)[k] =
             IF k <= 1 THEN <<buf[i]>>[k] ELSE t[k - 1]
    BY <1>3, <1>4, ConcatProperties
  <2>2. 1 + (d - 1) = d
    BY <1>1
  <2> QED
    BY <1>1, <1>4, <2>1, <2>2
<1>6. ASSUME NEW k \in 1 .. d PROVE s[k] = (<<buf[i]>> \o t)[k]
  <2>0. d \in Nat /\ d <= UpSize - 1 /\ UpSize \in Nat
    BY <1>1, UpAssumption DEF Slot, Distance
  <2>1. CASE k = 1
    <3>1. Nth(i, 1) = i
      BY UpAssumption, NthIs DEF Slot
    <3> HIDE DEF s, t, d
    <3> QED
      BY <1>1, <1>2, <1>5, <2>1, <3>1
  <2>2. CASE k # 1
    <3> HIDE DEF s, t, d
    <3>1. k - 1 \in 1 .. d - 1 /\ k \in 2 .. UpSize - 1 /\ ~(k <= 1)
      BY <1>1, <2>0, <2>2
    <3>2. Nth(i, k) = Nth(After(i), k - 1)
      BY <3>1, NthAfter
    <3>3. s[k] = buf[Nth(i, k)] /\ t[k - 1] = buf[Nth(After(i), k - 1)]
      BY <1>2, <1>3, <3>1
    <3> QED
      BY <1>5, <3>1, <3>2, <3>3
  <2> QED
    BY <2>1, <2>2
<1> QED
  <2> HIDE DEF s, t, d
  <2>1. s = <<buf[i]>> \o t
    BY <1>2, <1>5, <1>6, SeqEqual
  <2> QED
    BY <2>1 DEF s, t

(* A byte stored before the end is the last of what lies between then.     *)
LEMMA RingExtend ==
  ASSUME NEW buf \in [Slot -> Int], NEW i \in Slot, NEW j \in Slot, NEW h \in Int,
         After(j) # i
  PROVE  RingOf([buf EXCEPT ![j] = h], i, After(j)) = RingOf(buf, i, j) \o <<h>>
<1> DEFINE new == [buf EXCEPT ![j] = h]
           s == RingOf(new, i, After(j))
           t == RingOf(buf, i, j)
           d == Distance(i, j)
<1>1. After(j) \in Slot /\ d \in Nat /\ Distance(i, After(j)) = d + 1
  BY AfterSlot, DistanceNat
<1>2. s \in Seq(Int) /\ Len(s) = d + 1
      /\ \A k \in 1 .. d + 1 : s[k] = new[Nth(i, k)]
  <2>1. new \in [Slot -> Int]
    OBVIOUS
  <2> HIDE DEF new, d
  <2>2. /\ RingOf(new, i, After(j)) \in Seq(Int)
        /\ Len(RingOf(new, i, After(j))) = Distance(i, After(j))
        /\ \A k \in 1 .. Distance(i, After(j)) : RingOf(new, i, After(j))[k] = new[Nth(i, k)]
    BY ONLY <1>1, <2>1, RingOfType, i \in Slot, j \in Slot
  <2> QED
    BY <1>1, <2>2
<1>3. t \in Seq(Int) /\ Len(t) = d
      /\ \A k \in 1 .. d : t[k] = buf[Nth(i, k)]
  BY RingOfType
<1>4. <<h>> \in Seq(Int) /\ Len(<<h>>) = 1 /\ <<h>>[1] = h
  OBVIOUS
<1>5. /\ t \o <<h>> \in Seq(Int) /\ Len(t \o <<h>>) = d + 1
      /\ \A k \in 1 .. d + 1 : (t \o <<h>>)[k] = IF k <= d THEN t[k] ELSE <<h>>[k - d]
  <2> HIDE DEF s, t, d
  <2> QED
    BY <1>3, <1>4, ConcatProperties
<1>6. ASSUME NEW k \in 1 .. d + 1 PROVE s[k] = (t \o <<h>>)[k]
  <2>0. k \in 1 .. Distance(i, After(j))
    BY <1>1
  <2>1. Nth(i, k) \in Slot /\ Distance(i, Nth(i, k)) = k - 1
    BY <1>1, <2>0, RingSlot
  <2>2. CASE k = d + 1
    <3>1. Distance(i, Nth(i, k)) = Distance(i, j)
      BY <1>1, <2>1, <2>2
    <3>2. Nth(i, k) = j
      BY <2>1, <3>1, UpAssumption, SMTT(30) DEF Slot, Distance
    <3>3. new[j] = h
      OBVIOUS
    <3>4. s[k] = h
      BY <1>2, <3>2, <3>3
    <3>5. k - d = 1 /\ ~(k <= d)
      BY <1>1, <2>2
    <3> QED
      BY <1>4, <1>5, <3>4, <3>5
  <2>3. CASE k # d + 1
    <3>1. k \in 1 .. d
      BY <1>1, <2>3
    <3>2. Nth(i, k) # j
      BY <1>1, <2>1, <3>1
    <3>3. new[Nth(i, k)] = buf[Nth(i, k)]
      BY <2>1, <3>2
    <3>4. s[k] = buf[Nth(i, k)] /\ t[k] = buf[Nth(i, k)]
      BY <1>2, <1>3, <3>1, <3>3
    <3>5. k <= d
      BY <1>1, <3>1
    <3> HIDE DEF s, t, d
    <3> QED
      BY <1>5, <3>4, <3>5
  <2> QED
    BY <2>2, <2>3
<1> QED
  <2> HIDE DEF s, t, d, new
  <2>1. s = t \o <<h>>
    BY <1>2, <1>5, <1>6, SeqEqual
  <2> QED
    BY <2>1 DEF s, t, new

(***************************************************************************)
(* Where the text is.                                                      *)

(* What is left of the host's part, and of the ring for it; what rtt_write *)
(* has not begun with.                                                     *)
Front == IF host = "reading" THEN host_rd ELSE RdOff
Back == IF InRtt THEN wr_idx ELSE WrOff
Sent == got \o RingOf(rtt_buffer_up, Front, Back)
Held == IF thread \in {"full_flush", "flush"} THEN <<>> ELSE writer_buf

(* rtt_write is over when nothing is left of its text, a call of the       *)
(* Writer when nothing is left of its own; the host does not read past the *)
(* part it has looked at.                                                  *)
PlaceInv ==
  /\ ~InRtt => str = <<>>
  /\ thread \in {"out", "flush", "error"} => rest = <<>>
  /\ host = "reading" => Distance(RdOff, host_rd) <= Distance(RdOff, host_wr)

LEMMA PlaceInit == Init => PlaceInv
  BY UpAssumption DEF Init, UpInit, PlaceInv, InRtt

LEMMA PlaceStep ==
  ASSUME PlaceInv, RingInv, TypeOK, [Next]_vars
  PROVE  PlaceInv'
<1>0. Indices
  BY DEF RingInv
<1>1. CASE HostNext /\ UNCHANGED writervars
  <2>0. UNCHANGED <<thread, rest, str>>
    BY <1>1 DEF HostNext, HostLook, HostCopy, HostRelease, writervars, callvars
  <2>1. CASE HostLook
    <3>1. host_rd' = RdOff /\ RdOff' = RdOff /\ host_wr' \in Slot
      BY <1>0, <2>1 DEF HostLook, offsets, Indices
    <3>2. Distance(RdOff, RdOff) <= Distance(RdOff, host_wr')
      BY <1>0, <3>1, DistanceNat DEF Indices
    <3> QED
      BY <2>0, <3>1, <3>2 DEF PlaceInv, InRtt, Distance
  <2>2. CASE HostCopy
    <3>1. /\ host = "reading" /\ host_rd # host_wr /\ host_rd' = After(host_rd)
          /\ UNCHANGED <<RdOff, host, host_wr>>
      BY <2>2 DEF HostCopy, offsets
    <3>2. Distance(RdOff, After(host_rd)) <= Distance(RdOff, host_wr)
      BY <1>0, <3>1, UpAssumption, SMTT(30) DEF Indices, Slot, Distance, After, PlaceInv
    <3> QED
      BY <2>0, <3>1, <3>2 DEF PlaceInv, InRtt, Distance
  <2>3. CASE HostRelease
    BY <2>0, <2>3 DEF HostRelease, PlaceInv, InRtt
  <2> QED
    BY <1>1, <2>1, <2>2, <2>3 DEF HostNext
<1>2. CASE UNCHANGED hostvars /\ UNCHANGED RdOff /\ (~InRtt' => str' = <<>>)
           /\ (thread' \in {"out", "flush", "error"} => rest' = <<>>)
  BY <1>2 DEF PlaceInv, hostvars, Distance
<1>3. ASSUME NEW n \in 1 .. MaxText, Write(n) \/ WriterError(n) PROVE PlaceInv'
  BY <1>2, <1>3 DEF Write, WriterError, RttWrite, PlaceInv, InRtt, upvars, offsets, callvars
<1>4. CASE Flush \/ WriteFull \/ WriteTurn \/ WriteReturn
  BY <1>2, <1>4 DEF Flush, WriteFull, WriteTurn, WriteReturn, RttWrite, PlaceInv, InRtt,
     upvars, offsets, callvars
<1>5. CASE RttStep
  BY <1>2, <1>5 DEF RttStep, StoreByte, PlaceInv, InRtt, writervars, offsets
<1>6. CASE RttReturn
  BY <1>2, <1>6 DEF RttReturn, Publish, PlaceInv, InRtt, offsets
<1>7. CASE UNCHANGED vars
  BY <1>2, <1>7 DEF vars, upvars, writervars, offsets, callvars, PlaceInv, InRtt
<1> QED
  BY <1>1, <1>3, <1>4, <1>5, <1>6, <1>7 DEF Next, Call, Run

(* Every part of the stream is a text.                                     *)
LEMMA PartTypes ==
  ASSUME TypeOK, RingInv
  PROVE  /\ Front \in Slot /\ Back \in Slot
         /\ RingOf(rtt_buffer_up, Front, Back) \in Seq(Int)
         /\ Len(RingOf(rtt_buffer_up, Front, Back)) = Distance(Front, Back)
         /\ got \in Seq(Int) /\ Sent \in Seq(Int) /\ str \in Seq(Int)
         /\ writer_buf \in Seq(Int) /\ Held \in Seq(Int) /\ rest \in Seq(Int)
<1>1. Front \in Slot /\ Back \in Slot
  BY DEF RingInv, Indices, Front, Back
<1>2. /\ RingOf(rtt_buffer_up, Front, Back) \in Seq(Int)
      /\ Len(RingOf(rtt_buffer_up, Front, Back)) = Distance(Front, Back)
  BY <1>1, RingOfType DEF RingInv
<1>3. got \in Seq(Int) /\ str \in Seq(Int) /\ writer_buf \in Seq(Int) /\ rest \in Seq(Int)
  BY DEF TypeOK, UpTypeOK
<1>4. Sent \in Seq(Int)
  BY <1>2, <1>3, ConcatProperties DEF Sent
<1>5. Held \in Seq(Int)
  <2>1. <<>> \in Seq(Int)
    BY EmptySeq
  <2> QED
    BY <1>3, <2>1 DEF Held
<1> QED
  BY <1>1, <1>2, <1>3, <1>4, <1>5

LEMMA StreamIs == Stream = ((Sent \o str) \o Held) \o rest
  BY DEF Stream, Sent, Held, Front, Back, Ring, RingOf, Nth

LEMMA StreamNext == Stream' = ((Sent' \o str') \o Held') \o rest'
  BY DEF Stream, Sent, Held, Front, Back, Ring, RingOf, Nth

(***************************************************************************)
(* Most steps only move text from one part of the stream to the next.      *)

(* Concatenation regroups; the operators keep the brackets as they stand.  *)
Assoc(s, t, u) == (s \o t) \o u = s \o (t \o u)
Regroups(s, t, u, v) == (s \o (t \o u)) \o v = (s \o t) \o (u \o v)

LEMMA ConcatThree ==
  ASSUME NEW s \in Seq(Int), NEW t \in Seq(Int), NEW u \in Seq(Int)
  PROVE  Assoc(s, t, u)
  BY ConcatAssociative, SMTT(30) DEF Assoc

LEMMA ConcatFour ==
  ASSUME NEW s \in Seq(Int), NEW t \in Seq(Int), NEW u \in Seq(Int), NEW v \in Seq(Int)
  PROVE  Regroups(s, t, u, v)
<1> DEFINE x == s \o t
<1>1. x \in Seq(Int)
  BY ConcatProperties
<1>2. x \o u = s \o (t \o u)
  BY ConcatThree, ZenonT(30) DEF Assoc
<1> HIDE DEF x
<1>3. (x \o u) \o v = x \o (u \o v)
  BY <1>1, ConcatThree DEF Assoc
<1> QED
  BY <1>2, <1>3 DEF Regroups, x

(* A byte stored.                                                          *)
LEMMA StoreMoves ==
  ASSUME TypeOK, RingInv, PlaceInv, RttStep
  PROVE  Stream' = Stream
<1> DEFINE ring == RingOf(rtt_buffer_up, Front, Back)
           h == Head(str)
<1>1. /\ InRtt /\ str # <<>> /\ After(wr_idx) # rd_idx
      /\ rtt_buffer_up' = [rtt_buffer_up EXCEPT ![wr_idx] = h]
      /\ wr_idx' = After(wr_idx) /\ str' = Tail(str)
      /\ UNCHANGED <<RdOff, thread, host, host_rd, got, writer_buf, rest>>
  BY DEF RttStep, StoreByte, HasRoom, offsets, hostvars, writervars
<1>2. Indices /\ Ordered /\ rtt_buffer_up \in [Slot -> Int]
  BY DEF RingInv
<1>3. Back = wr_idx /\ Back' = After(wr_idx) /\ Front' = Front /\ Front \in Slot
  BY <1>1, <1>2 DEF Back, Front, InRtt, Indices
<1>4. After(wr_idx) # Front
  <2>1. /\ Distance(rd_idx, RdOff) <= Distance(rd_idx, WrOff)
        /\ Distance(rd_idx, WrOff) <= Distance(rd_idx, wr_idx)
    BY <1>1, <1>2 DEF Ordered
  <2>2. Distance(rd_idx, After(wr_idx)) = Distance(rd_idx, wr_idx) + 1
    BY <1>1, <1>2, AfterSlot DEF Indices
  <2>3. CASE host = "reading"
    <3>1. /\ Distance(RdOff, host_rd) <= Distance(RdOff, host_wr)
          /\ Distance(RdOff, host_wr) <= Distance(RdOff, WrOff)
      BY <1>2, <2>3 DEF PlaceInv, Ordered
    <3>2. /\ Distance(RdOff, host_rd) \in Nat /\ Distance(RdOff, host_wr) \in Nat
          /\ Distance(RdOff, WrOff) \in Nat
      BY <1>2, DistanceNat DEF Indices
    <3>3. Distance(RdOff, host_rd) <= Distance(RdOff, WrOff)
      BY <3>1, <3>2
    <3>4. Distance(rd_idx, host_rd) <= Distance(rd_idx, WrOff)
      BY <1>2, <2>1, <3>3, Stages DEF Indices
    <3>5. /\ Distance(rd_idx, host_rd) \in Nat /\ Distance(rd_idx, WrOff) \in Nat
          /\ Distance(rd_idx, wr_idx) \in Nat
      BY <1>2, DistanceNat DEF Indices
    <3> QED
      BY <2>1, <2>2, <2>3, <3>4, <3>5 DEF Front
  <2>4. CASE host # "reading"
    <3>1. /\ Distance(rd_idx, RdOff) \in Nat /\ Distance(rd_idx, WrOff) \in Nat
          /\ Distance(rd_idx, wr_idx) \in Nat
      BY <1>2, DistanceNat DEF Indices
    <3> QED
      BY <2>1, <2>2, <2>4, <3>1 DEF Front
  <2> QED
    BY <2>3, <2>4
<1>5. /\ h \in Int /\ Tail(str) \in Seq(Int) /\ <<h>> \in Seq(Int) /\ <<h>> \o Tail(str) = str
  BY <1>1 DEF TypeOK, UpTypeOK
<1>6. RingOf(rtt_buffer_up, Front, Back)' = ring \o <<h>>
  <2>1. RingOf([rtt_buffer_up EXCEPT ![wr_idx] = h], Front, After(wr_idx))
          = RingOf(rtt_buffer_up, Front, wr_idx) \o <<h>>
    BY <1>2, <1>3, <1>4, <1>5, RingExtend, ZenonT(30) DEF Indices
  <2>2. RingOf(rtt_buffer_up, Front, Back)'
          = RingOf([rtt_buffer_up EXCEPT ![wr_idx] = h], Front, After(wr_idx))
    BY <1>1, <1>3 DEF RingOf, Distance, Nth
  <2> QED
    BY <1>3, <2>1, <2>2
<1>7. got \in Seq(Int) /\ ring \in Seq(Int) /\ Sent \in Seq(Int)
  BY PartTypes
<1> HIDE DEF ring, h
<1>8. Sent' = Sent \o <<h>>
  <2>1. Sent' = got \o (ring \o <<h>>) /\ Sent = got \o ring
    BY <1>1, <1>6 DEF Sent, ring
  <2> QED
    BY <1>5, <1>7, <2>1, ConcatThree, SMTT(30) DEF Assoc
<1>9. Sent' \o str' = Sent \o str
  <2>1. (Sent \o <<h>>) \o Tail(str) = Sent \o (<<h>> \o Tail(str))
    BY <1>5, <1>7, ConcatThree DEF Assoc
  <2> QED
    BY <1>1, <1>5, <1>8, <2>1
<1>10. Held' = Held
  BY <1>1 DEF Held
<1> QED
  BY <1>1, <1>9, <1>10, StreamIs, StreamNext

(* What the host has received.                                             *)
LEMMA HostMoves ==
  ASSUME TypeOK, RingInv, PlaceInv, HostNext, UNCHANGED writervars
  PROVE  Stream' = Stream
<1>1. Indices /\ Ordered /\ rtt_buffer_up \in [Slot -> Int]
  BY DEF RingInv
<1>2. /\ UNCHANGED <<rtt_buffer_up, WrOff, wr_idx, rd_idx, str, thread, writer_buf, rest>>
      /\ Back' = Back /\ Held' = Held
  BY DEF HostNext, HostLook, HostCopy, HostRelease, writervars, callvars, offsets, Back,
     Held, InRtt
<1>3. CASE HostLook \/ HostRelease
  <2>1. got' = got /\ Front' = Front
    BY <1>3 DEF HostLook, HostRelease, Front, offsets
  <2>2. RingOf(rtt_buffer_up, Front, Back)' = RingOf(rtt_buffer_up, Front, Back)
    BY <1>2, <2>1 DEF RingOf, Distance, Nth
  <2>3. Sent' = Sent
    BY <2>1, <2>2 DEF Sent
  <2> QED
    BY <1>2, <2>3, StreamIs, StreamNext
<1>4. CASE HostCopy
  <2>1. /\ host = "reading" /\ host_rd # host_wr /\ host' = host
        /\ got' = Append(got, rtt_buffer_up[host_rd]) /\ host_rd' = After(host_rd)
    BY <1>4 DEF HostCopy
  <2>2. Front = host_rd /\ Front' = After(host_rd) /\ Front \in Slot /\ Back \in Slot
    BY <1>1, <2>1 DEF Front, Back, Indices
  <2>3. Front # Back
    <3>1. /\ Distance(RdOff, host_rd) <= Distance(RdOff, host_wr)
          /\ Distance(RdOff, host_wr) <= Distance(RdOff, WrOff)
      BY <1>1, <2>1 DEF PlaceInv, Ordered
    <3>2. Distance(RdOff, WrOff) <= Distance(RdOff, Back)
      <4>1. CASE InRtt
        BY <1>1, <4>1, Stages DEF Ordered, Indices, Back
      <4>2. CASE ~InRtt
        <5>1. Back = WrOff /\ Distance(RdOff, WrOff) \in Nat
          BY <1>1, <4>2, DistanceNat DEF Indices, Back
        <5> QED
          BY <5>1
      <4> QED
        BY <4>1, <4>2
    <3>3. Distance(RdOff, host_rd) # Distance(RdOff, host_wr)
      BY <1>1, <2>1, DistanceOne DEF Indices
    <3>4. /\ Distance(RdOff, host_rd) \in Nat /\ Distance(RdOff, host_wr) \in Nat
          /\ Distance(RdOff, WrOff) \in Nat /\ Distance(RdOff, Back) \in Nat
      BY <1>1, <2>2, DistanceNat DEF Indices
    <3>5. Distance(RdOff, host_rd) < Distance(RdOff, Back)
      BY <3>1, <3>2, <3>3, <3>4
    <3> QED
      BY <2>2, <3>4, <3>5
  <2> DEFINE b == rtt_buffer_up[host_rd]
             left == RingOf(rtt_buffer_up, After(host_rd), Back)
  <2>4. b \in Int /\ <<b>> \in Seq(Int) /\ After(host_rd) \in Slot
    BY <1>1, <2>2, AfterSlot
  <2>5. RingOf(rtt_buffer_up, Front, Back) = <<b>> \o left
    BY <1>1, <2>2, <2>3, RingTake
  <2>6. RingOf(rtt_buffer_up, Front, Back)' = left
    BY <1>2, <2>2 DEF RingOf, Distance, Nth
  <2>7. left \in Seq(Int) /\ got \in Seq(Int)
    BY <1>1, <2>2, <2>4, RingOfType, PartTypes
  <2> HIDE DEF b, left
  <2>8. Append(got, b) = got \o <<b>>
    BY <2>4, <2>7, AppendIsConcat
  <2>9. Sent' = (got \o <<b>>) \o left /\ Sent = got \o (<<b>> \o left)
    BY <2>1, <2>5, <2>6, <2>8 DEF Sent, b
  <2>10. Sent' = Sent
    BY <2>4, <2>7, <2>9, ConcatThree DEF Assoc
  <2> QED
    BY <1>2, <2>10, StreamIs, StreamNext
<1> QED
  BY <1>3, <1>4 DEF HostNext

(* The whole buffer handed to rtt_write.                                   *)
LEMMA BeginMoves ==
  ASSUME TypeOK, RingInv, PlaceInv, Flush \/ WriteFull
  PROVE  Stream' = Stream
<1>1. /\ ~InRtt /\ InRtt' /\ str = <<>> /\ str' = writer_buf /\ wr_idx' = WrOff
      /\ Held = writer_buf /\ Held' = <<>>
      /\ UNCHANGED <<rtt_buffer_up, RdOff, host, host_rd, got, rest>>
  BY DEF Flush, WriteFull, RttWrite, InRtt, Held, PlaceInv, offsets, hostvars
<1>2. Front' = Front /\ Back' = Back
  BY <1>1 DEF Front, Back
<1>3. RingOf(rtt_buffer_up, Front, Back)' = RingOf(rtt_buffer_up, Front, Back)
  BY <1>1, <1>2 DEF RingOf, Distance, Nth
<1>4. Sent' = Sent
  BY <1>1, <1>3 DEF Sent
<1>5. Sent \in Seq(Int) /\ writer_buf \in Seq(Int) /\ Sent \o writer_buf \in Seq(Int)
  BY PartTypes, ConcatProperties
<1>6. (Sent \o <<>>) \o writer_buf = (Sent \o writer_buf) \o <<>>
  BY <1>5, ConcatEmptySeq
<1> QED
  BY <1>1, <1>4, <1>6, StreamIs, StreamNext

(* The Writer's buffer takes as much as it has room for.                   *)
LEMMA TurnMoves ==
  ASSUME TypeOK, RingInv, PlaceInv, WriteTurn \/ WriteReturn
  PROVE  Stream' = Stream
<1>1. /\ ~InRtt /\ ~InRtt' /\ Held = writer_buf /\ Held' = writer_buf'
      /\ UNCHANGED <<rtt_buffer_up, RdOff, WrOff, host, host_rd, got, str>>
  BY DEF WriteTurn, WriteReturn, InRtt, Held, upvars, offsets, callvars, hostvars
<1>2. Front' = Front /\ Back' = Back
  BY <1>1 DEF Front, Back
<1>3. RingOf(rtt_buffer_up, Front, Back)' = RingOf(rtt_buffer_up, Front, Back)
  BY <1>1, <1>2 DEF RingOf, Distance, Nth
<1>4. Sent' = Sent
  BY <1>1, <1>3 DEF Sent
<1>5. CASE WriteReturn
  <2>1. UNCHANGED <<writer_buf, rest>>
    BY <1>5 DEF WriteReturn
  <2> QED
    BY <1>1, <1>4, <2>1, StreamIs, StreamNext
<1>6. CASE WriteTurn
  <2> DEFINE a == SubSeq(rest, 1, Portion)
             b == SubSeq(rest, Portion + 1, Len(rest))
             x == Sent \o str
  <2>1. writer_buf' = writer_buf \o a /\ rest' = b
    BY <1>6 DEF WriteTurn
  <2>2. /\ Sent \in Seq(Int) /\ str \in Seq(Int) /\ writer_buf \in Seq(Int)
        /\ rest \in Seq(Int)
    BY PartTypes
  <2>3. Portion \in 0 .. Len(rest)
    BY <1>6, ConsoleAssumption DEF WriteTurn, Portion, Space, TypeOK
  <2>4. a \in Seq(Int) /\ b \in Seq(Int)
    BY <2>2, <2>3
  <2>5. a \o b = rest
    <3>1. 1 \in 1 .. Len(rest) + 1 /\ Portion \in 1 - 1 .. Len(rest)
          /\ Len(rest) \in Portion .. Len(rest)
      BY <2>2, <2>3
    <3>2. a \o b = SubSeq(rest, 1, Len(rest))
      BY <2>2, <3>1, ConcatAdjacentSubSeq
    <3> QED
      BY <2>2, <3>2, SubSeqFull
  <2>6. x \in Seq(Int)
    BY <2>2, ConcatProperties
  <2> HIDE DEF a, b, x
  <2>7. (x \o (writer_buf \o a)) \o b = (x \o writer_buf) \o (a \o b)
    <3>1. Regroups(x, writer_buf, a, b)
      BY <2>2, <2>4, <2>6, ConcatFour
    <3> QED
      BY <3>1 DEF Regroups
  <2>8. (x \o writer_buf') \o rest' = (x \o writer_buf) \o rest
    BY <2>1, <2>5, <2>7
  <2> QED
    BY <1>1, <1>4, <2>8, StreamIs, StreamNext DEF x
<1> QED
  BY <1>5, <1>6

(***************************************************************************)
(* The other steps add text, in one place, or drop what rtt_write has      *)
(* left.                                                                   *)

Joined(s, t, u, v) == ((s \o t) \o u) \o v

LEMMA StreamJoined ==
  Stream = Joined(Sent, str, Held, rest) /\ Stream' = Joined(Sent', str', Held', rest')
  BY StreamIs, StreamNext DEF Joined

LengthsAdd(s, t, u, v) ==
  /\ Joined(s, t, u, v) \in Seq(Int)
  /\ Len(Joined(s, t, u, v)) = Len(s) + Len(t) + Len(u) + Len(v)

LEMMA JoinedLength ==
  ASSUME NEW s \in Seq(Int), NEW t \in Seq(Int), NEW u \in Seq(Int), NEW v \in Seq(Int)
  PROVE  LengthsAdd(s, t, u, v)
<1>1. s \o t \in Seq(Int) /\ Len(s \o t) = Len(s) + Len(t)
  BY ConcatProperties
<1>2. (s \o t) \o u \in Seq(Int) /\ Len((s \o t) \o u) = Len(s) + Len(t) + Len(u)
  BY <1>1, ConcatProperties
<1> DEFINE w == (s \o t) \o u
<1> HIDE DEF w
<1>3. w \o v \in Seq(Int) /\ Len(w \o v) = Len(w) + Len(v)
  BY <1>2, ConcatProperties DEF w
<1> QED
  BY <1>2, <1>3 DEF Joined, w, LengthsAdd

(* The texts of the callers.                                               *)
Text(n) == [i \in 1 .. n |-> written + i]
ErrorText(n) == [i \in 1 .. n |-> -(errors + i)]

LEMMA WriteParts ==
  ASSUME TypeOK, RingInv, PlaceInv, NEW n \in 1 .. MaxText, Write(n)
  PROVE  /\ Sent' = Sent /\ str' = str /\ Held' = Held /\ rest = <<>> /\ rest' = Text(n)
         /\ written' = written + n /\ UNCHANGED <<errors, rtt_bytes_dropped>>
<1>1. /\ thread = "out" /\ thread' = "loop" /\ rest = <<>> /\ rest' = Text(n)
      /\ written' = written + n /\ UNCHANGED <<upvars, writer_buf, errors>>
  BY DEF Write, PlaceInv, Text
<1>2. Front' = Front /\ Back' = Back /\ Held' = Held /\ UNCHANGED <<rtt_buffer_up, got>>
  BY <1>1 DEF Front, Back, Held, InRtt, upvars, offsets, callvars, hostvars
<1>3. RingOf(rtt_buffer_up, Front, Back)' = RingOf(rtt_buffer_up, Front, Back)
  BY <1>2 DEF RingOf, Distance, Nth
<1> QED
  BY <1>1, <1>2, <1>3 DEF Sent, upvars, callvars

LEMMA ErrorParts ==
  ASSUME TypeOK, RingInv, PlaceInv, NEW n \in 1 .. MaxText, WriterError(n)
  PROVE  /\ Sent' = Sent /\ str = <<>> /\ str' = ErrorText(n) /\ Held = writer_buf
         /\ Held' = Held /\ rest = <<>> /\ rest' = rest
         /\ errors' = errors + n /\ UNCHANGED <<written, rtt_bytes_dropped>>
<1>1. /\ thread = "out" /\ thread' = "error" /\ rest = <<>> /\ str = <<>>
      /\ str' = ErrorText(n) /\ wr_idx' = WrOff /\ errors' = errors + n
      /\ UNCHANGED <<rtt_buffer_up, WrOff, RdOff, hostvars, writer_buf, rest, written,
                     rtt_bytes_dropped>>
  BY DEF WriterError, RttWrite, PlaceInv, InRtt, ErrorText, offsets
<1>2. Front' = Front /\ Back' = Back /\ got' = got /\ Held = writer_buf /\ Held' = Held
  BY <1>1 DEF Front, Back, Held, InRtt, hostvars
<1>3. RingOf(rtt_buffer_up, Front, Back)' = RingOf(rtt_buffer_up, Front, Back)
  BY <1>1, <1>2 DEF RingOf, Distance, Nth
<1> QED
  BY <1>1, <1>2, <1>3 DEF Sent

LEMMA ReturnParts ==
  ASSUME TypeOK, RingInv, PlaceInv, RttReturn
  PROVE  /\ Sent' = Sent /\ str' = <<>> /\ Held' = Held /\ rest' = rest
         /\ rtt_bytes_dropped' = (rtt_bytes_dropped + Len(str)) % Wrap
         /\ UNCHANGED <<written, errors>>
<1>1. /\ InRtt /\ WrOff' = wr_idx /\ str' = <<>> /\ thread' \in {"loop", "out"}
      /\ rtt_bytes_dropped' = (rtt_bytes_dropped + Len(str)) % Wrap
      /\ writer_buf' = IF thread = "error" THEN writer_buf ELSE <<>>
      /\ UNCHANGED <<rtt_buffer_up, RdOff, hostvars, rest, written, errors>>
  BY DEF RttReturn, Publish
<1>2. Front' = Front /\ Back' = Back /\ got' = got /\ Held' = Held
  BY <1>1 DEF Front, Back, Held, InRtt, hostvars
<1>3. RingOf(rtt_buffer_up, Front, Back)' = RingOf(rtt_buffer_up, Front, Back)
  BY <1>1, <1>2 DEF RingOf, Distance, Nth
<1> QED
  BY <1>1, <1>2, <1>3 DEF Sent

(* Any step is one of the three, or moves text.                            *)
LEMMA StreamStep ==
  ASSUME TypeOK, RingInv, PlaceInv, [Next]_vars
  PROVE  \/ Stream' = Stream /\ UNCHANGED <<written, errors, rtt_bytes_dropped>>
         \/ \E n \in 1 .. MaxText : Write(n) \/ WriterError(n)
         \/ RttReturn
<1>1. CASE RttStep
  BY <1>1, StoreMoves DEF RttStep, StoreByte, writervars
<1>2. CASE HostNext /\ UNCHANGED writervars
  BY <1>2, HostMoves DEF HostNext, HostLook, HostCopy, HostRelease, writervars
<1>3. CASE Flush \/ WriteFull
  BY <1>3, BeginMoves DEF Flush, WriteFull, RttWrite
<1>4. CASE WriteTurn \/ WriteReturn
  BY <1>4, TurnMoves DEF WriteTurn, WriteReturn, upvars
<1>5. CASE UNCHANGED vars
  <2>1. UNCHANGED <<Front, Back, Held, got, str, rest, written, errors, rtt_bytes_dropped>>
    BY <1>5 DEF vars, upvars, writervars, offsets, callvars, hostvars, Front, Back, Held, InRtt
  <2>2. RingOf(rtt_buffer_up, Front, Back)' = RingOf(rtt_buffer_up, Front, Back)
    BY <1>5, <2>1 DEF RingOf, Distance, Nth, vars, upvars
  <2>3. Sent' = Sent
    BY <2>1, <2>2 DEF Sent
  <2> QED
    BY <2>1, <2>3, StreamJoined
<1> QED
  BY <1>1, <1>2, <1>3, <1>4, <1>5 DEF Next, Call, Run

(***************************************************************************)
(* Nothing is lost uncounted.                                              *)

LEMMA Product == \A a, b \in Nat : a * b \in Nat
  OBVIOUS

(* Two multiples of w less than w apart are the same.                      *)
LEMMA ProductGap ==
  ASSUME NEW w \in Nat \ {0}, NEW d \in Int, 0 - w < w * d, w * d < w
  PROVE  d = 0
<1>1. CASE d >= 1
  <2>1. d - 1 \in Nat /\ w * d = w + w * (d - 1)
    BY <1>1
  <2>2. w * (d - 1) \in Nat
    BY <2>1, Product
  <2> QED
    BY <2>1, <2>2
<1>2. CASE d <= -1
  <2>1. (-d) - 1 \in Nat /\ w * d = 0 - (w + w * ((-d) - 1))
    BY <1>2
  <2>2. w * ((-d) - 1) \in Nat
    BY <2>1, Product
  <2> QED
    BY <2>1, <2>2
<1> QED
  BY <1>1, <1>2

LEMMA DivMod ==
  \A w \in Nat \ {0} : \A n \in Int :
    n % w \in 0 .. w - 1 /\ n \div w \in Int /\ n = w * (n \div w) + (n % w)
  OBVIOUS

(* A number has one remainder.                                             *)
LEMMA ModUnique ==
  ASSUME NEW w \in Nat \ {0}, NEW q \in Int, NEW p \in Int,
         NEW a \in 0 .. w - 1, NEW b \in 0 .. w - 1, w * q + a = w * p + b
  PROVE  a = b
<1>1. w * (q - p) = b - a
  OBVIOUS
<1>2. q - p \in Int /\ 0 - w < b - a /\ b - a < w
  OBVIOUS
<1>3. q - p = 0
  BY <1>1, <1>2, ProductGap
<1> QED
  BY <1>1, <1>3

(* A counter of limited width, taken as it is or reduced before.           *)
LEMMA ModAdd ==
  ASSUME NEW w \in Nat \ {0}, NEW a \in Int, NEW b \in Int
  PROVE  ((a % w) + b) % w = (a + b) % w
<1> DEFINE r == a % w
           q == a \div w
           c == r + b
           d == a + b
<1>1. r \in 0 .. w - 1 /\ q \in Int /\ a = w * q + r
  BY DivMod
<1>2. c \in Int /\ d \in Int
  BY <1>1
<1>3. d = w * q + c
  BY <1>1
<1> HIDE DEF c, d, q, r
<1>4. c % w \in 0 .. w - 1 /\ c \div w \in Int /\ c = w * (c \div w) + (c % w)
  BY <1>2, DivMod
<1>5. d % w \in 0 .. w - 1 /\ d \div w \in Int /\ d = w * (d \div w) + (d % w)
  BY <1>2, DivMod
<1> DEFINE cq == c \div w
           cr == c % w
           dq == d \div w
           dr == d % w
<1>6. cq \in Int /\ dq \in Int /\ cr \in 0 .. w - 1 /\ dr \in 0 .. w - 1
      /\ c = w * cq + cr /\ d = w * dq + dr
  BY <1>4, <1>5
<1> HIDE DEF cq, cr, dq, dr
<1>7. q + cq \in Int /\ w * (q + cq) = w * q + w * cq
  BY <1>1, <1>6
<1>8. w * (q + cq) + cr = w * dq + dr
  BY <1>1, <1>3, <1>6, <1>7
<1>9. cr = dr
  BY <1>6, <1>7, <1>8, ModUnique
<1> QED
  BY <1>9 DEF cr, dr, c, d, r

(* A caller's text has the length it was asked for.                        *)
LEMMA TextLength ==
  ASSUME TypeOK, NEW n \in 1 .. MaxText
  PROVE  /\ Text(n) \in Seq(Int) /\ Len(Text(n)) = n
         /\ ErrorText(n) \in Seq(Int) /\ Len(ErrorText(n)) = n
         /\ \A i \in 1 .. n : Text(n)[i] = written + i /\ ErrorText(n)[i] = -(errors + i)
<1>1. n \in Nat /\ written \in Nat /\ errors \in Nat
  BY ConsoleAssumption DEF TypeOK
<1>2. Text(n) \in Seq(Int) /\ ErrorText(n) \in Seq(Int)
  BY <1>1, TextType DEF Text, ErrorText
<1> QED
  BY <1>1, <1>2 DEF Text, ErrorText

LEMMA AccountedInit == Init => Accounted
<1> SUFFICES ASSUME Init PROVE Accounted
  OBVIOUS
<1>1. TypeOK /\ RingInv
  BY TypeInit, RingInvInit
<1>2. Front = Back /\ got = <<>> /\ str = <<>> /\ Held = <<>> /\ rest = <<>>
  BY DEF Init, UpInit, Front, Back, Held, InRtt
<1>3. Len(RingOf(rtt_buffer_up, Front, Back)) = 0
  BY <1>1, <1>2, PartTypes, DistanceNat
<1>4. Len(Sent) = 0
  BY <1>1, <1>2, <1>3, PartTypes, ConcatProperties DEF Sent
<1>5. Len(<<>>) = 0
  BY EmptyText
<1>6. Len(Stream) = 0
  <2>1. /\ Sent \in Seq(Int) /\ str \in Seq(Int) /\ Held \in Seq(Int) /\ rest \in Seq(Int)
        /\ Len(str) = 0 /\ Len(Held) = 0 /\ Len(rest) = 0
    BY <1>1, <1>2, <1>5, PartTypes
  <2>2. LengthsAdd(Sent, str, Held, rest)
    BY <2>1, JoinedLength
  <2> QED
    BY <1>4, <2>1, <2>2, StreamJoined DEF LengthsAdd
<1>7. written = 0 /\ errors = 0 /\ rtt_bytes_dropped = 0 /\ 0 % Wrap = 0
  BY UpAssumption DEF Init, UpInit
<1> QED
  BY <1>6, <1>7 DEF Accounted

LEMMA AccountedStep ==
  ASSUME TypeOK, RingInv, PlaceInv, Accounted, [Next]_vars
  PROVE  Accounted'
<1>1. /\ Sent \in Seq(Int) /\ str \in Seq(Int) /\ Held \in Seq(Int) /\ rest \in Seq(Int)
      /\ <<>> \in Seq(Int) /\ Len(<<>>) = 0
  BY PartTypes, EmptyText
<1>2. Len(Stream) = Len(Sent) + Len(str) + Len(Held) + Len(rest)
  <2>1. LengthsAdd(Sent, str, Held, rest)
    BY <1>1, JoinedLength
  <2> QED
    BY <2>1, StreamJoined DEF LengthsAdd
<1>3. /\ Len(Sent) \in Nat /\ Len(str) \in Nat /\ Len(Held) \in Nat /\ Len(rest) \in Nat
      /\ written \in Nat /\ errors \in Nat
  BY <1>1 DEF TypeOK
<1>4. CASE Stream' = Stream /\ UNCHANGED <<written, errors, rtt_bytes_dropped>>
  BY <1>4 DEF Accounted
<1>5. ASSUME NEW n \in 1 .. MaxText, Write(n) PROVE Accounted'
  <2>1. /\ Sent' = Sent /\ str' = str /\ Held' = Held /\ rest = <<>> /\ rest' = Text(n)
        /\ written' = written + n /\ errors' = errors
        /\ rtt_bytes_dropped' = rtt_bytes_dropped
    BY <1>5, WriteParts
  <2>2. Text(n) \in Seq(Int) /\ Len(Text(n)) = n /\ n \in Nat
    BY TextLength, ConsoleAssumption
  <2>3. Stream' = Joined(Sent, str, Held, Text(n))
    BY <2>1, StreamJoined
  <2>4. Len(Stream') = Len(Sent) + Len(str) + Len(Held) + n
    <3>1. LengthsAdd(Sent, str, Held, Text(n))
      BY <1>1, <2>2, JoinedLength
    <3> QED
      BY <2>2, <2>3, <3>1 DEF LengthsAdd
  <2>5. Len(rest) = 0
    BY <1>1, <2>1
  <2>6. written' + errors' - Len(Stream') = written + errors - Len(Stream)
    BY <1>2, <1>3, <2>1, <2>2, <2>4, <2>5
  <2> QED
    BY <2>1, <2>6 DEF Accounted
<1>6. ASSUME NEW n \in 1 .. MaxText, WriterError(n) PROVE Accounted'
  <2>1. /\ Sent' = Sent /\ str = <<>> /\ str' = ErrorText(n) /\ Held' = Held /\ rest' = rest
        /\ errors' = errors + n /\ written' = written
        /\ rtt_bytes_dropped' = rtt_bytes_dropped
    BY <1>6, ErrorParts
  <2>2. ErrorText(n) \in Seq(Int) /\ Len(ErrorText(n)) = n /\ n \in Nat
    BY TextLength, ConsoleAssumption
  <2>3. Stream' = Joined(Sent, ErrorText(n), Held, rest)
    BY <2>1, StreamJoined
  <2>4. Len(Stream') = Len(Sent) + n + Len(Held) + Len(rest)
    <3>1. LengthsAdd(Sent, ErrorText(n), Held, rest)
      BY <1>1, <2>2, JoinedLength
    <3> QED
      BY <2>2, <2>3, <3>1 DEF LengthsAdd
  <2>5. Len(str) = 0
    BY <1>1, <2>1
  <2>6. written' + errors' - Len(Stream') = written + errors - Len(Stream)
    BY <1>2, <1>3, <2>1, <2>2, <2>4, <2>5
  <2> QED
    BY <2>1, <2>6 DEF Accounted
<1>7. CASE RttReturn
  <2>1. /\ Sent' = Sent /\ str' = <<>> /\ Held' = Held /\ rest' = rest
        /\ rtt_bytes_dropped' = (rtt_bytes_dropped + Len(str)) % Wrap
        /\ written' = written /\ errors' = errors
    BY <1>7, ReturnParts
  <2>2. Stream' = Joined(Sent, <<>>, Held, rest)
    BY <2>1, StreamJoined
  <2>3. Len(Stream') = Len(Sent) + Len(Held) + Len(rest)
    <3>1. LengthsAdd(Sent, <<>>, Held, rest)
      BY <1>1, JoinedLength
    <3> QED
      BY <1>1, <1>3, <2>2, <3>1 DEF LengthsAdd
  <2> DEFINE a == written + errors - Len(Stream)
             b == Len(str)
  <2>4. a \in Int /\ b \in Int /\ Wrap \in Nat \ {0}
    BY <1>2, <1>3, UpAssumption
  <2>5. written' + errors' - Len(Stream') = a + b
    BY <1>2, <1>3, <2>1, <2>3
  <2>6. rtt_bytes_dropped = a % Wrap
    BY DEF Accounted
  <2> HIDE DEF a, b
  <2>7. ((a % Wrap) + b) % Wrap = (a + b) % Wrap
    BY <2>4, ModAdd
  <2>8. rtt_bytes_dropped' = (rtt_bytes_dropped + b) % Wrap
    BY <2>1 DEF b
  <2> QED
    BY <2>5, <2>6, <2>7, <2>8 DEF Accounted
<1> QED
  BY <1>4, <1>5, <1>6, <1>7, StreamStep

(* What holds of the console at all times.                                 *)
ConsoleInv == TypeOK /\ RingInv /\ PlaceInv

LEMMA ConsoleInvariant == Spec => []ConsoleInv
<1>1. Init => ConsoleInv
  BY TypeInit, RingInvInit, PlaceInit DEF ConsoleInv
<1>2. ConsoleInv /\ [Next]_vars => ConsoleInv'
  BY TypeStep, RingInvStep, PlaceStep DEF ConsoleInv
<1> QED
  BY <1>1, <1>2, PTL DEF Spec

(* rtt_bytes_dropped is the number of bytes lost, modulo its width, for    *)
(* every size of the ring and of the buffer: rtt_write, rtt_flush and      *)
(* writer_error lose none that they do not count.                          *)
THEOREM LossesCounted == Spec => []Accounted
<1>1. Init => Accounted
  BY AccountedInit
<1>2. ConsoleInv /\ Accounted /\ [Next]_vars => Accounted'
  BY AccountedStep DEF ConsoleInv
<1> QED
  BY <1>1, <1>2, ConsoleInvariant, PTL DEF Spec

(* Only the end of rtt_write counts anything, and it then has stored all   *)
(* the ring had room for.                                                  *)
LEMMA DropStep ==
  ASSUME ConsoleInv, [Next]_vars
  PROVE  \/ rtt_bytes_dropped' = rtt_bytes_dropped
         \/ (rtt_bytes_dropped' - rtt_bytes_dropped) % Wrap =
              (Distance(rd_idx, wr_idx) + Len(str) - (UpSize - 1)) % Wrap
<1>0. TypeOK /\ RingInv /\ PlaceInv /\ Indices
  BY DEF ConsoleInv, RingInv
<1>1. CASE ~RttReturn
  BY <1>0, <1>1, StreamStep, WriteParts, ErrorParts
<1>2. CASE RttReturn
  <2>1. /\ str = <<>> \/ After(wr_idx) = rd_idx
        /\ rtt_bytes_dropped' = (rtt_bytes_dropped + Len(str)) % Wrap
    BY <1>2 DEF RttReturn, Publish, HasRoom
  <2>2. rtt_bytes_dropped \in 0 .. Wrap - 1 /\ Len(str) \in Nat /\ Wrap \in Nat \ {0}
    BY <1>0, UpAssumption DEF TypeOK, UpTypeOK
  <2>3. CASE str = <<>>
    <3>1. Len(str) = 0
      BY <2>3, EmptyText
    <3>2. rtt_bytes_dropped % Wrap = rtt_bytes_dropped
      BY <2>2, FirstRound
    <3>3. rtt_bytes_dropped + Len(str) = rtt_bytes_dropped
      BY <2>2, <3>1
    <3> QED
      BY <2>1, <3>2, <3>3
  <2>4. CASE After(wr_idx) = rd_idx
    <3>1. Distance(rd_idx, wr_idx) = UpSize - 1
      BY <1>0, <2>4, UpAssumption DEF Indices, Slot, After, Distance
    <3> DEFINE a == rtt_bytes_dropped + Len(str)
               b == 0 - rtt_bytes_dropped
    <3>2. a \in Int /\ b \in Int /\ a + b = Len(str)
      BY <2>2
    <3>3. a % Wrap \in Int /\ rtt_bytes_dropped' - rtt_bytes_dropped = (a % Wrap) + b
      BY <2>1, <2>2
    <3> HIDE DEF a, b
    <3>4. ((a % Wrap) + b) % Wrap = (a + b) % Wrap
      BY <2>2, <3>2, ModAdd
    <3>5. Distance(rd_idx, wr_idx) + Len(str) - (UpSize - 1) = Len(str)
      BY <2>2, <3>1, UpAssumption
    <3> QED
      BY <3>2, <3>3, <3>4, <3>5
  <2> QED
    BY <2>1, <2>3, <2>4
<1> QED
  BY <1>1, <1>2

(* rtt_write drops exactly what exceeds the room it found when it began,   *)
(* so a text shorter than the ring loses nothing to a host that had        *)
(* emptied it.                                                             *)
THEOREM ExcessDropped == Spec => DropsExcess
<1>1. ASSUME ConsoleInv, [Next]_vars
      PROVE  [\/ rtt_bytes_dropped' = rtt_bytes_dropped
              \/ (rtt_bytes_dropped' - rtt_bytes_dropped) % Wrap =
                   (Distance(rd_idx, wr_idx) + Len(str) - (UpSize - 1)) % Wrap]_vars
  BY <1>1, DropStep
<1> QED
  BY <1>1, ConsoleInvariant, PTL DEF Spec, DropsExcess

(***************************************************************************)
(* Text stays in order.                                                    *)

(* What may come before what; a text in order; one text before another;    *)
(* only letters of what was written so far.                                *)
Pair(x, y) == (x > 0 /\ y > 0 => x < y) /\ (x < 0 /\ y < 0 => x > y)
Sorted(s) == \A i, j \in 1 .. Len(s) : s[i] # 0 /\ (i < j => Pair(s[i], s[j]))
Cross(s, t) == \A i \in 1 .. Len(s), j \in 1 .. Len(t) : Pair(s[i], t[j])
Bounded(s, lo, hi) == \A i \in 1 .. Len(s) : lo <= s[i] /\ s[i] <= hi

(* The letters of two texts put together.                                  *)
Letters(s, t) ==
  /\ s \o t \in Seq(Int) /\ Len(s \o t) = Len(s) + Len(t)
  /\ \A i \in 1 .. Len(s) : (s \o t)[i] = s[i]
  /\ \A j \in 1 .. Len(t) : (s \o t)[Len(s) + j] = t[j]
  /\ \A i \in 1 .. Len(s \o t) : i \in 1 .. Len(s) \/ i - Len(s) \in 1 .. Len(t)

LEMMA ConcatLetters ==
  ASSUME NEW s \in Seq(Int), NEW t \in Seq(Int)
  PROVE  Letters(s, t)
<1>1. Len(s) \in Nat /\ Len(t) \in Nat
  OBVIOUS
<1>2. /\ s \o t \in Seq(Int) /\ Len(s \o t) = Len(s) + Len(t)
      /\ \A i \in 1 .. Len(s) + Len(t) :
           (s \o t)[i] = IF i <= Len(s) THEN s[i] ELSE t[i - Len(s)]
  BY ConcatProperties
<1>3. ASSUME NEW i \in 1 .. Len(s) PROVE (s \o t)[i] = s[i]
  BY <1>1, <1>2
<1>4. ASSUME NEW j \in 1 .. Len(t) PROVE (s \o t)[Len(s) + j] = t[j]
  <2>1. /\ Len(s) + j \in 1 .. Len(s) + Len(t) /\ ~(Len(s) + j <= Len(s))
        /\ Len(s) + j - Len(s) = j
    BY <1>1
  <2> QED
    BY <1>2, <2>1
<1>5. ASSUME NEW i \in 1 .. Len(s \o t)
      PROVE  i \in 1 .. Len(s) \/ i - Len(s) \in 1 .. Len(t)
  BY <1>1, <1>2
<1> QED
  BY <1>2, <1>3, <1>4, <1>5 DEF Letters

(* Two texts put together are in order if each is, and one before the      *)
(* other.                                                                  *)
SortedApart(s, t) == Sorted(s \o t) <=> Sorted(s) /\ Sorted(t) /\ Cross(s, t)

LEMMA SortedConcat ==
  ASSUME NEW s \in Seq(Int), NEW t \in Seq(Int)
  PROVE  SortedApart(s, t)
<1> DEFINE c == s \o t
           m == Len(s)
           n == Len(t)
<1>1. /\ m \in Nat /\ n \in Nat /\ Len(c) = m + n
      /\ \A i \in 1 .. m : c[i] = s[i]
      /\ \A j \in 1 .. n : c[m + j] = t[j]
      /\ \A i \in 1 .. m + n : i \in 1 .. m \/ i - m \in 1 .. n
  BY ConcatLetters DEF Letters
<1> HIDE DEF c, m, n
<1>2. ASSUME Sorted(c) PROVE Sorted(s) /\ Sorted(t) /\ Cross(s, t)
  <2>0. \A i, j \in 1 .. m + n : c[i] # 0 /\ (i < j => Pair(c[i], c[j]))
    BY <1>1, <1>2 DEF Sorted
  <2>1. ASSUME NEW i \in 1 .. m, NEW j \in 1 .. m
        PROVE  s[i] # 0 /\ (i < j => Pair(s[i], s[j]))
    <3>1. i \in 1 .. m + n /\ j \in 1 .. m + n
      BY <1>1
    <3> QED
      BY <1>1, <2>0, <3>1
  <2>2. ASSUME NEW i \in 1 .. n, NEW j \in 1 .. n
        PROVE  t[i] # 0 /\ (i < j => Pair(t[i], t[j]))
    <3>1. m + i \in 1 .. m + n /\ m + j \in 1 .. m + n /\ (i < j => m + i < m + j)
      BY <1>1
    <3> QED
      BY <1>1, <2>0, <3>1
  <2>3. ASSUME NEW i \in 1 .. m, NEW j \in 1 .. n PROVE Pair(s[i], t[j])
    <3>1. i \in 1 .. m + n /\ m + j \in 1 .. m + n /\ i < m + j
      BY <1>1
    <3> QED
      BY <1>1, <2>0, <3>1
  <2> QED
    BY <2>1, <2>2, <2>3 DEF Sorted, Cross, m, n
<1>3. ASSUME Sorted(s), Sorted(t), Cross(s, t) PROVE Sorted(c)
  <2>1. /\ \A i, j \in 1 .. m : s[i] # 0 /\ (i < j => Pair(s[i], s[j]))
        /\ \A i, j \in 1 .. n : t[i] # 0 /\ (i < j => Pair(t[i], t[j]))
        /\ \A i \in 1 .. m, j \in 1 .. n : Pair(s[i], t[j])
    BY <1>3 DEF Sorted, Cross, m, n
  <2>2. ASSUME NEW i \in 1 .. m + n, NEW j \in 1 .. m + n
        PROVE  c[i] # 0 /\ (i < j => Pair(c[i], c[j]))
    <3>1. CASE i \in 1 .. m /\ j \in 1 .. m
      BY <1>1, <2>1, <3>1
    <3>2. CASE i \in 1 .. m /\ j - m \in 1 .. n
      <4>1. c[j] = t[j - m]
        BY <1>1, <3>2
      <4> QED
        BY <1>1, <2>1, <3>2, <4>1
    <3>3. CASE i - m \in 1 .. n /\ j \in 1 .. m
      <4>1. c[i] = t[i - m] /\ ~(i < j)
        BY <1>1, <3>3
      <4> QED
        BY <1>1, <2>1, <3>3, <4>1
    <3>4. CASE i - m \in 1 .. n /\ j - m \in 1 .. n
      <4>1. /\ m + (i - m) = i /\ m + (j - m) = j
            /\ i < j => i - m < j - m
        BY <1>1, <3>4
      <4>2. c[m + (i - m)] = t[i - m] /\ c[m + (j - m)] = t[j - m]
        BY <1>1, <3>4
      <4> QED
        BY <1>1, <2>1, <3>4, <4>1, <4>2
    <3> QED
      BY <1>1, <3>1, <3>2, <3>3, <3>4
  <2> QED
    BY <1>1, <2>2 DEF Sorted
<1> QED
  BY <1>2, <1>3 DEF SortedApart, c

(* A text comes before, or after, two texts put together if it does so for *)
(* each.                                                                   *)
CrossApart(s, t, u) ==
  /\ Cross(s \o t, u) <=> Cross(s, u) /\ Cross(t, u)
  /\ Cross(u, s \o t) <=> Cross(u, s) /\ Cross(u, t)

LEMMA CrossConcat ==
  ASSUME NEW s \in Seq(Int), NEW t \in Seq(Int), NEW u \in Seq(Int)
  PROVE  CrossApart(s, t, u)
<1> DEFINE c == s \o t
           m == Len(s)
           n == Len(t)
<1>1. /\ m \in Nat /\ n \in Nat /\ Len(c) = m + n
      /\ \A i \in 1 .. m : c[i] = s[i]
      /\ \A j \in 1 .. n : c[m + j] = t[j]
      /\ \A i \in 1 .. m + n : i \in 1 .. m \/ i - m \in 1 .. n
  BY ConcatLetters DEF Letters
<1> HIDE DEF c, m, n
<1>2. /\ \A i \in 1 .. m : i \in 1 .. m + n
      /\ \A j \in 1 .. n : m + j \in 1 .. m + n
      /\ \A i \in 1 .. m + n : i - m \in 1 .. n => c[i] = t[i - m]
  BY <1>1
<1>3. Cross(c, u) <=> Cross(s, u) /\ Cross(t, u)
  <2>1. ASSUME Cross(c, u) PROVE Cross(s, u) /\ Cross(t, u)
    BY <1>1, <1>2, <2>1 DEF Cross, m, n
  <2>2. ASSUME Cross(s, u), Cross(t, u) PROVE Cross(c, u)
    BY <1>1, <1>2, <2>2, ZenonT(30) DEF Cross, m, n
  <2> QED
    BY <2>1, <2>2
<1>4. Cross(u, c) <=> Cross(u, s) /\ Cross(u, t)
  <2>1. ASSUME Cross(u, c) PROVE Cross(u, s) /\ Cross(u, t)
    BY <1>1, <1>2, <2>1 DEF Cross, m, n
  <2>2. ASSUME Cross(u, s), Cross(u, t) PROVE Cross(u, c)
    BY <1>1, <1>2, <2>2 DEF Cross, m, n
  <2> QED
    BY <2>1, <2>2
<1> QED
  BY <1>3, <1>4 DEF CrossApart, c

(* Two texts put together have the letters of both.                        *)
BoundedApart(s, t, lo, hi) ==
  Bounded(s \o t, lo, hi) <=> Bounded(s, lo, hi) /\ Bounded(t, lo, hi)

LEMMA BoundedConcat ==
  ASSUME NEW s \in Seq(Int), NEW t \in Seq(Int), NEW lo \in Int, NEW hi \in Int
  PROVE  BoundedApart(s, t, lo, hi)
<1> DEFINE c == s \o t
           m == Len(s)
           n == Len(t)
<1>1. /\ m \in Nat /\ n \in Nat /\ Len(c) = m + n
      /\ \A i \in 1 .. m : c[i] = s[i]
      /\ \A j \in 1 .. n : c[m + j] = t[j]
      /\ \A i \in 1 .. m + n : i \in 1 .. m \/ i - m \in 1 .. n
  BY ConcatLetters DEF Letters
<1> HIDE DEF c, m, n
<1>2. /\ \A i \in 1 .. m : i \in 1 .. m + n
      /\ \A j \in 1 .. n : m + j \in 1 .. m + n
      /\ \A i \in 1 .. m + n : i - m \in 1 .. n => c[i] = t[i - m]
  BY <1>1
<1>3. ASSUME Bounded(c, lo, hi) PROVE Bounded(s, lo, hi) /\ Bounded(t, lo, hi)
  BY <1>1, <1>2, <1>3 DEF Bounded, m, n
<1>4. ASSUME Bounded(s, lo, hi), Bounded(t, lo, hi) PROVE Bounded(c, lo, hi)
  BY <1>1, <1>2, <1>4 DEF Bounded, m, n
<1> QED
  BY <1>3, <1>4 DEF BoundedApart, c

(* The parts of the stream: in order and bounded, and one before the next. *)
Chain(s, t, u, v) ==
  /\ Sorted(s) /\ Sorted(t) /\ Sorted(u) /\ Sorted(v)
  /\ Cross(s, t) /\ Cross(s, u) /\ Cross(s, v)
  /\ Cross(t, u) /\ Cross(t, v) /\ Cross(u, v)

Within(s, t, u, v, lo, hi) ==
  Bounded(s, lo, hi) /\ Bounded(t, lo, hi) /\ Bounded(u, lo, hi) /\ Bounded(v, lo, hi)

ChainIs(s, t, u, v) == Sorted(Joined(s, t, u, v)) <=> Chain(s, t, u, v)
WithinIs(s, t, u, v, lo, hi) ==
  Bounded(Joined(s, t, u, v), lo, hi) <=> Within(s, t, u, v, lo, hi)

LEMMA JoinedSorted ==
  ASSUME NEW s \in Seq(Int), NEW t \in Seq(Int), NEW u \in Seq(Int), NEW v \in Seq(Int)
  PROVE  ChainIs(s, t, u, v)
<1> DEFINE x == s \o t
           y == x \o u
<1>1. x \in Seq(Int) /\ y \in Seq(Int)
  BY ConcatProperties
<1>2. SortedApart(s, t) /\ SortedApart(x, u) /\ CrossApart(s, t, u) /\ CrossApart(s, t, v)
  BY <1>1, SortedConcat, CrossConcat
<1> HIDE DEF x, y
<1>3. SortedApart(y, v) /\ CrossApart(x, u, v)
  BY <1>1, SortedConcat, CrossConcat
<1>4. Sorted(y \o v) <=> Sorted(y) /\ Sorted(v) /\ Cross(y, v)
  BY <1>3 DEF SortedApart
<1>5. Sorted(y) <=> Sorted(x) /\ Sorted(u) /\ Cross(x, u)
  BY <1>2 DEF SortedApart, y
<1>6. Cross(y, v) <=> Cross(x, v) /\ Cross(u, v)
  BY <1>3 DEF CrossApart, y
<1>7. Sorted(x) <=> Sorted(s) /\ Sorted(t) /\ Cross(s, t)
  BY <1>2 DEF SortedApart, x
<1>8. /\ Cross(x, u) <=> Cross(s, u) /\ Cross(t, u)
      /\ Cross(x, v) <=> Cross(s, v) /\ Cross(t, v)
  BY <1>2 DEF CrossApart, x
<1>9. Joined(s, t, u, v) = y \o v
  BY DEF Joined, x, y
<1> QED
  BY <1>4, <1>5, <1>6, <1>7, <1>8, <1>9 DEF ChainIs, Chain

LEMMA JoinedBounded ==
  ASSUME NEW s \in Seq(Int), NEW t \in Seq(Int), NEW u \in Seq(Int), NEW v \in Seq(Int),
         NEW lo \in Int, NEW hi \in Int
  PROVE  WithinIs(s, t, u, v, lo, hi)
<1> DEFINE x == s \o t
           y == x \o u
<1>1. x \in Seq(Int) /\ y \in Seq(Int)
  BY ConcatProperties
<1>2. BoundedApart(s, t, lo, hi) /\ BoundedApart(x, u, lo, hi)
  BY <1>1, BoundedConcat
<1> HIDE DEF x, y
<1>3. BoundedApart(y, v, lo, hi)
  BY <1>1, BoundedConcat
<1>4. Bounded(y \o v, lo, hi) <=> Bounded(y, lo, hi) /\ Bounded(v, lo, hi)
  BY <1>3 DEF BoundedApart
<1>5. Bounded(y, lo, hi) <=> Bounded(x, lo, hi) /\ Bounded(u, lo, hi)
  BY <1>2 DEF BoundedApart, y
<1>6. Bounded(x, lo, hi) <=> Bounded(s, lo, hi) /\ Bounded(t, lo, hi)
  BY <1>2 DEF BoundedApart, x
<1>7. Joined(s, t, u, v) = y \o v
  BY DEF Joined, x, y
<1> QED
  BY <1>4, <1>5, <1>6, <1>7 DEF WithinIs, Within

(* An empty text is in order with anything.                                *)
LEMMA EmptySorted ==
  /\ Sorted(<<>>)
  /\ \A s : Cross(s, <<>>) /\ Cross(<<>>, s)
  /\ \A lo, hi : Bounded(<<>>, lo, hi)
  BY EmptyText DEF Sorted, Cross, Bounded

(* New text comes after everything that was written.                       *)
LEMMA TextSorted ==
  ASSUME TypeOK, NEW n \in 1 .. MaxText
  PROVE  /\ Sorted(Text(n)) /\ Bounded(Text(n), -errors, written + n)
         /\ \A s \in Seq(Int) : Bounded(s, -errors, written) => Cross(s, Text(n))
<1> DEFINE t == Text(n)
<1>1. n \in Nat /\ written \in Nat /\ errors \in Nat
      /\ Len(t) = n /\ \A i \in 1 .. n : t[i] = written + i
  BY TextLength, ConsoleAssumption DEF TypeOK
<1> HIDE DEF t
<1>2. Sorted(t)
  BY <1>1 DEF Sorted, Pair
<1>3. Bounded(t, -errors, written + n)
  BY <1>1 DEF Bounded
<1>4. ASSUME NEW s \in Seq(Int), Bounded(s, -errors, written) PROVE Cross(s, t)
  <2>1. \A i \in 1 .. Len(s) : s[i] \in Int /\ s[i] <= written
    BY <1>4 DEF Bounded
  <2> QED
    BY <1>1, <2>1 DEF Cross, Pair
<1> QED
  BY <1>2, <1>3, <1>4 DEF t

(* A new error comes after every error, and before text without one.       *)
LEMMA ErrorTextSorted ==
  ASSUME TypeOK, NEW n \in 1 .. MaxText
  PROVE  /\ Sorted(ErrorText(n)) /\ Bounded(ErrorText(n), -(errors + n), written)
         /\ \A s \in Seq(Int) : Bounded(s, -errors, written) => Cross(s, ErrorText(n))
         /\ \A s \in Seq(Nat) : Cross(ErrorText(n), s)
<1> DEFINE t == ErrorText(n)
<1>1. n \in Nat /\ written \in Nat /\ errors \in Nat
      /\ Len(t) = n /\ \A i \in 1 .. n : t[i] = -(errors + i)
  BY TextLength, ConsoleAssumption DEF TypeOK
<1> HIDE DEF t
<1>2. Sorted(t)
  BY <1>1 DEF Sorted, Pair
<1>3. Bounded(t, -(errors + n), written)
  BY <1>1 DEF Bounded
<1>4. ASSUME NEW s \in Seq(Int), Bounded(s, -errors, written) PROVE Cross(s, t)
  <2>1. \A i \in 1 .. Len(s) : s[i] \in Int /\ -errors <= s[i]
    BY <1>4 DEF Bounded
  <2> QED
    BY <1>1, <2>1 DEF Cross, Pair
<1>5. ASSUME NEW s \in Seq(Nat) PROVE Cross(t, s)
  <2>1. \A i \in 1 .. Len(s) : s[i] \in Nat
    OBVIOUS
  <2> QED
    BY <1>1, <2>1 DEF Cross, Pair
<1> QED
  BY <1>2, <1>3, <1>4, <1>5 DEF t

(* More may have been written.                                             *)
LEMMA BoundedWider ==
  ASSUME NEW s \in Seq(Int), NEW lo \in Int, NEW hi \in Int, NEW l \in Int, NEW h \in Int,
         l <= lo, hi <= h, Bounded(s, lo, hi)
  PROVE  Bounded(s, l, h)
<1>1. \A i \in 1 .. Len(s) : s[i] \in Int /\ lo <= s[i] /\ s[i] <= hi
  BY DEF Bounded
<1> QED
  BY <1>1 DEF Bounded

(* The stream is in order, and made of what was written.                   *)
OrderInv == Sorted(Stream) /\ Bounded(Stream, -errors, written)

LEMMA OrderInit == Init => OrderInv
<1> SUFFICES ASSUME Init PROVE OrderInv
  OBVIOUS
<1>1. TypeOK /\ RingInv
  BY TypeInit, RingInvInit
<1>2. Front = Back /\ got = <<>> /\ str = <<>> /\ Held = <<>> /\ rest = <<>>
  BY DEF Init, UpInit, Front, Back, Held, InRtt
<1>3. Len(RingOf(rtt_buffer_up, Front, Back)) = 0
  BY <1>1, <1>2, PartTypes, DistanceNat
<1>4. Sent \in Seq(Int) /\ Len(Sent) = 0
  BY <1>1, <1>2, <1>3, EmptyText, PartTypes, ConcatProperties DEF Sent
<1>5. /\ str \in Seq(Int) /\ Held \in Seq(Int) /\ rest \in Seq(Int)
      /\ Len(str) = 0 /\ Len(Held) = 0 /\ Len(rest) = 0
  BY <1>1, <1>2, EmptyText, PartTypes
<1>6. LengthsAdd(Sent, str, Held, rest)
  BY <1>4, <1>5, JoinedLength
<1>7. Len(Stream) = 0
  BY <1>4, <1>5, <1>6, StreamJoined DEF LengthsAdd
<1> QED
  BY <1>7 DEF OrderInv, Sorted, Bounded

LEMMA OrderStep ==
  ASSUME TypeOK, RingInv, PlaceInv, OrderInv, [Next]_vars
  PROVE  OrderInv'
<1>1. /\ Sent \in Seq(Int) /\ str \in Seq(Int) /\ Held \in Seq(Int) /\ rest \in Seq(Int)
      /\ <<>> \in Seq(Int)
  BY PartTypes, EmptyText
<1>2. written \in Nat /\ errors \in Nat /\ -errors \in Int /\ written \in Int
  BY DEF TypeOK
<1>3. Chain(Sent, str, Held, rest) /\ Within(Sent, str, Held, rest, -errors, written)
  <2>1. ChainIs(Sent, str, Held, rest) /\ WithinIs(Sent, str, Held, rest, -errors, written)
    BY <1>1, <1>2, JoinedSorted, JoinedBounded
  <2> QED
    BY <2>1, StreamJoined DEF OrderInv, ChainIs, WithinIs
<1>4. CASE Stream' = Stream /\ UNCHANGED <<written, errors, rtt_bytes_dropped>>
  BY <1>4 DEF OrderInv
<1>5. ASSUME NEW n \in 1 .. MaxText, Write(n) PROVE OrderInv'
  <2>1. /\ Stream' = Joined(Sent, str, Held, Text(n))
        /\ written' = written + n /\ errors' = errors
    BY <1>5, WriteParts, StreamJoined
  <2>2. /\ Text(n) \in Seq(Int) /\ n \in Nat
        /\ Sorted(Text(n)) /\ Bounded(Text(n), -errors, written + n)
        /\ Cross(Sent, Text(n)) /\ Cross(str, Text(n)) /\ Cross(Held, Text(n))
    BY <1>1, <1>3, TextLength, TextSorted, ConsoleAssumption DEF Within
  <2>3. Chain(Sent, str, Held, Text(n))
    BY <1>3, <2>2 DEF Chain
  <2>4. -errors \in Int /\ written + n \in Int /\ -errors <= -errors /\ written <= written + n
    BY <1>2, <2>2
  <2>5. /\ Bounded(Sent, -errors, written + n) /\ Bounded(str, -errors, written + n)
        /\ Bounded(Held, -errors, written + n)
    BY <1>1, <1>2, <1>3, <2>4, BoundedWider DEF Within
  <2>6. Within(Sent, str, Held, Text(n), -errors, written + n)
    BY <2>2, <2>5 DEF Within
  <2>7. /\ ChainIs(Sent, str, Held, Text(n))
        /\ WithinIs(Sent, str, Held, Text(n), -errors, written + n)
    BY <1>1, <2>2, <2>4, JoinedSorted, JoinedBounded
  <2> QED
    BY <2>1, <2>3, <2>6, <2>7 DEF OrderInv, ChainIs, WithinIs
<1>6. ASSUME NEW n \in 1 .. MaxText, WriterError(n) PROVE OrderInv'
  <2> DEFINE t == ErrorText(n)
  <2>1. /\ Stream' = Joined(Sent, t, Held, rest) /\ Held = writer_buf /\ rest = <<>>
        /\ written' = written /\ errors' = errors + n
    BY <1>6, ErrorParts, StreamJoined
  <2>2. /\ t \in Seq(Int) /\ n \in Nat /\ Sorted(t) /\ Bounded(t, -(errors + n), written)
        /\ Cross(Sent, t) /\ Cross(t, Held)
    BY <1>1, <1>3, <2>1, TextLength, ErrorTextSorted, ConsoleAssumption DEF Within, TypeOK
  <2> HIDE DEF t
  <2>3. Chain(Sent, t, Held, rest)
    BY <1>3, <2>1, <2>2, EmptySorted DEF Chain
  <2>4. -(errors + n) \in Int /\ -(errors + n) <= -errors /\ written <= written
    BY <1>2, <2>2
  <2>5. /\ Bounded(Sent, -(errors + n), written) /\ Bounded(Held, -(errors + n), written)
        /\ Bounded(rest, -(errors + n), written)
    BY <1>1, <1>2, <1>3, <2>4, BoundedWider DEF Within
  <2>6. Within(Sent, t, Held, rest, -(errors + n), written)
    BY <2>2, <2>5 DEF Within
  <2>7. /\ ChainIs(Sent, t, Held, rest)
        /\ WithinIs(Sent, t, Held, rest, -(errors + n), written)
    BY <1>1, <1>2, <2>2, <2>4, JoinedSorted, JoinedBounded
  <2> QED
    BY <2>1, <2>3, <2>6, <2>7 DEF OrderInv, ChainIs, WithinIs
<1>7. CASE RttReturn
  <2>1. Stream' = Joined(Sent, <<>>, Held, rest) /\ written' = written /\ errors' = errors
    BY <1>7, ReturnParts, StreamJoined
  <2>2. Chain(Sent, <<>>, Held, rest) /\ Within(Sent, <<>>, Held, rest, -errors, written)
    BY <1>3, EmptySorted DEF Chain, Within
  <2>3. /\ ChainIs(Sent, <<>>, Held, rest)
        /\ WithinIs(Sent, <<>>, Held, rest, -errors, written)
    BY <1>1, <1>2, JoinedSorted, JoinedBounded
  <2> QED
    BY <2>1, <2>2, <2>3 DEF OrderInv, ChainIs, WithinIs
<1> QED
  BY <1>4, <1>5, <1>6, <1>7, StreamStep

(* Text reaches the host in the order it was written, no byte of it twice  *)
(* and none altered; only errors overtake it.  However writes,             *)
(* flushes, errors and the host's reads interleave, for every size of the  *)
(* ring and of the buffer.                                                 *)
THEOREM TextInOrder == Spec => []InOrder
<1>1. Init => OrderInv
  BY OrderInit
<1>2. ConsoleInv /\ OrderInv /\ [Next]_vars => OrderInv'
  BY OrderStep DEF ConsoleInv
<1>3. ASSUME ConsoleInv, OrderInv PROVE InOrder
  <2>1. LengthsAdd(Sent, str, Held, rest)
    BY <1>3, PartTypes, JoinedLength DEF ConsoleInv
  <2>2. Stream \in Seq(Int)
    BY <2>1, StreamJoined DEF LengthsAdd
  <2>3. DOMAIN Stream = 1 .. Len(Stream)
    BY <2>2
  <2> QED
    BY <1>3, <2>3 DEF OrderInv, Sorted, Pair, InOrder
<1> QED
  BY <1>1, <1>2, <1>3, ConsoleInvariant, PTL DEF Spec
=============================================================================
