------------------------------- MODULE RttUp -------------------------------
(***************************************************************************)
(* The up channel of rtt.c: a ring in RAM that rtt_write fills and a debug *)
(* host empties over SWD while the core runs.  Neither side waits for the  *)
(* other, and each may move between any two memory accesses of the other.  *)
(* The host is not code of the repository: it does what the RTT protocol   *)
(* asks of it, and may also never come.                                    *)
(*                                                                         *)
(* A definition with a suffix Bug... is not part of the model: it is the   *)
(* definition it is named after with one plausible mistake in it.          *)
(***************************************************************************)
EXTENDS Integers, Sequences

CONSTANTS
  UpSize,   \* RTT_BUFFER_SIZE_UP (1024)
  Wrap      \* the values a u32 takes (2^32)

ASSUME UpAssumption == UpSize \in Nat \ {0, 1} /\ Wrap \in Nat \ {0}

Slot == 0 .. UpSize - 1

VARIABLES
  rtt_buffer_up,      \* the slots; 0 where nothing was ever stored
  WrOff, RdOff,       \* of the control block, read by both sides
  wr_idx, rd_idx,     \* rtt_write's copies
  str,                \* what rtt_write has not stored yet
  rtt_bytes_dropped,
  host,               \* "away", or "reading" a part of the ring
  host_wr, host_rd,   \* where that part ends, and how far the host is
  got                 \* everything the host has received

offsets  == <<WrOff, RdOff>>
hostvars == <<host, host_wr, host_rd, got>>
callvars == <<wr_idx, rd_idx, str>>
upvars   == <<rtt_buffer_up, offsets, callvars, rtt_bytes_dropped, hostvars>>

UpInit ==
  /\ rtt_buffer_up = [s \in Slot |-> 0]
  /\ WrOff = 0 /\ RdOff = 0 /\ wr_idx = 0 /\ rd_idx = 0
  /\ str = <<>> /\ rtt_bytes_dropped = 0
  /\ host = "away" /\ host_wr = 0 /\ host_rd = 0 /\ got = <<>>

AfterBugWrap(i) == IF i + 1 > UpSize THEN 0 ELSE i + 1
After(i) == IF i + 1 >= UpSize THEN 0 ELSE i + 1

-----------------------------------------------------------------------------
(* rtt_write: both offsets are read once, at the start; the bytes are      *)
(* stored while the ring, as it was then, has room; the new WrOff is       *)
(* published behind a barrier; the caller counts what did not fit.         *)

RttWrite(s) ==
  /\ wr_idx' = WrOff /\ rd_idx' = RdOff /\ str' = s
  /\ UNCHANGED <<rtt_buffer_up, offsets, rtt_bytes_dropped, hostvars>>

(* The ring filled to the last slot, so that full looks like empty.        *)
HasRoomBugFull == TRUE
(* One slot too many kept free.                                            *)
HasRoomBugSlack == After(After(wr_idx)) # rd_idx
HasRoom == After(wr_idx) # rd_idx

(* WrOff moves with every byte, before it is there.                        *)
StoreByteBugEarly ==
  /\ str # <<>> /\ HasRoom
  /\ IF WrOff = wr_idx
     THEN WrOff' = After(wr_idx) /\ UNCHANGED <<rtt_buffer_up, wr_idx, str>>
     ELSE /\ rtt_buffer_up' = [rtt_buffer_up EXCEPT ![wr_idx] = Head(str)]
          /\ wr_idx' = After(wr_idx) /\ str' = Tail(str)
          /\ UNCHANGED WrOff
  /\ UNCHANGED <<RdOff, rd_idx, rtt_bytes_dropped, hostvars>>

StoreByte ==
  /\ str # <<>> /\ HasRoom
  /\ rtt_buffer_up' = [rtt_buffer_up EXCEPT ![wr_idx] = Head(str)]
  /\ wr_idx' = After(wr_idx) /\ str' = Tail(str)
  /\ UNCHANGED <<offsets, rd_idx, rtt_bytes_dropped, hostvars>>

(* The result of rtt_write taken for all of the text.                      *)
PublishBugCount ==
  /\ str = <<>> \/ ~HasRoom
  /\ WrOff' = wr_idx /\ str' = <<>>
  /\ UNCHANGED <<rtt_buffer_up, RdOff, wr_idx, rd_idx, rtt_bytes_dropped, hostvars>>

Publish ==
  /\ str = <<>> \/ ~HasRoom
  /\ WrOff' = wr_idx /\ str' = <<>>
  /\ rtt_bytes_dropped' = (rtt_bytes_dropped + Len(str)) % Wrap
  /\ UNCHANGED <<rtt_buffer_up, RdOff, wr_idx, rd_idx, hostvars>>

-----------------------------------------------------------------------------
(* The host: look at the offsets, copy what lies between, hand it back.    *)

HostLook ==
  /\ host = "away" /\ WrOff # RdOff
  /\ host' = "reading" /\ host_wr' = WrOff /\ host_rd' = RdOff
  /\ UNCHANGED <<rtt_buffer_up, offsets, callvars, rtt_bytes_dropped, got>>

HostCopy ==
  /\ host = "reading" /\ host_rd # host_wr
  /\ got' = Append(got, rtt_buffer_up[host_rd])
  /\ host_rd' = After(host_rd)
  /\ UNCHANGED <<rtt_buffer_up, offsets, callvars, rtt_bytes_dropped, host, host_wr>>

HostRelease ==
  /\ host = "reading" /\ host_rd = host_wr
  /\ host' = "away" /\ RdOff' = host_rd
  /\ UNCHANGED <<rtt_buffer_up, WrOff, callvars, rtt_bytes_dropped, host_wr, host_rd, got>>

HostNext == HostLook \/ HostCopy \/ HostRelease

-----------------------------------------------------------------------------
(* Slots on the way from one index to another.                             *)
Distance(i, j) == IF j >= i THEN j - i ELSE j + UpSize - i
Between(i, j) == {s \in Slot : Distance(i, s) < Distance(i, j)}
Ring(i, j) == [k \in 1 .. Distance(i, j) |-> rtt_buffer_up[(i + k - 1) % UpSize]]

UpTypeOK ==
  /\ rtt_buffer_up \in [Slot -> Int]
  /\ {WrOff, RdOff, wr_idx, rd_idx, host_wr, host_rd} \subseteq Slot
  /\ str \in Seq(Int) /\ got \in Seq(Int)
  /\ rtt_bytes_dropped \in 0 .. Wrap - 1
  /\ host \in {"away", "reading"}

(* rtt_write never stores into a slot the host has not handed back: what   *)
(* it read of RdOff may be old, but the host only ever frees more.         *)
NoOverwrite ==
  [][\A s \in Between(RdOff, WrOff) : rtt_buffer_up'[s] = rtt_buffer_up[s]]_upvars
=============================================================================
