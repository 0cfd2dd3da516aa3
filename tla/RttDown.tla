------------------------------ MODULE RttDown ------------------------------
(***************************************************************************)
(* The down channel of rtt.c: a debug host fills a ring in RAM that        *)
(* rtt_read empties, each at its own pace and between any two memory       *)
(* accesses of the other.  The host is not code of the repository and does *)
(* what the RTT protocol asks of it; rtt_read is called at any time.       *)
(*                                                                         *)
(* Bytes are numbered 1, 2, 3, ... as the host sends them.  A definition   *)
(* with a suffix Bug... is not part of the model: it is the definition it  *)
(* is named after with one plausible mistake in it.                        *)
(***************************************************************************)
EXTENDS Integers, Sequences

CONSTANTS
  DownSize,   \* RTT_BUFFER_SIZE_DOWN (32)
  MaxRead,    \* bound: the largest max of a call
  SendLimit   \* bound: bytes ever sent

ASSUME DownAssumption ==
  DownSize \in Nat \ {0, 1} /\ MaxRead \in Nat /\ SendLimit \in Nat

Slot == 0 .. DownSize - 1

VARIABLES
  rtt_buffer_down,  \* the slots; 0 where nothing was ever stored
  WrOff, RdOff,     \* of the control block, read by both sides
  reading,          \* rtt_read is running, with ...
  wr_idx, rd_idx,   \* ... its copies,
  max, buf,         \* its parameter and what it has read, and
  there,            \* how much lay in the ring when it began
  received,         \* what earlier calls returned
  host_rd,          \* the host's copy of RdOff
  host_wr,          \* where it stores next
  sent              \* how many bytes it has stored

thevars  == <<reading, wr_idx, rd_idx, max, buf, there, received>>
hostvars == <<rtt_buffer_down, WrOff, host_rd, host_wr, sent>>
vars == <<RdOff, thevars, hostvars>>

AfterBugWrap(i) == IF i + 1 > DownSize THEN 0 ELSE i + 1
After(i) == IF i + 1 >= DownSize THEN 0 ELSE i + 1
Distance(i, j) == (j - i) % DownSize

Init ==
  /\ rtt_buffer_down = [s \in Slot |-> 0] /\ WrOff = 0 /\ RdOff = 0
  /\ reading = FALSE /\ wr_idx = 0 /\ rd_idx = 0 /\ max = 0 /\ buf = <<>> /\ there = 0
  /\ received = <<>> /\ host_rd = 0 /\ host_wr = 0 /\ sent = 0

-----------------------------------------------------------------------------
(* rtt_read: both offsets are read once, then the bytes, then RdOff is     *)
(* published.                                                              *)
Call(n) ==
  /\ ~reading /\ reading' = TRUE
  /\ wr_idx' = WrOff /\ rd_idx' = RdOff /\ max' = n /\ buf' = <<>>
  /\ there' = Distance(RdOff, WrOff)
  /\ UNCHANGED <<RdOff, received, hostvars>>

(* The last byte is left in the ring.                                      *)
MoreBugLast == rd_idx # wr_idx /\ After(rd_idx) # wr_idx /\ Len(buf) < max
More == rd_idx # wr_idx /\ Len(buf) < max

(* Each slot is handed back before it is read.                             *)
LoadByteBugEarly ==
  /\ reading /\ More
  /\ IF RdOff = rd_idx
     THEN RdOff' = After(rd_idx) /\ UNCHANGED <<buf, rd_idx>>
     ELSE buf' = Append(buf, rtt_buffer_down[rd_idx]) /\ rd_idx' = After(rd_idx)
          /\ UNCHANGED RdOff
  /\ UNCHANGED <<reading, wr_idx, max, there, received, hostvars>>
LoadByte ==
  /\ reading /\ More
  /\ buf' = Append(buf, rtt_buffer_down[rd_idx]) /\ rd_idx' = After(rd_idx)
  /\ UNCHANGED <<RdOff, reading, wr_idx, max, there, received, hostvars>>

ReturnBugAll ==
  /\ reading /\ ~More /\ reading' = FALSE
  /\ RdOff' = wr_idx /\ received' = received \o buf /\ buf' = <<>>
  /\ UNCHANGED <<wr_idx, rd_idx, max, there, hostvars>>
Return ==
  /\ reading /\ ~More /\ reading' = FALSE
  /\ RdOff' = rd_idx /\ received' = received \o buf /\ buf' = <<>>
  /\ UNCHANGED <<wr_idx, rd_idx, max, there, hostvars>>

-----------------------------------------------------------------------------
(* The host: look at RdOff, store bytes while there is room, publish them. *)
HostLook ==
  /\ host_rd # RdOff /\ host_rd' = RdOff
  /\ UNCHANGED <<RdOff, thevars, rtt_buffer_down, WrOff, host_wr, sent>>

HostStore ==
  /\ After(host_wr) # host_rd /\ sent < SendLimit
  /\ rtt_buffer_down' = [rtt_buffer_down EXCEPT ![host_wr] = sent + 1]
  /\ sent' = sent + 1 /\ host_wr' = After(host_wr)
  /\ UNCHANGED <<RdOff, thevars, WrOff, host_rd>>

HostPublish ==
  /\ WrOff # host_wr /\ WrOff' = host_wr
  /\ UNCHANGED <<RdOff, thevars, rtt_buffer_down, host_rd, host_wr, sent>>

Next ==
  \/ \E n \in 0 .. MaxRead : Call(n)
  \/ LoadByte \/ Return
  \/ HostLook \/ HostStore \/ HostPublish

Spec == Init /\ [][Next]_vars

-----------------------------------------------------------------------------
Ring(i, j) == [k \in 1 .. Distance(i, j) |-> rtt_buffer_down[(i + k - 1) % DownSize]]

(* Every byte the host ever sent is, in its place, with the callers of     *)
(* rtt_read, in the buffer of the running call or still in the ring: none  *)
(* is lost, read twice, overwritten before it was read or read before it   *)
(* was there, however the two sides' copies of the offsets age.            *)
Delivered ==
  received \o buf \o Ring(IF reading THEN rd_idx ELSE RdOff, host_wr)
    = [i \in 1 .. sent |-> i]

(* A call leaves a byte that was there when it began only because max says *)
(* so, and takes none that came later.                                     *)
TakesWhatIsThere ==
  [][reading /\ ~reading' =>
       Len(received') - Len(received) = IF there < max THEN there ELSE max]_vars
=============================================================================
