------------------------------ MODULE Console ------------------------------
(***************************************************************************)
(* Writer.c on top of the up channel of rtt.c: writer_write buffers text   *)
(* and flushes when the buffer is full, flush hands the buffer to          *)
(* rtt_write and empties it whatever became of it, writer_error goes past  *)
(* the buffer.  A print is a series of writer_write and writer_write_char  *)
(* calls and changes nothing else.                                         *)
(*                                                                         *)
(* Texts are numbered bytes: 1, 2, 3, ... are written through the Writer,  *)
(* -1, -2, -3, ... through writer_error.                                   *)
(***************************************************************************)
EXTENDS RttUp

CONSTANTS
  Capacity,   \* RTT_WRITER_MAX_BUFFER_SIZE (512)
  MaxText,    \* the longest text of one call
  TextLimit,  \* bound: bytes ever written through the Writer
  ErrorLimit  \* bound: bytes ever written by writer_error

ASSUME ConsoleAssumption ==
  /\ Capacity \in Nat \ {0}
  /\ MaxText \in Nat /\ TextLimit \in Nat /\ ErrorLimit \in Nat

VARIABLES
  writer_buf,  \* the first current_size bytes of the caller's buffer
  rest,        \* what writer_write has not copied yet
  thread,      \* "out"; in the loop of writer_write; in rtt_write, called by ...
  written,     \* bytes given to the Writer so far
  errors       \* bytes given to writer_error so far

writervars == <<writer_buf, rest, thread, written, errors>>
vars == <<upvars, writervars>>

Place == {"out", "loop", "full_flush", "flush", "error"}
InRtt == thread \in {"full_flush", "flush", "error"}

(* writer_init.                                                            *)
Init ==
  /\ UpInit
  /\ writer_buf = <<>> /\ rest = <<>> /\ thread = "out"
  /\ written = 0 /\ errors = 0

-----------------------------------------------------------------------------
(* writer_write; writer_write_char is the same for one byte.               *)
Write(n) ==
  /\ thread = "out" /\ written + n <= TextLimit
  /\ rest' = [i \in 1 .. n |-> written + i] /\ written' = written + n
  /\ thread' = "loop"
  /\ UNCHANGED <<upvars, writer_buf, errors>>

(* One turn of its loop: the buffer is full and flushed first, or takes as *)
(* much as it has room for.                                                *)
WriteFull ==
  /\ thread = "loop" /\ rest # <<>> /\ Len(writer_buf) = Capacity
  /\ RttWrite(writer_buf) /\ thread' = "full_flush"
  /\ UNCHANGED <<writer_buf, rest, written, errors>>

Space == Capacity - Len(writer_buf)
Portion == IF Len(rest) < Space THEN Len(rest) ELSE Space

(* The text longer than the room it finds is cut off.                      *)
WriteTurnBugCut ==
  /\ thread = "loop" /\ rest # <<>> /\ Space > 0
  /\ writer_buf' = writer_buf \o SubSeq(rest, 1, Portion)
  /\ rest' = <<>>
  /\ UNCHANGED <<upvars, thread, written, errors>>

WriteTurn ==
  /\ thread = "loop" /\ rest # <<>> /\ Space > 0
  /\ writer_buf' = writer_buf \o SubSeq(rest, 1, Portion)
  /\ rest' = SubSeq(rest, Portion + 1, Len(rest))
  /\ UNCHANGED <<upvars, thread, written, errors>>

WriteReturn ==
  /\ thread = "loop" /\ rest = <<>>
  /\ thread' = "out"
  /\ UNCHANGED <<upvars, writer_buf, rest, written, errors>>

Flush ==
  /\ thread = "out"
  /\ RttWrite(writer_buf) /\ thread' = "flush"
  /\ UNCHANGED <<writer_buf, rest, written, errors>>

WriterError(n) ==
  /\ thread = "out" /\ errors + n <= ErrorLimit
  /\ RttWrite([i \in 1 .. n |-> -(errors + i)]) /\ errors' = errors + n
  /\ thread' = "error"
  /\ UNCHANGED <<writer_buf, rest, written>>

RttStep ==
  /\ InRtt /\ StoreByte
  /\ UNCHANGED writervars

(* current_size is not set back after flush_fn.                            *)
RttReturnBugKeep ==
  /\ InRtt /\ Publish
  /\ thread' = IF thread = "full_flush" THEN "loop" ELSE "out"
  /\ UNCHANGED <<writer_buf, rest, written, errors>>

(* The end of rtt_write; of rtt_flush, which counts what was dropped; and  *)
(* of flush, which empties the buffer.  The host sees only WrOff of it.    *)
RttReturn ==
  /\ InRtt /\ Publish
  /\ writer_buf' = IF thread = "error" THEN writer_buf ELSE <<>>
  /\ thread' = IF thread = "full_flush" THEN "loop" ELSE "out"
  /\ UNCHANGED <<rest, written, errors>>

(* The callers print, write and flush in any order; nobody waits for room. *)
Call == Flush \/ \E n \in 1 .. MaxText : Write(n) \/ WriterError(n)
Run == WriteFull \/ WriteTurn \/ WriteReturn \/ RttStep \/ RttReturn

Next == Call \/ Run \/ (HostNext /\ UNCHANGED writervars)

(* The core runs.  Nothing is assumed of the host: it may never come.      *)
Spec == Init /\ [][Next]_vars /\ WF_vars(Run)

-----------------------------------------------------------------------------
(* Everything has its type, and the Writer stays inside its buffer.        *)
TypeOK ==
  /\ UpTypeOK
  /\ writer_buf \in Seq(Nat) /\ Len(writer_buf) <= Capacity
  /\ rest \in Seq(Nat)
  /\ thread \in Place
  /\ written \in Nat /\ errors \in Nat

(* All that was ever handed over and not dropped: at the host, in the ring *)
(* for it, in the middle of rtt_write, in the Writer's buffer.             *)
Stream ==
  got \o Ring(IF host = "reading" THEN host_rd ELSE RdOff, IF InRtt THEN wr_idx ELSE WrOff)
      \o str
      \o (IF thread \in {"full_flush", "flush"} THEN <<>> ELSE writer_buf)
      \o rest

(* Text reaches the host in the order it was written, no byte of it twice, *)
(* none altered, none that was never written; the same for errors, which   *)
(* may overtake it.                                                        *)
InOrder ==
  \A i, j \in DOMAIN Stream :
    /\ Stream[i] # 0
    /\ i < j /\ Stream[i] > 0 /\ Stream[j] > 0 => Stream[i] < Stream[j]
    /\ i < j /\ Stream[i] < 0 /\ Stream[j] < 0 => Stream[i] > Stream[j]

(* rtt_bytes_dropped counts the bytes that are lost, modulo its width:     *)
(* every other byte is somewhere on its way, however the host's reads fall.*)
Accounted == (written + errors - Len(Stream)) % Wrap = rtt_bytes_dropped

(* What is dropped is exactly what exceeds the room the ring had when      *)
(* rtt_write began: a host that had emptied it loses nothing of a text     *)
(* shorter than the ring.                                                  *)
DropsExcess ==
  [][\/ rtt_bytes_dropped' = rtt_bytes_dropped
     \/ (rtt_bytes_dropped' - rtt_bytes_dropped) % Wrap =
          (Distance(rd_idx, wr_idx) + Len(str) - (UpSize - 1)) % Wrap]_vars

(* No call into the Writer or rtt_write ever waits for the host.           *)
CallsReturn == thread # "out" ~> thread = "out"
=============================================================================
