--------------------------- MODULE RegisterAccess ---------------------------
(***************************************************************************)
(* What the driver promises a caller that starts one transfer at a time,   *)
(* without FIFOs, interrupts or a bus.  A write sets the sensor's          *)
(* registers pair after pair and, if it succeeds, has set them all; a read *)
(* that succeeds delivers the registers it names; either may fail instead. *)
(* The BME280 depends on the order: what is written to CTRL_HUM counts     *)
(* only from the next write of CTRL_MEAS on.                               *)
(***************************************************************************)
EXTENDS Integers, Sequences

CONSTANTS
  RegCount,   \* register addresses of the sensor
  Factory,    \* their values at power-up
  Requests    \* the transfers a caller may ask for

VARIABLES
  status,    \* of the current transfer
  request,   \* what it is to do
  regs,      \* the sensor's registers
  result     \* the bytes a successful read delivered, by index

vars == <<status, request, regs, result>>

NoRequest == [kind |-> "none", reg |-> 0, length |-> 0, addresses |-> <<>>, data |-> <<>>]

Init ==
  /\ status = "idle" /\ request = NoRequest
  /\ regs = Factory /\ result = <<>>

Begin ==
  /\ status = "idle" /\ status' = "busy"
  /\ request' \in Requests
  /\ UNCHANGED <<regs, result>>

(* The pair's value is in its register, or a later pair has replaced it.   *)
InEffect(k) ==
  \/ regs[request.addresses[k]] = request.data[k]
  \/ \E j \in k + 1 .. request.length : request.addresses[j] = request.addresses[k]

Write(k) ==
  /\ status = "busy" /\ request.kind = "write"
  /\ \A j \in 1 .. k - 1 : InEffect(j)
  /\ regs' = [regs EXCEPT ![request.addresses[k]] = request.data[k]]
  /\ UNCHANGED <<status, request, result>>

SucceedWriting ==
  /\ status = "busy" /\ request.kind = "write"
  /\ \A k \in 1 .. request.length : InEffect(k)
  /\ status' = "done"
  /\ UNCHANGED <<request, regs, result>>

SucceedReading ==
  /\ status = "busy" /\ request.kind = "read"
  /\ status' = "done"
  /\ result' = [i \in 0 .. request.length - 1 |->
                  regs[(request.reg + i) % RegCount]]
  /\ UNCHANGED <<request, regs>>

Fail ==
  /\ status = "busy" /\ status' = "failed"
  /\ UNCHANGED <<request, regs, result>>

Acknowledge ==
  /\ status \in {"done", "failed"} /\ status' = "idle"
  /\ request' = NoRequest /\ result' = <<>>
  /\ UNCHANGED regs

Next ==
  \/ Begin \/ SucceedWriting \/ SucceedReading \/ Fail \/ Acknowledge
  \/ \E k \in 1 .. request.length : Write(k)

Spec == Init /\ [][Next]_vars
=============================================================================
