----------------------------- MODULE I2CClient -----------------------------
(***************************************************************************)
(* The driver under any sequence of transfers.  The client does what every *)
(* caller in main.c and bme280.c does: start a transfer while the state is *)
(* I2C_IDLE, wait in the WFI loop, look at the outcome, and set the state  *)
(* back to I2C_IDLE before the next one.  After an error the program       *)
(* panics.                                                                 *)
(***************************************************************************)
EXTENDS I2CStateMachine

CONSTANTS
  Reads,   \* <<register, length>> of the reads a client may ask for
  Writes   \* <<addresses, data>> of the writes

ASSUME ClientAssumption ==
  /\ Reads \subseteq Byte \X (Nat \ {0})
  /\ \A w \in Writes :
       /\ w \in Seq(Byte) \X Seq(Byte)
       /\ Len(w[1]) = Len(w[2]) /\ Len(w[1]) > 0

Init == DriverInit

Start ==
  \/ \E r \in Reads : StartRead(r[1], r[2])
  \/ \E w \in Writes : StartWrite(w[1], w[2])

(* i2c1_state = I2C_IDLE after the loop and the barrier.                   *)
Acknowledge ==
  /\ ThreadRuns /\ thread = "back" /\ i2c1_state = "I2C_DONE"
  /\ i2c1_state' = "I2C_IDLE" /\ thread' = "out"
  /\ UNCHANGED <<hwvars, desc, buf, hits, isr, irq_status>>

(* PANIC: every peripheral into reset, interrupts off, sleep for ever.     *)
Panic ==
  /\ ThreadRuns /\ thread = "back" /\ i2c1_state # "I2C_DONE"
  /\ thread' = "panic"
  /\ UNCHANGED <<hwvars, drvvars>>

ThreadNext == Start \/ Acknowledge \/ Panic \/ ApiNext

Next == BusStep \/ IsrNext \/ ThreadNext \/ Tick

Spec == Init /\ [][Next]_i2cvars

(* The bus clock, the core and SysTick keep running.  Nothing makes the    *)
(* client start a transfer.                                                *)
Fairness ==
  /\ WF_i2cvars(BusStep)
  /\ WF_i2cvars(IsrNext)
  /\ WF_i2cvars(ApiNext \/ Acknowledge \/ Panic)
  /\ WF_i2cvars(Tick)

FairSpec == Spec /\ Fairness

-----------------------------------------------------------------------------
(* The variables are the driver's, and so are their types.                 *)
TypeOK == DriverTypeOK

(* A read that ends I2C_DONE delivered exactly the bytes of the registers  *)
(* asked for, in order, all of them and none left by an earlier transfer.  *)
ReadExact ==
  i2c1_state = "I2C_DONE" /\ IsRead =>
    buf = [i \in 0 .. desc.length - 1 |-> regs[(desc.reg_addr + i) % RegCount]]

(* A write that ends I2C_DONE has reached the sensor: every register named *)
(* holds the value paired with it, however the FIFO split the pairs.       *)
WriteExact ==
  i2c1_state = "I2C_DONE" /\ ~IsRead =>
    \A k \in 1 .. desc.length :
      (\A j \in k + 1 .. desc.length : desc.write_registers[j] # desc.write_registers[k])
        => regs[desc.write_registers[k]] = desc.data[k]

(* The handler never stores outside the reader's buffer.                   *)
BufferBounds == DOMAIN buf \subseteq 0 .. desc.length - 1

(* A finished transfer leaves nothing behind for the next one to inherit:  *)
(* no command, no byte, no interrupt and no open bus transaction.          *)
DoneIsQuiet ==
  i2c1_state = "I2C_DONE" =>
    tx = <<>> /\ rx = <<>> /\ latched = {} /\ bus = "idle"

(* An error is never without its reason: callers return the fault bits as  *)
(* their error code, and 0 means success to them.                          *)
ErrorHasFault == i2c1_state = "I2C_ERROR" => desc.fault # {}

(* An abort is recorded with the source the controller gave for it.        *)
AbortHasSource == "I2C_FAULT_ABORT" \in desc.fault => desc.abrt_source # "none"

(* With no transfer in progress and no handler running the controller may  *)
(* raise STOP_DET, TX_ABRT and RX_OVER and nothing else: a STOP that comes *)
(* after the end of its transfer still reaches the handler, and TX_EMPTY   *)
(* and RX_FULL, levels that would enter it for ever, are masked.  After    *)
(* the guard has fired nothing is enabled any more.                        *)
IdleIsMasked ==
  isr = "off" /\ ~Busy /\ thread \notin Starting =>
    intr_mask = IF hits > StormLimit THEN {} ELSE Always

(* Handler entries of one transfer stay far under the storm guard.         *)
FewEntries == hits <= 2 * desc.length + 2

(* The handler stores into a reader's buffer only while that reader is in *)
(* its start call or its wait loop: get_hum_params keeps the buffer on its *)
(* stack, and a later store would land in somebody else's frame.           *)
NoLateStore == [][buf' = buf \/ buf' = <<>> \/ thread \in Starting \cup Waiting]_i2cvars

(* Every transfer that begins ends.                                        *)
TransferEnds == Busy ~> ~Busy

(* Whoever waits gets out of the loop.                                     *)
WaiterReturns == thread \in Waiting ~> thread \notin Waiting
=============================================================================
