---------------------------- MODULE I2CController ----------------------------
(***************************************************************************)
(* The hardware the driver talks to: the I2C1 block of the RP2350 as bus   *)
(* master, and the BME280 as the only other device on the bus.  None of it *)
(* is code of the repository; it is modelled from how                      *)
(* i2c_state_machine.c programs it (I2C_INIT_SET and the reset values it   *)
(* leaves alone) and from the register notes at the top of that file.      *)
(*                                                                         *)
(* TX FIFO thresholds are 0 (IC_TX_TL and IC_RX_TL are never written):     *)
(* TX_EMPTY is the level "no command waits", RX_FULL the level "a byte     *)
(* waits".  A full RX FIFO does not hold the bus: the byte that does not   *)
(* fit is lost and RX_OVER is latched.                                     *)
(***************************************************************************)
EXTENDS Integers, Sequences

CONSTANTS
  TxDepth,   \* entries of the transmit FIFO (16 in the chip)
  RxDepth,   \* entries of the receive FIFO (16 in the chip)
  RegCount,  \* register addresses of the sensor; also the byte values (256)
  Factory,   \* what the sensor's registers hold at power-up
  MayNack    \* whether the sensor may fail to acknowledge a byte

Byte == 0 .. RegCount - 1

ASSUME ControllerAssumption ==
  /\ TxDepth \in Nat \ {0}
  /\ RxDepth \in Nat \ {0}
  /\ RegCount \in Nat \ {0}
  /\ Factory \in [Byte -> Byte]
  /\ MayNack \in BOOLEAN

VARIABLES
  tx,              \* commands not completed; the head is on the wire if shifting
  shifting,        \* the head of tx has left the FIFO for the shift register
  rx,              \* received bytes the processor has not read
  latched,         \* interrupts that stay raised until software clears them
  tx_abrt_source,  \* why the last abort happened, until TX_ABRT is cleared
  intr_mask,       \* IC_INTR_MASK: the unmasked interrupts
  bus,             \* what the wire is in the middle of
  ptr,             \* the sensor's register pointer
  regs             \* the sensor's registers

hwvars == <<tx, shifting, rx, latched, tx_abrt_source, intr_mask, bus, ptr, regs>>

Interrupt == {"TX_ABRT", "RX_OVER", "RX_FULL", "TX_EMPTY", "STOP_DET"}
Latching  == {"TX_ABRT", "RX_OVER", "STOP_DET"}
AbortSource == {"none", "addr_noack", "data_noack"}

(* "w_reg": in a write, the sensor takes the next byte as a register       *)
(* address; "w_data": as the value of that register; "stop": a STOP        *)
(* condition is due and not yet on the wire.                               *)
BusPhase == {"idle", "w_reg", "w_data", "read", "stop"}

Cmd == [read : BOOLEAN, val : Byte, restart : BOOLEAN, stop : BOOLEAN]

WriteCmd(v, stop) == [read |-> FALSE, val |-> v, restart |-> FALSE, stop |-> stop]
ReadCmd(restart, stop) == [read |-> TRUE, val |-> 0, restart |-> restart, stop |-> stop]

ControllerTypeOK ==
  /\ tx \in Seq(Cmd)
  /\ shifting \in BOOLEAN /\ (shifting => tx # <<>>)
  /\ rx \in Seq(Byte) /\ Len(rx) <= RxDepth
  /\ latched \subseteq Latching
  /\ tx_abrt_source \in AbortSource
  /\ intr_mask \subseteq Interrupt
  /\ bus \in BusPhase
  /\ ptr \in Byte
  /\ regs \in [Byte -> Byte]

-----------------------------------------------------------------------------
(* What the processor sees of the block.                                   *)

TxLevel == IF shifting THEN Len(tx) - 1 ELSE Len(tx)
TxNotFull == TxLevel < TxDepth        \* IC_STATUS.TFNF
RxNotEmpty == rx # <<>>               \* IC_STATUS.RFNE

IntrStat ==
  (latched \cup (IF TxLevel = 0 THEN {"TX_EMPTY"} ELSE {})
           \cup (IF RxNotEmpty THEN {"RX_FULL"} ELSE {})) \cap intr_mask

(* A store to IC_DATA_CMD.  The FIFO swallows it when it is full, and while *)
(* it is held flushed after an abort that software has not cleared.        *)
PushCmd(c) ==
  tx' = IF TxNotFull /\ "TX_ABRT" \notin latched THEN Append(tx, c) ELSE tx

-----------------------------------------------------------------------------
(* What the block and the sensor do by themselves.                         *)

HwInit ==
  /\ tx = <<>> /\ shifting = FALSE /\ rx = <<>>
  /\ latched = {} /\ tx_abrt_source = "none"
  /\ bus = "idle" /\ ptr = 0 /\ regs = Factory

(* The next command moves to the shift register, after any STOP that is due.*)
HwFetch ==
  /\ ~shifting /\ tx # <<>> /\ bus # "stop"
  /\ shifting' = TRUE
  /\ UNCHANGED <<tx, rx, latched, tx_abrt_source, intr_mask, bus, ptr, regs>>

Complete(cmd, phase) ==
  /\ tx' = Tail(tx) /\ shifting' = FALSE
  /\ bus' = IF cmd.stop THEN "stop" ELSE phase

(* The sensor acknowledges a byte: a register address, or a register value. *)
HwWriteByte ==
  /\ shifting /\ ~Head(tx).read
  /\ IF bus = "w_data"
     THEN /\ regs' = [regs EXCEPT ![ptr] = Head(tx).val]
          /\ Complete(Head(tx), "w_reg")
          /\ UNCHANGED ptr
     ELSE /\ ptr' = Head(tx).val
          /\ Complete(Head(tx), "w_data")
          /\ UNCHANGED regs
  /\ UNCHANGED <<rx, latched, tx_abrt_source, intr_mask>>

(* The sensor sends a byte and moves its pointer on; the byte is lost when  *)
(* the receive FIFO is full.                                               *)
HwReadByte ==
  /\ shifting /\ Head(tx).read
  /\ Complete(Head(tx), "read")
  /\ ptr' = IF ptr = RegCount - 1 THEN 0 ELSE ptr + 1
  /\ IF Len(rx) < RxDepth
     THEN rx' = Append(rx, regs[ptr]) /\ UNCHANGED latched
     ELSE latched' = latched \cup {"RX_OVER"} /\ UNCHANGED rx
  /\ UNCHANGED <<tx_abrt_source, intr_mask, regs>>

(* Nobody acknowledges the address that opens a (re)started direction, or  *)
(* a written byte.  The block flushes both FIFOs and owes the bus a STOP.  *)
HwAbort(source) ==
  /\ MayNack /\ shifting
  /\ \/ source = "addr_noack"
        /\ IF Head(tx).read THEN bus # "read" \/ Head(tx).restart
                            ELSE bus \notin {"w_reg", "w_data"}
     \/ source = "data_noack" /\ ~Head(tx).read
  /\ tx' = <<>> /\ shifting' = FALSE /\ rx' = <<>>
  /\ latched' = latched \cup {"TX_ABRT"}
  /\ tx_abrt_source' = source
  /\ bus' = "stop"
  /\ UNCHANGED <<intr_mask, ptr, regs>>

HwStop ==
  /\ bus = "stop"
  /\ bus' = "idle" /\ latched' = latched \cup {"STOP_DET"}
  /\ UNCHANGED <<tx, shifting, rx, tx_abrt_source, intr_mask, ptr, regs>>

HwNext ==
  \/ HwFetch \/ HwWriteByte \/ HwReadByte \/ HwStop
  \/ \E source \in AbortSource : HwAbort(source)
=============================================================================
