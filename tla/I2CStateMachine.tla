--------------------------- MODULE I2CStateMachine ---------------------------
(***************************************************************************)
(* The interrupt-driven I2C driver (driver/i2c_state_machine.c): the two   *)
(* calls that start a transfer, the I2C1 interrupt handler that carries it *)
(* out, and the loop every caller waits in.  The thread and the handler    *)
(* share one core: the thread moves only while no handler runs.  The       *)
(* controller moves at any time, also between two statements of either.    *)
(*                                                                         *)
(* A definition named after another with a suffix Bug... is not part of    *)
(* the model: it is that definition with one plausible mistake in it, and  *)
(* tells which property would notice.                                      *)
(***************************************************************************)
EXTENDS I2CController

CONSTANTS
  StormLimit,   \* handler entries a transfer may take (10000 in the code)
  PromptStart   \* TRUE: no byte completes while a start call is running

ASSUME DriverAssumption ==
  /\ StormLimit \in Nat
  /\ PromptStart \in BOOLEAN

VARIABLES
  i2c1_state,  \* the state both sides share
  desc,        \* i2c1_descriptor
  buf,         \* the bytes stored in the reader's buffer, by index
  hits,        \* dbg_isr_hits
  isr,         \* where in the handler the core is, or "off"
  irq_status,  \* the handler's copy of intr_stat
  thread       \* where in the driver the thread is, or "out"

drvvars == <<i2c1_state, desc, buf, hits, isr, irq_status>>
i2cvars == <<hwvars, drvvars, thread>>

State == {"I2C_IDLE", "I2C_READING", "I2C_WRITING", "I2C_DONE", "I2C_ERROR"}
Busy == i2c1_state \in {"I2C_READING", "I2C_WRITING"}

Always == {"STOP_DET", "TX_ABRT", "RX_OVER"}    \* unmasked by i2c_irq_enable
Pacing == {"TX_EMPTY", "RX_FULL"}               \* unmasked during a transfer

Starting == {"r_cmd", "r_state", "r_mask", "w_state", "w_mask"}
Waiting  == {"check", "wfi", "sleep"}
IsrPlace == {"off", "abort", "over", "rx", "drain", "tx", "pump", "stop", "stop_drain",
             "stop_end", "exit"}

(* A compound literal zeroes the fields it does not name.  A reader's      *)
(* write_registers is the null pointer, here the empty sequence.           *)
NewDescriptor(reg, addresses, data, len) ==
  [reg_addr |-> reg, write_registers |-> addresses, data |-> data, length |-> len,
   write_is_data |-> FALSE, issued |-> 0, received |-> 0, abrt_source |-> "none",
   fault |-> {}]
ReadDescriptor(reg, len) == NewDescriptor(reg, <<>>, <<>>, len)
WriteDescriptor(addresses, data) == NewDescriptor(0, addresses, data, Len(addresses))

IsRead == desc.write_registers = <<>>

(* After i2c_init_master and i2c_irq_enable(I2C1).                          *)
DriverInit ==
  /\ HwInit
  /\ intr_mask = Always
  /\ i2c1_state = "I2C_IDLE"
  /\ desc = ReadDescriptor(0, 0)
  /\ buf = <<>> /\ hits = 0
  /\ isr = "off" /\ irq_status = {}
  /\ thread = "out"

-----------------------------------------------------------------------------
(* The calls of the thread.  A start refuses, and changes nothing, unless  *)
(* the state is I2C_IDLE.                                                   *)

ThreadRuns == isr = "off"

(* Fields assigned one by one, the two counters forgotten.                 *)
StartReadBugStale(reg, len) ==
  /\ ThreadRuns /\ thread = "out" /\ i2c1_state = "I2C_IDLE"
  /\ desc' = [desc EXCEPT !.reg_addr = reg, !.length = len, !.write_registers = <<>>]
  /\ buf' = <<>> /\ hits' = 0
  /\ thread' = "r_cmd"
  /\ UNCHANGED <<hwvars, i2c1_state, isr, irq_status>>

(* i2c_start_bulk_read_async: descriptor; register address to the FIFO;    *)
(* state; mask.                                                            *)
StartRead(reg, len) ==
  /\ ThreadRuns /\ thread = "out" /\ i2c1_state = "I2C_IDLE"
  /\ desc' = ReadDescriptor(reg, len) /\ buf' = <<>> /\ hits' = 0
  /\ thread' = "r_cmd"
  /\ UNCHANGED <<hwvars, i2c1_state, isr, irq_status>>

StartReadCmd ==
  /\ ThreadRuns /\ thread = "r_cmd"
  /\ PushCmd(WriteCmd(desc.reg_addr, FALSE))
  /\ thread' = "r_state"
  /\ UNCHANGED <<shifting, rx, latched, tx_abrt_source, intr_mask, bus, ptr, regs, drvvars>>

(* i2c_start_bulk_write_async: descriptor; state; mask.                    *)
StartWrite(addresses, data) ==
  /\ ThreadRuns /\ thread = "out" /\ i2c1_state = "I2C_IDLE"
  /\ desc' = WriteDescriptor(addresses, data) /\ buf' = <<>> /\ hits' = 0
  /\ thread' = "w_state"
  /\ UNCHANGED <<hwvars, i2c1_state, isr, irq_status>>

StartState ==
  /\ ThreadRuns
  /\ \/ thread = "r_state" /\ i2c1_state' = "I2C_READING" /\ thread' = "r_mask"
     \/ thread = "w_state" /\ i2c1_state' = "I2C_WRITING" /\ thread' = "w_mask"
  /\ UNCHANGED <<hwvars, desc, buf, hits, isr, irq_status>>

StartMask ==
  /\ ThreadRuns
  /\ \/ thread = "r_mask" /\ intr_mask' = intr_mask \cup Pacing
     \/ thread = "w_mask" /\ intr_mask' = intr_mask \cup {"TX_EMPTY"}
  /\ thread' = "check"
  /\ UNCHANGED <<tx, shifting, rx, latched, tx_abrt_source, bus, ptr, regs, drvvars>>

(* The caller's loop: while the transfer is busy, sleep until an interrupt *)
(* is taken.  One taken between the test and the WFI does not wake it.     *)
WaitCheck ==
  /\ ThreadRuns /\ thread = "check"
  /\ thread' = IF Busy THEN "wfi" ELSE "back"
  /\ UNCHANGED <<hwvars, drvvars>>

WaitSleep ==
  /\ ThreadRuns /\ thread = "wfi"
  /\ thread' = "sleep"
  /\ UNCHANGED <<hwvars, drvvars>>

ApiNext == StartReadCmd \/ StartState \/ StartMask \/ WaitCheck \/ WaitSleep

Wake == thread' = IF thread = "sleep" THEN "check" ELSE thread

(* No SysTick: nothing rescues a WFI entered after the last interrupt.     *)
TickBugAbsent == FALSE /\ UNCHANGED i2cvars

(* SYSTICK_Handler, every millisecond: here only the interrupt it is.      *)
Tick ==
  /\ isr = "off" /\ thread # "panic"
  /\ Wake
  /\ UNCHANGED <<hwvars, drvvars>>

-----------------------------------------------------------------------------
(* I2C1_IRQ_Handler, block by block.                                       *)

Irq == isr = "off" /\ IntrStat # {} /\ thread # "panic"

(* clear_rx.                                                               *)
ClearRx == rx' = <<>>

(* The guard masks everything and leaves the state as it was.              *)
IsrStormBugBusy ==
  /\ Irq /\ hits + 1 > StormLimit
  /\ hits' = hits + 1 /\ intr_mask' = {}
  /\ Wake
  /\ UNCHANGED <<tx, shifting, rx, latched, tx_abrt_source, bus, ptr, regs,
                 i2c1_state, desc, buf, isr, irq_status>>

IsrStorm ==
  /\ Irq /\ hits + 1 > StormLimit
  /\ hits' = hits + 1 /\ intr_mask' = {} /\ i2c1_state' = "I2C_ERROR"
  /\ Wake
  /\ UNCHANGED <<tx, shifting, rx, latched, tx_abrt_source, bus, ptr, regs,
                 desc, buf, isr, irq_status>>

IsrEnter ==
  /\ Irq /\ hits + 1 <= StormLimit
  /\ hits' = hits + 1 /\ irq_status' = IntrStat
  /\ isr' = IF "TX_ABRT" \in IntrStat THEN "abort" ELSE "over"
  /\ Wake
  /\ UNCHANGED <<hwvars, i2c1_state, desc, buf>>

(* IC_CLR_TX_ABRT, which also clears the source, read before the source.   *)
IsrAbortBugOrder ==
  /\ isr = "abort" /\ isr' = "off"
  /\ latched' = latched \ {"TX_ABRT", "STOP_DET"}
  /\ tx_abrt_source' = "none"
  /\ IF Busy
     THEN /\ desc' = [desc EXCEPT !.abrt_source = tx_abrt_source',
                                  !.fault = @ \cup {"I2C_FAULT_ABORT"}]
          /\ intr_mask' = intr_mask \ Pacing
          /\ ClearRx
          /\ i2c1_state' = "I2C_ERROR"
     ELSE UNCHANGED <<desc, intr_mask, rx, i2c1_state>>
  /\ UNCHANGED <<tx, shifting, bus, ptr, regs, buf, hits, irq_status, thread>>

IsrAbort ==
  /\ isr = "abort" /\ isr' = "off"
  /\ latched' = latched \ {"TX_ABRT", "STOP_DET"}
  /\ tx_abrt_source' = "none"
  /\ IF Busy
     THEN /\ desc' = [desc EXCEPT !.abrt_source = tx_abrt_source,
                                  !.fault = @ \cup {"I2C_FAULT_ABORT"}]
          /\ intr_mask' = intr_mask \ Pacing
          /\ ClearRx
          /\ i2c1_state' = "I2C_ERROR"
     ELSE UNCHANGED <<desc, intr_mask, rx, i2c1_state>>
  /\ UNCHANGED <<tx, shifting, bus, ptr, regs, buf, hits, irq_status, thread>>

(* An overrun that is cleared and not recorded.                            *)
IsrOverBugSilent ==
  /\ isr = "over" /\ isr' = "rx"
  /\ latched' = latched \ (irq_status \cap {"RX_OVER"})
  /\ UNCHANGED <<tx, shifting, rx, tx_abrt_source, intr_mask, bus, ptr, regs,
                 i2c1_state, desc, buf, hits, irq_status, thread>>

(* RX_OVER cleared only where it is recorded.                              *)
IsrOverBugReading ==
  /\ isr = "over" /\ isr' = "rx"
  /\ IF "RX_OVER" \in irq_status /\ i2c1_state = "I2C_READING"
     THEN /\ latched' = latched \ {"RX_OVER"}
          /\ desc' = [desc EXCEPT !.fault = @ \cup {"I2C_FAULT_OVERRUN"}]
          /\ i2c1_state' = "I2C_ERROR"
     ELSE UNCHANGED <<latched, desc, i2c1_state>>
  /\ UNCHANGED <<tx, shifting, rx, tx_abrt_source, intr_mask, bus, ptr, regs,
                 buf, hits, irq_status, thread>>

IsrOver ==
  /\ isr = "over" /\ isr' = "rx"
  /\ latched' = latched \ (irq_status \cap {"RX_OVER"})
  /\ IF "RX_OVER" \in irq_status /\ i2c1_state = "I2C_READING"
     THEN /\ desc' = [desc EXCEPT !.fault = @ \cup {"I2C_FAULT_OVERRUN"}]
          /\ i2c1_state' = "I2C_ERROR"
     ELSE UNCHANGED <<desc, i2c1_state>>
  /\ UNCHANGED <<tx, shifting, rx, tx_abrt_source, intr_mask, bus, ptr, regs,
                 buf, hits, irq_status, thread>>

IsrRx ==
  /\ isr = "rx"
  /\ \/ /\ "RX_FULL" \notin irq_status
        /\ isr' = "tx" /\ UNCHANGED rx
     \/ /\ "RX_FULL" \in irq_status /\ i2c1_state = "I2C_READING"
        /\ isr' = "drain" /\ UNCHANGED rx
     \/ /\ "RX_FULL" \in irq_status /\ i2c1_state # "I2C_READING"
        /\ isr' = "tx" /\ ClearRx
  /\ UNCHANGED <<tx, shifting, latched, tx_abrt_source, intr_mask, bus, ptr, regs,
                 i2c1_state, desc, buf, hits, irq_status, thread>>

(* drain_rx, one turn of its loop, and the end of it.                      *)
CanDrain == desc.received < desc.issued /\ RxNotEmpty

Store(f, i, v) == [j \in DOMAIN f \cup {i} |-> IF j = i THEN v ELSE f[j]]

(* received not counted.                                                   *)
IsrDrainBugCount ==
  /\ isr \in {"drain", "stop_drain"} /\ CanDrain
  /\ buf' = Store(buf, desc.received, Head(rx))
  /\ rx' = Tail(rx)
  /\ UNCHANGED <<tx, shifting, latched, tx_abrt_source, intr_mask, bus, ptr, regs,
                 i2c1_state, desc, hits, isr, irq_status, thread>>

IsrDrain ==
  /\ isr \in {"drain", "stop_drain"} /\ CanDrain
  /\ buf' = Store(buf, desc.received, Head(rx))
  /\ desc' = [desc EXCEPT !.received = @ + 1]
  /\ rx' = Tail(rx)
  /\ UNCHANGED <<tx, shifting, latched, tx_abrt_source, intr_mask, bus, ptr, regs,
                 i2c1_state, hits, isr, irq_status, thread>>

IsrDrainEnd ==
  /\ isr \in {"drain", "stop_drain"} /\ ~CanDrain
  /\ isr' = IF isr = "drain" THEN "tx" ELSE "stop_end"
  /\ UNCHANGED <<hwvars, i2c1_state, desc, buf, hits, irq_status, thread>>

IsrTx ==
  /\ isr = "tx"
  /\ isr' = IF "TX_EMPTY" \in irq_status /\ Busy THEN "pump" ELSE "stop"
  /\ UNCHANGED <<hwvars, i2c1_state, desc, buf, hits, irq_status, thread>>

(* pump_tx_read and pump_tx_write, one turn of the loop, and their end.    *)
CanPump == desc.issued < desc.length /\ TxNotFull
LastOneBugOffByOne == desc.issued = desc.length
LastOne == desc.issued = desc.length - 1

(* One command more than the transfer is long.                             *)
PumpReadBugOffByOne ==
  /\ isr = "pump" /\ i2c1_state = "I2C_READING"
  /\ desc.issued <= desc.length /\ TxNotFull
  /\ PushCmd(ReadCmd(desc.issued = 0, LastOne))
  /\ desc' = [desc EXCEPT !.issued = @ + 1]
  /\ UNCHANGED <<shifting, rx, latched, tx_abrt_source, intr_mask, bus, ptr, regs,
                 i2c1_state, buf, hits, isr, irq_status, thread>>

PumpRead ==
  /\ isr = "pump" /\ i2c1_state = "I2C_READING" /\ CanPump
  /\ PushCmd(ReadCmd(desc.issued = 0, LastOne))
  /\ desc' = [desc EXCEPT !.issued = @ + 1]
  /\ UNCHANGED <<shifting, rx, latched, tx_abrt_source, intr_mask, bus, ptr, regs,
                 i2c1_state, buf, hits, isr, irq_status, thread>>

PumpWrite ==
  /\ isr = "pump" /\ i2c1_state = "I2C_WRITING" /\ CanPump
  /\ IF desc.write_is_data
     THEN /\ PushCmd(WriteCmd(desc.data[desc.issued + 1], LastOne))
          /\ desc' = [desc EXCEPT !.issued = @ + 1, !.write_is_data = FALSE]
     ELSE /\ PushCmd(WriteCmd(desc.write_registers[desc.issued + 1], FALSE))
          /\ desc' = [desc EXCEPT !.write_is_data = TRUE]
  /\ UNCHANGED <<shifting, rx, latched, tx_abrt_source, intr_mask, bus, ptr, regs,
                 i2c1_state, buf, hits, isr, irq_status, thread>>

(* Which half of a pair comes next is forgotten when the FIFO fills up.    *)
PumpEndBugHalf ==
  /\ isr = "pump" /\ ~CanPump
  /\ desc' = [desc EXCEPT !.write_is_data = FALSE]
  /\ intr_mask' = IF desc.issued = desc.length THEN intr_mask \ {"TX_EMPTY"} ELSE intr_mask
  /\ isr' = "stop"
  /\ UNCHANGED <<tx, shifting, rx, latched, tx_abrt_source, bus, ptr, regs,
                 i2c1_state, buf, hits, irq_status, thread>>

(* TX_EMPTY stays unmasked after the last command.                         *)
PumpEndBugUnmasked ==
  /\ isr = "pump" /\ ~CanPump
  /\ isr' = "stop"
  /\ UNCHANGED <<hwvars, i2c1_state, desc, buf, hits, irq_status, thread>>

(* A write is called done when its last command is in the FIFO.            *)
PumpEndBugEarly ==
  /\ isr = "pump" /\ ~CanPump
  /\ intr_mask' = IF desc.issued = desc.length THEN intr_mask \ {"TX_EMPTY"} ELSE intr_mask
  /\ i2c1_state' = IF desc.issued = desc.length /\ ~IsRead THEN "I2C_DONE" ELSE i2c1_state
  /\ isr' = "stop"
  /\ UNCHANGED <<tx, shifting, rx, latched, tx_abrt_source, bus, ptr, regs,
                 desc, buf, hits, irq_status, thread>>

PumpEnd ==
  /\ isr = "pump" /\ ~CanPump
  /\ intr_mask' = IF desc.issued = desc.length THEN intr_mask \ {"TX_EMPTY"} ELSE intr_mask
  /\ isr' = "stop"
  /\ UNCHANGED <<tx, shifting, rx, latched, tx_abrt_source, bus, ptr, regs,
                 i2c1_state, desc, buf, hits, irq_status, thread>>

(* A STOP_DET after an error is taken for the end of a read.               *)
IsrStopBugAnyState ==
  /\ isr = "stop"
  /\ latched' = latched \ (irq_status \cap {"STOP_DET"})
  /\ \/ /\ "STOP_DET" \in irq_status /\ i2c1_state # "I2C_WRITING"
        /\ isr' = "stop_drain" /\ UNCHANGED <<rx, i2c1_state>>
     \/ /\ "STOP_DET" \in irq_status /\ i2c1_state = "I2C_WRITING"
        /\ ClearRx
        /\ i2c1_state' = IF desc.issued = desc.length THEN "I2C_DONE" ELSE "I2C_ERROR"
        /\ isr' = "exit"
     \/ /\ "STOP_DET" \notin irq_status
        /\ isr' = "exit" /\ UNCHANGED <<rx, i2c1_state>>
  /\ UNCHANGED <<tx, shifting, tx_abrt_source, intr_mask, bus, ptr, regs,
                 desc, buf, hits, irq_status, thread>>

(* The STOP_DET block.  A write is over at once; a read drains first.      *)
IsrStop ==
  /\ isr = "stop"
  /\ latched' = latched \ (irq_status \cap {"STOP_DET"})
  /\ \/ /\ "STOP_DET" \in irq_status /\ i2c1_state = "I2C_READING"
        /\ isr' = "stop_drain" /\ UNCHANGED <<rx, i2c1_state>>
     \/ /\ "STOP_DET" \in irq_status /\ i2c1_state = "I2C_WRITING"
        /\ ClearRx
        /\ i2c1_state' = IF desc.issued = desc.length THEN "I2C_DONE" ELSE "I2C_ERROR"
        /\ isr' = "exit"
     \/ /\ "STOP_DET" \notin irq_status \/ ~Busy
        /\ isr' = "exit" /\ UNCHANGED <<rx, i2c1_state>>
  /\ UNCHANGED <<tx, shifting, tx_abrt_source, intr_mask, bus, ptr, regs,
                 desc, buf, hits, irq_status, thread>>

IsrStopEnd ==
  /\ isr = "stop_end" /\ isr' = "exit"
  /\ i2c1_state' = IF desc.received = desc.length THEN "I2C_DONE" ELSE "I2C_ERROR"
  /\ UNCHANGED <<hwvars, desc, buf, hits, irq_status, thread>>

(* The masking at the end of the handler left out.                         *)
IsrExitBugUnmasked ==
  /\ isr = "exit" /\ isr' = "off"
  /\ UNCHANGED <<hwvars, i2c1_state, desc, buf, hits, irq_status, thread>>

IsrExit ==
  /\ isr = "exit" /\ isr' = "off"
  /\ intr_mask' = IF Busy THEN intr_mask ELSE intr_mask \ Pacing
  /\ UNCHANGED <<tx, shifting, rx, latched, tx_abrt_source, bus, ptr, regs,
                 i2c1_state, desc, buf, hits, irq_status, thread>>

IsrNext ==
  \/ IsrStorm \/ IsrEnter \/ IsrAbort \/ IsrOver \/ IsrRx \/ IsrDrain \/ IsrDrainEnd
  \/ IsrTx \/ PumpRead \/ PumpWrite \/ PumpEnd \/ IsrStop \/ IsrStopEnd \/ IsrExit

-----------------------------------------------------------------------------
(* The controller runs unless a panic has put it in reset, and, under      *)
(* PromptStart, does not get a byte across the bus (90 us) during the few  *)
(* instructions of a start call.                                           *)
BusRuns == thread # "panic" /\ ~(PromptStart /\ thread \in Starting)

BusStep == BusRuns /\ HwNext /\ UNCHANGED <<drvvars, thread>>

DriverNext == BusStep \/ IsrNext \/ ApiNext \/ Tick

-----------------------------------------------------------------------------
Fault == {"I2C_FAULT_ABORT", "I2C_FAULT_OVERRUN"}

Descriptor ==
  [reg_addr : Byte, write_registers : Seq(Byte), data : Seq(Byte), write_is_data : BOOLEAN,
   issued : Nat, received : Nat, length : Nat, abrt_source : AbortSource, fault : SUBSET Fault]

(* Every variable has its type; what a descriptor points to is as long as  *)
(* its length says, and the reader's buffer is filled from its start.      *)
DriverTypeOK ==
  /\ ControllerTypeOK
  /\ i2c1_state \in State
  /\ desc \in Descriptor
  /\ i2c1_state = "I2C_WRITING" \/ thread = "w_state" =>
       Len(desc.write_registers) = desc.length /\ Len(desc.data) = desc.length
  /\ buf \in [0 .. desc.received - 1 -> Byte]
  /\ hits \in Nat
  /\ isr \in IsrPlace
  /\ irq_status \subseteq Interrupt
  /\ thread \in Starting \cup Waiting \cup {"out", "back", "panic"}
=============================================================================
