------------------------------ MODULE Firmware ------------------------------
(***************************************************************************)
(* main.c and the calibration reads of driver/bme280.c on top of the       *)
(* driver: read the temperature and pressure calibration, read the         *)
(* humidity calibration, write the configuration, read it back, then sleep *)
(* for ever.  Each of the four waits in the same WFI loop (WaitCheck); they *)
(* differ in which result of the driver they look at.  Definitions with a  *)
(* suffix Bug... are not part of the model, see I2CStateMachine.           *)
(***************************************************************************)
EXTENDS I2CStateMachine

CONSTANTS
  TpCalib,   \* <<register, length>> of the first calibration block
  HumCalib,  \* <<register, length>> of the second
  Config,    \* <<addresses, data>> of the configuration
  Readback   \* <<register, length>> main reads the configuration back with

ASSUME FirmwareAssumption ==
  /\ {TpCalib, HumCalib, Readback} \subseteq Byte \X (Nat \ {0})
  /\ Config \in Seq(Byte) \X Seq(Byte)
  /\ Len(Config[1]) = Len(Config[2]) /\ Len(Config[1]) > 0

VARIABLES
  step,      \* the transfer main is at, or "loop": its last WFI loop
  calib,     \* the bytes calib_params has of each calibration block
  readback   \* main's buffer of the same name, what of it has been set

mainvars == <<step, calib, readback>>
vars == <<i2cvars, mainvars>>

Calibrating == step \in {"tp", "hum"}
ReadOf == [tp |-> TpCalib, hum |-> HumCalib, readback |-> Readback]

Init ==
  /\ DriverInit
  /\ step = "tp"
  /\ calib = [tp |-> <<>>, hum |-> <<>>]
  /\ readback = <<>>

Begin ==
  /\ \/ step \in DOMAIN ReadOf /\ StartRead(ReadOf[step][1], ReadOf[step][2])
     \/ step = "config" /\ StartWrite(Config[1], Config[2])
  /\ UNCHANGED mainvars

(* The start call returns I2C_BUS_BUSY: the calibration reads hand it to   *)
(* main, which panics; main itself ignores it and enters its wait loop.    *)
Refused ==
  /\ ThreadRuns /\ thread = "out" /\ step # "loop" /\ i2c1_state # "I2C_IDLE"
  /\ thread' = IF Calibrating THEN "panic" ELSE "check"
  /\ UNCHANGED <<hwvars, drvvars, mainvars>>

(* The state is set back to I2C_IDLE on the error path as well.            *)
CalibratedBugReset ==
  /\ ThreadRuns /\ thread = "back" /\ Calibrating
  /\ i2c1_state' = "I2C_IDLE"
  /\ calib' = [calib EXCEPT ![step] = buf]
  /\ IF desc.fault = {}
     THEN thread' = "out" /\ step' = IF step = "tp" THEN "hum" ELSE "config"
     ELSE thread' = "panic" /\ UNCHANGED step
  /\ UNCHANGED <<hwvars, desc, buf, hits, isr, irq_status, readback>>

(* The fault bits are not looked at.                                       *)
CalibratedBugBlind ==
  /\ ThreadRuns /\ thread = "back" /\ Calibrating
  /\ i2c1_state' = "I2C_IDLE"
  /\ calib' = [calib EXCEPT ![step] = buf]
  /\ thread' = "out" /\ step' = IF step = "tp" THEN "hum" ELSE "config"
  /\ UNCHANGED <<hwvars, desc, buf, hits, isr, irq_status, readback>>

(* The state is left I2C_DONE after the second block.                      *)
CalibratedBugDone ==
  /\ ThreadRuns /\ thread = "back" /\ Calibrating
  /\ i2c1_state' = IF step = "tp" /\ i2c1_state = "I2C_DONE" THEN "I2C_IDLE" ELSE i2c1_state
  /\ calib' = [calib EXCEPT ![step] = buf]
  /\ IF i2c1_state = "I2C_DONE" \/ desc.fault = {}
     THEN thread' = "out" /\ step' = IF step = "tp" THEN "hum" ELSE "config"
     ELSE thread' = "panic" /\ UNCHANGED step
  /\ UNCHANGED <<hwvars, desc, buf, hits, isr, irq_status, readback>>

(* get_tp_params and get_hum_params: anything but I2C_DONE returns the     *)
(* fault bits, and main panics unless they are 0.  The first block is read *)
(* in place, the second is copied out of a stack buffer once it is whole.  *)
Calibrated ==
  /\ ThreadRuns /\ thread = "back" /\ Calibrating
  /\ i2c1_state' = IF i2c1_state = "I2C_DONE" THEN "I2C_IDLE" ELSE i2c1_state
  /\ calib' = [calib EXCEPT ![step] =
                 IF step = "tp" \/ i2c1_state = "I2C_DONE" THEN buf ELSE @]
  /\ IF i2c1_state = "I2C_DONE" \/ desc.fault = {}
     THEN thread' = "out" /\ step' = IF step = "tp" THEN "hum" ELSE "config"
     ELSE thread' = "panic" /\ UNCHANGED step
  /\ UNCHANGED <<hwvars, desc, buf, hits, isr, irq_status, readback>>

(* A failed configuration treated as main treats a failed readback.        *)
ConfiguredBugBlind ==
  /\ ThreadRuns /\ thread = "back" /\ step = "config"
  /\ thread' = "out" /\ i2c1_state' = "I2C_IDLE" /\ step' = "readback"
  /\ UNCHANGED <<hwvars, desc, buf, hits, isr, irq_status, calib, readback>>

Configured ==
  /\ ThreadRuns /\ thread = "back" /\ step = "config"
  /\ IF i2c1_state = "I2C_ERROR"
     THEN thread' = "panic" /\ UNCHANGED <<i2c1_state, step>>
     ELSE thread' = "out" /\ i2c1_state' = "I2C_IDLE" /\ step' = "readback"
  /\ UNCHANGED <<hwvars, desc, buf, hits, isr, irq_status, calib, readback>>

(* Whatever became of the readback, main reports SETUP SUCCESS.            *)
SetupSuccess ==
  /\ ThreadRuns /\ thread = "back" /\ step = "readback"
  /\ i2c1_state' = "I2C_IDLE"
  /\ readback' = buf
  /\ thread' = "out" /\ step' = "loop"
  /\ UNCHANGED <<hwvars, desc, buf, hits, isr, irq_status, calib>>

MainNext == Begin \/ Refused \/ Calibrated \/ Configured \/ SetupSuccess

Next == MainNext \/ (DriverNext /\ UNCHANGED mainvars)

(* The core executes main and its interrupts, the bus and SysTick run on.  *)
Fairness ==
  /\ WF_vars(MainNext \/ (ApiNext /\ UNCHANGED mainvars))
  /\ WF_vars(IsrNext /\ UNCHANGED mainvars)
  /\ WF_vars(BusStep /\ UNCHANGED mainvars)
  /\ WF_vars(Tick /\ UNCHANGED mainvars)

Spec == Init /\ [][Next]_vars /\ Fairness

-----------------------------------------------------------------------------
Block(r) == [i \in 0 .. r[2] - 1 |-> regs[(r[1] + i) % RegCount]]
FactoryBlock(r) == [i \in 0 .. r[2] - 1 |-> Factory[(r[1] + i) % RegCount]]

(* Nothing is written to the sensor before both calibration blocks have    *)
(* been read in full, although a calibration read that fails without a     *)
(* fault bit is taken for a success.                                       *)
CalibrationFirst ==
  regs # Factory =>
    calib = [tp |-> FactoryBlock(TpCalib), hum |-> FactoryBlock(HumCalib)]

(* main reaches its last loop only with the sensor configured, although it *)
(* ignores the result of the start call and skips the loop when refused.   *)
LoopIsConfigured ==
  step \in {"readback", "loop"} =>
    \A k \in DOMAIN Config[1] :
      (\A j \in k + 1 .. Len(Config[1]) : Config[1][j] # Config[1][k])
        => regs[Config[1][k]] = Config[2][k]

(* No start call is refused in a boot where the storm guard never fires:   *)
(* each user of the driver leaves it I2C_IDLE for the next.                *)
NeverRefused == thread = "out" /\ step # "loop" => i2c1_state = "I2C_IDLE"

(* What main prints as the configuration it read back is what the sensor   *)
(* holds.                                                                  *)
ReadbackShown == step = "loop" => readback = Block(Readback)

(* A readback that is not what the sensor holds left a fault bit, which    *)
(* main could have looked at.                                              *)
ReadbackOrFault == step = "loop" /\ desc.fault = {} => readback = Block(Readback)

(* main sets I2C_IDLE also after a readback that failed, with commands and *)
(* a STOP still on their way (line 153).  What they raise in its last loop *)
(* is cleared by the handler, each once, and leaves the mask as it was:    *)
(* no interrupt of a transfer nobody waits for keeps the core busy.        *)
LoopIsCalm ==
  step = "loop" =>
    /\ hits <= 2 * desc.length + 2
    /\ isr = "off" => intr_mask = IF hits > StormLimit THEN {} ELSE Always

(* main ends in its last loop or in the panic handler: no wait lasts.      *)
BootEnds == <>(step = "loop" \/ thread = "panic")
=============================================================================
