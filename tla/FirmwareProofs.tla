--------------------------- MODULE FirmwareProofs ---------------------------
(***************************************************************************)
(* What the boot sequence keeps, for every sensor, every calibration block *)
(* and configuration, every FIFO depth and whatever fails on the bus.  The *)
(* driver's invariant (I2CDriverProofs) holds until main is in its last    *)
(* loop: SetupSuccess sets the state back to I2C_IDLE also after a         *)
(* readback that failed, with commands left in the FIFO, but then nobody   *)
(* starts a transfer any more.  What is still on its way then is counted   *)
(* as it is after an error (Calm).                                         *)
(***************************************************************************)
EXTENDS Firmware, I2CDriverProofs

-----------------------------------------------------------------------------
(* main's steps, as steps of a client of the driver.                       *)

(* The request of the step main is at.                                     *)
Matches ==
  /\ step \in DOMAIN ReadOf =>
       IsRead /\ desc.reg_addr = ReadOf[step][1] /\ desc.length = ReadOf[step][2]
  /\ step = "config" =>
       /\ desc.write_registers = Config[1] /\ desc.data = Config[2]
       /\ desc.length = Len(Config[1])

(* Interrupts that still come are those of what is left on the bus, as     *)
(* after an error of the driver.                                           *)
Calm ==
  /\ KeptInv /\ (hits > StormLimit => isr = "off")
  /\ isr \in {"off", "abort"} => intr_mask \cap Pacing = {}
  /\ SeenInv /\ AbortRaised
  /\ Stormed \/ Settling

(* In its last loop main starts nothing, and the handler has nothing to    *)
(* drain or to pump.                                                       *)
LoopInv ==
  step = "loop" =>
    /\ thread = "out" /\ ~Busy /\ IsRead
    /\ isr \notin {"drain", "stop_drain", "stop_end", "pump"}

(* A transfer of this step is under way, or has succeeded.                 *)
InProgress == thread \notin {"out", "panic"} /\ i2c1_state # "I2C_ERROR"

Lengths == {0, TpCalib[2], HumCalib[2], Readback[2], Len(Config[1])}

MainInv ==
  /\ step \in {"tp", "hum", "config", "readback", "loop"}
  /\ step # "loop" => DriverInv /\ EntriesInv
  /\ step # "loop" /\ InProgress => Matches
  /\ step = "readback" => IsRead \/ ~InUse
  /\ LoopInv
  /\ ReadsOnly
  /\ desc.length \in Lengths

LEMMA ReadOfCases ==
  /\ DOMAIN ReadOf = {"tp", "hum", "readback"}
  /\ ReadOf["tp"] = TpCalib /\ ReadOf["hum"] = HumCalib /\ ReadOf["readback"] = Readback
  BY DEF ReadOf

(* A start call of main is one with a legal request.                       *)
LEMMA BeginBegins ==
  ASSUME Begin, step \in {"tp", "hum", "config", "readback", "loop"}
  PROVE  Begins /\ step # "loop"
<1>1. ASSUME step \in DOMAIN ReadOf, StartRead(ReadOf[step][1], ReadOf[step][2])
      PROVE  Begins /\ step # "loop"
  <2>1. ReadOf[step] \in {TpCalib, HumCalib, Readback} /\ step # "loop"
    BY <1>1, ReadOfCases
  <2>2. ReadOf[step][1] \in Byte /\ ReadOf[step][2] \in Nat \ {0}
    BY <2>1, FirmwareAssumption
  <2> QED
    BY <1>1, <2>1, <2>2 DEF Begins
<1>2. ASSUME step = "config", StartWrite(Config[1], Config[2]) PROVE Begins /\ step # "loop"
  <2>1. /\ Config[1] \in Seq(Byte) /\ Config[2] \in Seq(Byte)
        /\ Len(Config[1]) = Len(Config[2]) /\ Len(Config[1]) > 0
    BY FirmwareAssumption
  <2> QED
    BY <1>2, <2>1 DEF Begins
<1> QED
  BY <1>1, <1>2 DEF Begin

(* What a caller finds when it is back from its wait or between transfers. *)
LEMMA AtRest ==
  ASSUME DriverTypeOK, DriverInv
  PROVE  /\ thread = "back" => i2c1_state \in {"I2C_DONE", "I2C_ERROR"}
         /\ thread = "out" => i2c1_state \in {"I2C_IDLE", "I2C_ERROR"}
  BY DEF DriverTypeOK, State, DriverInv, ControlInv, RestInv, Busy, Waiting, Starting

(* Until the readback is over main is a client like any other.             *)
LEMMA BootMoves ==
  ASSUME DriverTypeOK, DriverInv, step # "loop",
         Refused \/ Calibrated \/ Configured \/ (SetupSuccess /\ i2c1_state = "I2C_DONE")
  PROVE  Takes \/ GivesUp
<1>1. CASE Refused
  BY <1>1, AtRest DEF Refused, ThreadRuns, GivesUp
<1>2. CASE Calibrated
  BY <1>2, AtRest DEF Calibrated, ThreadRuns, Takes, GivesUp, drvvars
<1>3. CASE Configured
  BY <1>3, AtRest DEF Configured, ThreadRuns, Takes, GivesUp, drvvars
<1>4. CASE SetupSuccess /\ i2c1_state = "I2C_DONE"
  BY <1>4 DEF SetupSuccess, ThreadRuns, Takes
<1> QED
  BY <1>1, <1>2, <1>3, <1>4

(* What main does next, depending on where it is.                          *)
LEMMA MainSteps ==
  ASSUME DriverTypeOK, MainInv, [Next]_vars
  PROVE  \/ step # "loop" /\ Begin /\ Begins
         \/ /\ step # "loop" /\ UNCHANGED mainvars
            /\ DriverNext \/ (GivesUp /\ thread' # "out") \/ UNCHANGED i2cvars
         \/ step # "loop" /\ (Calibrated \/ Configured \/ SetupSuccess)
         \/ step = "loop" /\ UNCHANGED mainvars /\ (DriverNext \/ UNCHANGED i2cvars)
<1>1. CASE UNCHANGED vars
  BY <1>1 DEF vars
<1>2. CASE DriverNext /\ UNCHANGED mainvars
  BY <1>2
<1>3. CASE Begin
  BY <1>3, BeginBegins DEF MainInv
<1>4. CASE Refused
  <2>1. step # "loop" /\ UNCHANGED mainvars /\ thread' # thread
    BY <1>4 DEF Refused
  <2>2. thread' # "out" /\ (Takes => thread' = "out")
    BY <1>4 DEF Refused, Takes
  <2> QED
    BY <1>4, <2>1, <2>2, BootMoves DEF MainInv
<1>5. CASE Calibrated \/ Configured \/ SetupSuccess
  <2>1. step # "loop"
    BY <1>5 DEF Calibrated, Configured, SetupSuccess, Calibrating
  <2> QED
    BY <1>5, <2>1
<1> QED
  BY <1>1, <1>2, <1>3, <1>4, <1>5 DEF Next, MainNext

(* The last loop.                                                          *)
LEMMA LoopStep ==
  ASSUME DriverTypeOK, MainInv, step = "loop", DriverNext \/ UNCHANGED i2cvars
  PROVE  /\ thread' = "out" /\ ~Busy' /\ isr' \notin {"drain", "stop_drain", "stop_end", "pump"}
         /\ ReadsOnly' /\ UNCHANGED <<desc, regs>>
<1>1. /\ thread = "out" /\ ~Busy /\ IsRead
      /\ isr \notin {"drain", "stop_drain", "stop_end", "pump"}
  BY DEF MainInv, LoopInv
<1>2. CASE UNCHANGED i2cvars
  BY <1>1, <1>2 DEF i2cvars, hwvars, drvvars, Busy, ReadsOnly, IsRead, MainInv
<1>3. CASE DriverNext
  <2>1. UNCHANGED desc
    BY <1>1, <1>3 DEF DriverNext, BusStep, IsrNext, ApiNext, StartReadCmd, StartState, StartMask,
       WaitCheck, WaitSleep, Tick, IsrStorm, IsrEnter, IsrAbort, IsrOver, IsrRx, IsrDrain,
       IsrDrainEnd, IsrTx, PumpRead, PumpWrite, PumpEnd, IsrStop, IsrStopEnd, IsrExit,
       drvvars, Busy
  <2>2. thread' = "out"
    BY <1>1, <1>3 DEF DriverNext, BusStep, IsrNext, ApiNext, StartReadCmd, StartState, StartMask,
       WaitCheck, WaitSleep, Tick, Wake, IsrStorm, IsrEnter, IsrAbort, IsrOver, IsrRx, IsrDrain,
       IsrDrainEnd, IsrTx, PumpRead, PumpWrite, PumpEnd, IsrStop, IsrStopEnd, IsrExit
  <2>3. ~Busy' /\ isr' \notin {"drain", "stop_drain", "stop_end", "pump"}
    BY <1>1, <1>3 DEF DriverNext, BusStep, IsrNext, ApiNext, StartReadCmd, StartState, StartMask,
       WaitCheck, WaitSleep, Tick, IsrStorm, IsrEnter, IsrAbort, IsrOver, IsrRx, IsrDrain,
       IsrDrainEnd, IsrTx, PumpRead, PumpWrite, PumpEnd, IsrStop, IsrStopEnd, IsrExit,
       drvvars, Busy
  <2>4. ReadsOnly' /\ regs' = regs
    <3>1. ~PumpWrite /\ thread # "r_cmd" /\ ReadsOnly
      BY <1>1 DEF PumpWrite, MainInv
    <3> QED
      BY <1>1, <1>3, <3>1, ReadsOnlyStep
  <2> QED
    BY <2>1, <2>2, <2>3, <2>4
<1> QED
  BY <1>2, <1>3

(* Nothing before SetupSuccess gets past an error.                         *)
LEMMA ErrorLasts ==
  ASSUME DriverTypeOK, MainInv, step # "loop", i2c1_state = "I2C_ERROR",
         DriverNext \/ GivesUp \/ UNCHANGED i2cvars
  PROVE  i2c1_state' = "I2C_ERROR"
<1>1. ~StartState /\ ~IsrStopEnd
  BY DEF StartState, IsrStopEnd, MainInv, DriverInv, ControlInv, PlaceInv, StartInv, Starting
<1> QED
  BY <1>1 DEF DriverNext, BusStep, IsrNext, ApiNext, StartReadCmd, StartMask, WaitCheck,
     WaitSleep, Tick, IsrStorm, IsrEnter, IsrAbort, IsrOver, IsrRx, IsrDrain, IsrDrainEnd, IsrTx,
     PumpRead, PumpWrite, PumpEnd, IsrStop, IsrExit, GivesUp, i2cvars, drvvars, Busy

(* A step of the driver or of a caller that gives up before the last loop. *)
LEMMA OtherStep ==
  ASSUME DriverTypeOK, MainInv, step # "loop", UNCHANGED mainvars,
         DriverNext \/ GivesUp \/ UNCHANGED i2cvars
  PROVE  (InProgress' => InProgress) /\ (Matches => Matches')
<1>1. /\ desc'.reg_addr = desc.reg_addr /\ desc'.length = desc.length
      /\ desc'.write_registers = desc.write_registers /\ desc'.data = desc.data
  BY MovesYield, RequestKept
<1>2. Matches => Matches'
  BY <1>1 DEF Matches, IsRead, mainvars
<1>3. CASE GivesUp
  BY <1>2, <1>3 DEF GivesUp, InProgress, drvvars
<1>4. CASE UNCHANGED i2cvars
  BY <1>2, <1>4 DEF i2cvars, drvvars, InProgress
<1>5. CASE DriverNext
  <2>1. thread' \notin {"out", "panic"} => thread \notin {"out", "panic"}
    BY <1>5 DEF DriverNext, BusStep, IsrNext, ApiNext, StartReadCmd, StartState, StartMask,
       WaitCheck, WaitSleep, Tick, Wake, IsrStorm, IsrEnter, IsrAbort, IsrOver, IsrRx, IsrDrain,
       IsrDrainEnd, IsrTx, PumpRead, PumpWrite, PumpEnd, IsrStop, IsrStopEnd, IsrExit
  <2>2. i2c1_state = "I2C_ERROR" => i2c1_state' = "I2C_ERROR"
    BY <1>5, ErrorLasts
  <2> QED
    BY <1>2, <2>1, <2>2 DEF InProgress
<1> QED
  BY <1>3, <1>4, <1>5

LEMMA BeginFacts ==
  ASSUME Begin, step \in {"tp", "hum", "config", "readback", "loop"}
  PROVE  Matches' /\ desc'.length \in Lengths /\ step' = step
         /\ (step = "readback" => IsRead')
<1>1. step' = step
  BY DEF Begin, mainvars
<1>2. ASSUME step \in DOMAIN ReadOf, StartRead(ReadOf[step][1], ReadOf[step][2])
      PROVE  Matches' /\ desc'.length \in Lengths /\ IsRead'
  <2>1. desc' = ReadDescriptor(ReadOf[step][1], ReadOf[step][2]) /\ step # "config"
    BY <1>2, ReadOfCases DEF StartRead
  <2>2. /\ desc'.reg_addr = ReadOf[step][1] /\ desc'.length = ReadOf[step][2]
        /\ desc'.write_registers = <<>>
    BY <2>1 DEF ReadDescriptor, NewDescriptor
  <2>3. desc'.length \in Lengths
    BY <1>2, <2>2, ReadOfCases DEF Lengths
  <2> QED
    BY <1>1, <2>1, <2>2, <2>3 DEF Matches, IsRead
<1>3. ASSUME step = "config", StartWrite(Config[1], Config[2])
      PROVE  Matches' /\ desc'.length \in Lengths
  <2>1. desc' = WriteDescriptor(Config[1], Config[2]) /\ step \notin DOMAIN ReadOf
    BY <1>3, ReadOfCases DEF StartWrite
  <2>2. Config[1] \in Seq(Byte) /\ Config[2] \in Seq(Byte)
    BY FirmwareAssumption
  <2>3. /\ desc'.write_registers = Config[1] /\ desc'.data = Config[2]
        /\ desc'.length = Len(Config[1])
    BY <2>1, <2>2, WriteDescriptorType
  <2> QED
    BY <1>1, <1>3, <2>1, <2>3 DEF Matches, Lengths
<1>4. step = "readback" => step \in DOMAIN ReadOf /\ step # "config"
  BY ReadOfCases
<1> QED
  BY <1>1, <1>2, <1>3, <1>4 DEF Begin

(* The main program keeps MainInv.                                         *)
LEMMA MainStep ==
  ASSUME DriverTypeOK, MainInv, [Next]_vars, PromptStart PROVE DriverTypeOK' /\ MainInv'
<1>1. CASE step # "loop" /\ Begin /\ Begins
  <2>1. DriverTypeOK' /\ DriverInv' /\ EntriesInv' /\ ReadsOnly'
    BY <1>1, MovesType, MovesInv, EntriesStep, ReadsKeep DEF Moves, MainInv
  <2>2. Matches' /\ desc'.length \in Lengths /\ step' = step /\ (step = "readback" => IsRead')
    BY <1>1, BeginFacts DEF MainInv
  <2> QED
    BY <1>1, <2>1, <2>2 DEF MainInv, LoopInv
<1>2. CASE step # "loop" /\ UNCHANGED mainvars /\ (DriverNext \/ GivesUp \/ UNCHANGED i2cvars)
  <2>1. DriverTypeOK' /\ DriverInv' /\ EntriesInv' /\ ReadsOnly'
    BY <1>2, MovesType, MovesInv, EntriesStep, ReadsKeep DEF Moves, MainInv
  <2>2. (InProgress' => InProgress) /\ (Matches => Matches') /\ step' = step
    BY <1>2, OtherStep DEF mainvars
  <2>3. desc'.length = desc.length /\ desc'.write_registers = desc.write_registers
    BY <1>2, MovesYield, RequestKept
  <2>4. InUse' => InUse
    BY <1>2, UseBegins DEF MainInv
  <2> QED
    BY <1>2, <2>1, <2>2, <2>3, <2>4 DEF MainInv, LoopInv, IsRead
<1>3. CASE step # "loop" /\ (Calibrated \/ Configured \/ (SetupSuccess /\ i2c1_state = "I2C_DONE"))
  <2>1. Takes \/ GivesUp
    BY <1>3, BootMoves DEF MainInv
  <2>2. DriverTypeOK' /\ DriverInv' /\ EntriesInv' /\ ReadsOnly'
    BY <1>3, <2>1, MovesType, MovesInv, EntriesStep, ReadsKeep DEF Moves, MainInv
  <2>3. UNCHANGED desc /\ thread' \in {"out", "panic"} /\ isr' = "off" /\ thread = "back"
    BY <1>3 DEF Calibrated, Configured, SetupSuccess, ThreadRuns
  <2>4. CASE Calibrated \/ Configured
    <3>1. step' \in {"tp", "hum", "config", "readback"}
      BY <2>4 DEF Calibrated, Configured, Calibrating, MainInv
    <3>2. step' = "readback" => thread' = "out" /\ i2c1_state' = "I2C_IDLE"
      BY <2>4 DEF Calibrated, Configured, Calibrating
    <3>3. step' = "readback" => ~InUse'
      BY <3>2 DEF InUse, Starting
    <3> QED
      BY <2>2, <2>3, <3>1, <3>3 DEF MainInv, InProgress, LoopInv
  <2>5. CASE SetupSuccess
    <3>1. step = "readback" /\ step' = "loop" /\ thread' = "out" /\ i2c1_state' = "I2C_IDLE"
          /\ InUse
      BY <1>3, <2>5, <2>3, AtRest DEF SetupSuccess, InUse, MainInv
    <3>2. IsRead'
      BY <2>3, <3>1 DEF MainInv, IsRead
    <3> QED
      BY <2>2, <2>3, <3>1, <3>2 DEF MainInv, LoopInv, Busy
  <2> QED
    BY <1>3, <2>4, <2>5
<1>4. CASE step # "loop" /\ SetupSuccess /\ i2c1_state # "I2C_DONE"
  <2>1. /\ step = "readback" /\ step' = "loop" /\ thread = "back" /\ thread' = "out"
        /\ isr' = "off" /\ i2c1_state' = "I2C_IDLE" /\ UNCHANGED <<hwvars, desc>>
    BY <1>4 DEF SetupSuccess, ThreadRuns
  <2>2. DriverTypeOK'
    <3>1. Yields
      BY <1>4 DEF SetupSuccess, ThreadRuns, Yields
    <3> QED
      BY <3>1, YieldsType
  <2>3. InUse
    BY <1>4, <2>1, AtRest DEF MainInv, InUse
  <2>4. IsRead /\ IsRead'
    BY <2>1, <2>3 DEF MainInv, IsRead
  <2>5. ReadsOnly'
    BY <2>1, <2>4 DEF MainInv, ReadsOnly, hwvars
  <2> QED
    BY <2>1, <2>2, <2>4, <2>5 DEF MainInv, LoopInv, Busy
<1>5. CASE step = "loop" /\ UNCHANGED mainvars /\ (DriverNext \/ UNCHANGED i2cvars)
  <2>1. /\ thread' = "out" /\ ~Busy' /\ isr' \notin {"drain", "stop_drain", "stop_end", "pump"}
        /\ ReadsOnly' /\ UNCHANGED <<desc, regs>>
    BY <1>5, LoopStep
  <2>2. DriverTypeOK' /\ step' = "loop" /\ IsRead
    BY <1>5, DriverType, SameType DEF mainvars, MainInv, LoopInv
  <2> QED
    BY <2>1, <2>2 DEF MainInv, LoopInv, IsRead
<1> QED
  BY <1>1, <1>2, <1>3, <1>4, <1>5, MainSteps

LEMMA MainInit == Init => DriverTypeOK /\ MainInv
<1> SUFFICES ASSUME Init PROVE DriverTypeOK /\ MainInv
  OBVIOUS
<1>1. DriverInit /\ step = "tp"
  BY DEF Init
<1>2. DriverTypeOK /\ DriverInv /\ EntriesInv
  BY <1>1, DriverInitType, DriverInitInv, EntriesInit
<1>3. /\ thread = "out" /\ tx = <<>> /\ desc.length = 0
  BY <1>1 DEF DriverInit, HwInit, ReadDescriptor, NewDescriptor
<1>4. Len(tx) = 0
  BY <1>3, EmptySeq
<1>5. ReadsOnly
  BY <1>4 DEF ReadsOnly
<1> QED
  BY <1>1, <1>2, <1>3, <1>5 DEF MainInv, LoopInv, InProgress, Lengths

LEMMA MainInvariant == ASSUME PromptStart PROVE Spec => [](DriverTypeOK /\ MainInv)
<1>1. DriverTypeOK /\ MainInv /\ [Next]_vars => (DriverTypeOK /\ MainInv)'
  BY MainStep
<1> QED
  BY <1>1, MainInit, PTL DEF Spec

-----------------------------------------------------------------------------
(* CalibrationFirst.  Until the configuration is written the registers are *)
(* those of the factory, and a block that was read is a block of those.  A *)
(* calibration read that failed without a fault bit is taken for a success *)
(* but leaves I2C_ERROR, which main does not get past before the last loop.*)

Calibration == [tp |-> FactoryBlock(TpCalib), hum |-> FactoryBlock(HumCalib)]

CalibInv ==
  /\ calib = [tp |-> calib.tp, hum |-> calib.hum]
  /\ step \in {"tp", "hum"} => IsRead /\ regs = Factory
  /\ step = "hum" /\ i2c1_state # "I2C_ERROR" => calib.tp = FactoryBlock(TpCalib)
  /\ step = "config" /\ IsRead => regs = Factory
  /\ step = "config" /\ (i2c1_state # "I2C_ERROR" \/ ~IsRead) => calib = Calibration
  /\ step \in {"readback", "loop"} => calib = Calibration

(* A read that is done has what the sensor holds.                          *)
LEMMA ReadIsBlock ==
  ASSUME DriverTypeOK, MainInv, step \in DOMAIN ReadOf, thread = "back", i2c1_state = "I2C_DONE"
  PROVE  buf = Block(ReadOf[step])
<1>1. Matches /\ DriverInv
  BY ReadOfCases DEF MainInv, InProgress
<1>2. /\ IsRead /\ desc.reg_addr = ReadOf[step][1] /\ desc.length = ReadOf[step][2]
      /\ buf = [i \in 0 .. desc.length - 1 |-> regs[(desc.reg_addr + i) % RegCount]]
  BY <1>1 DEF Matches, DriverInv, TransferInv, DoneInv
<1> QED
  BY <1>2 DEF Block

LEMMA CalibratedStep ==
  ASSUME DriverTypeOK, MainInv, CalibInv, Calibrated PROVE CalibInv'
<1>1. /\ thread = "back" /\ step \in {"tp", "hum"} /\ UNCHANGED <<desc, regs>>
      /\ step' \in {step, IF step = "tp" THEN "hum" ELSE "config"}
      /\ IsRead /\ regs = Factory /\ IsRead'
  BY DEF Calibrated, Calibrating, CalibInv, IsRead, hwvars
<1>2. i2c1_state \in {"I2C_DONE", "I2C_ERROR"}
  BY <1>1, AtRest DEF MainInv
<1>3. CASE i2c1_state = "I2C_ERROR"
  <2>1. i2c1_state' = "I2C_ERROR"
    BY <1>3 DEF Calibrated
  <2>2. calib' = [calib EXCEPT ![step] = IF step = "tp" THEN buf ELSE @]
    BY <1>3 DEF Calibrated
  <2>3. calib' = [tp |-> calib'.tp, hum |-> calib'.hum]
    BY <1>1, <2>2 DEF CalibInv
  <2> QED
    BY <1>1, <2>1, <2>3 DEF CalibInv
<1>4. CASE i2c1_state = "I2C_DONE"
  <2>1. buf = FactoryBlock(ReadOf[step])
    BY <1>1, <1>4, ReadIsBlock, ReadOfCases DEF Block, FactoryBlock
  <2>2. /\ calib' = [calib EXCEPT ![step] = buf] /\ i2c1_state' = "I2C_IDLE"
        /\ step' = IF step = "tp" THEN "hum" ELSE "config"
    BY <1>4 DEF Calibrated
  <2>3. CASE step = "tp"
    <3>1. calib' = [tp |-> FactoryBlock(TpCalib), hum |-> calib.hum]
      BY <2>1, <2>2, <2>3, ReadOfCases DEF CalibInv
    <3>2. calib' = [tp |-> calib'.tp, hum |-> calib'.hum] /\ calib'.tp = FactoryBlock(TpCalib)
      BY <3>1
    <3> QED
      BY <1>1, <2>2, <2>3, <3>2 DEF CalibInv
  <2>4. CASE step = "hum"
    <3>1. calib.tp = FactoryBlock(TpCalib)
      BY <1>4, <2>4 DEF CalibInv
    <3>2. calib' = Calibration
      BY <2>1, <2>2, <2>4, <3>1, ReadOfCases DEF CalibInv, Calibration
    <3> QED
      BY <1>1, <2>2, <2>4, <3>2 DEF CalibInv, Calibration
  <2> QED
    BY <1>1, <2>3, <2>4
<1> QED
  BY <1>2, <1>3, <1>4

LEMMA CalibStep ==
  ASSUME DriverTypeOK, MainInv, CalibInv, [Next]_vars PROVE CalibInv'
<1>1. CASE step # "loop" /\ Begin /\ Begins
  <2>1. /\ UNCHANGED <<step, calib, regs>> /\ i2c1_state = "I2C_IDLE" /\ i2c1_state' = "I2C_IDLE"
        /\ step \in {"tp", "hum"} => IsRead'
        /\ step = "config" => ~IsRead'
    <3>1. /\ UNCHANGED <<step, calib, regs>> /\ i2c1_state = "I2C_IDLE"
          /\ i2c1_state' = "I2C_IDLE"
      BY <1>1 DEF Begin, StartRead, StartWrite, hwvars, mainvars
    <3>2. Matches'
      BY <1>1, BeginFacts DEF MainInv
    <3>3. step = "config" => Config[1] # <<>>
      BY FirmwareAssumption, EmptySeq
    <3> QED
      BY <3>1, <3>2, <3>3, ReadOfCases DEF Matches, IsRead
  <2> QED
    BY <1>1, <2>1 DEF CalibInv
<1>2. CASE step # "loop" /\ UNCHANGED mainvars /\ (DriverNext \/ GivesUp \/ UNCHANGED i2cvars)
  <2>1. UNCHANGED <<step, calib>>
    BY <1>2 DEF mainvars
  <2>2. IsRead' = IsRead
    BY <1>2, MovesYield, RequestKept DEF IsRead
  <2>3. IsRead => regs' = regs
    BY <1>2, ReadsKeep DEF Moves, MainInv
  <2>4. i2c1_state = "I2C_ERROR" => i2c1_state' = "I2C_ERROR"
    BY <1>2, ErrorLasts
  <2> QED
    BY <1>2, <2>1, <2>2, <2>3, <2>4 DEF CalibInv
<1>3. CASE Calibrated
  BY <1>3, CalibratedStep
<1>4. CASE Configured
  <2>1. /\ step = "config" /\ UNCHANGED <<calib, regs, desc>>
        /\ \/ i2c1_state' = "I2C_ERROR" /\ step' = step /\ i2c1_state = "I2C_ERROR"
           \/ i2c1_state # "I2C_ERROR" /\ step' = "readback"
    BY <1>4 DEF Configured, hwvars
  <2> QED
    BY <2>1 DEF CalibInv, IsRead
<1>5. CASE SetupSuccess
  BY <1>5 DEF SetupSuccess, CalibInv
<1>6. CASE step = "loop" /\ UNCHANGED mainvars
  BY <1>6 DEF mainvars, CalibInv
<1> QED
  BY <1>1, <1>2, <1>3, <1>4, <1>5, <1>6, MainSteps

(* Nothing is written to the sensor before both calibration blocks have    *)
(* been read in full, for any storm limit: get_tp_params and               *)
(* get_hum_params may return 0 after an error, but not in I2C_IDLE.        *)
THEOREM CalibratesFirst == ASSUME PromptStart PROVE Spec => []CalibrationFirst
<1>1. Init => CalibInv
  <2> SUFFICES ASSUME Init PROVE CalibInv
    OBVIOUS
  <2>1. /\ step = "tp" /\ regs = Factory /\ desc = ReadDescriptor(0, 0)
        /\ calib = [tp |-> <<>>, hum |-> <<>>]
    BY DEF Init, DriverInit, HwInit
  <2>2. IsRead
    BY <2>1 DEF IsRead, ReadDescriptor, NewDescriptor
  <2> QED
    BY <2>1, <2>2 DEF CalibInv
<1>2. DriverTypeOK /\ MainInv /\ CalibInv /\ [Next]_vars => CalibInv'
  BY CalibStep
<1>3. MainInv /\ CalibInv => CalibrationFirst
  BY DEF MainInv, CalibInv, CalibrationFirst, Calibration
<1> QED
  BY <1>1, <1>2, <1>3, MainInvariant, PTL DEF Spec

-----------------------------------------------------------------------------
(* LoopIsConfigured.  The configuration main goes on from is one that      *)
(* ended I2C_DONE, and the read that follows changes nothing.              *)

ConfigInv ==
  step \in {"readback", "loop"} =>
    \A k \in 1 .. Len(Config[1]) :
      \/ regs[Config[1][k]] = Config[2][k]
      \/ \E j \in k + 1 .. Len(Config[1]) : Config[1][j] = Config[1][k]

LEMMA ConfigStep ==
  ASSUME DriverTypeOK, MainInv, ConfigInv, [Next]_vars PROVE ConfigInv'
<1>1. CASE UNCHANGED <<step, regs>>
  BY <1>1 DEF ConfigInv
<1>2. CASE Begin
  BY <1>1, <1>2 DEF Begin, StartRead, StartWrite, hwvars, mainvars
<1>3. CASE step # "loop" /\ UNCHANGED mainvars /\ (DriverNext \/ GivesUp \/ UNCHANGED i2cvars)
  <2>1. IsRead => regs' = regs
    BY <1>3, ReadsKeep DEF Moves, MainInv
  <2>2. ~IsRead /\ step = "readback" => regs' = regs
    <3>1. ~IsRead /\ step = "readback" => ~shifting
      BY <1>3 DEF MainInv, InUse, DriverInv, ControlInv, RestInv, Quiet
    <3>2. ~shifting => regs' = regs
      BY <1>3 DEF DriverNext, BusStep, HwNext, HwFetch, HwWriteByte, HwReadByte, HwStop, HwAbort,
         ApiNext, StartReadCmd, StartState, StartMask, WaitCheck, WaitSleep, Tick, IsrNext,
         IsrStorm, IsrEnter, IsrAbort, IsrOver, IsrRx, IsrDrain, IsrDrainEnd, IsrTx, PumpRead,
         PumpWrite, PumpEnd, IsrStop, IsrStopEnd, IsrExit, GivesUp, i2cvars, hwvars
    <3> QED
      BY <3>1, <3>2
  <2> QED
    BY <1>3, <2>1, <2>2 DEF ConfigInv, mainvars
<1>4. CASE Calibrated
  BY <1>4 DEF Calibrated, Calibrating, ConfigInv
<1>5. CASE Configured
  <2>1. /\ step = "config" /\ UNCHANGED regs /\ thread = "back"
        /\ (step' # "config" => i2c1_state # "I2C_ERROR")
    BY <1>5 DEF Configured, hwvars
  <2>2. i2c1_state # "I2C_ERROR" => i2c1_state = "I2C_DONE" /\ Matches
    BY <2>1, AtRest DEF MainInv, InProgress
  <2>3. Config[1] # <<>>
    BY FirmwareAssumption, EmptySeq
  <2>4. i2c1_state # "I2C_ERROR" =>
          /\ desc.write_registers = Config[1] /\ desc.data = Config[2]
          /\ desc.length = Len(Config[1]) /\ Effective(desc, desc.length)
    BY <2>1, <2>2, <2>3 DEF Matches, MainInv, DriverInv, TransferInv, DoneInv, IsRead
  <2> QED
    BY <2>1, <2>4 DEF ConfigInv, Effective
<1>6. CASE SetupSuccess
  BY <1>6 DEF SetupSuccess, ConfigInv, hwvars
<1>7. CASE step = "loop" /\ UNCHANGED mainvars /\ (DriverNext \/ UNCHANGED i2cvars)
  BY <1>1, <1>7, LoopStep DEF mainvars
<1> QED
  BY <1>2, <1>3, <1>4, <1>5, <1>6, <1>7, MainSteps

(* main reaches its last loop only with every register of the              *)
(* configuration set, whatever the readback does and for any storm limit.  *)
THEOREM LoopsConfigured == ASSUME PromptStart PROVE Spec => []LoopIsConfigured
<1>1. Init => ConfigInv
  BY DEF Init, ConfigInv
<1>2. DriverTypeOK /\ MainInv /\ ConfigInv /\ [Next]_vars => ConfigInv'
  BY ConfigStep
<1>3. ConfigInv => LoopIsConfigured
  <2>1. DOMAIN Config[1] = 1 .. Len(Config[1])
    BY FirmwareAssumption, LenProperties
  <2> QED
    BY <2>1 DEF ConfigInv, LoopIsConfigured
<1> QED
  BY <1>1, <1>2, <1>3, MainInvariant, PTL DEF Spec

-----------------------------------------------------------------------------
(* LoopIsCalm.  A readback that is done has left nothing (Quiet), and one  *)
(* that failed what ErrorEntries counts.                                   *)

CalmInv == step = "loop" => Calm

(* Nothing is on its way after a success.                                  *)
LEMMA DoneIsSettled ==
  ASSUME DriverTypeOK, DriverInv, EntriesInv, isr = "off", i2c1_state = "I2C_DONE"
  PROVE  Settling /\ intr_mask \cap Pacing = {}
<1>1. /\ tx = <<>> /\ latched = {} /\ bus = "idle" /\ intr_mask \cap Pacing = {}
  BY DEF DriverInv, ControlInv, RestInv, Quiet
<1>2. Pending = 0
  BY <1>1, EmptySeq DEF Pending, Left, Flags, Flag
<1>3. hits <= 2 * desc.length + 2 /\ ~Owed
  BY DEF EntriesInv, RestEntries, Owed
<1>4. StopLast
  BY <1>1, EmptySeq DEF StopLast
<1>5. hits + Pending <= (2 * desc.length + 2) + 0
  BY <1>2, <1>3, SeriesType DEF DriverTypeOK
<1> QED
  BY <1>1, <1>3, <1>4, <1>5 DEF Settling

(* main enters its last loop.                                              *)
LEMMA SuccessCalms == ASSUME DriverTypeOK, MainInv, SetupSuccess PROVE Calm'
<1>1. /\ step = "readback" /\ thread = "back" /\ isr = "off" /\ isr' = "off"
      /\ UNCHANGED <<hwvars, desc, hits, irq_status>>
  BY DEF SetupSuccess, ThreadRuns
<1>2. DriverInv /\ EntriesInv
  BY <1>1 DEF MainInv
<1>3. (Stormed \/ Settling) /\ intr_mask \cap Pacing = {}
  <2>1. CASE i2c1_state = "I2C_DONE"
    BY <1>1, <1>2, <2>1, DoneIsSettled
  <2>2. CASE i2c1_state = "I2C_ERROR"
    BY <1>1, <1>2, <2>2 DEF EntriesInv, ErrorEntries, MaskInv
  <2> QED
    BY <1>1, <1>2, <2>1, <2>2, AtRest
<1>4. UNCHANGED <<Stormed, Settling>>
  BY <1>1 DEF Stormed, Settling, StopLast, Pending, Left, Flags, Flag, Owed, hwvars
<1>5. KeptInv' /\ SeenInv' /\ AbortRaised'
  BY <1>1, <1>2 DEF EntriesInv, KeptInv, SeenInv, AbortRaised, hwvars
<1> QED
  BY <1>1, <1>3, <1>4, <1>5 DEF Calm, hwvars

(* The handler, the controller and SysTick in main's last loop.            *)
LEMMA LoopCalm ==
  ASSUME DriverTypeOK, MainInv, Calm, step = "loop", DriverNext \/ UNCHANGED i2cvars
  PROVE  Calm'
<1>1. /\ thread = "out" /\ ~Busy
      /\ isr \notin {"drain", "stop_drain", "stop_end", "pump"}
  BY DEF MainInv, LoopInv
<1>2. hits \in Nat /\ StormLimit \in Nat
  BY DriverAssumption DEF DriverTypeOK
<1>3. SeenInv'
  BY SeenStep DEF Calm
<1>4. CASE BusStep
  <2>1. Stormed' \/ Settling'
    BY <1>4, ErrorBusStep DEF Calm
  <2>2. UNCHANGED <<intr_mask, hits, isr>> /\ latched \subseteq latched'
    BY <1>4 DEF BusStep, HwNext, HwFetch, HwWriteByte, HwReadByte, HwStop, HwAbort, drvvars
  <2> QED
    BY <1>3, <2>1, <2>2 DEF Calm, KeptInv, AbortRaised
<1>5. CASE Tick \/ UNCHANGED i2cvars
  <2>1. UNCHANGED <<tx, bus, latched, intr_mask, drvvars>>
    BY <1>5 DEF Tick, i2cvars, hwvars
  <2>2. UNCHANGED <<Stormed, Settling>>
    BY <2>1 DEF Stormed, Settling, StopLast, Pending, Left, Flags, Flag, Owed, drvvars
  <2> QED
    BY <1>3, <2>1, <2>2 DEF Calm, KeptInv, AbortRaised, drvvars
<1>6. CASE IsrStorm
  <2>1. /\ isr = "off" /\ isr' = "off" /\ intr_mask' = {} /\ hits' = hits + 1
        /\ hits + 1 > StormLimit /\ UNCHANGED desc /\ Irq
    BY <1>6 DEF IsrStorm, Irq
  <2>2. hits + Pending <= 2 * desc.length + 2 /\ Pending >= 1
    BY <2>1, LatchedIrq DEF Calm
  <2>3. hits + 1 <= 2 * desc.length + 2
    <3>1. PICK b \in Nat : b = 2 * desc.length + 2
      BY SeriesType DEF DriverTypeOK
    <3>2. Pending \in Nat /\ hits + Pending <= b
      BY <2>2, <3>1, PendingType DEF DriverTypeOK
    <3> QED
      BY <1>2, <2>2, <3>1, <3>2
  <2>4. Stormed'
    BY <2>1, <2>3 DEF Stormed
  <2> QED
    BY <1>3, <2>1, <2>4 DEF Calm, KeptInv, AbortRaised
<1>7. CASE IsrEnter
  <2>1. /\ isr = "off" /\ hits' = hits + 1 /\ ~(hits + 1 > StormLimit)
        /\ UNCHANGED <<intr_mask, latched>>
        /\ isr' = IF "TX_ABRT" \in IntrStat THEN "abort" ELSE "over"
    BY <1>2, <1>7 DEF IsrEnter, Irq, hwvars
  <2>2. Settling'
    BY <1>7, <2>1, ErrorEnter DEF Calm
  <2>3. "TX_ABRT" \in IntrStat => "TX_ABRT" \in latched
    BY DEF IntrStat
  <2>4. KeptInv'
    BY <1>2, <2>1 DEF Calm, KeptInv
  <2> QED
    BY <1>3, <2>1, <2>2, <2>3, <2>4 DEF Calm, AbortRaised
<1>8. CASE IsrAbort \/ IsrOver \/ IsrRx \/ IsrTx \/ IsrStop \/ IsrExit
  <2>1. isr # "off" /\ UNCHANGED hits /\ isr' # "abort" /\ ~(hits > StormLimit)
    BY <1>8 DEF IsrAbort, IsrOver, IsrRx, IsrTx, IsrStop, IsrExit, Calm
  <2>2. Settling'
    BY <1>1, <1>8, <2>1, ErrorBlocks DEF Calm, Stormed
  <2>3. intr_mask' \ Pacing = intr_mask \ Pacing
    BY <1>8 DEF IsrAbort, IsrOver, IsrRx, IsrTx, IsrStop, IsrExit, hwvars
  <2>4. isr' = "off" => intr_mask' \cap Pacing = {}
    BY <1>1, <1>8 DEF IsrAbort, IsrOver, IsrRx, IsrTx, IsrStop, IsrExit, Calm
  <2> QED
    BY <1>3, <2>1, <2>2, <2>3, <2>4 DEF Calm, KeptInv, AbortRaised
<1> QED
  BY <1>1, <1>4, <1>5, <1>6, <1>7, <1>8 DEF DriverNext, ApiNext, StartReadCmd, StartState,
     StartMask, WaitCheck, WaitSleep, IsrNext, IsrDrain, IsrDrainEnd, PumpRead, PumpWrite,
     PumpEnd, IsrStopEnd

(* After main has set I2C_IDLE for the last time the interrupts of a       *)
(* readback that failed are cleared one by one, stay within the bound of   *)
(* any transfer, and leave the mask of i2c_irq_enable.                     *)
THEOREM LoopStaysCalm == ASSUME PromptStart PROVE Spec => []LoopIsCalm
<1>1. Init => CalmInv
  BY DEF Init, CalmInv
<1>2. ASSUME DriverTypeOK, MainInv, CalmInv, [Next]_vars PROVE CalmInv'
  <2>1. CASE step = "loop" /\ UNCHANGED mainvars /\ (DriverNext \/ UNCHANGED i2cvars)
    BY <1>2, <2>1, LoopCalm DEF CalmInv, mainvars
  <2>2. CASE step # "loop" /\ SetupSuccess
    BY <1>2, <2>2, SuccessCalms DEF CalmInv
  <2>3. CASE step # "loop" /\ (Begin \/ UNCHANGED mainvars \/ Calibrated \/ Configured)
    <3>1. step' # "loop"
      BY <2>3 DEF Begin, Calibrated, Calibrating, Configured, mainvars
    <3> QED
      BY <3>1 DEF CalmInv
  <2> QED
    BY <1>2, <2>1, <2>2, <2>3, MainSteps
<1>3. ASSUME DriverTypeOK, CalmInv PROVE LoopIsCalm
  <2> SUFFICES ASSUME step = "loop"
               PROVE  /\ hits <= 2 * desc.length + 2
                      /\ isr = "off" => intr_mask = IF hits > StormLimit THEN {} ELSE Always
    BY DEF LoopIsCalm
  <2>1. Calm
    BY <1>3 DEF CalmInv
  <2>2. hits <= 2 * desc.length + 2
    BY <1>3, <2>1, SettledBound DEF Calm
  <2>3. isr = "off" => intr_mask = intr_mask \ Pacing
    BY <2>1 DEF Calm
  <2> QED
    BY <2>1, <2>2, <2>3 DEF Calm, KeptInv
<1> QED
  BY <1>1, <1>2, <1>3, MainInvariant, PTL DEF Spec

-----------------------------------------------------------------------------
(* With a limit no transfer of main reaches, an error has its fault bit,   *)
(* so that every caller stops at it.                                       *)
LimitIsHigh == \A n \in Lengths : 2 * n + 2 <= StormLimit

LEMMA BootFaults ==
  ASSUME DriverTypeOK, MainInv, LimitIsHigh, step # "loop", i2c1_state = "I2C_ERROR"
  PROVE  desc.fault # {}
<1>1. 2 * desc.length + 2 <= StormLimit
  BY DEF MainInv, LimitIsHigh
<1> QED
  BY <1>1, NoStorm DEF MainInv

ResultInv ==
  /\ thread = "out" /\ step # "loop" => i2c1_state = "I2C_IDLE"
  /\ step = "loop" /\ desc.fault = {} => readback = Block(Readback)

LEMMA ResultStep ==
  ASSUME DriverTypeOK, MainInv, ResultInv, LimitIsHigh, [Next]_vars PROVE ResultInv'
<1>1. CASE Begin /\ step # "loop"
  BY <1>1 DEF Begin, StartRead, StartWrite, ResultInv, mainvars
<1>2. CASE /\ step # "loop" /\ UNCHANGED mainvars
           /\ DriverNext \/ (GivesUp /\ thread' # "out") \/ UNCHANGED i2cvars
  <2>1. thread' = "out" => thread = "out"
    BY <1>2 DEF DriverNext, BusStep, IsrNext, ApiNext, StartReadCmd, StartState, StartMask,
       WaitCheck, WaitSleep, Tick, Wake, IsrStorm, IsrEnter, IsrAbort, IsrOver, IsrRx, IsrDrain,
       IsrDrainEnd, IsrTx, PumpRead, PumpWrite, PumpEnd, IsrStop, IsrStopEnd, IsrExit, i2cvars
  <2>2. thread = "out" => ~InUse
    BY <1>2 DEF ResultInv, InUse, Starting
  <2>3. InUse' => InUse
    BY <1>2, UseBegins DEF MainInv
  <2> QED
    BY <1>2, <2>1, <2>2, <2>3 DEF ResultInv, InUse, mainvars
<1>3. CASE Calibrated
  <2>1. step # "loop" /\ step' # "loop"
    BY <1>3 DEF Calibrated, Calibrating
  <2>2. i2c1_state \in {"I2C_DONE", "I2C_ERROR"}
    BY <1>3, <2>1, AtRest DEF Calibrated, MainInv
  <2>3. thread' = "out" => i2c1_state = "I2C_DONE"
    BY <1>3, <2>1, <2>2, BootFaults DEF Calibrated
  <2> QED
    BY <1>3, <2>1, <2>3 DEF Calibrated, ResultInv
<1>4. CASE Configured
  BY <1>4 DEF Configured, ResultInv
<1>5. CASE SetupSuccess
  <2>1. /\ step = "readback" /\ step' = "loop" /\ thread = "back" /\ readback' = buf
        /\ UNCHANGED <<desc, regs>>
    BY <1>5 DEF SetupSuccess, hwvars
  <2>2. i2c1_state \in {"I2C_DONE", "I2C_ERROR"}
    BY <2>1, AtRest DEF MainInv
  <2>3. i2c1_state = "I2C_DONE" => buf = Block(Readback)
    BY <2>1, ReadIsBlock, ReadOfCases
  <2>4. i2c1_state = "I2C_ERROR" => desc.fault # {}
    BY <2>1, BootFaults
  <2>5. Block(Readback)' = Block(Readback)
    BY <2>1 DEF Block
  <2> QED
    BY <2>1, <2>2, <2>3, <2>4, <2>5 DEF ResultInv
<1>6. CASE step = "loop" /\ UNCHANGED mainvars /\ (DriverNext \/ UNCHANGED i2cvars)
  <2>1. UNCHANGED <<desc, regs>>
    BY <1>6, LoopStep
  <2> QED
    BY <1>6, <2>1 DEF ResultInv, Block, mainvars
<1> QED
  BY <1>1, <1>2, <1>3, <1>4, <1>5, <1>6, MainSteps

LEMMA ResultInvariant == ASSUME PromptStart, LimitIsHigh PROVE Spec => []ResultInv
<1>1. Init => ResultInv
  BY DEF Init, DriverInit, ResultInv
<1>2. DriverTypeOK /\ MainInv /\ ResultInv /\ [Next]_vars => ResultInv'
  BY ResultStep
<1> QED
  BY <1>1, <1>2, MainInvariant, PTL DEF Spec

(* Every user of the driver leaves it I2C_IDLE for the next, so that no    *)
(* start call of main is refused.                                          *)
THEOREM StartsAccepted == ASSUME PromptStart, LimitIsHigh PROVE Spec => []NeverRefused
<1>1. ResultInv => NeverRefused
  BY DEF ResultInv, NeverRefused
<1> QED
  BY <1>1, ResultInvariant, PTL

(* A readback that shows anything but the sensor's registers has left a    *)
(* fault bit in the descriptor.                                            *)
THEOREM ReadbackFaults == ASSUME PromptStart, LimitIsHigh PROVE Spec => []ReadbackOrFault
<1>1. ResultInv => ReadbackOrFault
  BY DEF ResultInv, ReadbackOrFault
<1> QED
  BY <1>1, ResultInvariant, PTL
=============================================================================
