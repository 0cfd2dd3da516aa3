-------------------------- MODULE I2CClientProofs --------------------------
(***************************************************************************)
(* What holds of the driver for every FIFO depth, register count and set   *)
(* of requests, whether or not the sensor may fail to acknowledge.  The    *)
(* theorems up to AbortsHaveSource hold however long the start calls take; *)
(* those after it are about the program as it is, PromptStart.             *)
(* The last sections show that it implements RegisterAccess.               *)
(***************************************************************************)
EXTENDS I2CRefinement, I2CDriverProofs

-----------------------------------------------------------------------------
(* The client's steps are the driver's, start calls, and what it does      *)
(* between two transfers.                                                  *)
LEMMA ClientSteps ==
  ASSUME [Next]_i2cvars
  PROVE  DriverNext \/ Begins \/ Yields \/ UNCHANGED i2cvars
<1>1. ASSUME NEW r \in Reads, StartRead(r[1], r[2]) PROVE Begins
  BY <1>1, ClientAssumption DEF Begins
<1>2. ASSUME NEW w \in Writes, StartWrite(w[1], w[2]) PROVE Begins
  BY <1>2, ClientAssumption DEF Begins
<1>3. CASE Acknowledge \/ Panic
  BY <1>3 DEF Acknowledge, Panic, Yields, ThreadRuns, drvvars
<1> QED
  BY <1>1, <1>2, <1>3 DEF Next, ThreadNext, Start, DriverNext

(* Every step, or none, keeps every variable in its type.                  *)
LEMMA TypeStep == TypeOK /\ [Next]_i2cvars => TypeOK'
  BY ClientSteps, DriverType, BeginsType, YieldsType, SameType DEF TypeOK

(* Every variable keeps its type, a write's descriptor stays as long as    *)
(* its pairs, and a reader's buffer is filled from its start without gaps  *)
(* (drain_rx), for any depth of the FIFOs.                                 *)
THEOREM TypeCorrect == Spec => []TypeOK
  <1>1. Init => TypeOK
  BY DriverInitType DEF Init, TypeOK
<1> QED
  BY <1>1, TypeStep, PTL DEF Spec

-----------------------------------------------------------------------------
(* BufferBounds: a byte is stored only for a command already issued, and a *)
(* command is issued only while some are left.                             *)

(* received follows issued, and issued follows length, in every step.      *)
LEMMA ClientCounters == TypeOK /\ Counters /\ [Next]_i2cvars => Counters'
  BY ClientSteps, CountersStep DEF TypeOK

(* drain_rx never stores outside the reader's buffer, however late and in  *)
(* whatever order the interrupts arrive.                                   *)
THEOREM StoresInBounds == Spec => []BufferBounds
<1>1. TypeOK /\ Counters => BufferBounds
  <2> SUFFICES ASSUME TypeOK, Counters PROVE BufferBounds
    OBVIOUS
  <2>1. /\ DOMAIN buf = 0 .. desc.received - 1
        /\ {desc.received, desc.issued, desc.length} \subseteq Nat
    BY DEF TypeOK, DriverTypeOK, Descriptor
  <2> QED
    BY <2>1 DEF Counters, BufferBounds
<1>2. Init => Counters
  BY CountersInit DEF Init
<1> QED
  BY <1>1, <1>2, TypeCorrect, ClientCounters, PTL DEF Spec

-----------------------------------------------------------------------------
(* NoLateStore: a transfer in progress has somebody waiting for it, and    *)
(* drain_rx runs only for a read in progress.                              *)

InFrame ==
  /\ Busy => thread \in {"r_mask", "w_mask"} \cup Waiting
  /\ isr \in {"drain", "stop_drain"} => i2c1_state = "I2C_READING"

(* A busy state has its caller in the start call or in the wait loop, and  *)
(* the drain loop runs only in a busy state: both are kept by every step.  *)
LEMMA InFrameStep == InFrame /\ [Next]_i2cvars => InFrame'
<1> SUFFICES ASSUME InFrame, [Next]_i2cvars PROVE InFrame'
  OBVIOUS
<1> USE DEF InFrame, Busy, Waiting
<1>1. CASE ThreadNext
  <2>1. isr = "off" /\ isr' = "off"
    BY <1>1 DEF ThreadNext, Start, ApiNext, StartRead, StartWrite, StartReadCmd, StartState,
                StartMask, WaitCheck, WaitSleep, Acknowledge, Panic, ThreadRuns, drvvars
  <2>2. CASE StartState \/ StartMask
    BY <2>1, <2>2 DEF StartState, StartMask, drvvars
  <2>3. CASE WaitCheck \/ WaitSleep
    BY <2>1, <2>3 DEF WaitCheck, WaitSleep, drvvars
  <2>4. CASE Start \/ StartReadCmd \/ Acknowledge \/ Panic
    BY <2>1, <2>4 DEF Start, StartRead, StartWrite, StartReadCmd, Acknowledge, Panic, drvvars
  <2> QED
    BY <1>1, <2>2, <2>3, <2>4 DEF ThreadNext, ApiNext
<1>2. CASE IsrStorm \/ IsrEnter
  BY <1>2 DEF IsrStorm, IsrEnter, Wake, Irq
<1>3. CASE IsrAbort \/ IsrOver
  BY <1>3 DEF ClearRx, IsrAbort, IsrOver
<1>4. CASE IsrRx \/ IsrDrain \/ IsrDrainEnd
  BY <1>4 DEF ClearRx, IsrRx, IsrDrain, IsrDrainEnd
<1>5. CASE IsrTx \/ PumpRead \/ PumpWrite \/ PumpEnd
  BY <1>5 DEF IsrTx, PumpRead, PumpWrite, PumpEnd
<1>6. CASE IsrStop \/ IsrStopEnd \/ IsrExit
  BY <1>6 DEF ClearRx, IsrStop, IsrStopEnd, IsrExit
<1>7. CASE Tick
  BY <1>7 DEF Tick, Wake, drvvars
<1>8. CASE BusStep
  BY <1>8 DEF BusStep, drvvars
<1>9. CASE UNCHANGED i2cvars
  BY <1>9 DEF i2cvars, drvvars
<1> QED
  BY <1>1, <1>2, <1>3, <1>4, <1>5, <1>6, <1>7, <1>8, <1>9 DEF Next, IsrNext

(* The handler stores into a reader's buffer only while that reader is in  *)
(* its start call or its wait loop (get_hum_params's buffer is on its      *)
(* stack).                                                                 *)
THEOREM StoresInFrame == Spec => NoLateStore
<1>1. Init => InFrame
  BY DEF Init, DriverInit, InFrame, Busy
<1>2. InFrame /\ [Next]_i2cvars =>
        [buf' = buf \/ buf' = <<>> \/ thread \in Starting \cup Waiting]_i2cvars
  <2> SUFFICES ASSUME InFrame, [Next]_i2cvars
               PROVE  buf' = buf \/ buf' = <<>> \/ thread \in Starting \cup Waiting
    OBVIOUS
  <2>1. CASE IsrDrain
    BY <2>1 DEF IsrDrain, InFrame, Busy, Starting
  <2>2. CASE ~IsrDrain
    <3>1. Begins => buf' = <<>>
      BY DEF Begins, StartRead, StartWrite
    <3> QED
      BY <2>2, <3>1, ClientSteps, DescSteps DEF IsrAbort, IsrOver, PumpRead, PumpWrite
  <2> QED
    BY <2>1, <2>2
<1> QED
  BY <1>1, <1>2, InFrameStep, PTL DEF Spec, NoLateStore

-----------------------------------------------------------------------------
(* AbortHasSource: the controller keeps the source for as long as TX_ABRT  *)
(* is raised, and the abort block runs only while it is.                   *)

SourceKept ==
  /\ "TX_ABRT" \in latched => tx_abrt_source # "none"
  /\ isr = "abort" => "TX_ABRT" \in latched
  /\ AbortHasSource

(* While TX_ABRT is latched the controller keeps the source, and the       *)
(* handler reads it before it clears the interrupt.                        *)
LEMMA SourceKeptStep == TypeOK /\ SourceKept /\ [Next]_i2cvars => SourceKept'
<1> SUFFICES ASSUME TypeOK, SourceKept, [Next]_i2cvars PROVE SourceKept'
  OBVIOUS
<1>0. desc \in Descriptor
  BY DEF TypeOK, DriverTypeOK
<1> USE DEF SourceKept
<1>1. CASE BusStep
  <2>1. UNCHANGED drvvars /\ HwNext
    BY <1>1 DEF BusStep
  <2>2. CASE HwFetch \/ HwWriteByte \/ HwReadByte \/ HwStop
    BY <2>1, <2>2 DEF HwFetch, HwWriteByte, HwReadByte, HwStop, drvvars, AbortHasSource
  <2>3. ASSUME NEW source \in AbortSource, HwAbort(source) PROVE SourceKept'
    BY <2>1, <2>3 DEF HwAbort, drvvars, AbortHasSource
  <2> QED
    BY <2>1, <2>2, <2>3 DEF HwNext
<1>2. CASE ThreadNext
  <2>1. UNCHANGED <<latched, tx_abrt_source, isr>>
    BY <1>2 DEF ThreadNext, Start, ApiNext, StartRead, StartWrite, StartReadCmd, StartState,
                StartMask, WaitCheck, WaitSleep, Acknowledge, Panic, drvvars, hwvars
  <2>2. CASE \E r \in Reads : StartRead(r[1], r[2])
    <3>1. PICK r \in Reads : StartRead(r[1], r[2])
      BY <2>2
    <3>2. r[1] \in Byte /\ r[2] \in Nat
      BY ClientAssumption
    <3> QED
      BY <2>1, <3>1, <3>2, ReadDescriptorType DEF StartRead, AbortHasSource
  <2>3. CASE \E w \in Writes : StartWrite(w[1], w[2])
    <3>1. PICK w \in Writes : StartWrite(w[1], w[2])
      BY <2>3
    <3>2. w[1] \in Seq(Byte) /\ w[2] \in Seq(Byte)
      BY ClientAssumption
    <3> QED
      BY <2>1, <3>1, <3>2, WriteDescriptorType DEF StartWrite, AbortHasSource
  <2>4. CASE UNCHANGED desc
    BY <2>1, <2>4 DEF AbortHasSource
  <2> QED
    BY <1>2, <2>2, <2>3, <2>4
    DEF ThreadNext, Start, ApiNext, StartReadCmd, StartState, StartMask, WaitCheck, WaitSleep,
        Acknowledge, Panic, drvvars
<1>3. CASE IsrAbort
  <2>1. CASE Busy
    <3>1. desc' = [desc EXCEPT !.abrt_source = tx_abrt_source,
                              !.fault = @ \cup {"I2C_FAULT_ABORT"}]
      BY <1>3, <2>1 DEF ClearRx, IsrAbort
    <3>2. desc'.abrt_source = tx_abrt_source
      BY <1>0, <3>1 DEF Descriptor
    <3> QED
      BY <1>3, <3>2 DEF ClearRx, IsrAbort, AbortHasSource
  <2>2. CASE ~Busy
    BY <1>3, <2>2 DEF ClearRx, IsrAbort, AbortHasSource
  <2> QED
    BY <2>1, <2>2
<1>4. CASE IsrOver
  <2>1. /\ desc'.abrt_source = desc.abrt_source
        /\ desc'.fault \subseteq desc.fault \cup {"I2C_FAULT_OVERRUN"}
    BY <1>0, <1>4 DEF IsrOver, Descriptor
  <2> QED
    BY <1>4, <2>1 DEF IsrOver, AbortHasSource
<1>5. CASE IsrDrain \/ PumpRead \/ PumpWrite
  <2>1. desc'.abrt_source = desc.abrt_source /\ desc'.fault = desc.fault
    BY <1>0, <1>5 DEF IsrDrain, PumpRead, PumpWrite, Descriptor
  <2> QED
    BY <1>5, <2>1 DEF IsrDrain, PumpRead, PumpWrite, AbortHasSource
<1>6. CASE IsrEnter
  BY <1>6 DEF IsrEnter, Irq, IntrStat, hwvars, AbortHasSource, TypeOK, DriverTypeOK, ControllerTypeOK
<1>7. CASE IsrStorm \/ IsrRx \/ IsrDrainEnd \/ IsrTx \/ PumpEnd
  BY <1>7 DEF ClearRx, IsrStorm, Irq, IsrRx, IsrDrainEnd, IsrTx, PumpEnd, hwvars, AbortHasSource
<1>8. CASE IsrStop \/ IsrStopEnd \/ IsrExit
  BY <1>8 DEF ClearRx, IsrStop, IsrStopEnd, IsrExit, hwvars, AbortHasSource
<1>9. CASE Tick \/ UNCHANGED i2cvars
  BY <1>9 DEF Tick, i2cvars, hwvars, drvvars, AbortHasSource
<1> QED
  BY <1>1, <1>2, <1>3, <1>4, <1>5, <1>6, <1>7, <1>8, <1>9 DEF Next, IsrNext

(* An abort is reported with the source the controller gave, also when the *)
(* abort, the STOP and the handler overlap.                                *)
THEOREM AbortsHaveSource == Spec => []AbortHasSource
<1>1. Init => SourceKept
  <2> SUFFICES ASSUME Init PROVE SourceKept
    OBVIOUS
  <2>1. 0 \in Byte /\ desc = ReadDescriptor(0, 0)
    BY ControllerAssumption DEF Init, DriverInit, Byte
  <2> QED
    BY <2>1, ReadDescriptorType DEF Init, DriverInit, HwInit, SourceKept, AbortHasSource
<1>2. SourceKept => AbortHasSource
  BY DEF SourceKept
<1> QED
  BY <1>1, <1>2, TypeCorrect, SourceKeptStep, PTL DEF Spec

-----------------------------------------------------------------------------
(* The program as it is: no byte completes during a start call.            *)
AsCalled == PromptStart

(* The client's steps in the terms of Moves (I2CDriverProofs), which needs *)
(* to know that only the result of a transfer that is done is taken.       *)
LEMMA ClientMoves ==
  ASSUME DriverTypeOK, DriverInv, [Next]_i2cvars
  PROVE  Start \/ DriverNext \/ Takes \/ GivesUp \/ UNCHANGED i2cvars
<1>1. Acknowledge => Takes
  BY DEF Acknowledge, Takes, ThreadRuns
<1>2. Panic => GivesUp
  <2>1. Panic => i2c1_state = "I2C_ERROR"
    BY DEF Panic, DriverTypeOK, State, DriverInv, ControlInv, RestInv, StartInv, Busy,
       Waiting, Starting
  <2> QED
    BY <2>1 DEF Panic, GivesUp, ThreadRuns
<1> QED
  BY <1>1, <1>2 DEF Next, ThreadNext, DriverNext

LEMMA StartBegins == Start => Begins
<1>1. ASSUME NEW r \in Reads, StartRead(r[1], r[2]) PROVE Begins
  BY <1>1, ClientAssumption DEF Begins
<1>2. ASSUME NEW w \in Writes, StartWrite(w[1], w[2]) PROVE Begins
  BY <1>2, ClientAssumption DEF Begins
<1> QED
  BY <1>1, <1>2 DEF Start

ClientInv == DriverTypeOK /\ DriverInv /\ EntriesInv

(* The inductive invariant of the program as it is.                        *)
THEOREM ClientInvariant == ASSUME AsCalled PROVE Spec => []ClientInv
<1>1. Init => ClientInv
  BY DriverInitType, DriverInitInv, EntriesInit DEF Init, ClientInv
<1>2. ClientInv /\ [Next]_i2cvars => ClientInv'
  <2> SUFFICES ASSUME ClientInv, [Next]_i2cvars PROVE ClientInv'
    OBVIOUS
  <2>1. Moves
    BY ClientMoves, StartBegins DEF AsCalled, ClientInv, Moves
  <2> QED
    BY <2>1, MovesType, MovesInv, EntriesStep DEF AsCalled, ClientInv
<1> QED
  BY <1>1, <1>2, PTL DEF Spec

(* A read that ends I2C_DONE delivered exactly the bytes of the registers  *)
(* asked for, in order and all of them, for any length, any FIFO depth and *)
(* any interleaving of the controller with the handler and the two calls.  *)
THEOREM ReadsAreExact == ASSUME AsCalled PROVE Spec => []ReadExact
<1>1. ClientInv => ReadExact
  BY DEF ClientInv, DriverInv, TransferInv, DoneInv, ReadExact
<1> QED
  BY <1>1, ClientInvariant, PTL

(* A write that ends I2C_DONE has reached the sensor, every pair of it,    *)
(* however the FIFO split the pairs (write_is_data).                       *)
THEOREM WritesAreExact == ASSUME AsCalled PROVE Spec => []WriteExact
<1>1. ClientInv => WriteExact
  BY DEF ClientInv, DriverInv, TransferInv, DoneInv, Effective, WriteExact
<1> QED
  BY <1>1, ClientInvariant, PTL

(* A finished transfer leaves no command, byte, interrupt or open bus      *)
(* transaction for the next one to inherit.                                *)
THEOREM DoneLeavesNothing == ASSUME AsCalled PROVE Spec => []DoneIsQuiet
<1>1. ClientInv => DoneIsQuiet
  BY DEF ClientInv, DriverInv, ControlInv, RestInv, Quiet, DoneIsQuiet
<1> QED
  BY <1>1, ClientInvariant, PTL

(* Outside a transfer the mask is exactly that of i2c_irq_enable: after a  *)
(* success by the end of the handler, after an error by every path that    *)
(* leads to one; but nothing is enabled after the guard has fired.         *)
THEOREM MaskedOutsideTransfers == ASSUME AsCalled PROVE Spec => []IdleIsMasked
<1>1. ASSUME ClientInv, isr = "off", ~Busy, thread \notin Starting
      PROVE  intr_mask = IF hits > StormLimit THEN {} ELSE Always
  <2>1. intr_mask \cap Pacing = {}
    BY <1>1 DEF ClientInv, DriverInv, ControlInv, RestInv, EntriesInv, MaskInv, DriverTypeOK,
       State, Busy
  <2>2. intr_mask \ Pacing = IF hits > StormLimit THEN {} ELSE Always
    BY <1>1 DEF ClientInv, EntriesInv, KeptInv
  <2> QED
    BY <2>1, <2>2
<1>2. ClientInv => IdleIsMasked
  BY <1>1 DEF IdleIsMasked
<1> QED
  BY <1>2, ClientInvariant, PTL

(* A transfer of n bytes, or n pairs, enters the handler at most 2n + 2    *)
(* times: the storm guard's 10000 leaves room for every transfer the       *)
(* program makes.                                                          *)
THEOREM EntriesAreFew == ASSUME AsCalled PROVE Spec => []FewEntries
<1>1. ClientInv => FewEntries
  BY EntriesBound DEF ClientInv, FewEntries
<1> QED
  BY <1>1, ClientInvariant, PTL

-----------------------------------------------------------------------------
(* What a transfer in use was asked for.                                   *)
RequestInv ==
  InUse =>
    \/ /\ IsRead /\ desc.data = <<>>
       /\ \E r \in Reads : desc.reg_addr = r[1] /\ desc.length = r[2]
    \/ /\ desc.reg_addr = 0
       /\ \E w \in Writes : /\ desc.write_registers = w[1] /\ desc.data = w[2]
                            /\ desc.length = Len(w[1])

LEMMA RequestStep ==
  ASSUME DriverTypeOK, DriverInv, RequestInv, [Next]_i2cvars
  PROVE  RequestInv'
<1>1. ASSUME NEW r \in Reads, StartRead(r[1], r[2]) PROVE RequestInv'
  <2>1. desc' = ReadDescriptor(r[1], r[2])
    BY <1>1 DEF StartRead
  <2>2. /\ desc'.reg_addr = r[1] /\ desc'.length = r[2]
        /\ desc'.write_registers = <<>> /\ desc'.data = <<>>
    BY <2>1 DEF ReadDescriptor, NewDescriptor
  <2> QED
    BY <2>2 DEF RequestInv, IsRead
<1>2. ASSUME NEW w \in Writes, StartWrite(w[1], w[2]) PROVE RequestInv'
  <2>1. w[1] \in Seq(Byte) /\ w[2] \in Seq(Byte)
    BY ClientAssumption
  <2>2. desc' = WriteDescriptor(w[1], w[2])
    BY <1>2 DEF StartWrite
  <2>3. /\ desc'.reg_addr = 0 /\ desc'.length = Len(w[1])
        /\ desc'.write_registers = w[1] /\ desc'.data = w[2]
    BY <2>1, <2>2, WriteDescriptorType
  <2> QED
    BY <2>3 DEF RequestInv
<1>3. CASE ~Start
  <2>1. DriverNext \/ Takes \/ GivesUp \/ UNCHANGED i2cvars
    BY <1>3, ClientMoves
  <2>2. /\ desc'.reg_addr = desc.reg_addr /\ desc'.length = desc.length
        /\ desc'.write_registers = desc.write_registers /\ desc'.data = desc.data
    BY <2>1, MovesYield, RequestKept
  <2>3. InUse' => InUse
    BY <2>1, UseBegins
  <2> QED
    BY <2>2, <2>3 DEF RequestInv, IsRead
<1> QED
  BY <1>1, <1>2, <1>3 DEF Start

LEMMA RequestInvariant == ASSUME AsCalled PROVE Spec => []RequestInv
<1>1. Init => RequestInv
  BY DEF Init, DriverInit, RequestInv, InUse, Starting
<1>2. ClientInv /\ RequestInv /\ [Next]_i2cvars => RequestInv'
  BY RequestStep DEF AsCalled, ClientInv
<1> QED
  BY <1>1, <1>2, ClientInvariant, PTL DEF Spec

(* The guard's limit leaves room for every transfer the client makes.      *)
LimitIsHigh ==
  /\ \A r \in Reads : 2 * r[2] + 2 <= StormLimit
  /\ \A w \in Writes : 2 * Len(w[1]) + 2 <= StormLimit

(* An error never comes without a fault bit: callers return the bits as    *)
(* their error code, and 0 means success to them.  The guard sets none, so *)
(* this needs a limit it does not reach.                                   *)
THEOREM ErrorsHaveFaults == ASSUME AsCalled, LimitIsHigh PROVE Spec => []ErrorHasFault
<1>1. ClientInv /\ RequestInv => ErrorHasFault
  <2> SUFFICES ASSUME ClientInv, RequestInv, i2c1_state = "I2C_ERROR" PROVE desc.fault # {}
    BY DEF ErrorHasFault
  <2>1. 2 * desc.length + 2 <= StormLimit
    BY DEF RequestInv, InUse, LimitIsHigh
  <2> QED
    BY <2>1, NoStorm DEF ClientInv
<1> QED
  BY <1>1, ClientInvariant, RequestInvariant, PTL

-----------------------------------------------------------------------------
(* The driver implements RegisterAccess.  Each step that a caller or the   *)
(* sensor can notice is the abstract step of its name; two more invariants *)
(* say that nothing reaches the sensor's registers outside a write in      *)
(* progress.                                                               *)

(* An abort leaves no command of a write behind.                           *)
WriteErrorInv ==
  i2c1_state = "I2C_ERROR" /\ ~IsRead => tx = <<>> \/ hits > StormLimit

LEMMA WriteErrorStep ==
  ASSUME DriverTypeOK, DriverInv, WriteErrorInv, Moves PROVE WriteErrorInv'
<1> SUFFICES ASSUME i2c1_state' = "I2C_ERROR", ~IsRead' PROVE tx' = <<>> \/ hits' > StormLimit
  BY DEF WriteErrorInv
<1>0. hits \in Nat /\ StormLimit \in Nat
  BY DriverAssumption DEF DriverTypeOK
<1>1. CASE Begins \/ Takes \/ StartReadCmd \/ StartState \/ StartMask
  <2>1. FALSE
    BY <1>1 DEF Begins, StartRead, StartWrite, Takes, StartReadCmd, StartState, StartMask,
       DriverInv, ControlInv, StartInv, Starting, drvvars
  <2> QED
    BY <2>1
<1>2. CASE IsrStorm
  BY <1>0, <1>2 DEF IsrStorm
<1>3. ASSUME ~Begins PROVE ~IsRead
  <2>1. desc'.write_registers = desc.write_registers
    BY <1>3, MovesYield, RequestKept DEF Moves
  <2> QED
    BY <2>1 DEF IsRead
<1>4. CASE IsrAbort
  <2>1. Busy => tx = <<>>
    BY <1>4 DEF IsrAbort, DriverInv, ControlInv, PlaceInv, TransferInv, PhaseInv
  <2>2. UNCHANGED <<tx, hits>> /\ (~Busy => i2c1_state = "I2C_ERROR") /\ ~Begins
    BY <1>4 DEF IsrAbort, Begins, StartRead, StartWrite, ThreadRuns
  <2> QED
    BY <1>3, <2>1, <2>2 DEF WriteErrorInv
<1>5. CASE IsrOver
  <2>1. UNCHANGED <<tx, hits>> /\ ~Begins
        /\ (i2c1_state = "I2C_ERROR" \/ i2c1_state = "I2C_READING")
    BY <1>5 DEF IsrOver, Begins, StartRead, StartWrite, ThreadRuns
  <2>2. i2c1_state = "I2C_READING" => IsRead
    BY DEF DriverInv, ControlInv, RestInv, Busy
  <2> QED
    BY <1>3, <2>1, <2>2 DEF WriteErrorInv
<1>6. CASE IsrStop \/ IsrStopEnd
  <2>1. UNCHANGED <<tx, hits, i2c1_state>> /\ ~Begins
    BY <1>6, WriteStopped DEF IsrStop, IsrStopEnd, Busy, DriverInv, ControlInv, PlaceInv, StopInv,
       hwvars, Begins, StartRead, StartWrite, ThreadRuns
  <2> QED
    BY <1>3, <2>1 DEF WriteErrorInv
<1>7. CASE IsrDrain \/ IsrDrainEnd \/ PumpRead \/ PumpWrite \/ PumpEnd
  <2>1. FALSE
    BY <1>7 DEF IsrDrain, IsrDrainEnd, PumpRead, PumpWrite, PumpEnd,
       DriverInv, ControlInv, PlaceInv, Busy
  <2> QED
    BY <2>1
<1>8. CASE IsrEnter \/ IsrRx \/ IsrTx \/ IsrExit \/ WaitCheck \/ WaitSleep \/ Tick \/ GivesUp
           \/ UNCHANGED i2cvars
  <2>1. UNCHANGED <<tx, i2c1_state>> /\ hits' \in {hits, hits + 1} /\ ~Begins
    BY <1>8 DEF IsrEnter, IsrRx, IsrTx, IsrExit, WaitCheck, WaitSleep, Tick, GivesUp,
       i2cvars, hwvars, drvvars, Begins, StartRead, StartWrite
  <2> QED
    BY <1>0, <1>3, <2>1 DEF WriteErrorInv
<1>9. CASE BusStep
  <2>1. UNCHANGED <<i2c1_state, hits>> /\ ~Begins /\ (tx = <<>> => tx' = <<>>)
    BY <1>9 DEF BusStep, HwNext, HwFetch, HwWriteByte, HwReadByte, HwStop, HwAbort, drvvars,
       DriverTypeOK, ControllerTypeOK, Begins, StartRead, StartWrite
  <2> QED
    BY <1>3, <2>1 DEF WriteErrorInv
<1> QED
  BY <1>1, <1>2, <1>4, <1>5, <1>6, <1>7, <1>8, <1>9 DEF Moves, DriverNext, ApiNext, IsrNext

-----------------------------------------------------------------------------
(* What a caller sees.                                                     *)

RefInv == ClientInv /\ RequestInv /\ ReadsOnly /\ WriteErrorInv

(* The invariants hold together.                                           *)
LEMMA RefInvariant == ASSUME AsCalled PROVE Spec => []RefInv
<1>1. Init => ReadsOnly /\ WriteErrorInv
  <2> SUFFICES ASSUME Init PROVE ReadsOnly /\ WriteErrorInv
    OBVIOUS
  <2>1. tx = <<>> /\ Len(tx) = 0 /\ i2c1_state = "I2C_IDLE"
    BY EmptySeq DEF Init, DriverInit, HwInit
  <2> QED
    BY <2>1 DEF ReadsOnly, WriteErrorInv
<1>2. ClientInv /\ ReadsOnly /\ WriteErrorInv /\ [Next]_i2cvars => ReadsOnly' /\ WriteErrorInv'
  <2> SUFFICES ASSUME ClientInv, ReadsOnly, WriteErrorInv, [Next]_i2cvars
               PROVE  ReadsOnly' /\ WriteErrorInv'
    OBVIOUS
  <2>1. Moves
    BY ClientMoves, StartBegins DEF AsCalled, ClientInv, Moves
  <2> QED
    BY <2>1, ReadsKeep, WriteErrorStep DEF ClientInv
<1> QED
  BY <1>1, <1>2, ClientInvariant, RequestInvariant, PTL DEF Spec, RefInv

(* The request a descriptor stands for is one of those a caller may make.  *)
Described ==
  [kind |-> IF IsRead THEN "read" ELSE "write",
   reg |-> desc.reg_addr, length |-> desc.length,
   addresses |-> desc.write_registers, data |-> desc.data]

LEMMA RequestIsOne == ASSUME RequestInv, InUse PROVE Described \in Requests
<1>1. CASE /\ IsRead /\ desc.data = <<>>
           /\ \E r \in Reads : desc.reg_addr = r[1] /\ desc.length = r[2]
  <2>1. PICK r \in Reads : desc.reg_addr = r[1] /\ desc.length = r[2]
    BY <1>1
  <2>2. Described = [kind |-> "read", reg |-> r[1], length |-> r[2],
                     addresses |-> <<>>, data |-> <<>>]
    BY <1>1, <2>1 DEF Described, IsRead
  <2> QED
    BY <2>2 DEF Requests
<1>2. CASE /\ desc.reg_addr = 0
           /\ \E w \in Writes : /\ desc.write_registers = w[1] /\ desc.data = w[2]
                                /\ desc.length = Len(w[1])
  <2>1. PICK w \in Writes : /\ desc.write_registers = w[1] /\ desc.data = w[2]
                            /\ desc.length = Len(w[1])
    BY <1>2
  <2>2. ~IsRead
    <3>1. w[1] \in Seq(Byte) /\ Len(w[1]) > 0
      BY ClientAssumption
    <3>2. w[1] # <<>>
      BY <3>1, EmptySeq
    <3> QED
      BY <2>1, <3>2 DEF IsRead
  <2>3. Described = [kind |-> "write", reg |-> 0, length |-> Len(w[1]),
                     addresses |-> w[1], data |-> w[2]]
    BY <1>2, <2>1, <2>2 DEF Described
  <2> QED
    BY <2>3 DEF Requests
<1> QED
  BY <1>1, <1>2 DEF RequestInv

(* A step that leaves the descriptor's request alone leaves what the       *)
(* caller sees of it alone.                                                *)
LEMMA RequestSame ==
  ASSUME i2c1_state # "I2C_IDLE", i2c1_state' # "I2C_IDLE",
         desc'.reg_addr = desc.reg_addr, desc'.length = desc.length,
         desc'.write_registers = desc.write_registers, desc'.data = desc.data
  PROVE  RequestOf' = RequestOf
<1>1. IsRead' <=> IsRead
  BY DEF IsRead
<1> QED
  BY <1>1 DEF RequestOf

(* A step a caller cannot see.                                             *)
LEMMA Silent ==
  ASSUME DriverTypeOK, DriverNext \/ GivesUp \/ UNCHANGED i2cvars,
         i2c1_state' = i2c1_state, regs' = regs, i2c1_state = "I2C_DONE" => buf' = buf
  PROVE  UNCHANGED Abstract!vars
<1>1. /\ desc'.reg_addr = desc.reg_addr /\ desc'.length = desc.length
      /\ desc'.write_registers = desc.write_registers /\ desc'.data = desc.data
  BY MovesYield, RequestKept
<1>2. IsRead' <=> IsRead
  BY <1>1 DEF IsRead
<1>3. StatusOf' = StatusOf
  BY DEF StatusOf
<1>4. RequestOf' = RequestOf
  BY <1>1, RequestSame DEF RequestOf
<1>5. ResultOf' = ResultOf
  BY <1>2 DEF ResultOf
<1> QED
  BY <1>3, <1>4, <1>5 DEF Abstract!vars

(* The fields of a request while a write is in use.                        *)
LEMMA WriteRequest ==
  ASSUME Busy, ~IsRead
  PROVE  /\ StatusOf = "busy" /\ RequestOf.kind = "write" /\ RequestOf.length = desc.length
         /\ RequestOf.addresses = desc.write_registers /\ RequestOf.data = desc.data
         /\ ResultOf = <<>>
  BY DEF Busy, StatusOf, RequestOf, ResultOf

LEMMA ReadRequest ==
  ASSUME Busy, IsRead
  PROVE  /\ StatusOf = "busy" /\ RequestOf.kind = "read" /\ RequestOf.length = desc.length
         /\ RequestOf.reg = desc.reg_addr /\ ResultOf = <<>>
  BY DEF Busy, StatusOf, RequestOf, ResultOf

-----------------------------------------------------------------------------
(* The steps of the driver that a caller or the sensor notices.            *)

(* The bus: a value reaches its register in a write in progress, in the    *)
(* order of the pairs, and nothing else ever reaches one.                  *)
LEMMA BusImplements ==
  ASSUME AsCalled, LimitIsHigh, RefInv, BusStep
  PROVE  Abstract!Next \/ UNCHANGED Abstract!vars
<1>1. /\ DriverTypeOK /\ DriverInv /\ EntriesInv /\ PromptStart
      /\ UNCHANGED <<drvvars, thread>> /\ UNCHANGED <<i2c1_state, desc, buf>>
  BY DEF RefInv, ClientInv, AsCalled, BusStep, drvvars
<1>2. CASE regs' = regs
  BY <1>1, <1>2, Silent DEF DriverNext
<1>3. CASE regs' # regs
  <2>1. HwWriteByte /\ bus = "w_data" /\ tx # <<>>
    <3>1. HwWriteByte
      BY <1>3 DEF BusStep, HwNext, HwFetch, HwReadByte, HwStop, HwAbort
    <3> QED
      BY <1>1, <1>3, <3>1 DEF HwWriteByte, DriverTypeOK, ControllerTypeOK
  <2>2. ~IsRead
    <3>1. Moves
      BY DEF Moves, DriverNext
    <3> QED
      BY <1>1, <1>3, <3>1, ReadsKeep DEF RefInv
  <2>3. i2c1_state # "I2C_ERROR"
    <3> SUFFICES ASSUME i2c1_state = "I2C_ERROR" PROVE FALSE
      OBVIOUS
    <3>1. hits > StormLimit
      BY <2>1, <2>2 DEF RefInv, WriteErrorInv
    <3>2. 2 * desc.length + 2 <= StormLimit
      BY DEF RefInv, RequestInv, InUse, LimitIsHigh
    <3>3. hits \in Nat /\ desc.length \in Nat /\ StormLimit \in Nat
      BY <1>1, SeriesType, DriverAssumption DEF DriverTypeOK
    <3> QED
      BY <1>1, <3>1, <3>2, <3>3, EntriesBound
  <2>4. i2c1_state = "I2C_WRITING" /\ Busy
    BY <1>1, <2>1, <2>2, <2>3, WireIsBusy DEF Busy, DriverInv, ControlInv, RestInv
  <2> DEFINE pair == (Completed \div 2) + 1
  <2>5. /\ regs' = [regs EXCEPT ![desc.write_registers[pair]] = desc.data[pair]]
        /\ Effective(desc, Completed \div 2)
    BY <1>1, <2>1, <2>4, WriteValue
  <2>6. pair \in 1 .. desc.length /\ pair - 1 = Completed \div 2 /\ desc.length \in Nat
    BY <1>1, <2>1, <2>4, WritePairFacts
  <2> HIDE DEF pair
  <2>7. /\ StatusOf = "busy" /\ RequestOf.kind = "write" /\ RequestOf.length = desc.length
        /\ RequestOf.addresses = desc.write_registers /\ RequestOf.data = desc.data
    BY <2>2, <2>4, WriteRequest
  <2>8. UNCHANGED <<StatusOf, RequestOf, ResultOf>>
    BY <1>1 DEF StatusOf, RequestOf, ResultOf, IsRead
  <2>9. \A j \in 1 .. pair - 1 : Abstract!InEffect(j)
    <3> SUFFICES ASSUME NEW j \in 1 .. pair - 1 PROVE Abstract!InEffect(j)
      OBVIOUS
    <3>1. \/ regs[desc.write_registers[j]] = desc.data[j]
          \/ \E i \in j + 1 .. pair - 1 : desc.write_registers[i] = desc.write_registers[j]
      BY <2>5, <2>6 DEF Effective
    <3>2. \A i \in j + 1 .. pair - 1 : i \in j + 1 .. desc.length
      BY <2>6
    <3> QED
      BY <2>7, <3>1, <3>2 DEF Abstract!InEffect
  <2>10. Abstract!Write(pair)
    BY <2>5, <2>7, <2>8, <2>9 DEF Abstract!Write
  <2> QED
    BY <2>6, <2>7, <2>10 DEF Abstract!Next
<1> QED
  BY <1>2, <1>3

(* The start call: a transfer begins when it sets the state.               *)
LEMMA StartImplements ==
  ASSUME RefInv, StartState PROVE Abstract!Next
<1>1. /\ DriverTypeOK /\ DriverInv /\ RequestInv /\ thread \in {"r_state", "w_state"}
      /\ i2c1_state' \in {"I2C_READING", "I2C_WRITING"} /\ UNCHANGED <<desc, regs>>
  BY DEF RefInv, ClientInv, StartState, hwvars
<1>2. i2c1_state = "I2C_IDLE" /\ InUse
  BY <1>1 DEF DriverInv, ControlInv, StartInv, Starting, InUse
<1>3. RequestOf' \in Requests
  <2>1. Described \in Requests
    BY <1>1, <1>2, RequestIsOne
  <2>2. RequestOf' = Described
    BY <1>1 DEF RequestOf, Described, IsRead
  <2> QED
    BY <2>1, <2>2
<1>4. StatusOf = "idle" /\ StatusOf' = "busy" /\ ResultOf = <<>> /\ ResultOf' = <<>>
  BY <1>1, <1>2 DEF StatusOf, ResultOf
<1> QED
  BY <1>1, <1>3, <1>4 DEF Abstract!Next, Abstract!Begin

(* The handler: a transfer succeeds with its whole effect, or fails.       *)
LEMMA HandlerImplements ==
  ASSUME AsCalled, LimitIsHigh, RefInv, RefInv', IsrNext
  PROVE  Abstract!Next \/ UNCHANGED Abstract!vars
<1>1. /\ DriverTypeOK /\ DriverInv /\ EntriesInv /\ DriverNext
      /\ desc \in Descriptor
  BY DEF RefInv, ClientInv, DriverNext, DriverTypeOK
<1>2. /\ desc'.reg_addr = desc.reg_addr /\ desc'.length = desc.length
      /\ desc'.write_registers = desc.write_registers /\ desc'.data = desc.data
  BY <1>1, RequestKept
<1>3. regs' = regs /\ (i2c1_state = "I2C_DONE" => buf' = buf)
  BY <1>1 DEF IsrNext, IsrStorm, IsrEnter, IsrAbort, IsrOver, IsrRx, IsrDrain, IsrDrainEnd, IsrTx,
     PumpRead, PumpWrite, PumpEnd, IsrStop, IsrStopEnd, IsrExit, hwvars,
     DriverInv, ControlInv, PlaceInv
<1>4. CASE i2c1_state' = i2c1_state
  BY <1>1, <1>3, <1>4, Silent
<1>5. CASE i2c1_state' # i2c1_state
  <2>1. 2 * desc.length + 2 <= StormLimit \/ i2c1_state = "I2C_IDLE"
    BY DEF RefInv, RequestInv, InUse, LimitIsHigh
  <2>2. ~IsrStorm
    <3>1. CASE i2c1_state = "I2C_IDLE"
      BY <1>1, <3>1, IrqFacts DEF IsrStorm
    <3>2. CASE i2c1_state # "I2C_IDLE"
      BY <1>1, <2>1, <3>2, NoStorm
    <3> QED
      BY <3>1, <3>2
  <2>3. IsrAbort \/ IsrOver \/ IsrStop \/ IsrStopEnd
    BY <1>5, <2>2 DEF IsrNext, IsrEnter, IsrRx, IsrDrain, IsrDrainEnd, IsrTx,
       PumpRead, PumpWrite, PumpEnd, IsrExit
  <2>4. Busy /\ i2c1_state' \in {"I2C_DONE", "I2C_ERROR"}
    BY <1>1, <1>5, <2>3 DEF IsrAbort, IsrOver, IsrStop, IsrStopEnd, Busy,
       DriverInv, ControlInv, PlaceInv
  <2>5. StatusOf = "busy" /\ ResultOf = <<>>
    BY <2>4 DEF StatusOf, ResultOf, Busy
  <2>6. RequestOf' = RequestOf
    BY <1>2, <2>4, RequestSame DEF Busy
  <2>7. CASE i2c1_state' = "I2C_ERROR"
    <3>1. StatusOf' = "failed" /\ ResultOf' = <<>>
      BY <2>7 DEF StatusOf, ResultOf
    <3> QED
      BY <1>3, <2>5, <2>6, <3>1 DEF Abstract!Next, Abstract!Fail
  <2>8. CASE i2c1_state' = "I2C_DONE" /\ ~IsRead
    <3>1. /\ RequestOf.kind = "write" /\ RequestOf.length = desc.length
          /\ RequestOf.addresses = desc.write_registers /\ RequestOf.data = desc.data
      BY <2>4, <2>8, WriteRequest
    <3>2. StatusOf' = "done" /\ ResultOf' = <<>>
      BY <1>2, <2>8 DEF StatusOf, ResultOf, IsRead
    <3>3. Effective(desc, desc.length)
      <4>1. i2c1_state = "I2C_WRITING"
        BY <1>1, <2>4, <2>8 DEF Busy, DriverInv, ControlInv, RestInv
      <4>2. isr = "stop" /\ "STOP_DET" \in irq_status
        BY <1>1, <2>3, <2>8, <4>1 DEF IsrAbort, IsrOver, IsrStop, IsrStopEnd, Busy, DriverInv,
           ControlInv, PlaceInv
      <4> QED
        BY <1>1, <4>1, <4>2, WriteStopped
    <3>4. \A k \in 1 .. RequestOf.length : Abstract!InEffect(k)
      BY <3>1, <3>3 DEF Effective, Abstract!InEffect
    <3> QED
      BY <1>3, <2>5, <2>6, <3>1, <3>2, <3>4 DEF Abstract!Next, Abstract!SucceedWriting
  <2>9. CASE i2c1_state' = "I2C_DONE" /\ IsRead
    <3>1. /\ RequestOf.kind = "read" /\ RequestOf.length = desc.length
          /\ RequestOf.reg = desc.reg_addr
      BY <2>4, <2>9, ReadRequest
    <3>2. IsRead'
      BY <1>2, <2>9 DEF IsRead
    <3>3. StatusOf' = "done" /\ ResultOf' = buf'
      BY <2>9, <3>2 DEF StatusOf, ResultOf
    <3>4. buf' = [i \in 0 .. desc'.length - 1 |-> regs'[(desc'.reg_addr + i) % RegCount]]
      BY <2>9, <3>2 DEF RefInv, ClientInv, DriverInv, TransferInv, DoneInv
    <3>5. ResultOf' = [i \in 0 .. RequestOf.length - 1 |-> regs[(RequestOf.reg + i) % RegCount]]
      BY <1>2, <1>3, <3>1, <3>3, <3>4
    <3> QED
      BY <1>3, <2>5, <2>6, <3>1, <3>3, <3>5 DEF Abstract!Next, Abstract!SucceedReading
  <2> QED
    BY <2>4, <2>7, <2>8, <2>9
<1> QED
  BY <1>4, <1>5

(* The caller: it takes the result and makes room for the next transfer.   *)
LEMMA TakesImplements ==
  ASSUME Takes PROVE Abstract!Next
<1>1. /\ i2c1_state = "I2C_DONE" /\ i2c1_state' = "I2C_IDLE" /\ regs' = regs
  BY DEF Takes, hwvars
<1>2. StatusOf = "done" /\ StatusOf' = "idle" /\ ResultOf' = <<>>
  BY <1>1 DEF StatusOf, ResultOf
<1>3. RequestOf' = Abstract!NoRequest
  BY <1>1 DEF RequestOf, NoRequest, Abstract!NoRequest
<1> QED
  BY <1>1, <1>2, <1>3 DEF Abstract!Next, Abstract!Acknowledge

(* A descriptor that is only being filled in is not seen yet.              *)
LEMMA BeginsSilently ==
  ASSUME Begins PROVE UNCHANGED Abstract!vars
<1>1. i2c1_state = "I2C_IDLE" /\ i2c1_state' = "I2C_IDLE" /\ regs' = regs
  BY DEF Begins, StartRead, StartWrite, hwvars
<1> QED
  BY <1>1 DEF StatusOf, RequestOf, ResultOf, Abstract!vars

-----------------------------------------------------------------------------
(* The driver implements RegisterAccess: its initial states map to the     *)
(* abstract one, and each of its steps to an abstract step or to none.     *)
THEOREM DriverImplements ==
  ASSUME AsCalled, LimitIsHigh PROVE Spec => ImplementsRegisterAccess
<1>1. Init => Abstract!Init
  <2> SUFFICES ASSUME Init PROVE Abstract!Init
    OBVIOUS
  <2>1. i2c1_state = "I2C_IDLE" /\ regs = Factory
    BY DEF Init, DriverInit, HwInit
  <2> QED
    BY <2>1 DEF Abstract!Init, StatusOf, RequestOf, ResultOf, NoRequest, Abstract!NoRequest
<1>2. RefInv /\ RefInv' /\ [Next]_i2cvars => [Abstract!Next]_(Abstract!vars)
  <2> SUFFICES ASSUME RefInv, RefInv', [Next]_i2cvars
               PROVE  Abstract!Next \/ UNCHANGED Abstract!vars
    OBVIOUS
  <2>1. Begins \/ DriverNext \/ Takes \/ GivesUp \/ UNCHANGED i2cvars
    BY ClientMoves, StartBegins DEF AsCalled, RefInv, ClientInv
  <2>2. CASE BusStep
    BY <2>2, BusImplements
  <2>3. CASE StartState
    BY <2>3, StartImplements
  <2>4. CASE IsrNext
    BY <2>4, HandlerImplements
  <2>5. CASE Takes
    BY <2>5, TakesImplements
  <2>6. CASE Begins
    BY <2>6, BeginsSilently
  <2>7. CASE \/ StartReadCmd \/ StartMask \/ WaitCheck \/ WaitSleep \/ Tick
             \/ GivesUp \/ UNCHANGED i2cvars
    <3>1. UNCHANGED <<i2c1_state, buf, regs>>
      BY <2>7 DEF StartReadCmd, StartMask, WaitCheck, WaitSleep, Tick, GivesUp, i2cvars,
         drvvars, hwvars
    <3> QED
      BY <2>7, <3>1, Silent DEF RefInv, ClientInv, DriverNext, ApiNext
  <2> QED
    BY <2>1, <2>2, <2>3, <2>4, <2>5, <2>6, <2>7 DEF DriverNext, ApiNext
<1>3. Abstract!Spec <=> Abstract!Init /\ [][Abstract!Next]_(Abstract!vars)
  BY DEF Abstract!Spec
<1> QED
  BY <1>1, <1>2, <1>3, RefInvariant, PTL DEF Spec, ImplementsRegisterAccess
=============================================================================
