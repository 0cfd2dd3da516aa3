--------------------------- MODULE I2CDriverProofs ---------------------------
(***************************************************************************)
(* What the driver keeps, whoever its client is: the lemmas the theorems   *)
(* about I2CClient, I2CRefinement and Firmware share.  They hold for every *)
(* FIFO depth, register count and storm limit, whether or not the sensor   *)
(* may fail to acknowledge.  From DriverInv on they need PromptStart.      *)
(*                                                                         *)
(* The part from Takes on says how often a transfer enters the interrupt   *)
(* handler, and therefore when the storm guard cannot fire.  While a       *)
(* transfer is in progress every entry moves it on by a command issued or  *)
(* a byte stored; after an error every entry takes away a latched          *)
(* interrupt, of which the controller can raise only as many as commands   *)
(* are left.  With the invariant of the transfer this bounds dbg_isr_hits  *)
(* by twice the length and two more, whatever the depth of the FIFOs.  The *)
(* last sections show that the descriptor keeps one request throughout a   *)
(* transfer, and that a read changes no register of the sensor.            *)
(***************************************************************************)
EXTENDS I2CStateMachine, SequenceTheorems, TLAPS

-----------------------------------------------------------------------------
(* Going round the sensor's registers.                                     *)

LEMMA Product == \A a, b \in Nat : a * b \in Nat
  OBVIOUS

(* Two multiples of r less than r apart are the same.                      *)
LEMMA ProductGap ==
  ASSUME NEW r \in Nat \ {0}, NEW d \in Int, 0 - r < r * d, r * d < r
  PROVE  d = 0
<1>1. CASE d >= 1
  <2>1. d - 1 \in Nat /\ r * d = r + r * (d - 1)
    BY <1>1
  <2>2. r * (d - 1) \in Nat
    BY <2>1, Product
  <2> QED
    BY <2>1, <2>2
<1>2. CASE d <= -1
  <2>1. (-d) - 1 \in Nat /\ r * d = 0 - (r + r * ((-d) - 1))
    BY <1>2
  <2>2. r * ((-d) - 1) \in Nat
    BY <2>1, Product
  <2> QED
    BY <2>1, <2>2
<1> QED
  BY <1>1, <1>2

LEMMA DivMod ==
  \A r \in Nat \ {0} : \A n \in Nat :
    n % r \in 0 .. r - 1 /\ n \div r \in Nat /\ n = r * (n \div r) + (n % r)
  OBVIOUS

(* A number has one remainder.                                             *)
LEMMA ModUnique ==
  ASSUME NEW r \in Nat \ {0}, NEW q \in Int, NEW p \in Int,
         NEW a \in 0 .. r - 1, NEW b \in 0 .. r - 1, r * q + a = r * p + b
  PROVE  a = b
<1>1. r * (q - p) = b - a
  OBVIOUS
<1>2. q - p \in Int /\ 0 - r < b - a /\ b - a < r
  OBVIOUS
<1>3. q - p = 0
  BY <1>1, <1>2, ProductGap
<1> QED
  BY <1>1, <1>3

(* The remainder of the next number is the next remainder, or 0.           *)
LEMMA ModNext ==
  ASSUME NEW n \in Nat, NEW r \in Nat \ {0}
  PROVE  (n + 1) % r = IF n % r = r - 1 THEN 0 ELSE (n % r) + 1
<1>1. n % r \in 0 .. r - 1 /\ n \div r \in Nat /\ n = r * (n \div r) + (n % r)
  BY DivMod
<1> DEFINE m == n + 1
<1>2. m \in Nat
  OBVIOUS
<1> HIDE DEF m
<1>3. m % r \in 0 .. r - 1 /\ m \div r \in Nat /\ m = r * (m \div r) + (m % r)
  BY <1>2, DivMod
<1>4. CASE n % r = r - 1
  <2>1. r * ((n \div r) + 1) = r * (n \div r) + r
    BY <1>1
  <2>2. r * ((n \div r) + 1) + 0 = r * (m \div r) + (m % r)
    BY <1>1, <1>3, <1>4, <2>1 DEF m
  <2>3. (n \div r) + 1 \in Int /\ m \div r \in Int /\ 0 \in 0 .. r - 1
    BY <1>1, <1>3
  <2>4. 0 = m % r
    BY ONLY <1>3, <2>2, <2>3, ModUnique, r \in Nat \ {0}
  <2> QED
    BY <1>4, <2>4 DEF m
<1>5. CASE n % r # r - 1
  <2>1. r * (n \div r) + ((n % r) + 1) = r * (m \div r) + (m % r)
    BY <1>1, <1>3 DEF m
  <2>2. (n \div r) \in Int /\ (m \div r) \in Int /\ ((n % r) + 1) \in 0 .. r - 1
    <3>1. n % r \in Nat /\ n % r < r - 1
      BY <1>1, <1>5
    <3>2. ((n % r) + 1) \in 0 .. r - 1
      BY <3>1
    <3> QED
      BY <1>1, <1>3, <3>2
  <2>3. (n % r) + 1 = m % r
    BY ONLY <1>3, <2>1, <2>2, ModUnique, r \in Nat \ {0}
  <2> QED
    BY <1>5, <2>3 DEF m
<1> QED
  BY <1>4, <1>5

-----------------------------------------------------------------------------
(* Lemmas about the controller.                                            *)

(* A store to IC_DATA_CMD leaves a well-formed FIFO.                       *)
LEMMA PushCmdType ==
  ASSUME ControllerTypeOK, NEW c \in Cmd, PushCmd(c)
  PROVE  tx' \in Seq(Cmd) /\ (shifting => tx' # <<>>)
  BY DEF PushCmd, ControllerTypeOK

(* What the controller and the sensor are at power-up.                     *)
LEMMA HwInitType == ASSUME HwInit, intr_mask = Always PROVE ControllerTypeOK
<1>1. 0 \in Byte /\ Factory \in [Byte -> Byte] /\ RxDepth \in Nat
  BY ControllerAssumption DEF Byte
<1>2. /\ tx \in Seq(Cmd) /\ shifting = FALSE
      /\ rx \in Seq(Byte) /\ Len(rx) = 0
  BY EmptySeq DEF HwInit
<1>3. latched \subseteq Latching /\ intr_mask \subseteq Interrupt
  BY DEF HwInit, Latching, Interrupt, Always
<1>4. tx_abrt_source \in AbortSource /\ bus \in BusPhase
  BY DEF HwInit, AbortSource, BusPhase
<1> QED
  BY <1>1, <1>2, <1>3, <1>4 DEF HwInit, ControllerTypeOK

(* Whatever the block and the sensor do by themselves is well typed.       *)
LEMMA HwType == ASSUME ControllerTypeOK, HwNext PROVE ControllerTypeOK'
<1> USE DEF ControllerTypeOK
<1>1. CASE HwFetch
  BY <1>1 DEF HwFetch
<1>2. CASE HwWriteByte
  <2>1. Head(tx) \in Cmd /\ Tail(tx) \in Seq(Cmd)
    BY <1>2, HeadTailProperties DEF HwWriteByte
  <2> QED
    BY <1>2, <2>1 DEF HwWriteByte, Complete, BusPhase, Cmd
<1>3. CASE HwReadByte
  <2>1. Head(tx) \in Cmd /\ Tail(tx) \in Seq(Cmd)
    BY <1>3, HeadTailProperties DEF HwReadByte
  <2>2. ptr' \in Byte
    BY <1>3, ControllerAssumption DEF HwReadByte, Byte
  <2>3. regs[ptr] \in Byte
    OBVIOUS
  <2>4. rx' \in Seq(Byte) /\ Len(rx') <= RxDepth
    <3>1. /\ Append(rx, regs[ptr]) \in Seq(Byte)
          /\ Len(Append(rx, regs[ptr])) = Len(rx) + 1
      BY <2>3, AppendProperties
    <3>2. Len(rx) \in Nat /\ RxDepth \in Nat
      BY LenProperties, ControllerAssumption
    <3>3. \/ Len(rx) < RxDepth /\ rx' = Append(rx, regs[ptr])
          \/ rx' = rx
      BY <1>3 DEF HwReadByte
    <3> QED
      BY <3>1, <3>2, <3>3, SMTT(30)
  <2>5. latched' \subseteq Latching
    BY <1>3 DEF HwReadByte, Latching
  <2> QED
    BY <1>3, <2>1, <2>2, <2>4, <2>5 DEF HwReadByte, Complete, BusPhase, Cmd
<1>4. CASE HwStop
  BY <1>4 DEF HwStop, BusPhase, Latching
<1>5. ASSUME NEW source \in AbortSource, HwAbort(source) PROVE ControllerTypeOK'
  <2>1. /\ tx' \in Seq(Cmd) /\ shifting' = FALSE
        /\ rx' \in Seq(Byte) /\ Len(rx') <= RxDepth
    BY <1>5, EmptySeq, ControllerAssumption DEF HwAbort
  <2>2. latched' \subseteq Latching /\ bus' \in BusPhase
    BY <1>5 DEF HwAbort, BusPhase, Latching
  <2> QED
    BY <1>5, <2>1, <2>2 DEF HwAbort
<1> QED
  BY <1>1, <1>2, <1>3, <1>4, <1>5 DEF HwNext

(* clear_rx leaves a FIFO.                                                 *)
LEMMA EmptyRx == <<>> \in Seq(Byte) /\ Len(<<>>) <= RxDepth
<1>1. Len(<<>>) = 0 /\ RxDepth \in Nat
  BY EmptySeq, ControllerAssumption
<1> QED
  BY <1>1, EmptySeq

(* A step that leaves the controller alone leaves it well typed.           *)
LEMMA HwSame == ASSUME ControllerTypeOK, UNCHANGED hwvars PROVE ControllerTypeOK'
  BY DEF ControllerTypeOK, hwvars

-----------------------------------------------------------------------------
(* The steps of the driver's clients.                                      *)

(* A start call with a request the callers make: a length above 0, and as  *)
(* many values as addresses.                                               *)
Begins ==
  \/ \E reg \in Byte : \E len \in Nat \ {0} : StartRead(reg, len)
  \/ \E a, d \in Seq(Byte) : Len(a) = Len(d) /\ Len(a) > 0 /\ StartWrite(a, d)

(* A caller that is not in a start call or its wait loop sets the state    *)
(* back, gives up, or is refused and goes to wait.                         *)
Yields ==
  /\ isr = "off" /\ thread \in {"out", "back"}
  /\ i2c1_state' \in {i2c1_state, "I2C_IDLE"}
  /\ thread' \in {"out", "panic", "check"}
  /\ UNCHANGED <<hwvars, desc, buf, hits, isr, irq_status>>

-----------------------------------------------------------------------------
(* DriverTypeOK is inductive.  One lemma for each side of the driver.      *)

(* What the two start calls, and the zeroed descriptor, amount to.         *)
LEMMA DescriptorType ==
  ASSUME NEW reg \in Byte, NEW a \in Seq(Byte), NEW d \in Seq(Byte), NEW len \in Nat
  PROVE  /\ NewDescriptor(reg, a, d, len) \in Descriptor
         /\ NewDescriptor(reg, a, d, len).received = 0
         /\ NewDescriptor(reg, a, d, len).issued = 0
         /\ NewDescriptor(reg, a, d, len).fault = {}
         /\ NewDescriptor(reg, a, d, len).length = len
         /\ NewDescriptor(reg, a, d, len).write_registers = a
         /\ NewDescriptor(reg, a, d, len).data = d
         /\ NewDescriptor(reg, a, d, len).reg_addr = reg
  BY DEF NewDescriptor, Descriptor, AbortSource

(* The same for the two calls, as they use it.                             *)
LEMMA ReadDescriptorType ==
  ASSUME NEW reg \in Byte, NEW len \in Nat
  PROVE  /\ ReadDescriptor(reg, len) \in Descriptor
         /\ ReadDescriptor(reg, len).received = 0
         /\ ReadDescriptor(reg, len).issued = 0
         /\ ReadDescriptor(reg, len).length = len
         /\ ReadDescriptor(reg, len).fault = {}
<1>1. <<>> \in Seq(Byte)
  BY EmptySeq
<1>2. /\ NewDescriptor(reg, <<>>, <<>>, len) \in Descriptor
      /\ NewDescriptor(reg, <<>>, <<>>, len).received = 0
      /\ NewDescriptor(reg, <<>>, <<>>, len).issued = 0
      /\ NewDescriptor(reg, <<>>, <<>>, len).length = len
      /\ NewDescriptor(reg, <<>>, <<>>, len).fault = {}
  BY <1>1 DEF NewDescriptor, Descriptor, AbortSource
<1> QED
  BY <1>2 DEF ReadDescriptor

(* And for the descriptor of a write, which names both its arrays.         *)
LEMMA WriteDescriptorType ==
  ASSUME NEW a \in Seq(Byte), NEW d \in Seq(Byte)
  PROVE  /\ WriteDescriptor(a, d) \in Descriptor
         /\ WriteDescriptor(a, d).received = 0
         /\ WriteDescriptor(a, d).issued = 0
         /\ WriteDescriptor(a, d).length = Len(a)
         /\ WriteDescriptor(a, d).fault = {}
         /\ WriteDescriptor(a, d).write_registers = a
         /\ WriteDescriptor(a, d).data = d
         /\ WriteDescriptor(a, d).reg_addr = 0
<1>1. 0 \in Byte /\ Len(a) \in Nat
  BY LenProperties, ControllerAssumption DEF Byte
<1> QED
  BY <1>1, DescriptorType DEF WriteDescriptor

(* The state after i2c_init_master and i2c_irq_enable is well typed.       *)
LEMMA DriverInitType == DriverInit => DriverTypeOK
<1> SUFFICES ASSUME DriverInit PROVE DriverTypeOK
  OBVIOUS
<1>1. ControllerTypeOK
  BY HwInitType DEF DriverInit
<1>2. desc \in Descriptor /\ desc.received = 0
  <2>1. 0 \in Byte /\ desc = ReadDescriptor(0, 0)
    BY ControllerAssumption DEF DriverInit, Byte
  <2> QED
    BY <2>1, ReadDescriptorType
<1>3. buf \in [0 .. desc.received - 1 -> Byte]
  BY <1>2 DEF DriverInit
<1> QED
  BY <1>1, <1>2, <1>3
  DEF DriverInit, DriverTypeOK, State, IsrPlace, Interrupt

(* A start call.                                                           *)
LEMMA BeginsType == ASSUME DriverTypeOK, Begins PROVE DriverTypeOK'
<1> USE DEF DriverTypeOK
<1>1. ASSUME NEW reg \in Byte, NEW len \in Nat \ {0}, StartRead(reg, len)
      PROVE  DriverTypeOK'
  <2>1. desc' \in Descriptor /\ desc'.received = 0
    BY <1>1, ReadDescriptorType DEF StartRead
  <2>2. buf' \in [0 .. desc'.received - 1 -> Byte]
    BY <1>1, <2>1 DEF StartRead
  <2>3. ControllerTypeOK'
    BY <1>1, HwSame DEF StartRead
  <2> QED
    BY <1>1, <2>1, <2>2, <2>3 DEF StartRead, Starting
<1>2. ASSUME NEW a \in Seq(Byte), NEW d \in Seq(Byte), Len(a) = Len(d), StartWrite(a, d)
      PROVE  DriverTypeOK'
  <2>1. /\ desc' \in Descriptor /\ desc'.received = 0
        /\ Len(desc'.write_registers) = desc'.length /\ Len(desc'.data) = desc'.length
    BY <1>2, WriteDescriptorType DEF StartWrite
  <2>2. buf' \in [0 .. desc'.received - 1 -> Byte]
    BY <1>2, <2>1 DEF StartWrite
  <2>3. ControllerTypeOK'
    BY <1>2, HwSame DEF StartWrite
  <2> QED
    BY <1>2, <2>1, <2>2, <2>3 DEF StartWrite, Starting
<1> QED
  BY <1>1, <1>2 DEF Begins

(* The rest of the start calls, and the wait loop.                         *)
LEMMA ApiType == ASSUME DriverTypeOK, ApiNext PROVE DriverTypeOK'
<1> USE DEF DriverTypeOK
<1>3. CASE StartReadCmd
  <2>1. WriteCmd(desc.reg_addr, FALSE) \in Cmd
    BY DEF Descriptor, WriteCmd, Cmd
  <2>2. tx' \in Seq(Cmd) /\ (shifting => tx' # <<>>)
    BY <1>3, <2>1, PushCmdType DEF StartReadCmd
  <2>3. ControllerTypeOK'
    BY <1>3, <2>2 DEF StartReadCmd, ControllerTypeOK
  <2> QED
    BY <1>3, <2>3 DEF StartReadCmd, drvvars, Starting
<1>4. CASE StartState
  <2>1. ControllerTypeOK'
    BY <1>4, HwSame DEF StartState
  <2> QED
    BY <1>4, <2>1 DEF StartState, Starting, State
<1>5. CASE StartMask
  <2>1. ControllerTypeOK'
    BY <1>5 DEF StartMask, ControllerTypeOK, Pacing, Interrupt
  <2> QED
    BY <1>5, <2>1 DEF StartMask, drvvars, Waiting, Starting
<1>6. CASE WaitCheck \/ WaitSleep
  <2>1. ControllerTypeOK'
    BY <1>6, HwSame DEF WaitCheck, WaitSleep
  <2> QED
    BY <1>6, <2>1 DEF WaitCheck, WaitSleep, drvvars, Waiting, Starting
<1> QED
  BY <1>3, <1>4, <1>5, <1>6 DEF ApiNext

(* What a caller does between two transfers.                               *)
LEMMA YieldsType == ASSUME DriverTypeOK, Yields PROVE DriverTypeOK'
<1>1. ControllerTypeOK'
  BY HwSame DEF Yields, DriverTypeOK
<1> QED
  BY <1>1 DEF Yields, DriverTypeOK, State, Waiting

(* The blocks of the handler.                                              *)
LEMMA IsrType == ASSUME DriverTypeOK, IsrNext PROVE DriverTypeOK'
<1>0. ControllerTypeOK /\ desc \in Descriptor
  BY DEF DriverTypeOK
<1>1. CASE IsrStorm
  <2>1. ControllerTypeOK'
    BY <1>0, <1>1 DEF IsrStorm, ControllerTypeOK
  <2>2. thread' \in Starting \cup Waiting \cup {"out", "back", "panic"}
    BY <1>1 DEF IsrStorm, Wake, Waiting, DriverTypeOK
  <2> QED
    BY <1>1, <2>1, <2>2 DEF IsrStorm, Wake, State, Irq, DriverTypeOK
<1>2. CASE IsrEnter
  <2>1. ControllerTypeOK'
    BY <1>0, <1>2, HwSame DEF IsrEnter
  <2>2. thread' \in Starting \cup Waiting \cup {"out", "back", "panic"}
    BY <1>2 DEF IsrEnter, Wake, Waiting, DriverTypeOK
  <2>3. irq_status' \subseteq Interrupt
    BY <1>0, <1>2 DEF IsrEnter, IntrStat, ControllerTypeOK
  <2> QED
    BY <1>2, <2>1, <2>2, <2>3 DEF IsrEnter, Wake, IsrPlace, DriverTypeOK
<1>3. CASE IsrAbort
  <2>1. ControllerTypeOK'
    BY <1>0, <1>3, EmptyRx DEF ClearRx, IsrAbort, ControllerTypeOK, AbortSource
  <2>2. desc' \in Descriptor /\ desc'.received = desc.received
        /\ desc'.write_registers = desc.write_registers
        /\ desc'.data = desc.data /\ desc'.length = desc.length
    <3>1. CASE Busy
      <4>1. tx_abrt_source \in AbortSource
        BY <1>0 DEF ControllerTypeOK
      <4>2. desc' = [desc EXCEPT !.abrt_source = tx_abrt_source,
                                !.fault = @ \cup {"I2C_FAULT_ABORT"}]
        BY <1>3, <3>1 DEF ClearRx, IsrAbort
      <4>3. desc.fault \cup {"I2C_FAULT_ABORT"} \in SUBSET Fault
        BY <1>0 DEF Descriptor, Fault
      <4> QED
        BY <1>0, <4>1, <4>2, <4>3 DEF Descriptor
    <3>2. CASE ~Busy
      BY <1>0, <1>3, <3>2 DEF ClearRx, IsrAbort
    <3> QED
      BY <3>1, <3>2
  <2> QED
    BY <1>3, <2>1, <2>2 DEF ClearRx, IsrAbort, IsrPlace, State, DriverTypeOK
<1>4. CASE IsrOver
  <2>1. ControllerTypeOK'
    BY <1>0, <1>4 DEF IsrOver, ControllerTypeOK
  <2>2. desc' \in Descriptor /\ desc'.received = desc.received
        /\ desc'.write_registers = desc.write_registers
        /\ desc'.data = desc.data /\ desc'.length = desc.length
    BY <1>0, <1>4 DEF IsrOver, Descriptor, Fault
  <2> QED
    BY <1>4, <2>1, <2>2 DEF IsrOver, IsrPlace, State, DriverTypeOK
<1>5. CASE IsrRx
  <2>1. ControllerTypeOK'
    BY <1>0, <1>5, EmptyRx DEF ClearRx, IsrRx, ControllerTypeOK
  <2> QED
    BY <1>5, <2>1 DEF ClearRx, IsrRx, IsrPlace, DriverTypeOK
<1>6. CASE IsrDrain
  <2>1. Head(rx) \in Byte /\ Tail(rx) \in Seq(Byte) /\ Len(Tail(rx)) = Len(rx) - 1
    BY <1>0, <1>6, HeadTailProperties DEF IsrDrain, CanDrain, RxNotEmpty, ControllerTypeOK
  <2>2. ControllerTypeOK'
    BY <1>0, <1>6, <2>1, LenProperties, ControllerAssumption DEF IsrDrain, ControllerTypeOK
  <2>3. desc' \in Descriptor /\ desc'.received = desc.received + 1
        /\ desc'.write_registers = desc.write_registers
        /\ desc'.data = desc.data /\ desc'.length = desc.length
    BY <1>0, <1>6, SMTT(30) DEF IsrDrain, Descriptor
  <2>4. desc.received \in Nat
    BY <1>0 DEF Descriptor
  <2>5. buf' \in [0 .. desc'.received - 1 -> Byte]
    <3>1. buf \in [0 .. desc.received - 1 -> Byte]
      BY DEF DriverTypeOK
    <3>2. (0 .. desc.received - 1) \cup {desc.received} = 0 .. desc'.received - 1
      BY <2>3, <2>4
    <3>3. buf' = [j \in DOMAIN buf \cup {desc.received} |->
                    IF j = desc.received THEN Head(rx) ELSE buf[j]]
      BY <1>6 DEF IsrDrain, Store
    <3> QED
      BY <2>1, <3>1, <3>2, <3>3
  <2> QED
    BY <1>6, <2>2, <2>3, <2>5 DEF IsrDrain, DriverTypeOK
<1>7. CASE IsrDrainEnd \/ IsrTx \/ IsrStopEnd
  <2>1. ControllerTypeOK'
    BY <1>0, <1>7, HwSame DEF IsrDrainEnd, IsrTx, IsrStopEnd
  <2> QED
    BY <1>7, <2>1 DEF IsrDrainEnd, IsrTx, IsrStopEnd, IsrPlace, State, DriverTypeOK
<1>8. CASE PumpRead
  <2>1. ReadCmd(desc.issued = 0, LastOne) \in Cmd
    BY <1>0, ControllerAssumption DEF ReadCmd, Cmd, Byte, LastOne
  <2>2. tx' \in Seq(Cmd) /\ (shifting => tx' # <<>>)
    BY <1>0, <1>8, <2>1, PushCmdType DEF PumpRead
  <2>3. ControllerTypeOK'
    BY <1>0, <1>8, <2>2 DEF PumpRead, ControllerTypeOK
  <2>4. desc' \in Descriptor /\ desc'.received = desc.received
        /\ desc'.write_registers = desc.write_registers
        /\ desc'.data = desc.data /\ desc'.length = desc.length
    BY <1>0, <1>8, SMTT(30) DEF PumpRead, Descriptor
  <2> QED
    BY <1>8, <2>3, <2>4 DEF PumpRead, DriverTypeOK
<1>9. CASE PumpWrite
  <2>1. PICK c \in Cmd : PushCmd(c)
    <3>1. desc.issued + 1 \in 1 .. desc.length
      BY <1>0, <1>9 DEF PumpWrite, CanPump, Descriptor
    <3>2. /\ desc.data[desc.issued + 1] \in Byte
          /\ desc.write_registers[desc.issued + 1] \in Byte
      BY <1>0, <1>9, <3>1, ElementOfSeq DEF PumpWrite, Descriptor, DriverTypeOK
    <3>3. /\ WriteCmd(desc.data[desc.issued + 1], LastOne) \in Cmd
          /\ WriteCmd(desc.write_registers[desc.issued + 1], FALSE) \in Cmd
      BY <1>0, <3>2 DEF WriteCmd, Cmd, LastOne
    <3> QED
      BY <1>9, <3>3 DEF PumpWrite
  <2>2. tx' \in Seq(Cmd) /\ (shifting => tx' # <<>>)
    BY <1>0, <2>1, PushCmdType
  <2>3. ControllerTypeOK'
    BY <1>0, <1>9, <2>2 DEF PumpWrite, ControllerTypeOK
  <2>4. desc' \in Descriptor /\ desc'.received = desc.received
        /\ desc'.write_registers = desc.write_registers
        /\ desc'.data = desc.data /\ desc'.length = desc.length
    <3>1. CASE desc.write_is_data
      <4>1. desc' = [desc EXCEPT !.issued = @ + 1, !.write_is_data = FALSE]
        BY <1>9, <3>1 DEF PumpWrite
      <4>2. desc.issued + 1 \in Nat
        BY <1>0 DEF Descriptor
      <4> QED
        BY <1>0, <4>1, <4>2 DEF Descriptor
    <3>2. CASE ~desc.write_is_data
      BY <1>0, <1>9, <3>2 DEF PumpWrite, Descriptor
    <3> QED
      BY <3>1, <3>2
  <2> QED
    BY <1>9, <2>3, <2>4 DEF PumpWrite, DriverTypeOK
<1>10. CASE PumpEnd \/ IsrExit
  <2>1. ControllerTypeOK'
    BY <1>0, <1>10 DEF PumpEnd, IsrExit, ControllerTypeOK
  <2> QED
    BY <1>10, <2>1 DEF PumpEnd, IsrExit, IsrPlace, DriverTypeOK
<1>11. CASE IsrStop
  <2>1. ControllerTypeOK'
    BY <1>0, <1>11, EmptyRx DEF ClearRx, IsrStop, ControllerTypeOK
  <2> QED
    BY <1>11, <2>1 DEF ClearRx, IsrStop, IsrPlace, State, DriverTypeOK
<1> QED
  BY <1>1, <1>2, <1>3, <1>4, <1>5, <1>6, <1>7, <1>8, <1>9, <1>10, <1>11 DEF IsrNext

(* Every step of the driver keeps every variable in its type.              *)
LEMMA DriverType == ASSUME DriverTypeOK, DriverNext PROVE DriverTypeOK'
<1>1. CASE BusStep
  BY <1>1, HwType DEF BusStep, DriverTypeOK, drvvars
<1>2. CASE Tick
  <2>1. ControllerTypeOK'
    BY <1>2, HwSame DEF Tick, DriverTypeOK
  <2> QED
    BY <1>2, <2>1 DEF Tick, Wake, DriverTypeOK, drvvars, Waiting
<1> QED
  BY <1>1, <1>2, ApiType, IsrType DEF DriverNext

(* And so does a step that touches nothing of the driver's.                *)
LEMMA SameType == ASSUME DriverTypeOK, UNCHANGED i2cvars PROVE DriverTypeOK'
  BY HwSame DEF i2cvars, drvvars, DriverTypeOK

-----------------------------------------------------------------------------
(* The invariant of a transfer.  In the order in which the driver issues   *)
(* them, the commands of a transfer are Command(desc, 0), Command(desc, 1) *)
(* and so on: a read has the register address and its reads, a write its   *)
(* pairs.  The FIFO holds a section of that series.                        *)

Command(d, m) ==
  IF d.write_registers = <<>>
  THEN IF m = 0 THEN WriteCmd(d.reg_addr, FALSE) ELSE ReadCmd(m = 1, m = d.length)
  ELSE IF m % 2 = 0 THEN WriteCmd(d.write_registers[(m \div 2) + 1], FALSE)
       ELSE WriteCmd(d.data[(m \div 2) + 1], (m \div 2) + 1 = d.length)

Total(d) == IF d.write_registers = <<>> THEN d.length + 1 ELSE 2 * d.length

Issued(d) ==
  IF d.write_registers = <<>> THEN d.issued + 1
  ELSE 2 * d.issued + (IF d.write_is_data THEN 1 ELSE 0)

(* How many commands have been executed on the bus.                        *)
Completed == Issued(desc) - Len(tx)

Quiet == ~shifting /\ rx = <<>> /\ latched = {} /\ bus = "idle"
Aborted == "TX_ABRT" \in latched
Overrun == "RX_OVER" \in latched

(* Nothing happens during a start call but the call itself.                *)
StartInv ==
  thread \in Starting =>
    /\ isr = "off" /\ Quiet /\ intr_mask \cap Pacing = {}
    /\ desc.issued = 0 /\ desc.received = 0 /\ ~desc.write_is_data /\ desc.length > 0
    /\ IsRead <=> thread \in {"r_cmd", "r_state", "r_mask"}
    /\ i2c1_state = IF thread = "r_mask" THEN "I2C_READING"
                    ELSE IF thread = "w_mask" THEN "I2C_WRITING" ELSE "I2C_IDLE"
    /\ tx = IF thread \in {"r_state", "r_mask"} THEN <<WriteCmd(desc.reg_addr, FALSE)>>
            ELSE <<>>

(* Between transfers nothing is under way, and during one its caller waits.*)
RestInv ==
  /\ i2c1_state = "I2C_IDLE" /\ thread \notin Starting =>
       thread = "out" /\ isr = "off" /\ Quiet /\ tx = <<>> /\ intr_mask \cap Pacing = {}
  /\ i2c1_state = "I2C_DONE" =>
       /\ thread \in Waiting \cup {"back"} /\ isr \in {"exit", "off"}
       /\ Quiet /\ tx = <<>> /\ (isr = "off" => intr_mask \cap Pacing = {})
  /\ Busy =>
       /\ thread \in {"r_mask", "w_mask"} \cup Waiting
       /\ desc.length > 0 /\ (IsRead <=> i2c1_state = "I2C_READING")
  /\ i2c1_state # "I2C_ERROR" => Always \subseteq intr_mask

(* What the handler's place says of the state.                             *)
PlaceInv ==
  /\ isr \in {"drain", "stop_drain", "stop_end"} => i2c1_state = "I2C_READING"
  /\ isr = "pump" => Busy
  /\ isr = "abort" => Aborted

(* The FIFO holds the commands issued and not completed, in order.         *)
QueueInv ==
  Busy /\ ~Aborted =>
    /\ Len(tx) <= Issued(desc) /\ Issued(desc) <= Total(desc)
    /\ \A k \in 1 .. Len(tx) : tx[k] = Command(desc, Completed + k - 1)

(* The bus is idle before the first command and stops after the last one.  *)
PhaseInv ==
  /\ Busy /\ ~Aborted =>
       /\ Completed = 0 => bus = "idle"
       /\ Completed = Total(desc) => bus \in {"stop", "idle"}
       /\ bus = "stop" => Completed = Total(desc)
       /\ "STOP_DET" \in latched => Completed = Total(desc) /\ bus = "idle"
  /\ Busy /\ Aborted => ~shifting /\ tx = <<>> /\ rx = <<>> /\ bus \in {"stop", "idle"}

(* While no byte is lost, the buffer and the FIFO together hold what the   *)
(* reads completed so far have read, and the sensor's pointer is behind it.*)
ReadInv ==
  i2c1_state = "I2C_READING" /\ ~Aborted /\ ~Overrun =>
    /\ desc.received + Len(rx) = IF Completed = 0 THEN 0 ELSE Completed - 1
    /\ Completed > 0 => ptr = (desc.reg_addr + desc.received + Len(rx)) % RegCount
    /\ \A i \in 0 .. desc.received - 1 : buf[i] = regs[(desc.reg_addr + i) % RegCount]
    /\ \A j \in 1 .. Len(rx) :
         rx[j] = regs[(desc.reg_addr + desc.received + j - 1) % RegCount]

(* The first n pairs are in the sensor, or replaced by later ones of them. *)
Effective(d, n) ==
  \A k \in 1 .. n : \/ regs[d.write_registers[k]] = d.data[k]
                    \/ \E j \in k + 1 .. n : d.write_registers[j] = d.write_registers[k]

(* The sensor takes every second command for a value, of the register that *)
(* the one before named.                                                   *)
WriteInv ==
  i2c1_state = "I2C_WRITING" =>
    /\ rx = <<>> /\ ~Overrun
    /\ ~Aborted =>
         /\ bus = "w_data" <=> Completed % 2 = 1
         /\ bus = "w_data" => ptr = desc.write_registers[(Completed \div 2) + 1]
         /\ Effective(desc, Completed \div 2)

(* When the handler has seen STOP_DET in its copy of the interrupts, the   *)
(* transfer is over on the bus, however old the copy is.                   *)
StopInv ==
  /\ isr \in {"over", "rx", "drain", "tx", "pump", "stop"} /\ "STOP_DET" \in irq_status /\ Busy =>
       /\ ~Aborted /\ tx = <<>> /\ Completed = Total(desc) /\ bus = "idle"
       /\ ~Overrun \/ (isr = "over" /\ "RX_OVER" \in irq_status)
  /\ isr \in {"stop_drain", "stop_end"} =>
       latched = {} /\ tx = <<>> /\ Completed = Total(desc) /\ bus = "idle"
  /\ isr = "stop_end" => desc.received = desc.length /\ rx = <<>>

(* A transfer that is done has had its whole effect.                       *)
DoneInv ==
  i2c1_state = "I2C_DONE" =>
    /\ IsRead => buf = [i \in 0 .. desc.length - 1 |-> regs[(desc.reg_addr + i) % RegCount]]
    /\ ~IsRead => Effective(desc, desc.length)

ControlInv == StartInv /\ RestInv /\ PlaceInv /\ StopInv
TransferInv == QueueInv /\ PhaseInv /\ ReadInv /\ WriteInv /\ DoneInv
DriverInv == ControlInv /\ TransferInv

-----------------------------------------------------------------------------
(* Lemmas about the series of commands.                                    *)

(* Halves of an even and of an odd number.                                 *)
LEMMA Halves ==
  \A m \in Nat : /\ m \div 2 \in Nat /\ m % 2 \in {0, 1}
                 /\ m = 2 * (m \div 2) + (m % 2)
                 /\ m % 2 = 0 => (m + 1) % 2 = 1 /\ (m + 1) \div 2 = m \div 2
                 /\ m % 2 = 1 => (m + 1) % 2 = 0 /\ (m + 1) \div 2 = (m \div 2) + 1
  OBVIOUS

LEMMA SeriesType ==
  ASSUME NEW d \in Descriptor
  PROVE  /\ Issued(d) \in Nat /\ Total(d) \in Nat
         /\ d.issued \in Nat /\ d.received \in Nat /\ d.length \in Nat
         /\ d.reg_addr \in Byte /\ d.write_is_data \in BOOLEAN
         /\ d.write_registers \in Seq(Byte) /\ d.data \in Seq(Byte)
<1>1. /\ d.issued \in Nat /\ d.received \in Nat /\ d.length \in Nat
      /\ d.reg_addr \in Byte /\ d.write_is_data \in BOOLEAN
      /\ d.write_registers \in Seq(Byte) /\ d.data \in Seq(Byte)
  BY DEF Descriptor
<1> QED
  BY <1>1, SMTT(30) DEF Issued, Total

(* The fields of a command.                                                *)
LEMMA CmdFields ==
  /\ \A v : \A stop \in BOOLEAN :
       /\ WriteCmd(v, stop).read = FALSE /\ WriteCmd(v, stop).val = v
       /\ WriteCmd(v, stop).stop = stop
  /\ \A restart, stop \in BOOLEAN :
       ReadCmd(restart, stop).read = TRUE /\ ReadCmd(restart, stop).stop = stop
  BY DEF WriteCmd, ReadCmd

(* The commands of a read.                                                 *)
LEMMA ReadCommand ==
  ASSUME NEW d, d.write_registers = <<>>, NEW m \in Nat
  PROVE  /\ m = 0 => /\ Command(d, m) = WriteCmd(d.reg_addr, FALSE)
                     /\ Command(d, m).read = FALSE
                     /\ Command(d, m).val = d.reg_addr /\ Command(d, m).stop = FALSE
         /\ m # 0 => /\ Command(d, m) = ReadCmd(m = 1, m = d.length)
                     /\ Command(d, m).read = TRUE
                     /\ Command(d, m).stop = (m = d.length)
<1>1. ASSUME m = 0 PROVE Command(d, m) = WriteCmd(d.reg_addr, FALSE)
  BY <1>1, Zenon DEF Command
<1>2. ASSUME m # 0 PROVE Command(d, m) = ReadCmd(m = 1, m = d.length)
  BY <1>2, Zenon DEF Command
<1>3. (m = 1) \in BOOLEAN /\ (m = d.length) \in BOOLEAN /\ FALSE \in BOOLEAN
  OBVIOUS
<1>4. CASE m = 0
  <2>1. /\ Command(d, m).read = FALSE /\ Command(d, m).val = d.reg_addr
        /\ Command(d, m).stop = FALSE
    BY <1>1, <1>4 DEF WriteCmd
  <2> QED
    BY <1>1, <1>4, <2>1
<1>5. CASE m # 0
  <2>1. Command(d, m).read = TRUE /\ Command(d, m).stop = (m = d.length)
    BY ONLY <1>2, <1>3, <1>5, CmdFields, Zenon
  <2> QED
    BY ONLY <1>2, <1>5, <2>1, Zenon
<1> QED
  BY ONLY <1>4, <1>5, Zenon

(* The commands of a write.                                                *)
LEMMA WriteCommand ==
  ASSUME NEW d, d.write_registers # <<>>, NEW m \in Nat
  PROVE  /\ Command(d, m).read = FALSE
         /\ m % 2 = 0 => /\ Command(d, m) = WriteCmd(d.write_registers[(m \div 2) + 1], FALSE)
                         /\ Command(d, m).val = d.write_registers[(m \div 2) + 1]
                         /\ Command(d, m).stop = FALSE
         /\ m % 2 # 0 => /\ Command(d, m) = WriteCmd(d.data[(m \div 2) + 1],
                                                     (m \div 2) + 1 = d.length)
                         /\ Command(d, m).val = d.data[(m \div 2) + 1]
                         /\ Command(d, m).stop = ((m \div 2) + 1 = d.length)
<1>1. ASSUME m % 2 = 0
      PROVE  Command(d, m) = WriteCmd(d.write_registers[(m \div 2) + 1], FALSE)
  BY <1>1, Zenon DEF Command
<1>2. ASSUME m % 2 # 0
      PROVE  Command(d, m) = WriteCmd(d.data[(m \div 2) + 1], (m \div 2) + 1 = d.length)
  BY <1>2, Zenon DEF Command
<1>4. CASE m % 2 = 0
  <2>1. /\ Command(d, m).read = FALSE
        /\ Command(d, m).val = d.write_registers[(m \div 2) + 1]
        /\ Command(d, m).stop = FALSE
    BY <1>1, <1>4 DEF WriteCmd
  <2> QED
    BY ONLY <1>1, <1>4, <2>1, Zenon
<1>5. CASE m % 2 # 0
  <2>1. PICK stop \in BOOLEAN : stop = ((m \div 2) + 1 = d.length)
    OBVIOUS
  <2>2. Command(d, m) = WriteCmd(d.data[(m \div 2) + 1], stop)
    BY ONLY <1>2, <1>5, <2>1, Zenon
  <2>3. /\ Command(d, m).read = FALSE
        /\ Command(d, m).val = d.data[(m \div 2) + 1]
        /\ Command(d, m).stop = stop
    BY ONLY <2>2 DEF WriteCmd
  <2> QED
    BY ONLY <1>2, <1>5, <2>1, <2>3, Zenon
<1> QED
  BY ONLY <1>4, <1>5, Zenon

(* The command at the head of the FIFO is the next one of the series.      *)
LEMMA Pop ==
  ASSUME DriverTypeOK, QueueInv, Busy, ~Aborted, tx # <<>>
  PROVE  /\ Completed \in Nat /\ Completed < Total(desc)
         /\ Head(tx) = Command(desc, Completed)
         /\ Len(Tail(tx)) = Len(tx) - 1
         /\ \A k \in 1 .. Len(Tail(tx)) : Tail(tx)[k] = Command(desc, Completed + 1 + k - 1)
<1>1. tx \in Seq(Cmd) /\ desc \in Descriptor
  BY DEF DriverTypeOK, ControllerTypeOK
<1>2. /\ Len(tx) \in Nat \ {0} /\ Head(tx) = tx[1] /\ Len(Tail(tx)) = Len(tx) - 1
      /\ \A k \in 1 .. Len(Tail(tx)) : Tail(tx)[k] = tx[k + 1]
  BY <1>1, HeadTailProperties, LenProperties, EmptySeq
<1>3. Issued(desc) \in Nat /\ Total(desc) \in Nat
  BY <1>1, SeriesType
<1>4. Completed \in Nat /\ Completed < Total(desc)
  BY <1>2, <1>3 DEF QueueInv, Completed
<1>5. Completed + 1 - 1 = Completed
  BY <1>4
<1>6. tx[1] = Command(desc, Completed)
  BY <1>2, <1>4, <1>5 DEF QueueInv
<1>7. ASSUME NEW k \in 1 .. Len(Tail(tx))
      PROVE  Tail(tx)[k] = Command(desc, Completed + 1 + k - 1)
  <2>1. k + 1 \in 1 .. Len(tx) /\ Completed + (k + 1) - 1 = Completed + 1 + k - 1
    BY <1>2, <1>4
  <2>2. tx[k + 1] = Command(desc, Completed + (k + 1) - 1)
    BY <2>1 DEF QueueInv
  <2> QED
    BY <1>2, <2>1, <2>2
<1> QED
  BY <1>2, <1>4, <1>6, <1>7

(* A command that completes leaves the FIFO with the rest of the series.   *)
LEMMA QueueAfterPop ==
  ASSUME DriverTypeOK, QueueInv, Busy, ~Aborted, tx # <<>>,
         tx' = Tail(tx), UNCHANGED <<i2c1_state, desc>>
  PROVE  Completed' = Completed + 1 /\ QueueInv'
<1>1. /\ Completed \in Nat /\ Len(Tail(tx)) = Len(tx) - 1
      /\ \A k \in 1 .. Len(Tail(tx)) : Tail(tx)[k] = Command(desc, Completed + 1 + k - 1)
  BY Pop
<1>2. tx \in Seq(Cmd) /\ Len(tx) \in Nat /\ desc \in Descriptor
  BY LenProperties DEF DriverTypeOK, ControllerTypeOK
<1>3. Issued(desc) \in Nat
  BY <1>2, SeriesType
<1>4. Completed' = Completed + 1
  BY <1>1, <1>2, <1>3 DEF Completed
<1>5. Len(tx') <= Issued(desc) /\ Issued(desc) <= Total(desc)
  BY <1>1, <1>2, <1>3 DEF QueueInv
<1> QED
  BY <1>1, <1>4, <1>5 DEF QueueInv

-----------------------------------------------------------------------------
(* The controller's steps keep the invariant.                              *)

(* A byte of the FIFO on the wire means a transfer is in progress.         *)
LEMMA WireIsBusy ==
  ASSUME DriverTypeOK, DriverInv, BusStep, PromptStart, i2c1_state # "I2C_ERROR"
  PROVE  /\ Busy /\ thread \notin Starting /\ UNCHANGED <<drvvars, thread>>
         /\ tx # <<>> => /\ ~Aborted /\ isr \notin {"stop_drain", "stop_end", "abort"}
                         /\ ~(/\ isr \in {"over", "rx", "drain", "tx", "pump", "stop"}
                              /\ "STOP_DET" \in irq_status)
<1>1. thread \notin Starting /\ UNCHANGED <<drvvars, thread>> /\ HwNext
  BY DEF BusStep, BusRuns
<1>2. Quiet /\ tx = <<>> => ~HwNext
  BY DEF Quiet, HwNext, HwFetch, HwWriteByte, HwReadByte, HwStop, HwAbort
<1>3. Busy
  BY <1>1, <1>2 DEF DriverInv, ControlInv, RestInv, DriverTypeOK, State, Busy
<1> QED
  BY <1>1, <1>3 DEF DriverInv, ControlInv, TransferInv, PhaseInv, StopInv, PlaceInv

(* The next command moves to the shift register.                           *)
LEMMA FetchInv ==
  ASSUME DriverTypeOK, DriverInv, BusStep, PromptStart, i2c1_state # "I2C_ERROR", HwFetch
  PROVE  DriverInv'
<1>1. /\ Busy /\ thread \notin Starting /\ UNCHANGED <<drvvars, thread>> /\ ~Aborted
      /\ UNCHANGED <<tx, rx, latched, intr_mask, bus, ptr, regs>>
  BY WireIsBusy DEF HwFetch
<1>2. UNCHANGED <<Completed, Aborted, Overrun, Busy, IsRead>>
  BY <1>1 DEF Completed, Aborted, Overrun, Busy, IsRead, drvvars
<1>3. ControlInv'
  BY <1>1, <1>2, WireIsBusy
  DEF DriverInv, ControlInv, StartInv, RestInv, PlaceInv, StopInv, drvvars, HwFetch, Busy
<1>4. QueueInv' /\ PhaseInv'
  BY <1>1, <1>2 DEF DriverInv, TransferInv, QueueInv, PhaseInv, drvvars
<1>5. ReadInv' /\ WriteInv' /\ DoneInv'
  BY <1>1, <1>2
  DEF DriverInv, TransferInv, ReadInv, WriteInv, DoneInv, Effective, drvvars
<1> QED
  BY <1>3, <1>4, <1>5 DEF DriverInv, TransferInv

(* What a step of the controller that leaves the commands' order, and the  *)
(* interrupts but one, alone does not have to show again.                  *)
LEMMA ControlAfterWire ==
  ASSUME DriverTypeOK, DriverInv, BusStep, PromptStart, i2c1_state # "I2C_ERROR",
         tx # <<>>, UNCHANGED intr_mask
  PROVE  ControlInv'
<1>1. /\ Busy /\ thread \notin Starting /\ UNCHANGED <<drvvars, thread>>
      /\ isr \notin {"stop_drain", "stop_end", "abort"}
      /\ ~(/\ isr \in {"over", "rx", "drain", "tx", "pump", "stop"}
           /\ "STOP_DET" \in irq_status)
  BY WireIsBusy
<1>2. UNCHANGED <<Busy, IsRead>>
  BY <1>1 DEF Busy, IsRead, drvvars
<1> QED
  BY <1>1, <1>2
  DEF DriverInv, ControlInv, StartInv, RestInv, PlaceInv, StopInv, drvvars, Busy

(* In a read, the one byte that is written is the register address.        *)
LEMMA ReadAddressFirst ==
  ASSUME DriverTypeOK, DriverInv, BusStep, PromptStart, i2c1_state = "I2C_READING", HwWriteByte
  PROVE  /\ Completed = 0 /\ ~Aborted /\ Busy /\ tx # <<>>
         /\ desc \in Descriptor /\ IsRead /\ desc.length > 0 /\ desc.write_registers = <<>>
         /\ Head(tx).val = desc.reg_addr /\ Head(tx).stop = FALSE
         /\ UNCHANGED drvvars /\ UNCHANGED <<rx, latched, intr_mask>>
<1>1. /\ Busy /\ ~Aborted /\ UNCHANGED drvvars /\ tx # <<>>
      /\ UNCHANGED <<rx, latched, intr_mask>>
  BY WireIsBusy DEF HwWriteByte, DriverTypeOK, ControllerTypeOK
<1>2. desc \in Descriptor /\ IsRead /\ desc.length > 0 /\ desc.write_registers = <<>>
  BY <1>1 DEF DriverTypeOK, DriverInv, ControlInv, RestInv, IsRead
<1>3. /\ Completed \in Nat /\ Completed < Total(desc)
      /\ Head(tx) = Command(desc, Completed)
  BY <1>1, Pop DEF DriverInv, TransferInv
<1>4. Completed = 0 /\ Head(tx).val = desc.reg_addr /\ Head(tx).stop = FALSE
  <2>1. ~Head(tx).read
    BY DEF HwWriteByte
  <2>2. Completed # 0 => Command(desc, Completed).read = TRUE
    BY <1>2, <1>3, ReadCommand
  <2>3. Completed = 0
    BY ONLY <1>3, <2>1, <2>2, Zenon
  <2>4. Command(desc, Completed).val = desc.reg_addr /\ Command(desc, Completed).stop = FALSE
    BY <1>2, <1>3, <2>3, ReadCommand
  <2> QED
    BY ONLY <1>3, <2>3, <2>4, Zenon
<1> QED
  BY <1>1, <1>2, <1>4

(* The sensor takes the register address of a read.                        *)
LEMMA ReadAddressInv ==
  ASSUME DriverTypeOK, DriverInv, BusStep, PromptStart, i2c1_state = "I2C_READING", HwWriteByte
  PROVE  DriverInv'
<1>1. /\ Busy /\ ~Aborted /\ UNCHANGED drvvars /\ tx # <<>>
      /\ UNCHANGED <<rx, latched, intr_mask>>
  BY ReadAddressFirst
<1>2. desc \in Descriptor /\ IsRead /\ desc.length > 0 /\ desc.write_registers = <<>>
  BY ReadAddressFirst
<1>4. Completed = 0 /\ Head(tx).val = desc.reg_addr /\ Head(tx).stop = FALSE
  BY ReadAddressFirst
<1>5. bus = "idle"
  BY <1>1, <1>4 DEF DriverInv, TransferInv, PhaseInv
<1>6. /\ tx' = Tail(tx) /\ shifting' = FALSE /\ bus' = "w_data"
      /\ ptr' = desc.reg_addr /\ regs' = regs
  BY <1>4, <1>5 DEF HwWriteByte, Complete
<1>7. Completed' = 1 /\ QueueInv'
  BY <1>1, <1>4, <1>6, QueueAfterPop DEF DriverInv, TransferInv, drvvars
<1>8. UNCHANGED <<Aborted, Overrun, Busy, IsRead, desc, i2c1_state, buf>>
  BY <1>1 DEF Aborted, Overrun, Busy, IsRead, drvvars
<1>9. desc.length \in Nat /\ desc.received \in Nat /\ Total(desc) = desc.length + 1
  BY <1>2, SeriesType DEF Total
<1>10. PhaseInv'
  BY <1>1, <1>2, <1>4, <1>6, <1>7, <1>8, <1>9 DEF DriverInv, TransferInv, PhaseInv
<1>11. ReadInv'
  <2>1. CASE Overrun
    BY <1>8, <2>1 DEF ReadInv
  <2>2. CASE ~Overrun
    <3>1. desc.received + Len(rx) = 0 /\ Len(rx) \in Nat
      BY <1>1, <1>4, <2>2, LenProperties
      DEF DriverInv, TransferInv, ReadInv, DriverTypeOK, ControllerTypeOK
    <3>2. desc.received = 0 /\ Len(rx) = 0
      BY <3>1, <1>9
    <3>3. ptr' = (desc.reg_addr + desc.received + Len(rx)) % RegCount
      <4>1. desc.reg_addr \in 0 .. RegCount - 1 /\ RegCount \in Nat \ {0}
        BY <1>2, SeriesType, ControllerAssumption DEF Byte
      <4>2. desc.reg_addr + desc.received + Len(rx) = desc.reg_addr
        BY <3>2, <4>1
      <4> QED
        BY <1>6, <4>1, <4>2
    <3> QED
      BY <1>1, <1>6, <1>7, <1>8, <3>2, <3>3 DEF ReadInv
  <2> QED
    BY <2>1, <2>2
<1>12. WriteInv' /\ DoneInv'
  BY <1>8 DEF WriteInv, DoneInv
<1>13. ControlInv'
  BY <1>1, ControlAfterWire
<1> QED
  BY <1>7, <1>10, <1>11, <1>12, <1>13 DEF DriverInv, TransferInv

(* In a write, the commands name a register and its value in turn.         *)
LEMMA WritePairFacts ==
  ASSUME DriverTypeOK, DriverInv, BusStep, PromptStart, i2c1_state = "I2C_WRITING", HwWriteByte
  PROVE  /\ Busy /\ ~Aborted /\ UNCHANGED drvvars /\ tx # <<>>
         /\ UNCHANGED <<rx, latched, intr_mask>>
         /\ desc \in Descriptor /\ ~IsRead /\ desc.length > 0 /\ desc.write_registers # <<>>
         /\ Completed \in Nat /\ Completed < Total(desc)
         /\ Head(tx) = Command(desc, Completed)
         /\ desc.length \in Nat /\ Total(desc) = 2 * desc.length
         /\ Completed \div 2 \in Nat /\ Completed \div 2 < desc.length
<1>1. /\ Busy /\ ~Aborted /\ UNCHANGED drvvars /\ tx # <<>>
      /\ UNCHANGED <<rx, latched, intr_mask>>
  BY WireIsBusy DEF HwWriteByte, DriverTypeOK, ControllerTypeOK
<1>2. desc \in Descriptor /\ ~IsRead /\ desc.length > 0 /\ desc.write_registers # <<>>
  BY <1>1 DEF DriverTypeOK, DriverInv, ControlInv, RestInv, IsRead
<1>3. /\ Completed \in Nat /\ Completed < Total(desc)
      /\ Head(tx) = Command(desc, Completed)
  BY <1>1, Pop DEF DriverInv, TransferInv
<1>4. desc.length \in Nat /\ Total(desc) = 2 * desc.length
  BY <1>2, SeriesType DEF Total
<1>5. Completed \div 2 \in Nat /\ Completed \div 2 < desc.length
  BY <1>3, <1>4, Halves
<1> QED
  BY <1>1, <1>2, <1>3, <1>4, <1>5

(* A value goes to the register that the command before it named.          *)
LEMMA WriteValue ==
  ASSUME DriverTypeOK, DriverInv, BusStep, PromptStart, i2c1_state = "I2C_WRITING", HwWriteByte,
         bus = "w_data"
  PROVE  LET pair == (Completed \div 2) + 1
         IN  /\ regs' = [regs EXCEPT ![desc.write_registers[pair]] = desc.data[pair]]
             /\ Head(tx).stop = (pair = desc.length)
             /\ Effective(desc, Completed \div 2)
<1>1. /\ Completed \in Nat /\ Completed < Total(desc) /\ Head(tx) = Command(desc, Completed)
      /\ desc \in Descriptor /\ desc.write_registers # <<>> /\ Busy /\ ~Aborted
  BY WritePairFacts
<1>2. /\ Completed % 2 # 0 /\ ptr = desc.write_registers[(Completed \div 2) + 1]
      /\ Effective(desc, Completed \div 2)
  BY <1>1 DEF DriverInv, TransferInv, WriteInv
<1>3. /\ Command(desc, Completed).val = desc.data[(Completed \div 2) + 1]
      /\ Command(desc, Completed).stop = ((Completed \div 2) + 1 = desc.length)
  BY <1>1, <1>2, WriteCommand
<1> QED
  BY <1>1, <1>2, <1>3 DEF HwWriteByte

(* The sensor takes a byte of a write, a register's address or its value.  *)
LEMMA WritePairInv ==
  ASSUME DriverTypeOK, DriverInv, BusStep, PromptStart, i2c1_state = "I2C_WRITING", HwWriteByte
  PROVE  DriverInv'
<1>1. /\ Busy /\ ~Aborted /\ UNCHANGED drvvars /\ tx # <<>>
      /\ UNCHANGED <<rx, latched, intr_mask>>
  BY WritePairFacts
<1>2. desc \in Descriptor /\ ~IsRead /\ desc.length > 0 /\ desc.write_registers # <<>>
  BY WritePairFacts
<1>3. /\ Completed \in Nat /\ Completed < Total(desc)
      /\ Head(tx) = Command(desc, Completed)
  BY WritePairFacts
<1>4. UNCHANGED <<Aborted, Overrun, Busy, IsRead, desc, i2c1_state, buf>>
  BY <1>1 DEF Aborted, Overrun, Busy, IsRead, drvvars
<1>5. desc.length \in Nat /\ Total(desc) = 2 * desc.length
  BY WritePairFacts
<1> DEFINE pair == Completed \div 2
<1>6. /\ pair \in Nat /\ Completed = 2 * pair + (Completed % 2) /\ Completed % 2 \in {0, 1}
      /\ Completed % 2 = 0 => (Completed + 1) % 2 = 1 /\ (Completed + 1) \div 2 = pair
      /\ Completed % 2 = 1 => (Completed + 1) % 2 = 0 /\ (Completed + 1) \div 2 = pair + 1
  BY <1>3, Halves
<1>7. pair < desc.length
  BY WritePairFacts
<1>8. /\ bus = "w_data" <=> Completed % 2 = 1
      /\ bus = "w_data" => ptr = desc.write_registers[pair + 1]
      /\ Effective(desc, pair) /\ rx = <<>> /\ ~Overrun
      /\ bus # "stop" /\ "STOP_DET" \notin latched
  BY <1>1, <1>3 DEF DriverInv, TransferInv, WriteInv, PhaseInv
<1> HIDE DEF pair
<1>9. tx' = Tail(tx) /\ shifting' = FALSE
  BY DEF HwWriteByte, Complete
<1>10. Completed' = Completed + 1 /\ QueueInv'
  BY <1>1, <1>4, <1>9, QueueAfterPop DEF DriverInv, TransferInv
<1>11. CASE bus # "w_data"
  <2>1. Completed % 2 = 0 /\ Completed + 1 < Total(desc)
    BY <1>5, <1>6, <1>7, <1>8, <1>11
  <2>2. /\ Command(desc, Completed).val = desc.write_registers[pair + 1]
        /\ Command(desc, Completed).stop = FALSE
    BY <1>2, <1>3, <2>1, WriteCommand DEF pair
  <2>3. ptr' = desc.write_registers[pair + 1] /\ bus' = "w_data" /\ regs' = regs
    BY <1>3, <1>11, <2>2 DEF HwWriteByte, Complete
  <2>4. Completed' % 2 = 1 /\ Completed' \div 2 = pair
    BY <1>6, <1>10, <2>1
  <2>5. PhaseInv'
    BY <1>1, <1>3, <1>4, <1>8, <1>10, <2>1, <2>3 DEF PhaseInv
  <2>6. WriteInv'
    BY <1>1, <1>4, <1>8, <2>3, <2>4 DEF WriteInv, Effective
  <2>7. ReadInv' /\ DoneInv'
    BY <1>4 DEF ReadInv, DoneInv
  <2>8. ControlInv'
    BY <1>1, ControlAfterWire
  <2> QED
    BY <1>10, <2>5, <2>6, <2>7, <2>8 DEF DriverInv, TransferInv
<1>12. CASE bus = "w_data"
  <2>1. Completed % 2 # 0 /\ Completed % 2 = 1
    BY <1>8, <1>12
  <2>2. Head(tx).stop = (pair + 1 = desc.length)
    BY <1>12, WriteValue DEF pair
  <2>3. regs' = [regs EXCEPT ![desc.write_registers[pair + 1]] = desc.data[pair + 1]]
    BY <1>12, WriteValue DEF pair
  <2>4. bus' = IF pair + 1 = desc.length THEN "stop" ELSE "w_reg"
    BY <1>12, <2>2 DEF HwWriteByte, Complete
  <2>5. Completed' % 2 = 0 /\ Completed' \div 2 = pair + 1 /\ Completed' = 2 * (pair + 1)
    BY <1>6, <1>10, <2>1
  <2>6. PhaseInv'
    <3>1. Completed' # 0 /\ (Completed' = Total(desc) <=> pair + 1 = desc.length)
      BY <1>5, <1>6, <2>5
    <3> QED
      BY <1>1, <1>4, <1>8, <2>4, <3>1 DEF PhaseInv
  <2>7. \A k \in 1 .. pair + 1 :
          \/ regs'[desc.write_registers[k]] = desc.data[k]
          \/ \E j \in k + 1 .. pair + 1 : desc.write_registers[j] = desc.write_registers[k]
    <3>1. regs \in [Byte -> Byte] /\ desc.write_registers \in Seq(Byte)
      BY <1>2, SeriesType DEF DriverTypeOK, ControllerTypeOK
    <3>2. Len(desc.write_registers) = desc.length
      BY DEF DriverTypeOK
    <3>3. \A k \in 1 .. desc.length : desc.write_registers[k] \in Byte
      BY <3>1, <3>2, ElementOfSeq
    <3> SUFFICES ASSUME NEW k \in 1 .. pair + 1
                 PROVE  \/ regs'[desc.write_registers[k]] = desc.data[k]
                        \/ \E j \in k + 1 .. pair + 1 :
                             desc.write_registers[j] = desc.write_registers[k]
      OBVIOUS
    <3>4. k \in 1 .. desc.length /\ pair + 1 \in 1 .. desc.length
      BY <1>5, <1>6, <1>7
    <3>5. desc.write_registers[k] \in Byte /\ desc.write_registers[pair + 1] \in Byte
      BY <3>3, <3>4
    <3>6. CASE k = pair + 1
      BY <2>3, <3>1, <3>5, <3>6
    <3>7. CASE k # pair + 1 /\ desc.write_registers[k] = desc.write_registers[pair + 1]
      <4>1. pair + 1 \in k + 1 .. pair + 1
        BY <1>6, <3>7
      <4> QED
        BY <3>7, <4>1
    <3>8. CASE k # pair + 1 /\ desc.write_registers[k] # desc.write_registers[pair + 1]
      <4>1. k \in 1 .. pair /\ \A j \in k + 1 .. pair : j \in k + 1 .. pair + 1
        BY <1>6, <3>8
      <4>2. regs'[desc.write_registers[k]] = regs[desc.write_registers[k]]
        BY <2>3, <3>1, <3>5, <3>8
      <4> QED
        BY <1>8, <4>1, <4>2 DEF Effective
    <3> QED
      BY <3>6, <3>7, <3>8
  <2>8. WriteInv'
    BY <1>1, <1>4, <1>8, <2>4, <2>5, <2>7 DEF WriteInv, Effective
  <2>9. ReadInv' /\ DoneInv'
    BY <1>4 DEF ReadInv, DoneInv
  <2>10. ControlInv'
    BY <1>1, ControlAfterWire
  <2> QED
    BY <1>10, <2>6, <2>8, <2>9, <2>10 DEF DriverInv, TransferInv
<1> QED
  BY <1>11, <1>12

(* The sensor sends a byte, that of the next read of the transfer.         *)
LEMMA ReadByteFacts ==
  ASSUME DriverTypeOK, DriverInv, BusStep, PromptStart, i2c1_state # "I2C_ERROR", HwReadByte
  PROVE  /\ Busy /\ ~Aborted /\ i2c1_state = "I2C_READING" /\ IsRead
         /\ tx # <<>> /\ tx' = Tail(tx) /\ Len(tx') = Len(tx) - 1
         /\ Completed \in Nat \ {0} /\ Completed < Total(desc)
         /\ Completed' = Completed + 1 /\ QueueInv'
         /\ Head(tx).stop = (Completed = desc.length)
         /\ bus' = (IF Completed = desc.length THEN "stop" ELSE "read")
         /\ desc.length > 0 /\ desc.length \in Nat /\ Total(desc) = desc.length + 1
         /\ desc.received \in Nat
         /\ UNCHANGED drvvars /\ UNCHANGED <<intr_mask, regs, Busy, IsRead>>
<1>1. /\ Busy /\ ~Aborted /\ UNCHANGED drvvars /\ tx # <<>>
      /\ UNCHANGED <<intr_mask, regs>>
  BY WireIsBusy DEF HwReadByte, DriverTypeOK, ControllerTypeOK
<1>2. desc \in Descriptor /\ desc.length > 0
  BY <1>1 DEF DriverTypeOK, DriverInv, ControlInv, RestInv
<1>3. /\ Completed \in Nat /\ Completed < Total(desc)
      /\ Head(tx) = Command(desc, Completed)
  BY <1>1, Pop DEF DriverInv, TransferInv
<1>4. IsRead /\ desc.write_registers = <<>>
  <2>1. Head(tx).read
    BY DEF HwReadByte
  <2>2. desc.write_registers # <<>> => Command(desc, Completed).read = FALSE
    BY <1>3, WriteCommand
  <2>3. desc.write_registers = <<>>
    BY ONLY <1>3, <2>1, <2>2, Zenon
  <2> QED
    BY <2>3 DEF IsRead
<1>5. i2c1_state = "I2C_READING"
  BY <1>1, <1>4 DEF DriverInv, ControlInv, RestInv
<1>6. Completed # 0 /\ Command(desc, Completed).stop = (Completed = desc.length)
  <2>1. Head(tx).read
    BY DEF HwReadByte
  <2>2. Completed = 0 => Command(desc, Completed).read = FALSE
    BY <1>3, <1>4, ReadCommand
  <2>3. Completed # 0
    BY ONLY <1>3, <2>1, <2>2, Zenon
  <2> QED
    BY <1>3, <1>4, <2>3, ReadCommand
<1>7. UNCHANGED <<Busy, IsRead, desc, i2c1_state, buf>>
  BY <1>1 DEF Busy, IsRead, drvvars
<1>8. desc.length \in Nat /\ Total(desc) = desc.length + 1 /\ desc.received \in Nat
  BY <1>2, <1>4, SeriesType DEF Total
<1>9. tx' = Tail(tx) /\ bus' = IF Completed = desc.length THEN "stop" ELSE "read"
  BY <1>3, <1>6 DEF HwReadByte, Complete
<1>10. Completed' = Completed + 1 /\ QueueInv'
  BY <1>1, <1>7, <1>9, QueueAfterPop DEF DriverInv, TransferInv
<1> QED
  BY <1>1, <1>2, <1>3, <1>4, <1>5, <1>6, <1>7, <1>8, <1>9, <1>10, Pop
  DEF DriverInv, TransferInv

(* The sensor sends a byte, which is received or lost.                     *)
LEMMA ReadByteInv ==
  ASSUME DriverTypeOK, DriverInv, BusStep, PromptStart, i2c1_state # "I2C_ERROR", HwReadByte
  PROVE  DriverInv'
<1>1. /\ Busy /\ ~Aborted /\ UNCHANGED drvvars /\ tx # <<>>
      /\ UNCHANGED <<intr_mask, regs>>
  BY ReadByteFacts
<1>2. desc \in Descriptor /\ desc.length > 0
  BY ReadByteFacts DEF DriverTypeOK
<1>3. Completed \in Nat /\ Completed < Total(desc) /\ Completed # 0
  BY ReadByteFacts
<1>5. i2c1_state = "I2C_READING" /\ IsRead
  BY ReadByteFacts
<1>7. UNCHANGED <<Busy, IsRead, desc, i2c1_state, buf>>
  BY ReadByteFacts DEF drvvars
<1>8. desc.length \in Nat /\ Total(desc) = desc.length + 1 /\ desc.received \in Nat
  BY ReadByteFacts
<1>9. tx' = Tail(tx) /\ bus' = IF Completed = desc.length THEN "stop" ELSE "read"
  BY ReadByteFacts
<1>10. Completed' = Completed + 1 /\ QueueInv'
  BY ReadByteFacts
<1>11. bus # "stop" /\ "STOP_DET" \notin latched
  BY <1>1, <1>3 DEF DriverInv, TransferInv, PhaseInv
<1>12. latched' \subseteq latched \cup {"RX_OVER"} /\ ~Aborted'
  BY <1>1 DEF HwReadByte, Aborted
<1>13. PhaseInv'
  <2>1. Completed' # 0 /\ (Completed' = Total(desc) <=> Completed = desc.length)
    BY <1>3, <1>8, <1>10
  <2> QED
    BY <1>7, <1>9, <1>11, <1>12, <2>1 DEF PhaseInv
<1>14. ReadInv'
  <2>1. CASE Overrun'
    BY <2>1 DEF ReadInv
  <2>2. CASE ~Overrun'
    <3>1. ~Overrun /\ Len(rx) < RxDepth /\ rx' = Append(rx, regs[ptr])
      BY <2>2 DEF HwReadByte, Overrun
    <3>2. rx \in Seq(Byte) /\ Len(rx) \in Nat /\ regs[ptr] \in Byte
      BY LenProperties DEF DriverTypeOK, ControllerTypeOK
    <3>3. /\ Len(rx') = Len(rx) + 1 /\ rx'[Len(rx) + 1] = regs[ptr]
          /\ \A j \in 1 .. Len(rx) : rx'[j] = rx[j]
      BY <3>1, <3>2, AppendProperties
    <3>4. /\ desc.received + Len(rx) = Completed - 1
          /\ ptr = (desc.reg_addr + desc.received + Len(rx)) % RegCount
          /\ \A i \in 0 .. desc.received - 1 : buf[i] = regs[(desc.reg_addr + i) % RegCount]
          /\ \A j \in 1 .. Len(rx) :
               rx[j] = regs[(desc.reg_addr + desc.received + j - 1) % RegCount]
      BY <1>1, <1>3, <1>5, <3>1 DEF DriverInv, TransferInv, ReadInv
    <3>5. desc.received + Len(rx') = Completed' - 1
      <4>1. Len(rx') = Len(rx) + 1 /\ desc.received + Len(rx) = Completed - 1
        BY <3>3, <3>4
      <4> QED
        BY ONLY <1>3, <1>8, <1>10, <3>2, <4>1
    <3>6. ptr' = (desc.reg_addr + desc.received + Len(rx')) % RegCount
      <4> DEFINE n == desc.reg_addr + desc.received + Len(rx)
      <4>0. desc.reg_addr \in Nat /\ RegCount \in Nat \ {0}
        BY <1>2, SeriesType, ControllerAssumption DEF Byte
      <4>1. n \in Nat
        BY ONLY <1>8, <3>2, <4>0
      <4>2. desc.reg_addr + desc.received + Len(rx') = n + 1
        <5>1. Len(rx') = Len(rx) + 1
          BY <3>3
        <5> QED
          BY ONLY <1>8, <3>2, <4>0, <5>1
      <4>3. ptr = n % RegCount
        BY <3>4
      <4> HIDE DEF n
      <4>4. (n + 1) % RegCount = IF ptr = RegCount - 1 THEN 0 ELSE ptr + 1
        BY <4>0, <4>1, <4>3, ModNext
      <4> QED
        BY <4>2, <4>4 DEF HwReadByte
    <3>7. ASSUME NEW j \in 1 .. Len(rx')
          PROVE  rx'[j] = regs[(desc.reg_addr + desc.received + j - 1) % RegCount]
      <4>1. CASE j \in 1 .. Len(rx)
        BY <3>3, <3>4, <4>1
      <4>2. CASE j = Len(rx) + 1
        <5>1. desc.reg_addr + desc.received + j - 1 = desc.reg_addr + desc.received + Len(rx)
          BY <1>2, <1>8, <3>2, <4>2, SeriesType DEF Byte
        <5> QED
          BY <3>3, <3>4, <4>2, <5>1
      <4> QED
        BY <3>2, <3>3, <3>7, <4>1, <4>2
    <3>8. Completed' > 0
      BY <1>3, <1>10
    <3> QED
      BY <1>1, <1>7, <3>4, <3>5, <3>6, <3>7, <3>8 DEF ReadInv
  <2> QED
    BY <2>1, <2>2
<1>15. WriteInv' /\ DoneInv'
  BY <1>5, <1>7 DEF WriteInv, DoneInv
<1>16. ControlInv'
  BY <1>1, ControlAfterWire
<1> QED
  BY <1>10, <1>13, <1>14, <1>15, <1>16 DEF DriverInv, TransferInv

(* The STOP that the last command or an abort owes the bus.                *)
LEMMA StopConditionInv ==
  ASSUME DriverTypeOK, DriverInv, BusStep, PromptStart, i2c1_state # "I2C_ERROR", HwStop
  PROVE  DriverInv'
<1>1. /\ Busy /\ thread \notin Starting /\ UNCHANGED <<drvvars, thread>>
      /\ bus = "stop" /\ bus' = "idle" /\ latched' = latched \cup {"STOP_DET"}
      /\ UNCHANGED <<tx, shifting, rx, intr_mask, ptr, regs>>
  BY WireIsBusy DEF HwStop
<1>2. UNCHANGED <<Completed, Aborted, Overrun, Busy, IsRead>>
  BY <1>1 DEF Completed, Aborted, Overrun, Busy, IsRead, drvvars
<1>3. ControlInv'
  BY <1>1, <1>2
  DEF DriverInv, ControlInv, StartInv, RestInv, PlaceInv, StopInv, drvvars, Busy
<1>4. QueueInv' /\ PhaseInv'
  BY <1>1, <1>2 DEF DriverInv, TransferInv, QueueInv, PhaseInv, drvvars
<1>5. ReadInv' /\ DoneInv'
  BY <1>1, <1>2
  DEF DriverInv, TransferInv, ReadInv, DoneInv, drvvars, Busy
<1>6. WriteInv'
  BY <1>1, <1>2
  DEF DriverInv, TransferInv, WriteInv, Effective, drvvars, Busy
<1> QED
  BY <1>3, <1>4, <1>5, <1>6 DEF DriverInv, TransferInv

(* Nobody acknowledges a byte: the FIFOs are flushed.                      *)
LEMMA WireAbortInv ==
  ASSUME DriverTypeOK, DriverInv, BusStep, PromptStart, i2c1_state # "I2C_ERROR",
         NEW source, HwAbort(source)
  PROVE  DriverInv'
<1>1. /\ Busy /\ UNCHANGED drvvars /\ tx # <<>> /\ tx' = <<>> /\ rx' = <<>> /\ ~shifting'
      /\ latched' = latched \cup {"TX_ABRT"} /\ bus' = "stop" /\ UNCHANGED intr_mask
  BY WireIsBusy DEF HwAbort, DriverTypeOK, ControllerTypeOK
<1>2. UNCHANGED <<Overrun, Busy, IsRead, i2c1_state>> /\ Aborted'
  BY <1>1 DEF Aborted, Overrun, Busy, IsRead, drvvars
<1>3. QueueInv' /\ PhaseInv' /\ ReadInv' /\ DoneInv'
  BY <1>1, <1>2 DEF QueueInv, PhaseInv, ReadInv, DoneInv, Busy
<1>4. WriteInv'
  BY <1>1, <1>2 DEF DriverInv, TransferInv, WriteInv
<1>5. ControlInv'
  BY <1>1, ControlAfterWire
<1> QED
  BY <1>3, <1>4, <1>5 DEF DriverInv, TransferInv

(* After an error nothing is claimed of the bus.                           *)
LEMMA WireErrorInv ==
  ASSUME DriverTypeOK, DriverInv, BusStep, PromptStart, i2c1_state = "I2C_ERROR"
  PROVE  DriverInv'
<1>1. thread \notin Starting /\ UNCHANGED <<drvvars, thread>> /\ HwNext
  BY DEF BusStep, BusRuns
<1>2. latched \subseteq latched' /\ UNCHANGED intr_mask
  BY <1>1 DEF HwNext, HwFetch, HwWriteByte, HwReadByte, HwStop, HwAbort
<1>3. ControlInv'
  BY <1>1, <1>2
  DEF DriverInv, ControlInv, StartInv, RestInv, PlaceInv, StopInv, drvvars, Busy, Aborted
<1>4. TransferInv'
  BY <1>1 DEF TransferInv, QueueInv, PhaseInv, ReadInv, WriteInv, DoneInv, Busy, drvvars
<1> QED
  BY <1>3, <1>4 DEF DriverInv

LEMMA BusInv == ASSUME DriverTypeOK, DriverInv, BusStep, PromptStart PROVE DriverInv'
<1>1. CASE i2c1_state = "I2C_ERROR"
  BY <1>1, WireErrorInv
<1>2. CASE i2c1_state # "I2C_ERROR"
  <2>1. i2c1_state \in {"I2C_READING", "I2C_WRITING"}
    BY <1>2, WireIsBusy DEF Busy
  <2> QED
    BY <1>2, <2>1, FetchInv, ReadAddressInv, WritePairInv, ReadByteInv, StopConditionInv,
       WireAbortInv
    DEF BusStep, HwNext
<1> QED
  BY <1>1, <1>2

-----------------------------------------------------------------------------
(* The thread's steps keep the invariant.                                  *)

(* A step that leaves the state, the descriptor, the FIFOs, the latched    *)
(* interrupts and the sensor alone leaves the transfer where it is.        *)
LEMMA TransferSame ==
  ASSUME TransferInv,
         UNCHANGED <<tx, shifting, rx, latched, bus, ptr, regs, desc, buf, i2c1_state>>
  PROVE  TransferInv' /\ UNCHANGED <<Completed, Aborted, Overrun, Busy, IsRead, Quiet>>
<1>1. UNCHANGED <<Completed, Aborted, Overrun, Busy, IsRead, Quiet>>
  BY DEF Completed, Aborted, Overrun, Busy, IsRead, Quiet
<1>2. QueueInv' /\ PhaseInv'
  BY <1>1 DEF TransferInv, QueueInv, PhaseInv
<1>3. ReadInv' /\ DoneInv'
  BY <1>1 DEF TransferInv, ReadInv, DoneInv, Effective
<1>4. WriteInv'
  BY <1>1 DEF TransferInv, WriteInv, Effective
<1> QED
  BY <1>1, <1>2, <1>3, <1>4 DEF TransferInv

(* Outside of a transfer nothing is claimed of one.                        *)
LEMMA TransferNone ==
  ASSUME i2c1_state \notin {"I2C_READING", "I2C_WRITING", "I2C_DONE"}
  PROVE  TransferInv
  BY DEF TransferInv, QueueInv, PhaseInv, ReadInv, WriteInv, DoneInv, Busy

(* A start call finds the driver at rest.                                  *)
LEMMA BeginsInv == ASSUME DriverTypeOK, DriverInv, Begins PROVE DriverInv'
<1>1. /\ isr = "off" /\ thread = "out" /\ i2c1_state = "I2C_IDLE"
      /\ isr' = "off" /\ i2c1_state' = "I2C_IDLE" /\ thread' \in {"r_cmd", "w_state"}
      /\ UNCHANGED hwvars
  BY DEF Begins, StartRead, StartWrite, ThreadRuns
<1>2. Quiet /\ tx = <<>> /\ intr_mask \cap Pacing = {} /\ Always \subseteq intr_mask
  BY <1>1 DEF DriverInv, ControlInv, RestInv, Starting
<1>3. Quiet' /\ tx' = <<>> /\ intr_mask' \cap Pacing = {} /\ Always \subseteq intr_mask'
  BY <1>1, <1>2 DEF Quiet, hwvars
<1>4. /\ desc'.issued = 0 /\ desc'.received = 0 /\ ~desc'.write_is_data /\ desc'.length > 0
      /\ (desc'.write_registers = <<>> <=> thread' = "r_cmd")
  <2>1. CASE \E reg \in Byte : \E len \in Nat \ {0} : StartRead(reg, len)
    BY <2>1 DEF StartRead, ReadDescriptor, NewDescriptor
  <2>2. ASSUME NEW a \in Seq(Byte), NEW d \in Seq(Byte), Len(a) = Len(d), Len(a) > 0,
               StartWrite(a, d)
        PROVE  <1>4
    <3>1. a # <<>> /\ Len(a) \in Nat
      BY <2>2, EmptySeq, LenProperties
    <3> QED
      BY <2>2, <3>1 DEF StartWrite, WriteDescriptor, NewDescriptor
  <2> QED
    BY <2>1, <2>2 DEF Begins
<1>5. ControlInv'
  BY <1>1, <1>3, <1>4
  DEF ControlInv, StartInv, RestInv, PlaceInv, StopInv, Busy, IsRead, Starting
<1> QED
  BY <1>1, <1>5, TransferNone DEF DriverInv, TransferInv,
     QueueInv, PhaseInv, ReadInv, WriteInv, DoneInv, Busy

(* The register address goes to the FIFO.                                  *)
LEMMA StartReadCmdInv == ASSUME DriverTypeOK, DriverInv, StartReadCmd PROVE DriverInv'
<1>1. /\ isr = "off" /\ thread = "r_cmd" /\ i2c1_state = "I2C_IDLE" /\ thread' = "r_state"
      /\ Quiet /\ tx = <<>> /\ intr_mask \cap Pacing = {} /\ Always \subseteq intr_mask
      /\ UNCHANGED <<shifting, rx, latched, intr_mask, bus, drvvars>>
  BY DEF StartReadCmd, DriverInv, ControlInv, StartInv, RestInv, Starting, ThreadRuns
<1>2. tx' = <<WriteCmd(desc.reg_addr, FALSE)>>
  <2>1. TxNotFull /\ "TX_ABRT" \notin latched
    BY <1>1, EmptySeq, ControllerAssumption DEF TxNotFull, TxLevel, Quiet
  <2>2. tx' = Append(tx, WriteCmd(desc.reg_addr, FALSE))
    BY <2>1 DEF StartReadCmd, PushCmd
  <2> QED
    BY <1>1, <2>2
<1>3. UNCHANGED <<IsRead, Quiet>>
  BY <1>1 DEF IsRead, Quiet, drvvars
<1>4. ControlInv'
  BY <1>1, <1>2, <1>3
  DEF DriverInv, ControlInv, StartInv, RestInv, PlaceInv, StopInv, Busy, Starting, drvvars
<1>5. TransferInv'
  BY <1>1 DEF TransferInv, QueueInv, PhaseInv, ReadInv, WriteInv, DoneInv, Busy, drvvars
<1> QED
  BY <1>4, <1>5 DEF DriverInv

(* The state says that a transfer is in progress: its first commands are   *)
(* the whole series so far.                                                *)
LEMMA StartStateInv == ASSUME DriverTypeOK, DriverInv, StartState PROVE DriverInv'
<1>1. /\ isr = "off" /\ thread \in {"r_state", "w_state"} /\ Quiet
      /\ Always \subseteq intr_mask
      /\ desc.issued = 0 /\ desc.received = 0 /\ ~desc.write_is_data /\ desc.length > 0
      /\ (IsRead <=> thread = "r_state")
      /\ tx = IF thread = "r_state" THEN <<WriteCmd(desc.reg_addr, FALSE)>> ELSE <<>>
      /\ UNCHANGED <<hwvars, desc, buf, isr, irq_status>>
  BY DEF StartState, DriverInv, ControlInv, StartInv, RestInv, Starting, ThreadRuns
<1>2. UNCHANGED <<Completed, Aborted, Overrun, IsRead, Quiet>> /\ ~Aborted /\ ~Overrun
  BY <1>1 DEF Completed, Aborted, Overrun, IsRead, Quiet, hwvars
<1>3. desc \in Descriptor /\ desc.length \in Nat
  BY SeriesType DEF DriverTypeOK
<1>4. CASE thread = "r_state"
  <2>1. /\ i2c1_state' = "I2C_READING" /\ thread' = "r_mask" /\ Busy'
        /\ IsRead /\ desc.write_registers = <<>> /\ tx = <<WriteCmd(desc.reg_addr, FALSE)>>
    BY <1>1, <1>4 DEF StartState, Busy, IsRead
  <2>2. ControlInv'
    BY <1>1, <1>2, <2>1
    DEF DriverInv, ControlInv, StartInv, RestInv, PlaceInv, StopInv, Busy, Starting, hwvars
  <2>3. Len(tx) = 1 /\ tx[1] = Command(desc, 0)
    BY <2>1, ReadCommand
  <2>4. Issued(desc) = 1 /\ Completed = 0 /\ Total(desc) = desc.length + 1
    BY <1>1, <2>1, <2>3 DEF Issued, Completed, Total
  <2>5. QueueInv' /\ PhaseInv'
    <3>1. \A k \in 1 .. Len(tx) : k = 1 /\ Completed + k - 1 = 0
      BY <2>3, <2>4
    <3>2. \A k \in 1 .. Len(tx) : tx[k] = Command(desc, Completed + k - 1)
      BY <2>3, <3>1
    <3>3. QueueInv'
      <4>1. tx' = tx /\ desc' = desc /\ Completed' = Completed
        BY <1>1, <1>2 DEF hwvars
      <4>2. Len(tx) <= Issued(desc) /\ Issued(desc) <= Total(desc)
        BY ONLY <1>1, <1>3, <2>3, <2>4
      <4> QED
        BY ONLY <3>2, <4>1, <4>2 DEF QueueInv
    <3>4. PhaseInv'
      BY <1>1, <1>2, <1>3, <2>1, <2>4 DEF PhaseInv, Quiet, hwvars
    <3> QED
      BY <3>3, <3>4
  <2>6. ReadInv'
    BY <1>1, <1>2, <2>1, <2>4, EmptySeq DEF ReadInv, Quiet, hwvars
  <2>7. WriteInv' /\ DoneInv'
    BY <2>1 DEF WriteInv, DoneInv
  <2> QED
    BY <2>2, <2>5, <2>6, <2>7 DEF DriverInv, TransferInv
<1>5. CASE thread = "w_state"
  <2>1. /\ i2c1_state' = "I2C_WRITING" /\ thread' = "w_mask" /\ Busy'
        /\ ~IsRead /\ desc.write_registers # <<>> /\ tx = <<>>
    BY <1>1, <1>5 DEF StartState, Busy, IsRead
  <2>2. ControlInv'
    BY <1>1, <1>2, <2>1
    DEF DriverInv, ControlInv, StartInv, RestInv, PlaceInv, StopInv, Busy, Starting, hwvars
  <2>3. Issued(desc) = 0 /\ Completed = 0 /\ Total(desc) = 2 * desc.length /\ Len(tx) = 0
    BY <1>1, <2>1, EmptySeq DEF Issued, Completed, Total
  <2>4. QueueInv' /\ PhaseInv'
    BY <1>1, <1>2, <1>3, <2>1, <2>3 DEF QueueInv, PhaseInv, Quiet, hwvars
  <2>5. 0 % 2 = 0 /\ 0 \div 2 = 0
    OBVIOUS
  <2>6. WriteInv'
    BY <1>1, <1>2, <2>1, <2>3, <2>5 DEF WriteInv, Quiet, Effective, hwvars
  <2>7. ReadInv' /\ DoneInv'
    BY <2>1 DEF ReadInv, DoneInv
  <2> QED
    BY <2>2, <2>4, <2>6, <2>7 DEF DriverInv, TransferInv
<1> QED
  BY <1>1, <1>4, <1>5

(* The rest of the start calls, the wait loop, and SysTick.                *)
LEMMA WaitInv ==
  ASSUME DriverTypeOK, DriverInv, StartMask \/ WaitCheck \/ WaitSleep \/ Tick
  PROVE  DriverInv'
<1>1. /\ UNCHANGED <<tx, shifting, rx, latched, bus, ptr, regs, drvvars>>
      /\ isr = "off" /\ isr' = "off"
  BY DEF StartMask, WaitCheck, WaitSleep, Tick, ThreadRuns, hwvars, drvvars
<1>2. TransferInv' /\ UNCHANGED <<Completed, Aborted, Overrun, Busy, IsRead, Quiet>>
  BY <1>1, TransferSame DEF DriverInv, drvvars
<1>3. CASE StartMask
  <2>1. thread \in {"r_mask", "w_mask"} /\ thread' = "check" /\ Busy
    BY <1>3 DEF StartMask, DriverInv, ControlInv, StartInv, Starting, Busy
  <2>2. intr_mask \subseteq intr_mask'
    BY <1>3 DEF StartMask
  <2> QED
    BY <1>1, <1>2, <2>1, <2>2
    DEF DriverInv, ControlInv, StartInv, RestInv, PlaceInv, StopInv, Busy, Starting, Waiting,
        drvvars
<1>4. CASE WaitCheck \/ WaitSleep
  <2>1. /\ thread \in {"check", "wfi"} /\ thread' \in Waiting \cup {"back"}
        /\ (Busy => thread' \in Waiting) /\ UNCHANGED intr_mask
    BY <1>4 DEF WaitCheck, WaitSleep, Waiting, hwvars
  <2> QED
    BY <1>1, <1>2, <2>1
    DEF DriverInv, ControlInv, StartInv, RestInv, PlaceInv, StopInv, Busy, Starting, Waiting,
        drvvars
<1>5. CASE Tick
  <2>1. /\ thread' = thread \/ (thread = "sleep" /\ thread' = "check")
        /\ UNCHANGED <<hwvars, intr_mask>>
    BY <1>5 DEF Tick, Wake, hwvars
  <2>2. CASE thread' = thread
    BY <1>1, <1>2, <2>1, <2>2
    DEF DriverInv, ControlInv, StartInv, RestInv, PlaceInv, StopInv, Busy, drvvars, hwvars
  <2>3. CASE thread = "sleep" /\ thread' = "check"
    BY <1>1, <1>2, <2>1, <2>3
    DEF DriverInv, ControlInv, StartInv, RestInv, PlaceInv, StopInv, Busy, Starting, Waiting,
        drvvars
  <2> QED
    BY <2>1, <2>2, <2>3
<1> QED
  BY <1>3, <1>4, <1>5

LEMMA ApiInv == ASSUME DriverTypeOK, DriverInv, ApiNext PROVE DriverInv'
  BY StartReadCmdInv, StartStateInv, WaitInv DEF ApiNext

-----------------------------------------------------------------------------
(* The handler's steps keep the invariant.                                 *)

(* While the handler runs, nobody is in a start call.                      *)
LEMMA HandlerAlone ==
  ASSUME DriverTypeOK, DriverInv, isr # "off"
  PROVE  thread \notin Starting /\ i2c1_state # "I2C_IDLE"
         /\ (isr # "exit" => i2c1_state # "I2C_DONE")
  BY DEF DriverInv, ControlInv, StartInv, RestInv

(* No interrupt is raised in a start call, or between transfers.           *)
LEMMA IrqFacts ==
  ASSUME DriverTypeOK, DriverInv, Irq
  PROVE  thread \notin Starting /\ i2c1_state \notin {"I2C_IDLE", "I2C_DONE"}
<1>1. isr = "off" /\ IntrStat # {}
  BY DEF Irq
<1>2. latched = {} /\ rx = <<>> /\ intr_mask \cap Pacing = {} => IntrStat = {}
  BY DEF IntrStat, RxNotEmpty, Pacing
<1>3. thread \notin Starting
  BY <1>1, <1>2 DEF DriverInv, ControlInv, StartInv, Quiet, Starting
<1>4. i2c1_state \notin {"I2C_IDLE", "I2C_DONE"}
  BY <1>1, <1>2, <1>3 DEF DriverInv, ControlInv, RestInv, Quiet
<1> QED
  BY <1>3, <1>4

(* Entering the handler, whether it goes on or the guard stops it.         *)
LEMMA EnterInv == ASSUME DriverTypeOK, DriverInv, IsrStorm \/ IsrEnter PROVE DriverInv'
<1>1. isr = "off" /\ IntrStat # {} /\ (thread' = thread \/ (thread = "sleep" /\ thread' = "check"))
  BY DEF IsrStorm, IsrEnter, Irq, Wake
<1>2. thread \notin Starting /\ thread' \notin Starting
  BY <1>1, IrqFacts DEF IsrStorm, IsrEnter, Starting
<1>3. i2c1_state \notin {"I2C_IDLE", "I2C_DONE"}
  BY IrqFacts DEF IsrStorm, IsrEnter
<1>4. CASE IsrStorm
  <2>1. isr' = "off" /\ i2c1_state' = "I2C_ERROR"
    BY <1>1, <1>4 DEF IsrStorm
  <2>2. ControlInv'
    BY <1>2, <2>1 DEF ControlInv, StartInv, RestInv, PlaceInv, StopInv, Busy
  <2>3. TransferInv'
    BY <2>1 DEF TransferInv, QueueInv, PhaseInv, ReadInv, WriteInv, DoneInv, Busy
  <2> QED
    BY <2>2, <2>3 DEF DriverInv
<1>5. CASE IsrEnter
  <2>1. /\ irq_status' = IntrStat
        /\ isr' = IF "TX_ABRT" \in IntrStat THEN "abort" ELSE "over"
        /\ UNCHANGED <<hwvars, i2c1_state, desc, buf>>
    BY <1>5 DEF IsrEnter
  <2>2. TransferInv' /\ UNCHANGED <<Completed, Aborted, Overrun, Busy, IsRead, Quiet>>
    BY <2>1, TransferSame DEF DriverInv, hwvars
  <2>3. \A i \in {"TX_ABRT", "STOP_DET", "RX_OVER"} :
          /\ i \in IntrStat => i \in latched
          /\ i2c1_state # "I2C_ERROR" /\ i \in latched => i \in IntrStat
    BY DEF IntrStat, DriverInv, ControlInv, RestInv, Always
  <2>4. StartInv' /\ RestInv' /\ PlaceInv'
    BY <1>1, <1>2, <1>3, <2>1, <2>2, <2>3
    DEF DriverInv, ControlInv, StartInv, RestInv, PlaceInv, Busy, Aborted, Waiting, Starting,
        hwvars
  <2>5. StopInv'
    <3>1. isr' \notin {"stop_drain", "stop_end"}
      BY <2>1
    <3>2. ASSUME Busy, isr' = "over", "STOP_DET" \in irq_status'
          PROVE  /\ ~Aborted /\ tx = <<>> /\ Completed = Total(desc) /\ bus = "idle"
                 /\ ~Overrun \/ "RX_OVER" \in irq_status'
      <4>1. "STOP_DET" \in latched /\ ~Aborted /\ (Overrun => "RX_OVER" \in irq_status')
        BY <3>2, <2>1, <2>3 DEF Busy, Aborted, Overrun
      <4>2. Completed = Total(desc) /\ bus = "idle"
        BY <3>2, <4>1 DEF DriverInv, TransferInv, PhaseInv
      <4>3. tx = <<>>
        BY <3>2, <4>1, <4>2, Pop DEF DriverInv, TransferInv
      <4> QED
        BY <4>1, <4>2, <4>3
    <3> QED
      BY <2>1, <2>2, <3>1, <3>2 DEF StopInv, hwvars
  <2> QED
    BY <2>2, <2>4, <2>5 DEF DriverInv, ControlInv
<1> QED
  BY <1>4, <1>5

(* After the abort block the state is I2C_ERROR.                           *)
LEMMA AbortBlockInv == ASSUME DriverTypeOK, DriverInv, IsrAbort PROVE DriverInv'
<1>1. isr = "abort" /\ isr' = "off" /\ UNCHANGED thread /\ thread \notin Starting
      /\ i2c1_state \notin {"I2C_IDLE", "I2C_DONE"}
  BY HandlerAlone DEF IsrAbort
<1>2. i2c1_state' = "I2C_ERROR"
  BY <1>1 DEF IsrAbort, Busy, DriverTypeOK, State
<1>3. ControlInv'
  BY <1>1, <1>2 DEF ControlInv, StartInv, RestInv, PlaceInv, StopInv, Busy
<1>4. TransferInv'
  BY <1>2 DEF TransferInv, QueueInv, PhaseInv, ReadInv, WriteInv, DoneInv, Busy
<1> QED
  BY <1>3, <1>4 DEF DriverInv

(* The overrun block ends a read, and does nothing to a write.             *)
LEMMA OverBlockInv == ASSUME DriverTypeOK, DriverInv, IsrOver PROVE DriverInv'
<1>1. /\ isr = "over" /\ isr' = "rx" /\ thread \notin Starting
      /\ i2c1_state \notin {"I2C_IDLE", "I2C_DONE"}
      /\ UNCHANGED <<tx, shifting, rx, intr_mask, bus, ptr, regs, buf, irq_status, thread>>
  BY HandlerAlone DEF IsrOver
<1>2. CASE i2c1_state' = "I2C_ERROR"
  <2>1. ControlInv'
    BY <1>1, <1>2 DEF ControlInv, StartInv, RestInv, PlaceInv, StopInv, Busy
  <2>2. TransferInv'
    BY <1>2 DEF TransferInv, QueueInv, PhaseInv, ReadInv, WriteInv, DoneInv, Busy
  <2> QED
    BY <2>1, <2>2 DEF DriverInv
<1>3. CASE i2c1_state' # "I2C_ERROR"
  <2>1. UNCHANGED <<i2c1_state, desc>> /\ Busy
        /\ ~("RX_OVER" \in irq_status /\ i2c1_state = "I2C_READING")
    BY <1>1, <1>3 DEF IsrOver, Busy, DriverTypeOK, State
  <2>2. "RX_OVER" \in irq_status => ~Overrun
    BY <2>1 DEF Busy, DriverInv, TransferInv, WriteInv
  <2>3. latched' = latched
    BY <2>2 DEF IsrOver, Overrun
  <2>4. TransferInv' /\ UNCHANGED <<Completed, Aborted, Overrun, Busy, IsRead, Quiet>>
    BY <1>1, <2>1, <2>3, TransferSame DEF DriverInv
  <2>5. ControlInv'
    BY <1>1, <2>1, <2>2, <2>3, <2>4
    DEF DriverInv, ControlInv, StartInv, RestInv, PlaceInv, StopInv, Busy
  <2> QED
    BY <2>4, <2>5 DEF DriverInv
<1> QED
  BY <1>2, <1>3

(* The RX_FULL block chooses its branch by the state; a write has received *)
(* nothing that could be cleared.                                          *)
LEMMA RxBlockInv == ASSUME DriverTypeOK, DriverInv, IsrRx PROVE DriverInv'
<1>1. /\ isr = "rx" /\ isr' \in {"drain", "tx"} /\ thread \notin Starting
      /\ (isr' = "drain" => i2c1_state = "I2C_READING")
      /\ i2c1_state \notin {"I2C_IDLE", "I2C_DONE"}
      /\ UNCHANGED <<tx, shifting, latched, intr_mask, bus, ptr, regs, desc, buf, i2c1_state,
                     irq_status, thread>>
  BY HandlerAlone DEF IsrRx
<1>2. CASE i2c1_state = "I2C_ERROR"
  <2>1. ControlInv'
    BY <1>1, <1>2 DEF DriverInv, ControlInv, StartInv, RestInv, PlaceInv, StopInv, Busy
  <2>2. TransferInv'
    BY <1>1, <1>2 DEF TransferInv, QueueInv, PhaseInv, ReadInv, WriteInv, DoneInv, Busy
  <2> QED
    BY <2>1, <2>2 DEF DriverInv
<1>3. CASE i2c1_state # "I2C_ERROR"
  <2>1. rx' = rx
    BY <1>1, <1>3 DEF IsrRx, ClearRx, DriverInv, TransferInv, WriteInv, DriverTypeOK, State
  <2>2. TransferInv' /\ UNCHANGED <<Completed, Aborted, Overrun, Busy, IsRead, Quiet>>
    BY <1>1, <2>1, TransferSame DEF DriverInv
  <2>3. ControlInv'
    BY <1>1, <2>1, <2>2
    DEF DriverInv, ControlInv, StartInv, RestInv, PlaceInv, StopInv, Busy
  <2> QED
    BY <2>2, <2>3 DEF DriverInv
<1> QED
  BY <1>2, <1>3

(* The series depends on what the caller asked for, not on the progress.   *)
LEMMA SameSeries ==
  ASSUME NEW d, NEW e, e.reg_addr = d.reg_addr, e.write_registers = d.write_registers,
         e.data = d.data, e.length = d.length
  PROVE  /\ \A m : Command(e, m) = Command(d, m)
         /\ Total(e) = Total(d)
         /\ e.issued = d.issued /\ e.write_is_data = d.write_is_data => Issued(e) = Issued(d)
  BY Zenon DEF Command, Total, Issued

(* A turn of drain_rx moves the oldest byte to the end of the buffer.      *)
LEMMA DrainInv == ASSUME DriverTypeOK, DriverInv, IsrDrain PROVE DriverInv'
<1>1. /\ isr \in {"drain", "stop_drain"} /\ i2c1_state = "I2C_READING" /\ rx # <<>>
      /\ thread \notin Starting /\ Busy
      /\ UNCHANGED <<tx, shifting, latched, intr_mask, bus, ptr, regs, i2c1_state, isr,
                     irq_status, thread>>
  BY HandlerAlone
  DEF IsrDrain, CanDrain, RxNotEmpty, DriverInv, ControlInv, PlaceInv, Busy
<1>2. desc \in Descriptor /\ desc' = [desc EXCEPT !.received = desc.received + 1]
  BY DEF IsrDrain, DriverTypeOK
<1>3. /\ desc'.reg_addr = desc.reg_addr /\ desc'.write_registers = desc.write_registers
      /\ desc'.data = desc.data /\ desc'.length = desc.length /\ desc'.issued = desc.issued
      /\ desc'.write_is_data = desc.write_is_data /\ desc'.received = desc.received + 1
  BY <1>2 DEF Descriptor
<1>4. /\ \A m : Command(desc', m) = Command(desc, m)
      /\ Total(desc') = Total(desc) /\ Issued(desc') = Issued(desc)
  BY <1>3, SameSeries
<1>5. UNCHANGED <<Completed, Aborted, Overrun, Busy, IsRead>> /\ ~Aborted
  <2>1. Completed' = Completed
    BY <1>1, <1>4 DEF Completed
  <2>2. UNCHANGED <<Aborted, Overrun, Busy, IsRead>>
    BY <1>1, <1>3 DEF Aborted, Overrun, Busy, IsRead
  <2> QED
    BY <1>1, <2>1, <2>2 DEF DriverInv, TransferInv, PhaseInv
<1>6. ControlInv'
  BY <1>1, <1>3, <1>4, <1>5
  DEF DriverInv, ControlInv, StartInv, RestInv, PlaceInv, StopInv, Starting
<1>7. QueueInv'
  BY <1>1, <1>4, <1>5, Zenon DEF DriverInv, TransferInv, QueueInv
<1>8. PhaseInv'
  BY <1>1, <1>4, <1>5 DEF DriverInv, TransferInv, PhaseInv
<1>9. ReadInv'
  <2> SUFFICES ASSUME ~Overrun PROVE ReadInv'
    BY <1>5 DEF ReadInv
  <2> DEFINE r == desc.received
  <2>1. /\ rx \in Seq(Byte) /\ Len(rx) \in Nat \ {0} /\ r \in Nat /\ desc.reg_addr \in Nat
        /\ rx' = Tail(rx) /\ Len(Tail(rx)) = Len(rx) - 1 /\ Head(rx) = rx[1]
        /\ \A k \in 1 .. Len(Tail(rx)) : Tail(rx)[k] = rx[k + 1]
    BY <1>1, <1>2, SeriesType, HeadTailProperties, LenProperties, EmptySeq
    DEF IsrDrain, DriverTypeOK, ControllerTypeOK, Byte
  <2>2. /\ r + Len(rx) = IF Completed = 0 THEN 0 ELSE Completed - 1
        /\ Completed > 0 => ptr = (desc.reg_addr + r + Len(rx)) % RegCount
        /\ \A i \in 0 .. r - 1 : buf[i] = regs[(desc.reg_addr + i) % RegCount]
        /\ \A j \in 1 .. Len(rx) : rx[j] = regs[(desc.reg_addr + r + j - 1) % RegCount]
    BY <1>1, <1>5 DEF DriverInv, TransferInv, ReadInv
  <2>3. Len(rx') = Len(rx) - 1 /\ (r + 1) + Len(rx') = r + Len(rx)
        /\ (desc.reg_addr + (r + 1)) + Len(rx') = (desc.reg_addr + r) + Len(rx)
    BY <2>1
  <2>4. DOMAIN buf = 0 .. r - 1 /\ buf' = Store(buf, r, Head(rx))
    BY DEF DriverTypeOK, IsrDrain
  <2>5. \A i \in 0 .. (r + 1) - 1 : buf'[i] = regs[(desc.reg_addr + i) % RegCount]
    <3>1. \A i \in 0 .. r - 1 : buf'[i] = buf[i]
      BY <2>1, <2>4 DEF Store
    <3>2. buf'[r] = rx[1]
      BY <2>1, <2>4 DEF Store
    <3>3. desc.reg_addr + r + 1 - 1 = desc.reg_addr + r /\ 1 \in 1 .. Len(rx)
      BY <2>1
    <3>4. rx[1] = regs[(desc.reg_addr + r) % RegCount]
      BY <2>2, <3>3
    <3>5. \A i \in 0 .. (r + 1) - 1 : i \in 0 .. r - 1 \/ i = r
      BY <2>1
    <3> QED
      BY <2>2, <3>1, <3>2, <3>4, <3>5
  <2>6. ASSUME NEW j \in 1 .. Len(rx')
        PROVE  rx'[j] = regs[(desc.reg_addr + (r + 1) + j - 1) % RegCount]
    <3>1. /\ j + 1 \in 1 .. Len(rx) /\ j \in 1 .. Len(Tail(rx))
          /\ desc.reg_addr + r + (j + 1) - 1 = desc.reg_addr + (r + 1) + j - 1
      BY <2>1
    <3>2. rx'[j] = rx[j + 1]
      BY <2>1, <3>1
    <3>3. rx[j + 1] = regs[(desc.reg_addr + r + (j + 1) - 1) % RegCount]
      BY <2>2, <3>1
    <3> QED
      BY ONLY <3>1, <3>2, <3>3
  <2>7. desc'.received = r + 1
    BY <1>3
  <2> HIDE DEF r
  <2> QED
    BY <1>1, <1>3, <1>5, <2>2, <2>3, <2>5, <2>6, <2>7 DEF ReadInv
<1>10. WriteInv' /\ DoneInv'
  BY <1>1 DEF WriteInv, DoneInv
<1> QED
  BY <1>6, <1>7, <1>8, <1>9, <1>10 DEF DriverInv, TransferInv

(* drain_rx ends.  After a STOP_DET the whole read is in the buffer.       *)
LEMMA DrainEndInv == ASSUME DriverTypeOK, DriverInv, IsrDrainEnd PROVE DriverInv'
<1>1. /\ isr \in {"drain", "stop_drain"} /\ i2c1_state = "I2C_READING"
      /\ isr' = (IF isr = "drain" THEN "tx" ELSE "stop_end")
      /\ thread \notin Starting /\ Busy
      /\ UNCHANGED <<tx, shifting, rx, latched, intr_mask, bus, ptr, regs, desc, buf,
                     i2c1_state, irq_status, thread>>
  BY HandlerAlone DEF IsrDrainEnd, DriverInv, ControlInv, PlaceInv, Busy, hwvars
<1>2. TransferInv' /\ UNCHANGED <<Completed, Aborted, Overrun, Busy, IsRead, Quiet>>
  BY <1>1, TransferSame DEF DriverInv
<1>3. isr = "stop_drain" => desc.received = desc.length /\ rx = <<>>
  <2> SUFFICES ASSUME isr = "stop_drain" PROVE desc.received = desc.length /\ rx = <<>>
    OBVIOUS
  <2>1. latched = {} /\ tx = <<>> /\ Completed = Total(desc) /\ ~Aborted /\ ~Overrun
    BY DEF DriverInv, ControlInv, StopInv, Aborted, Overrun
  <2>2. /\ desc.length \in Nat /\ desc.issued \in Nat /\ desc.received \in Nat
        /\ IsRead /\ desc.length > 0
    BY <1>1, SeriesType DEF DriverTypeOK, DriverInv, ControlInv, RestInv
  <2>3. Issued(desc) = desc.issued + 1 /\ Total(desc) = desc.length + 1
    BY <2>2, Zenon DEF Issued, Total, IsRead
  <2>4. Len(tx) = 0 /\ Completed = desc.issued + 1
    BY <2>1, <2>2, <2>3, EmptySeq DEF Completed
  <2>5. desc.received + Len(rx) = desc.length /\ desc.issued = desc.length
    BY <1>1, <2>1, <2>2, <2>3, <2>4 DEF DriverInv, TransferInv, ReadInv
  <2>6. rx \in Seq(Byte) /\ Len(rx) \in Nat /\ (rx = <<>> <=> Len(rx) = 0)
    BY LenProperties, EmptySeq DEF DriverTypeOK, ControllerTypeOK
  <2>7. ~(desc.received < desc.issued /\ rx # <<>>)
    BY DEF IsrDrainEnd, CanDrain, RxNotEmpty
  <2> QED
    BY <2>2, <2>5, <2>6, <2>7
<1>4. ControlInv'
  BY <1>1, <1>2, <1>3
  DEF DriverInv, ControlInv, StartInv, RestInv, PlaceInv, StopInv, Starting
<1> QED
  BY <1>2, <1>4 DEF DriverInv

(* The TX_EMPTY block starts its pump only during a transfer.              *)
LEMMA TxBlockInv == ASSUME DriverTypeOK, DriverInv, IsrTx PROVE DriverInv'
<1>1. /\ isr = "tx" /\ isr' \in {"pump", "stop"} /\ (isr' = "pump" => Busy)
      /\ thread \notin Starting /\ i2c1_state \notin {"I2C_IDLE", "I2C_DONE"}
      /\ UNCHANGED <<tx, shifting, rx, latched, intr_mask, bus, ptr, regs, desc, buf,
                     i2c1_state, irq_status, thread>>
  BY HandlerAlone DEF IsrTx, hwvars
<1>2. TransferInv' /\ UNCHANGED <<Completed, Aborted, Overrun, Busy, IsRead, Quiet>>
  BY <1>1, TransferSame DEF DriverInv
<1>3. ControlInv'
  BY <1>1, <1>2 DEF DriverInv, ControlInv, StartInv, RestInv, PlaceInv, StopInv
<1> QED
  BY <1>2, <1>3 DEF DriverInv

(* What one store to IC_DATA_CMD does to the series: the next command of it*)
(* joins the FIFO, unless the FIFO is held flushed.                        *)
LEMMA PushNext ==
  ASSUME DriverTypeOK, QueueInv, Busy, TxNotFull,
         NEW c, c = Command(desc, Issued(desc)), PushCmd(c),
         Issued(desc) + 1 <= Total(desc),
         Issued(desc') = Issued(desc) + 1,
         desc'.reg_addr = desc.reg_addr, desc'.write_registers = desc.write_registers,
         desc'.data = desc.data, desc'.length = desc.length,
         UNCHANGED <<i2c1_state, latched>>
  PROVE  /\ UNCHANGED <<Busy, Aborted>>
         /\ ~Aborted => Completed' = Completed /\ QueueInv'
         /\ Aborted => tx' = tx
<1>1. UNCHANGED <<Busy, Aborted>>
  BY DEF Busy, Aborted
<1>2. Aborted => tx' = tx
  BY DEF PushCmd, Aborted
<1>3. ASSUME ~Aborted PROVE Completed' = Completed /\ QueueInv'
  <2>1. tx' = Append(tx, c) /\ Busy' /\ ~Aborted'
    BY <1>1, <1>3 DEF PushCmd, Aborted
  <2>2. tx \in Seq(Cmd) /\ desc \in Descriptor
    BY DEF DriverTypeOK, ControllerTypeOK
  <2>3. Issued(desc) \in Nat /\ Total(desc) \in Nat /\ Len(tx) \in Nat
    BY <2>2, SeriesType, LenProperties
  <2>4. /\ Len(tx') = Len(tx) + 1 /\ tx'[Len(tx) + 1] = c
        /\ \A k \in 1 .. Len(tx) : tx'[k] = tx[k]
    BY <2>1, <2>2
  <2>5. \A m : Command(desc', m) = Command(desc, m) /\ Total(desc') = Total(desc)
    BY SameSeries
  <2>6. Completed = Issued(desc) - Len(tx) /\ Completed' = Issued(desc') - Len(tx')
    BY Zenon DEF Completed
  <2>7. Completed' = Completed /\ Completed \in Int
    BY <2>3, <2>4, <2>6
  <2>8. /\ Len(tx) <= Issued(desc)
        /\ \A k \in 1 .. Len(tx) : tx[k] = Command(desc, Completed + k - 1)
    BY <1>3 DEF QueueInv
  <2>9. ASSUME NEW k \in 1 .. Len(tx') PROVE tx'[k] = Command(desc', Completed' + k - 1)
    <3>1. CASE k \in 1 .. Len(tx)
      BY <2>4, <2>5, <2>7, <2>8, <3>1
    <3>2. CASE k = Len(tx) + 1
      <4>1. Completed' + k - 1 = Issued(desc)
        BY <2>3, <2>6, <2>7, <3>2
      <4> QED
        BY <2>4, <2>5, <3>2, <4>1
    <3> QED
      BY <2>3, <2>4, <3>1, <3>2
  <2>10. Len(tx') <= Issued(desc') /\ Issued(desc') <= Total(desc')
    BY <2>3, <2>4, <2>5, <2>8
  <2> QED
    BY <2>7, <2>9, <2>10 DEF QueueInv
<1> QED
  BY <1>1, <1>2, <1>3

(* The rest of the invariant does not look at the end of the FIFO.         *)
LEMMA PumpRest ==
  ASSUME DriverTypeOK, DriverInv, isr = "pump", CanPump,
         Issued(desc) + 1 <= Total(desc),
         UNCHANGED <<Busy, Aborted>>, ~Aborted => Completed' = Completed /\ QueueInv',
         Aborted => tx' = tx,
         desc'.reg_addr = desc.reg_addr, desc'.write_registers = desc.write_registers,
         desc'.data = desc.data, desc'.length = desc.length,
         desc'.received = desc.received,
         UNCHANGED <<shifting, rx, latched, intr_mask, bus, ptr, regs, i2c1_state, buf, isr,
                     irq_status, thread>>
  PROVE  DriverInv'
<1>1. /\ Busy /\ thread \notin Starting /\ i2c1_state \in {"I2C_READING", "I2C_WRITING"}
      /\ UNCHANGED <<Overrun, IsRead>>
  BY HandlerAlone DEF DriverInv, ControlInv, PlaceInv, Busy, Overrun, IsRead
<1>2. Total(desc') = Total(desc)
  BY SameSeries
<1>3. "STOP_DET" \notin irq_status
  <2> SUFFICES ASSUME "STOP_DET" \in irq_status PROVE FALSE
    OBVIOUS
  <2>1. tx = <<>> /\ Completed = Total(desc)
    BY <1>1 DEF DriverInv, ControlInv, StopInv
  <2>2. Len(tx) = 0 /\ Issued(desc) \in Nat /\ Total(desc) \in Nat
    BY <2>1, EmptySeq, SeriesType DEF DriverTypeOK
  <2> QED
    BY <2>1, <2>2 DEF Completed
<1>4. ControlInv'
  BY <1>1, <1>2, <1>3
  DEF DriverInv, ControlInv, StartInv, RestInv, PlaceInv, StopInv, Starting, Busy
<1>5. QueueInv'
  BY DEF QueueInv
<1>6. PhaseInv'
  BY <1>1, <1>2 DEF DriverInv, TransferInv, PhaseInv
<1>7. ReadInv'
  BY <1>1 DEF DriverInv, TransferInv, ReadInv
<1>8. WriteInv' /\ DoneInv'
  <2>1. \A n : Effective(desc, n) => Effective(desc, n)'
    BY DEF Effective
  <2> QED
    BY <1>1, <2>1 DEF DriverInv, TransferInv, WriteInv, DoneInv
<1> QED
  BY <1>4, <1>5, <1>6, <1>7, <1>8 DEF DriverInv, TransferInv

(* A turn of pump_tx_read.                                                 *)
LEMMA PumpReadFacts ==
  ASSUME DriverTypeOK, DriverInv, PumpRead
  PROVE  /\ isr = "pump" /\ CanPump /\ Busy /\ IsRead
         /\ Issued(desc') = Issued(desc) + 1 /\ Issued(desc) + 1 <= Total(desc)
         /\ desc'.reg_addr = desc.reg_addr /\ desc'.write_registers = desc.write_registers
         /\ desc'.data = desc.data /\ desc'.length = desc.length
         /\ desc'.received = desc.received /\ desc'.issued = desc.issued + 1
         /\ UNCHANGED <<Busy, Aborted>> /\ (~Aborted => Completed' = Completed /\ QueueInv')
         /\ (Aborted => tx' = tx)
         /\ UNCHANGED <<shifting, rx, latched, intr_mask, bus, ptr, regs, i2c1_state, buf, isr,
                        irq_status, thread>>
<1>1. /\ isr = "pump" /\ CanPump /\ TxNotFull /\ Busy /\ IsRead /\ desc.write_registers = <<>>
      /\ UNCHANGED <<shifting, rx, latched, intr_mask, bus, ptr, regs, i2c1_state, buf, isr,
                     irq_status, thread>>
  BY DEF PumpRead, CanPump, DriverInv, ControlInv, RestInv, Busy, IsRead
<1>2. desc \in Descriptor /\ desc' = [desc EXCEPT !.issued = desc.issued + 1]
  BY DEF PumpRead, DriverTypeOK
<1>3. /\ desc'.reg_addr = desc.reg_addr /\ desc'.write_registers = desc.write_registers
      /\ desc'.data = desc.data /\ desc'.length = desc.length
      /\ desc'.received = desc.received /\ desc'.issued = desc.issued + 1
  BY <1>2 DEF Descriptor
<1>4. desc.issued \in Nat /\ desc.length \in Nat /\ desc.issued < desc.length
  BY <1>1, <1>2, SeriesType DEF CanPump
<1>5. /\ Issued(desc) = desc.issued + 1 /\ Issued(desc') = (desc.issued + 1) + 1
      /\ Total(desc) = desc.length + 1
  BY <1>1, <1>3, Zenon DEF Issued, Total
<1>6. Issued(desc') = Issued(desc) + 1 /\ Issued(desc) + 1 <= Total(desc)
  BY <1>4, <1>5
<1>7. Command(desc, Issued(desc)) = ReadCmd(desc.issued = 0, LastOne)
  <2>1. /\ Issued(desc) \in Nat /\ Issued(desc) # 0
        /\ (Issued(desc) = 1) = (desc.issued = 0)
        /\ (Issued(desc) = desc.length) = (desc.issued = desc.length - 1)
    BY <1>4, <1>5
  <2>2. Command(desc, Issued(desc)) = ReadCmd(Issued(desc) = 1, Issued(desc) = desc.length)
    BY <1>1, <2>1, ReadCommand
  <2> QED
    BY ONLY <2>1, <2>2, Zenon DEF LastOne
<1>8. PushCmd(ReadCmd(desc.issued = 0, LastOne))
  BY Zenon DEF PumpRead
<1>9. PushCmd(Command(desc, Issued(desc)))
  BY ONLY <1>7, <1>8, Zenon
<1>10. /\ UNCHANGED <<Busy, Aborted>> /\ (~Aborted => Completed' = Completed /\ QueueInv')
       /\ (Aborted => tx' = tx)
  BY <1>1, <1>3, <1>6, <1>9, PushNext DEF DriverInv, TransferInv
<1> QED
  BY <1>1, <1>3, <1>6, <1>10

LEMMA PumpReadInv == ASSUME DriverTypeOK, DriverInv, PumpRead PROVE DriverInv'
  BY PumpReadFacts, PumpRest

(* A turn of pump_tx_write: the address of a pair, or its value.           *)
LEMMA PumpWriteFacts ==
  ASSUME DriverTypeOK, DriverInv, PumpWrite
  PROVE  /\ isr = "pump" /\ CanPump /\ Busy /\ ~IsRead
         /\ Issued(desc') = Issued(desc) + 1 /\ Issued(desc) + 1 <= Total(desc)
         /\ desc'.reg_addr = desc.reg_addr /\ desc'.write_registers = desc.write_registers
         /\ desc'.data = desc.data /\ desc'.length = desc.length
         /\ desc'.received = desc.received
         /\ UNCHANGED <<Busy, Aborted>> /\ (~Aborted => Completed' = Completed /\ QueueInv')
         /\ (Aborted => tx' = tx)
         /\ UNCHANGED <<shifting, rx, latched, intr_mask, bus, ptr, regs, i2c1_state, buf, isr,
                        irq_status, thread>>
<1>1. /\ isr = "pump" /\ CanPump /\ TxNotFull /\ Busy /\ ~IsRead /\ desc.write_registers # <<>>
      /\ UNCHANGED <<shifting, rx, latched, intr_mask, bus, ptr, regs, i2c1_state, buf, isr,
                     irq_status, thread>>
  BY DEF PumpWrite, CanPump, DriverInv, ControlInv, RestInv, Busy, IsRead
<1>2. desc \in Descriptor /\ desc.write_is_data \in BOOLEAN
  BY SeriesType DEF DriverTypeOK
<1>3. /\ desc'.reg_addr = desc.reg_addr /\ desc'.write_registers = desc.write_registers
      /\ desc'.data = desc.data /\ desc'.length = desc.length
      /\ desc'.received = desc.received
      /\ desc'.write_is_data = ~desc.write_is_data
      /\ desc'.issued = IF desc.write_is_data THEN desc.issued + 1 ELSE desc.issued
  <2>1. CASE desc.write_is_data
    <3>1. desc' = [desc EXCEPT !.issued = desc.issued + 1, !.write_is_data = FALSE]
      BY <2>1 DEF PumpWrite
    <3> QED
      BY <1>2, <2>1, <3>1 DEF Descriptor
  <2>2. CASE ~desc.write_is_data
    <3>1. desc' = [desc EXCEPT !.write_is_data = TRUE]
      BY <2>2 DEF PumpWrite
    <3> QED
      BY <1>2, <2>2, <3>1 DEF Descriptor
  <2> QED
    BY <2>1, <2>2
<1>4. desc.issued \in Nat /\ desc.length \in Nat /\ desc.issued < desc.length
  BY <1>1, <1>2, SeriesType DEF CanPump
<1>5. /\ desc.write_is_data => /\ Issued(desc) = 2 * desc.issued + 1
                              /\ Issued(desc') = 2 * (desc.issued + 1) + 0
      /\ ~desc.write_is_data => /\ Issued(desc) = 2 * desc.issued + 0
                               /\ Issued(desc') = 2 * desc.issued + 1
      /\ Total(desc) = 2 * desc.length
  BY <1>1, <1>3, Zenon DEF Issued, Total
<1>6. Issued(desc') = Issued(desc) + 1 /\ Issued(desc) + 1 <= Total(desc)
  <2>1. CASE desc.write_is_data
    BY ONLY <1>4, <1>5, <2>1
  <2>2. CASE ~desc.write_is_data
    BY ONLY <1>4, <1>5, <2>2
  <2> QED
    BY <2>1, <2>2
<1>7. PushCmd(Command(desc, Issued(desc)))
  <2>1. CASE desc.write_is_data
    <3>1. /\ Issued(desc) \in Nat /\ Issued(desc) % 2 # 0 /\ Issued(desc) \div 2 = desc.issued
      BY ONLY <1>4, <1>5, <2>1
    <3>2. Command(desc, Issued(desc)) = WriteCmd(desc.data[desc.issued + 1],
                                                desc.issued + 1 = desc.length)
      BY ONLY <1>1, <3>1, WriteCommand, ZenonT(30)
    <3>3. PushCmd(WriteCmd(desc.data[desc.issued + 1], LastOne))
      BY <2>1, Zenon DEF PumpWrite
    <3>4. (desc.issued + 1 = desc.length) = (desc.issued = desc.length - 1)
      BY <1>4
    <3> QED
      BY ONLY <3>2, <3>3, <3>4, Zenon DEF LastOne
  <2>2. CASE ~desc.write_is_data
    <3>1. /\ Issued(desc) \in Nat /\ Issued(desc) % 2 = 0 /\ Issued(desc) \div 2 = desc.issued
      BY ONLY <1>4, <1>5, <2>2
    <3>2. Command(desc, Issued(desc)) = WriteCmd(desc.write_registers[desc.issued + 1], FALSE)
      BY ONLY <1>1, <3>1, WriteCommand, Zenon
    <3>3. PushCmd(WriteCmd(desc.write_registers[desc.issued + 1], FALSE))
      BY <2>2, Zenon DEF PumpWrite
    <3> QED
      BY ONLY <3>2, <3>3, Zenon
  <2> QED
    BY <2>1, <2>2
<1>8. /\ UNCHANGED <<Busy, Aborted>> /\ (~Aborted => Completed' = Completed /\ QueueInv')
      /\ (Aborted => tx' = tx)
  BY <1>1, <1>3, <1>6, <1>7, PushNext DEF DriverInv, TransferInv
<1> QED
  BY <1>1, <1>3, <1>6, <1>8

LEMMA PumpWriteInv == ASSUME DriverTypeOK, DriverInv, PumpWrite PROVE DriverInv'
  BY PumpWriteFacts, PumpRest

(* The pump ends and perhaps masks TX_EMPTY.                               *)
LEMMA PumpEndInv == ASSUME DriverTypeOK, DriverInv, PumpEnd PROVE DriverInv'
<1>1. /\ isr = "pump" /\ isr' = "stop" /\ Busy
      /\ thread \notin Starting /\ i2c1_state \notin {"I2C_IDLE", "I2C_DONE"}
      /\ intr_mask \ {"TX_EMPTY"} \subseteq intr_mask'
      /\ UNCHANGED <<tx, shifting, rx, latched, bus, ptr, regs, desc, buf, i2c1_state,
                     irq_status, thread>>
  BY HandlerAlone DEF PumpEnd, DriverInv, ControlInv, PlaceInv
<1>2. TransferInv' /\ UNCHANGED <<Completed, Aborted, Overrun, Busy, IsRead, Quiet>>
  BY <1>1, TransferSame DEF DriverInv
<1>3. Always \subseteq intr_mask => Always \subseteq intr_mask'
  BY <1>1 DEF Always
<1>4. ControlInv'
  BY <1>1, <1>2, <1>3 DEF DriverInv, ControlInv, StartInv, RestInv, PlaceInv, StopInv
<1> QED
  BY <1>2, <1>4 DEF DriverInv

(* When a write has stopped, every command has been issued and is in effect.*)
LEMMA WriteStopped ==
  ASSUME DriverTypeOK, DriverInv, isr = "stop", "STOP_DET" \in irq_status,
         i2c1_state = "I2C_WRITING"
  PROVE  desc.issued = desc.length /\ Effective(desc, desc.length)
<1>1. Busy /\ ~IsRead
  BY DEF DriverInv, ControlInv, RestInv, Busy
<1>2. ~Aborted /\ ~Overrun /\ tx = <<>> /\ Completed = Total(desc)
  BY <1>1 DEF DriverInv, ControlInv, StopInv
<1>3. desc.issued \in Nat /\ desc.length \in Nat /\ desc.write_is_data \in BOOLEAN
  BY SeriesType DEF DriverTypeOK
<1>4. Issued(desc) = Total(desc)
  <2>1. Len(tx) = 0 /\ Issued(desc) \in Nat
    BY <1>2, EmptySeq, SeriesType DEF DriverTypeOK
  <2> QED
    BY <1>2, <2>1 DEF Completed
<1>5. /\ Total(desc) = 2 * desc.length
      /\ desc.write_is_data => Issued(desc) = 2 * desc.issued + 1
      /\ ~desc.write_is_data => Issued(desc) = 2 * desc.issued + 0
  BY <1>1, Zenon DEF Issued, Total, IsRead
<1>6. desc.issued = desc.length
  BY ONLY <1>3, <1>4, <1>5, SMTT(30)
<1>7. (2 * desc.length) \div 2 = desc.length
  BY ONLY <1>3
<1> QED
  BY <1>2, <1>5, <1>6, <1>7 DEF DriverInv, TransferInv, WriteInv

(* The STOP_DET block: a read goes on to drain, a write is done.           *)
LEMMA StopBlockInv == ASSUME DriverTypeOK, DriverInv, IsrStop PROVE DriverInv'
<1>1. /\ isr = "stop" /\ thread \notin Starting /\ i2c1_state \notin {"I2C_IDLE", "I2C_DONE"}
      /\ UNCHANGED <<tx, shifting, intr_mask, bus, ptr, regs, desc, buf, irq_status, thread>>
  BY HandlerAlone DEF IsrStop
<1>2. ASSUME "STOP_DET" \in irq_status, Busy
      PROVE  /\ ~Aborted /\ ~Overrun /\ tx = <<>> /\ Completed = Total(desc) /\ bus = "idle"
             /\ latched' = {} /\ ~Aborted' /\ ~Overrun' /\ UNCHANGED <<Completed, IsRead>>
  <2>1. ~Aborted /\ ~Overrun /\ tx = <<>> /\ Completed = Total(desc) /\ bus = "idle"
    BY <1>1, <1>2 DEF DriverInv, ControlInv, StopInv
  <2>2. latched' = {}
    BY <1>2, <2>1
    DEF IsrStop, DriverTypeOK, ControllerTypeOK, Latching, Aborted, Overrun
  <2> QED
    BY <1>1, <2>1, <2>2 DEF Completed, IsRead, Aborted, Overrun
<1>3. CASE "STOP_DET" \in irq_status /\ i2c1_state = "I2C_READING"
  <2>1. /\ isr' = "stop_drain" /\ UNCHANGED <<rx, i2c1_state>> /\ Busy /\ Busy'
    BY <1>1, <1>3 DEF IsrStop, Busy
  <2>2. /\ ~Aborted /\ ~Overrun /\ tx = <<>> /\ Completed = Total(desc) /\ bus = "idle"
        /\ latched' = {} /\ ~Aborted' /\ ~Overrun' /\ UNCHANGED <<Completed, IsRead>>
    BY <1>2, <1>3, <2>1
  <2>3. ControlInv'
    BY <1>1, <1>3, <2>1, <2>2
    DEF DriverInv, ControlInv, StartInv, RestInv, PlaceInv, StopInv
  <2>4. QueueInv'
    BY <1>1, <2>1, <2>2 DEF DriverInv, TransferInv, QueueInv
  <2>5. PhaseInv'
    BY <1>1, <2>1, <2>2 DEF DriverInv, TransferInv, PhaseInv
  <2>6. ReadInv'
    BY <1>1, <2>1, <2>2 DEF DriverInv, TransferInv, ReadInv
  <2>7. WriteInv' /\ DoneInv'
    BY <1>3, <2>1 DEF WriteInv, DoneInv
  <2> QED
    BY <2>3, <2>4, <2>5, <2>6, <2>7 DEF DriverInv, TransferInv
<1>4. CASE "STOP_DET" \in irq_status /\ i2c1_state = "I2C_WRITING"
  <2>1. Busy /\ ~IsRead /\ thread \in Waiting
    BY <1>1, <1>4 DEF DriverInv, ControlInv, RestInv, Busy, Starting
  <2>5. desc.issued = desc.length
    BY <1>1, <1>4, WriteStopped
  <2>6. /\ isr' = "exit" /\ i2c1_state' = "I2C_DONE" /\ rx' = <<>>
    BY <1>4, <2>1, <2>5 DEF IsrStop, ClearRx
  <2>7. Quiet' /\ tx' = <<>> /\ ~Busy'
    BY <1>1, <1>2, <1>4, <2>1, <2>6 DEF Quiet, Busy, DriverTypeOK, ControllerTypeOK
  <2>8. ControlInv'
    BY <1>1, <1>4, <2>1, <2>6, <2>7
    DEF DriverInv, ControlInv, StartInv, RestInv, PlaceInv, StopInv
  <2>9. Effective(desc, desc.length)
    BY <1>1, <1>4, WriteStopped
  <2>10. DoneInv'
    BY <1>1, <1>2, <1>4, <2>1, <2>9 DEF DoneInv, Effective
  <2> QED
    BY <2>6, <2>7, <2>8, <2>10
    DEF DriverInv, TransferInv, QueueInv, PhaseInv, ReadInv, WriteInv
<1>5. CASE "STOP_DET" \notin irq_status \/ ~Busy
  <2>1. isr' = "exit" /\ UNCHANGED <<rx, i2c1_state>>
    BY <1>1, <1>5 DEF IsrStop, Busy
  <2>2. CASE "STOP_DET" \notin irq_status
    <3>1. latched' = latched
      BY <2>2 DEF IsrStop
    <3>2. TransferInv' /\ UNCHANGED <<Completed, Aborted, Overrun, Busy, IsRead, Quiet>>
      BY <1>1, <2>1, <3>1, TransferSame DEF DriverInv
    <3>3. ControlInv'
      BY <1>1, <2>1, <3>2 DEF DriverInv, ControlInv, StartInv, RestInv, PlaceInv, StopInv
    <3> QED
      BY <3>2, <3>3 DEF DriverInv
  <2>3. CASE ~Busy
    <3>1. i2c1_state' = "I2C_ERROR"
      BY <1>1, <2>1, <2>3 DEF Busy, DriverTypeOK, State
    <3>2. ControlInv'
      BY <1>1, <2>1, <3>1 DEF ControlInv, StartInv, RestInv, PlaceInv, StopInv, Busy
    <3>3. TransferInv'
      BY <3>1 DEF TransferInv, QueueInv, PhaseInv, ReadInv, WriteInv, DoneInv, Busy
    <3> QED
      BY <3>2, <3>3 DEF DriverInv
  <2> QED
    BY <1>5, <2>2, <2>3
<1> QED
  BY <1>3, <1>4, <1>5 DEF Busy

(* The read is done: the buffer holds what the registers hold.             *)
LEMMA StopEndInv == ASSUME DriverTypeOK, DriverInv, IsrStopEnd PROVE DriverInv'
<1>1. /\ isr = "stop_end" /\ isr' = "exit" /\ thread \notin Starting
      /\ i2c1_state = "I2C_READING" /\ Busy /\ IsRead /\ thread \in Waiting
      /\ latched = {} /\ tx = <<>> /\ bus = "idle" /\ rx = <<>>
      /\ Completed = Total(desc) /\ desc.received = desc.length
      /\ i2c1_state' = "I2C_DONE"
      /\ UNCHANGED <<tx, shifting, rx, latched, intr_mask, bus, ptr, regs, desc, buf,
                     irq_status, thread>>
  BY HandlerAlone
  DEF IsrStopEnd, DriverInv, ControlInv, RestInv, PlaceInv, StopInv, Busy, Starting, hwvars
<1>2. Quiet' /\ tx' = <<>> /\ ~Busy' /\ IsRead'
  BY <1>1 DEF Quiet, Busy, IsRead, DriverTypeOK, ControllerTypeOK
<1>3. ControlInv'
  BY <1>1, <1>2 DEF DriverInv, ControlInv, StartInv, RestInv, PlaceInv, StopInv
<1>4. buf = [i \in 0 .. desc.length - 1 |-> regs[(desc.reg_addr + i) % RegCount]]
  <2>1. buf \in [0 .. desc.length - 1 -> Byte]
    BY <1>1 DEF DriverTypeOK
  <2>2. \A i \in 0 .. desc.length - 1 : buf[i] = regs[(desc.reg_addr + i) % RegCount]
    BY <1>1 DEF DriverInv, TransferInv, ReadInv, Aborted, Overrun
  <2> QED
    BY ONLY <2>1, <2>2
<1>5. DoneInv'
  BY <1>1, <1>2, <1>4 DEF DoneInv
<1> QED
  BY <1>1, <1>2, <1>3, <1>5
  DEF DriverInv, TransferInv, QueueInv, PhaseInv, ReadInv, WriteInv

(* Whoever leaves the handler with nothing in progress masks the levels.   *)
LEMMA ExitInv == ASSUME DriverTypeOK, DriverInv, IsrExit PROVE DriverInv'
<1>1. /\ isr = "exit" /\ isr' = "off" /\ thread \notin Starting /\ i2c1_state # "I2C_IDLE"
      /\ intr_mask' = (IF Busy THEN intr_mask ELSE intr_mask \ Pacing)
      /\ UNCHANGED <<tx, shifting, rx, latched, bus, ptr, regs, desc, buf, i2c1_state,
                     irq_status, thread>>
  BY HandlerAlone DEF IsrExit
<1>2. TransferInv' /\ UNCHANGED <<Completed, Aborted, Overrun, Busy, IsRead, Quiet>>
  BY <1>1, TransferSame DEF DriverInv
<1>3. /\ Always \subseteq intr_mask => Always \subseteq intr_mask'
      /\ ~Busy => intr_mask' \cap Pacing = {}
  BY <1>1 DEF Always, Pacing
<1>4. ControlInv'
  BY <1>1, <1>2, <1>3 DEF DriverInv, ControlInv, StartInv, RestInv, PlaceInv, StopInv, Busy
<1> QED
  BY <1>2, <1>4 DEF DriverInv

LEMMA HandlerInv == ASSUME DriverTypeOK, DriverInv, IsrNext PROVE DriverInv'
  BY EnterInv, AbortBlockInv, OverBlockInv, RxBlockInv, DrainInv, DrainEndInv, TxBlockInv,
     PumpReadInv, PumpWriteInv, PumpEndInv, StopBlockInv, StopEndInv, ExitInv DEF IsrNext

-----------------------------------------------------------------------------
(* The invariant of the driver by itself, whoever calls it.                *)

(* i2c_init_master leaves the driver at rest.                              *)
LEMMA DriverInitInv == DriverInit => DriverInv
<1> SUFFICES ASSUME DriverInit PROVE DriverInv
  OBVIOUS
<1>1. /\ i2c1_state = "I2C_IDLE" /\ thread = "out" /\ isr = "off" /\ Quiet /\ tx = <<>>
      /\ intr_mask = Always
  BY DEF DriverInit, HwInit, Quiet
<1>2. ControlInv
  BY <1>1
  DEF ControlInv, StartInv, RestInv, PlaceInv, StopInv, Busy, Starting, Always, Pacing
<1>3. TransferInv
  BY <1>1 DEF TransferInv, QueueInv, PhaseInv, ReadInv, WriteInv, DoneInv, Busy
<1> QED
  BY <1>2, <1>3 DEF DriverInv

(* Bus, handler, calls and SysTick together.                               *)
LEMMA DriverStepInv == ASSUME DriverTypeOK, DriverInv, DriverNext, PromptStart PROVE DriverInv'
  BY BusInv, HandlerInv, ApiInv, WaitInv DEF DriverNext

(* And so does a step that touches nothing of the driver's.                *)
LEMMA DriverSameInv == ASSUME DriverInv, UNCHANGED i2cvars PROVE DriverInv'
<1>1. /\ UNCHANGED <<tx, shifting, rx, latched, intr_mask, bus, ptr, regs, desc, buf, i2c1_state>>
      /\ UNCHANGED <<isr, irq_status, thread>>
  BY DEF i2cvars, hwvars, drvvars
<1>2. TransferInv' /\ UNCHANGED <<Completed, Aborted, Overrun, Busy, IsRead, Quiet>>
  BY <1>1, TransferSame DEF DriverInv
<1>3. ControlInv'
  BY <1>1, <1>2 DEF DriverInv, ControlInv, StartInv, RestInv, PlaceInv, StopInv
<1> QED
  BY <1>2, <1>3 DEF DriverInv

(* A caller takes the result of a transfer that is done.                   *)
LEMMA TakeInv ==
  ASSUME DriverTypeOK, DriverInv, isr = "off", thread = "back", i2c1_state = "I2C_DONE",
         i2c1_state' = "I2C_IDLE", thread' = "out",
         UNCHANGED <<hwvars, desc, buf, isr, irq_status>>
  PROVE  DriverInv'
<1>1. Quiet /\ tx = <<>> /\ intr_mask \cap Pacing = {} /\ Always \subseteq intr_mask
  BY DEF DriverInv, ControlInv, RestInv
<1>2. Quiet' /\ tx' = <<>> /\ intr_mask' \cap Pacing = {} /\ Always \subseteq intr_mask'
  BY <1>1 DEF Quiet, hwvars
<1>3. ControlInv'
  BY <1>2 DEF ControlInv, StartInv, RestInv, PlaceInv, StopInv, Busy, Starting
<1>4. TransferInv'
  BY DEF TransferInv, QueueInv, PhaseInv, ReadInv, WriteInv, DoneInv, Busy
<1> QED
  BY <1>3, <1>4 DEF DriverInv

(* A caller gives up on, or goes to wait for, a transfer that failed.      *)
LEMMA GiveUpInv ==
  ASSUME i2c1_state = "I2C_ERROR", isr = "off", isr' = "off",
         i2c1_state' = "I2C_ERROR", thread' \notin Starting
  PROVE  DriverInv'
<1>1. ControlInv'
  BY DEF ControlInv, StartInv, RestInv, PlaceInv, StopInv, Busy
<1>2. TransferInv'
  BY DEF TransferInv, QueueInv, PhaseInv, ReadInv, WriteInv, DoneInv, Busy
<1> QED
  BY <1>1, <1>2 DEF DriverInv

-----------------------------------------------------------------------------
(* What callers do that set the state back only after a success.           *)

(* The result of a transfer that is done is taken.                         *)
Takes ==
  /\ isr = "off" /\ thread = "back" /\ i2c1_state = "I2C_DONE"
  /\ i2c1_state' = "I2C_IDLE" /\ thread' = "out"
  /\ UNCHANGED <<hwvars, desc, buf, hits, isr, irq_status>>

(* A transfer that failed is given up on, or waited for.                   *)
GivesUp ==
  /\ isr = "off" /\ thread \in {"out", "back"} /\ i2c1_state = "I2C_ERROR"
  /\ thread' \in {"out", "panic", "check"}
  /\ UNCHANGED <<hwvars, drvvars>>

Moves == DriverNext \/ Begins \/ Takes \/ GivesUp \/ UNCHANGED i2cvars

(* The two are steps of a caller between two transfers.                    *)
LEMMA MovesYield == ASSUME Takes \/ GivesUp PROVE Yields
  BY DEF Takes, GivesUp, Yields, drvvars

LEMMA MovesType == ASSUME DriverTypeOK, Moves PROVE DriverTypeOK'
  BY MovesYield, DriverType, BeginsType, YieldsType, SameType DEF Moves

LEMMA MovesInv == ASSUME DriverTypeOK, DriverInv, Moves, PromptStart PROVE DriverInv'
<1>1. CASE Takes
  BY <1>1, TakeInv DEF Takes
<1>2. CASE GivesUp
  BY <1>2, GiveUpInv DEF GivesUp, Starting, drvvars
<1> QED
  BY <1>1, <1>2, DriverStepInv, BeginsInv, DriverSameInv DEF Moves

-----------------------------------------------------------------------------
(* The counters of a descriptor follow one another.                        *)
Counters == desc.received <= desc.issued /\ desc.issued <= desc.length

(* Before the first transfer all counters of the descriptor are 0.         *)
LEMMA CountersInit == DriverInit => Counters
<1>1. ASSUME DriverInit PROVE desc = ReadDescriptor(0, 0)
  BY <1>1 DEF DriverInit
<1>2. 0 \in Byte
  BY ControllerAssumption DEF Byte
<1> QED
  BY <1>1, <1>2, ReadDescriptorType DEF Counters

(* A new descriptor counts from 0.                                         *)
LEMMA CountersBegin == ASSUME DriverTypeOK, Begins PROVE Counters'
<1>1. ASSUME NEW reg \in Byte, NEW len \in Nat \ {0}, StartRead(reg, len) PROVE Counters'
  BY <1>1, ReadDescriptorType DEF StartRead, Counters
<1>2. ASSUME NEW a \in Seq(Byte), NEW d \in Seq(Byte), Len(a) = Len(d), StartWrite(a, d)
      PROVE  Counters'
  BY <1>2, WriteDescriptorType, LenProperties DEF StartWrite, Counters
<1> QED
  BY <1>1, <1>2 DEF Begins

(* The steps of the driver that change the descriptor or the buffer.       *)
LEMMA DescSteps ==
  ASSUME DriverNext \/ Yields \/ UNCHANGED i2cvars
  PROVE  \/ IsrAbort \/ IsrOver \/ IsrDrain \/ PumpRead \/ PumpWrite
         \/ UNCHANGED <<desc, buf>>
  BY DEF DriverNext, BusStep, Tick, IsrNext, ApiNext, StartReadCmd, StartState,
         StartMask, WaitCheck, WaitSleep, Yields, IsrStorm, IsrEnter, IsrRx,
         IsrDrainEnd, IsrTx, PumpEnd, IsrStop, IsrStopEnd, IsrExit, ClearRx, i2cvars, drvvars

(* received follows issued, and issued follows length, in every step.      *)
LEMMA CountersStep ==
  ASSUME DriverTypeOK, Counters, DriverNext \/ Begins \/ Yields \/ UNCHANGED i2cvars
  PROVE  Counters'
<1>0. desc \in Descriptor /\ {desc.received, desc.issued, desc.length} \subseteq Nat
  BY DEF DriverTypeOK, Descriptor
<1>1. CASE Begins
  BY <1>1, CountersBegin
<1>3. CASE IsrAbort \/ IsrOver
  <2>1. /\ desc'.received = desc.received
        /\ desc'.issued = desc.issued
        /\ desc'.length = desc.length
    BY <1>0, <1>3 DEF ClearRx, IsrAbort, IsrOver, Descriptor
  <2> QED
    BY <2>1 DEF Counters
<1>4. CASE IsrDrain
  <2>1. /\ desc'.received = desc.received + 1
        /\ desc'.issued = desc.issued
        /\ desc'.length = desc.length
    BY <1>0, <1>4 DEF IsrDrain, Descriptor
  <2>2. desc.received < desc.issued
    BY <1>4 DEF IsrDrain, CanDrain
  <2> QED
    BY <1>0, <2>1, <2>2 DEF Counters
<1>5. CASE PumpRead \/ PumpWrite
  <2>1. desc.issued < desc.length
    BY <1>5 DEF PumpRead, PumpWrite, CanPump
  <2>2. /\ desc'.received = desc.received
        /\ desc'.issued \in {desc.issued, desc.issued + 1}
        /\ desc'.length = desc.length
    BY <1>0, <1>5 DEF PumpRead, PumpWrite, Descriptor
  <2> QED
    BY <1>0, <2>1, <2>2 DEF Counters
<1>6. CASE UNCHANGED <<desc, buf>>
  BY <1>6 DEF Counters
<1> QED
  BY <1>1, <1>3, <1>4, <1>5, <1>6, DescSteps

-----------------------------------------------------------------------------
(* What the handler has seen raised stays raised until it comes to it.     *)
SeenInv ==
  /\ isr \in {"over", "rx", "drain", "tx", "pump", "stop"} /\ "STOP_DET" \in irq_status =>
       "STOP_DET" \in latched
  /\ isr = "over" /\ "RX_OVER" \in irq_status => "RX_OVER" \in latched

(* Only the handler takes latched interrupts away.                         *)
LEMMA SeenStep ==
  ASSUME DriverTypeOK, SeenInv, DriverNext \/ Begins \/ Yields \/ UNCHANGED i2cvars
  PROVE  SeenInv'
<1>1. CASE BusStep
  <2>1. latched \subseteq latched' /\ UNCHANGED <<isr, irq_status>>
    BY <1>1 DEF BusStep, HwNext, HwFetch, HwWriteByte, HwReadByte, HwStop, HwAbort, drvvars
  <2> QED
    BY <2>1 DEF SeenInv
<1>2. CASE ApiNext \/ Begins \/ Yields \/ Tick \/ UNCHANGED i2cvars
  <2>1. UNCHANGED <<isr, irq_status, latched>>
    BY <1>2 DEF ApiNext, StartReadCmd, StartState, StartMask, WaitCheck, WaitSleep, Begins,
       StartRead, StartWrite, Yields, Tick, i2cvars, hwvars, drvvars
  <2> QED
    BY <2>1 DEF SeenInv
<1>3. CASE IsrStorm \/ IsrEnter
  BY <1>3 DEF IsrStorm, IsrEnter, Irq, IntrStat, SeenInv, hwvars
<1>4. CASE IsrAbort
  BY <1>4 DEF IsrAbort, SeenInv
<1>5. CASE IsrOver
  BY <1>5 DEF IsrOver, SeenInv
<1>6. CASE IsrRx \/ IsrDrain \/ IsrDrainEnd \/ IsrTx
  BY <1>6 DEF IsrRx, IsrDrain, IsrDrainEnd, IsrTx, SeenInv, hwvars
<1>7. CASE PumpRead \/ PumpWrite \/ PumpEnd
  BY <1>7 DEF PumpRead, PumpWrite, PumpEnd, SeenInv
<1>8. CASE IsrStop \/ IsrStopEnd \/ IsrExit
  BY <1>8 DEF IsrStop, IsrStopEnd, IsrExit, SeenInv, hwvars
<1> QED
  BY <1>1, <1>2, <1>3, <1>4, <1>5, <1>6, <1>7, <1>8 DEF DriverNext, IsrNext

(* TX_EMPTY is unmasked only while commands are left, and neither level is *)
(* after an error.                                                         *)
MaskInv ==
  /\ Busy /\ "TX_EMPTY" \in intr_mask /\ isr # "pump" => desc.issued < desc.length
  /\ i2c1_state = "I2C_ERROR" /\ isr \in {"off", "abort"} => intr_mask \cap Pacing = {}

(* The mask follows the state.                                             *)
LEMMA MaskStep ==
  ASSUME DriverTypeOK, DriverInv, Counters, MaskInv, Moves
  PROVE  MaskInv'
<1>1. desc \in Descriptor /\ desc.issued \in Nat /\ desc.length \in Nat
  BY SeriesType DEF DriverTypeOK
<1>2. CASE BusStep \/ WaitCheck \/ WaitSleep \/ Tick \/ GivesUp \/ UNCHANGED i2cvars
  <2>1. UNCHANGED <<isr, intr_mask, i2c1_state, desc, Busy>>
    BY <1>2 DEF BusStep, HwNext, HwFetch, HwWriteByte, HwReadByte, HwStop, HwAbort, WaitCheck,
       WaitSleep, Tick, GivesUp, i2cvars, hwvars, drvvars, Busy
  <2> QED
    BY <2>1 DEF MaskInv
<1>3. CASE Begins \/ Takes \/ StartReadCmd
  <2>1. i2c1_state' = "I2C_IDLE"
    BY <1>3 DEF Begins, StartRead, StartWrite, Takes, StartReadCmd, DriverInv, ControlInv,
       StartInv, Starting, drvvars
  <2> QED
    BY <2>1 DEF MaskInv, Busy
<1>4. CASE StartState
  <2>1. i2c1_state' # "I2C_ERROR" /\ intr_mask' \cap Pacing = {}
    BY <1>4 DEF StartState, DriverInv, ControlInv, StartInv, Starting, hwvars
  <2> QED
    BY <2>1 DEF MaskInv, Pacing
<1>5. CASE StartMask
  <2>1. i2c1_state' # "I2C_ERROR" /\ desc'.issued < desc'.length
    BY <1>1, <1>5 DEF StartMask, DriverInv, ControlInv, StartInv, Starting, drvvars
  <2> QED
    BY <2>1 DEF MaskInv
<1>6. CASE IsrStorm
  BY <1>6 DEF IsrStorm, MaskInv, Busy
<1>7. CASE IsrEnter
  BY <1>7 DEF IsrEnter, Irq, MaskInv, Busy, hwvars
<1>8. CASE IsrAbort
  <2>1. CASE Busy
    BY <1>8, <2>1 DEF IsrAbort, MaskInv, Busy, Pacing
  <2>2. CASE ~Busy
    BY <1>8, <2>2 DEF IsrAbort, MaskInv, Busy
  <2> QED
    BY <2>1, <2>2
<1>9. CASE IsrOver \/ IsrDrain
  <2>1. /\ isr \in {"over", "drain", "stop_drain"}
        /\ isr' \in {"rx", "drain", "stop_drain"} /\ UNCHANGED intr_mask
        /\ (i2c1_state' = i2c1_state \/ i2c1_state' = "I2C_ERROR")
        /\ desc'.issued = desc.issued /\ desc'.length = desc.length
    BY <1>1, <1>9 DEF IsrOver, IsrDrain, Descriptor
  <2> QED
    BY <2>1 DEF MaskInv, Busy
<1>10. CASE IsrRx \/ IsrDrainEnd \/ IsrTx
  BY <1>10 DEF IsrRx, IsrDrainEnd, IsrTx, MaskInv, Busy, hwvars
<1>11. CASE PumpRead \/ PumpWrite
  <2>1. isr' = "pump"
    BY <1>11 DEF PumpRead, PumpWrite
  <2> QED
    BY <2>1 DEF MaskInv
<1>12. CASE PumpEnd
  <2>1. /\ isr' = "stop" /\ UNCHANGED desc
        /\ (desc.issued = desc.length => "TX_EMPTY" \notin intr_mask')
    BY <1>12 DEF PumpEnd
  <2>2. desc.issued # desc.length => desc.issued < desc.length
    BY <1>1 DEF Counters
  <2> QED
    BY <2>1, <2>2 DEF MaskInv
<1>13. CASE IsrStop \/ IsrStopEnd \/ IsrExit
  BY <1>13 DEF IsrStop, IsrStopEnd, IsrExit, MaskInv, Busy, Pacing, hwvars
<1> QED
  BY <1>2, <1>3, <1>4, <1>5, <1>6, <1>7, <1>8, <1>9, <1>10, <1>11, <1>12, <1>13
  DEF Moves, DriverNext, ApiNext, IsrNext

-----------------------------------------------------------------------------
(* The bus of a read: nothing can abort it once a byte is on its way, and  *)
(* a byte that was lost is missing from what the read can still do.        *)
WireInv ==
  i2c1_state = "I2C_READING" =>
    /\ ~Aborted /\ 1 < Completed /\ Completed < Total(desc) => bus = "read"
    /\ Aborted => desc.received = 0 /\ ~Overrun
    /\ Overrun => ((desc.received + Len(rx)) + Len(tx)) + 1 <= desc.issued

(* A read that is in progress counts these.                                *)
LEMMA ReadFacts ==
  ASSUME DriverTypeOK, DriverInv, i2c1_state = "I2C_READING"
  PROVE  /\ desc \in Descriptor /\ IsRead /\ Busy
         /\ desc.issued \in Nat /\ desc.received \in Nat /\ desc.length \in Nat \ {0}
         /\ Len(tx) \in Nat /\ Len(rx) \in Nat
         /\ Issued(desc) = desc.issued + 1 /\ Total(desc) = desc.length + 1
         /\ Completed = (desc.issued + 1) - Len(tx)
<1>1. desc \in Descriptor /\ IsRead /\ Busy /\ desc.length > 0
  BY DEF DriverTypeOK, DriverInv, ControlInv, RestInv, Busy
<1>2. desc.issued \in Nat /\ desc.received \in Nat /\ desc.length \in Nat
  BY <1>1, SeriesType
<1>3. Issued(desc) = desc.issued + 1 /\ Total(desc) = desc.length + 1
  BY <1>1, Zenon DEF Issued, Total, IsRead
<1>4. Len(tx) \in Nat /\ Len(rx) \in Nat
  BY LenProperties DEF DriverTypeOK, ControllerTypeOK
<1> QED
  BY <1>1, <1>2, <1>3, <1>4 DEF Completed

(* A step that leaves the transfer where it is.                            *)
LEMMA WireSame ==
  ASSUME WireInv, UNCHANGED <<tx, rx, bus, desc, i2c1_state, latched>>
  PROVE  WireInv'
  BY DEF WireInv, Completed, Aborted, Overrun

(* A read can be aborted at the register address or at the restart, before *)
(* any byte of it is received.                                             *)
LEMMA AbortIsEarly ==
  ASSUME DriverTypeOK, DriverInv, WireInv, BusStep, PromptStart, i2c1_state = "I2C_READING",
         NEW source \in AbortSource, HwAbort(source)
  PROVE  ~Overrun /\ desc.received = 0 /\ rx = <<>>
<1>1. /\ desc.issued \in Nat /\ desc.received \in Nat /\ Len(tx) \in Nat /\ Len(rx) \in Nat
      /\ Completed = (desc.issued + 1) - Len(tx)
  BY ReadFacts
<1>2. tx # <<>> /\ ~Aborted /\ QueueInv /\ Busy /\ i2c1_state # "I2C_ERROR"
  BY WireIsBusy DEF HwAbort, DriverInv, TransferInv, DriverTypeOK, ControllerTypeOK
<1>3. /\ Completed \in Nat /\ Completed < Total(desc)
      /\ Head(tx) = Command(desc, Completed)
  BY <1>2, Pop
<1>4. ~(1 < Completed)
  <2> SUFFICES ASSUME 1 < Completed PROVE FALSE
    OBVIOUS
  <2>1. bus = "read"
    BY <1>2, <1>3 DEF WireInv
  <2>2. desc.write_registers = <<>> /\ Completed # 0
    BY <1>3, ReadFacts DEF IsRead
  <2>3. Head(tx) = ReadCmd(Completed = 1, Completed = desc.length)
    BY ONLY <1>3, <2>2, ReadCommand, Zenon
  <2>4. (Completed = 1) = FALSE
    BY <1>3
  <2>5. Head(tx) = ReadCmd(FALSE, Completed = desc.length)
    BY ONLY <2>3, <2>4, Zenon
  <2>6. Head(tx).read = TRUE /\ Head(tx).restart = FALSE
    BY ONLY <2>5 DEF ReadCmd
  <2> QED
    BY <2>1, <2>6 DEF HwAbort
<1>5. ~Overrun
  BY <1>1, <1>4 DEF WireInv
<1>6. desc.received + Len(rx) = 0
  BY <1>1, <1>2, <1>3, <1>4, <1>5, SMTT(30) DEF DriverInv, TransferInv, ReadInv
<1> QED
  BY <1>1, <1>5, <1>6, EmptySeq DEF DriverTypeOK, ControllerTypeOK

(* The steps of the controller during a read.                              *)
LEMMA WireBusStep ==
  ASSUME DriverTypeOK, DriverInv, WireInv, BusStep, PromptStart
  PROVE  WireInv'
<1> SUFFICES ASSUME i2c1_state = "I2C_READING" PROVE WireInv'
  BY DEF BusStep, drvvars, WireInv
<1>1. /\ desc.issued \in Nat /\ desc.received \in Nat /\ desc.length \in Nat \ {0}
      /\ Len(tx) \in Nat /\ Len(rx) \in Nat /\ Total(desc) = desc.length + 1
      /\ Completed = (desc.issued + 1) - Len(tx)
      /\ UNCHANGED drvvars /\ HwNext
  BY ReadFacts DEF BusStep
<1>2. CASE HwFetch
  BY <1>1, <1>2, WireSame DEF HwFetch, drvvars
<1>3. CASE HwWriteByte
  <2>1. Completed = 0 /\ ~Aborted /\ tx # <<>> /\ QueueInv /\ Busy
    BY <1>3, ReadAddressFirst DEF DriverInv, TransferInv
  <2>2. tx' = Tail(tx) /\ UNCHANGED <<rx, latched, i2c1_state, desc>>
    BY <1>1, <1>3 DEF HwWriteByte, Complete, drvvars
  <2>3. Completed' = Completed + 1
    BY <2>1, <2>2, QueueAfterPop
  <2>4. ~Overrun
    BY <1>1, <2>1 DEF WireInv
  <2>5. UNCHANGED <<Aborted, Overrun>>
    BY <2>2 DEF Aborted, Overrun
  <2> QED
    BY <2>1, <2>3, <2>4, <2>5 DEF WireInv
<1>4. CASE HwReadByte
  <2>1. /\ Completed \in Nat \ {0} /\ Completed < Total(desc) /\ Completed' = Completed + 1
        /\ Len(tx') = Len(tx) - 1 /\ ~Aborted
        /\ bus' = (IF Completed = desc.length THEN "stop" ELSE "read")
    BY <1>1, <1>4, ReadByteFacts
  <2>2. ~Aborted' /\ UNCHANGED <<i2c1_state, desc>>
    BY <1>1, <1>4, <2>1 DEF HwReadByte, Aborted, drvvars
  <2>3. Completed' < Total(desc) => bus' = "read"
    BY <1>1, <2>1, SMTT(30)
  <2>4. Overrun' => ((desc.received + Len(rx')) + Len(tx')) + 1 <= desc.issued
    <3>1. CASE Len(rx) < RxDepth
      <4>1. UNCHANGED latched /\ Len(rx') = Len(rx) + 1
        BY <1>4, <3>1 DEF HwReadByte, DriverTypeOK, ControllerTypeOK
      <4> QED
        BY <1>1, <2>1, <4>1, SMTT(30) DEF WireInv, Overrun
    <3>2. CASE ~(Len(rx) < RxDepth)
      <4>1. rx' = rx
        BY <1>4, <3>2 DEF HwReadByte
      <4>2. CASE Overrun
        BY <1>1, <2>1, <4>1, <4>2, SMTT(30) DEF WireInv
      <4>3. CASE ~Overrun
        <5>1. desc.received + Len(rx) = Completed - 1
          BY <2>1, <4>3 DEF DriverInv, TransferInv, ReadInv
        <5> QED
          BY <1>1, <2>1, <4>1, <5>1, SMTT(30)
      <4> QED
        BY <4>2, <4>3
    <3> QED
      BY <3>1, <3>2
  <2> QED
    BY <2>2, <2>3, <2>4 DEF WireInv
<1>5. CASE HwStop
  <2>1. /\ bus = "stop" /\ UNCHANGED <<tx, rx, i2c1_state, desc, Completed, Aborted, Overrun>>
    BY <1>1, <1>5 DEF HwStop, drvvars, Completed, Aborted, Overrun
  <2> QED
    BY <2>1 DEF WireInv
<1>6. ASSUME NEW source \in AbortSource, HwAbort(source) PROVE WireInv'
  <2>1. ~Overrun /\ desc.received = 0
    BY <1>6, AbortIsEarly
  <2>2. Aborted' /\ ~Overrun' /\ UNCHANGED desc
    BY <1>1, <1>6, <2>1 DEF HwAbort, Aborted, Overrun, drvvars
  <2> QED
    BY <2>1, <2>2 DEF WireInv
<1> QED
  BY <1>1, <1>2, <1>3, <1>4, <1>5, <1>6 DEF HwNext

(* The drain and the pump move a read on, and lose nothing.                *)
LEMMA WireStep ==
  ASSUME DriverTypeOK, DriverInv, WireInv, Moves, PromptStart
  PROVE  WireInv'
<1>1. CASE BusStep
  BY <1>1, WireBusStep
<1>2. CASE Begins \/ Takes \/ GivesUp \/ StartReadCmd
  <2>1. i2c1_state' # "I2C_READING"
    BY <1>2 DEF Begins, StartRead, StartWrite, Takes, GivesUp, StartReadCmd, DriverInv,
       ControlInv, StartInv, Starting, drvvars
  <2> QED
    BY <2>1 DEF WireInv
<1>3. CASE StartState
  <2>1. /\ latched = {} /\ UNCHANGED <<tx, latched, desc>>
        /\ desc.issued = 0 /\ tx = (IF thread = "r_state" THEN <<WriteCmd(desc.reg_addr, FALSE)>>
                                    ELSE <<>>)
        /\ (IsRead <=> thread = "r_state")
    BY <1>3 DEF StartState, DriverInv, ControlInv, StartInv, Starting, Quiet, hwvars
  <2>2. CASE thread = "r_state"
    <3>1. Issued(desc) = 1 /\ Len(tx) = 1
      BY <2>1, <2>2 DEF Issued, IsRead
    <3>2. Completed' = 0
      BY <2>1, <3>1 DEF Completed
    <3> QED
      BY <2>1, <3>2 DEF WireInv, Aborted, Overrun
  <2>3. CASE thread # "r_state"
    BY <1>3, <2>3 DEF StartState, WireInv
  <2> QED
    BY <2>2, <2>3
<1>4. CASE StartMask \/ WaitCheck \/ WaitSleep \/ Tick \/ UNCHANGED i2cvars
  <2>1. UNCHANGED <<tx, rx, bus, desc, i2c1_state, latched>>
    BY <1>4 DEF StartMask, WaitCheck, WaitSleep, Tick, i2cvars, hwvars, drvvars
  <2> QED
    BY <2>1, WireSame
<1>5. CASE IsrNext
  <2> SUFFICES ASSUME i2c1_state' = "I2C_READING" PROVE WireInv'
    BY DEF WireInv
  <2>1. i2c1_state = "I2C_READING"
    BY <1>5 DEF IsrNext, IsrStorm, IsrEnter, IsrAbort, IsrOver, IsrRx, IsrDrain, IsrDrainEnd,
       IsrTx, PumpRead, PumpWrite, PumpEnd, IsrStop, IsrStopEnd, IsrExit
  <2>2. /\ desc \in Descriptor /\ desc.issued \in Nat /\ desc.received \in Nat
        /\ Len(tx) \in Nat /\ Len(rx) \in Nat
    BY <2>1, ReadFacts
  <2>3. CASE IsrStorm \/ IsrAbort \/ PumpWrite \/ IsrStopEnd
    BY <2>1, <2>3 DEF IsrStorm, IsrAbort, PumpWrite, IsrStopEnd, Busy
  <2>4. CASE IsrEnter \/ IsrDrainEnd \/ IsrTx \/ PumpEnd \/ IsrExit \/ IsrRx
    <3>1. UNCHANGED <<tx, rx, bus, desc, i2c1_state, latched>>
      BY <2>1, <2>4 DEF IsrEnter, IsrDrainEnd, IsrTx, PumpEnd, IsrExit, IsrRx, hwvars
    <3> QED
      BY <3>1, WireSame
  <2>5. CASE IsrOver
    <3>1. UNCHANGED <<tx, rx, bus, desc, i2c1_state, latched>>
      BY <2>1, <2>5 DEF IsrOver
    <3> QED
      BY <3>1, WireSame
  <2>6. CASE IsrDrain
    <3>1. /\ rx # <<>> /\ rx' = Tail(rx) /\ UNCHANGED <<tx, bus, latched>>
          /\ desc' = [desc EXCEPT !.received = desc.received + 1]
      BY <2>6 DEF IsrDrain, CanDrain, RxNotEmpty
    <3>2. /\ desc'.received = desc.received + 1 /\ desc'.issued = desc.issued
          /\ desc'.length = desc.length /\ desc'.write_registers = desc.write_registers
          /\ desc'.data = desc.data /\ desc'.reg_addr = desc.reg_addr
          /\ desc'.write_is_data = desc.write_is_data
      BY <2>2, <3>1 DEF Descriptor
    <3>3. Len(rx') = Len(rx) - 1
      BY <3>1, HeadTailProperties DEF DriverTypeOK, ControllerTypeOK
    <3>4. Issued(desc') = Issued(desc) /\ Total(desc') = Total(desc)
      BY <3>2, SameSeries
    <3>5. UNCHANGED <<Completed, Aborted, Overrun>>
      BY <3>1, <3>4 DEF Completed, Aborted, Overrun
    <3>6. ~Aborted
      BY <2>1, <3>1 DEF DriverInv, TransferInv, PhaseInv, Busy
    <3>7. ((desc'.received + Len(rx')) + Len(tx')) + 1 = ((desc.received + Len(rx)) + Len(tx)) + 1
      BY <2>2, <3>1, <3>2, <3>3
    <3> QED
      BY <2>1, <3>1, <3>2, <3>4, <3>5, <3>6, <3>7 DEF WireInv
  <2>7. CASE PumpRead
    <3>1. /\ desc'.issued = desc.issued + 1 /\ desc'.received = desc.received
          /\ UNCHANGED <<rx, bus, latched, Aborted>> /\ (~Aborted => Completed' = Completed)
      BY <2>7, PumpReadFacts
    <3>2. Total(desc') = Total(desc)
      BY <2>7, PumpReadFacts, SameSeries
    <3>3. Len(tx') <= Len(tx) + 1 /\ Len(tx') \in Nat
      BY <2>2, <2>7 DEF PumpRead, PushCmd, DriverTypeOK, ControllerTypeOK
    <3>4. UNCHANGED Overrun
      BY <3>1 DEF Overrun
    <3> QED
      BY <2>1, <2>2, <3>1, <3>2, <3>3, <3>4, SMTT(30) DEF WireInv
  <2>8. CASE IsrStop
    <3>1. /\ UNCHANGED <<tx, rx, bus, desc>>
          /\ latched' = latched \ (irq_status \cap {"STOP_DET"})
      BY <2>1, <2>8 DEF IsrStop
    <3>2. UNCHANGED <<Completed, Aborted, Overrun>>
      BY <3>1 DEF Completed, Aborted, Overrun
    <3> QED
      BY <2>1, <3>1, <3>2 DEF WireInv
  <2> QED
    BY <1>5, <2>3, <2>4, <2>5, <2>6, <2>7, <2>8 DEF IsrNext
<1> QED
  BY <1>1, <1>2, <1>3, <1>4, <1>5 DEF Moves, DriverNext, ApiNext

-----------------------------------------------------------------------------
(* Entries during a transfer.                                              *)

(* Between the halves of a pair, the pair is not counted yet.              *)
HalfInv == desc.write_is_data => ~IsRead /\ desc.issued < desc.length

(* How far the handler has moved the transfer on: commands issued, and     *)
(* bytes of a read stored.                                                 *)
Progress == IF IsRead THEN desc.issued + desc.received ELSE Issued(desc)

(* What the handler has seen and will still get to: a STOP, a lost byte, a *)
(* byte to store, a command to issue.                                      *)
StopAhead == "STOP_DET" \in irq_status /\ isr \in {"over", "rx", "drain", "tx", "pump", "stop"}
OverAhead == "RX_OVER" \in irq_status /\ isr = "over" /\ i2c1_state = "I2C_READING"
ByteAhead ==
  /\ "RX_FULL" \in irq_status /\ isr \in {"over", "rx", "drain"}
  /\ i2c1_state = "I2C_READING" /\ rx # <<>> /\ desc.received < desc.issued
CmdAhead ==
  /\ "TX_EMPTY" \in irq_status /\ isr \in {"over", "rx", "drain", "tx", "pump"}
  /\ TxLevel = 0 /\ desc.issued < desc.length
Cause ==
  \/ isr \in {"abort", "stop_drain", "stop_end"}
  \/ StopAhead \/ OverAhead \/ ByteAhead \/ CmdAhead

(* Every entry during a transfer has moved it on, or is about to.          *)
BusyEntries == Busy => hits <= Progress + (IF Cause THEN 1 ELSE 0)

LEMMA HalfStep == ASSUME DriverTypeOK, DriverInv, HalfInv, Moves PROVE HalfInv'
<1>1. desc \in Descriptor /\ desc.issued \in Nat /\ desc.length \in Nat
  BY SeriesType DEF DriverTypeOK
<1>2. CASE Begins
  <2>1. ~desc'.write_is_data
    BY <1>2 DEF Begins, StartRead, StartWrite, ReadDescriptor, WriteDescriptor, NewDescriptor
  <2> QED
    BY <2>1 DEF HalfInv
<1>3. CASE PumpRead
  <2>1. ~desc.write_is_data
    BY <1>3, PumpReadFacts DEF HalfInv
  <2>2. desc'.write_is_data = desc.write_is_data
    BY <1>1, <1>3 DEF PumpRead, Descriptor
  <2> QED
    BY <2>1, <2>2 DEF HalfInv
<1>4. CASE PumpWrite
  <2>1. CASE desc.write_is_data
    <3>1. desc' = [desc EXCEPT !.issued = @ + 1, !.write_is_data = FALSE]
      BY <1>4, <2>1 DEF PumpWrite
    <3>2. desc'.write_is_data = FALSE
      BY <1>1, <3>1 DEF Descriptor
    <3> QED
      BY <3>2 DEF HalfInv
  <2>2. CASE ~desc.write_is_data
    <3>1. desc' = [desc EXCEPT !.write_is_data = TRUE]
      BY <1>4, <2>2 DEF PumpWrite
    <3>2. /\ desc'.issued = desc.issued /\ desc'.length = desc.length
          /\ desc'.write_registers = desc.write_registers
      BY <1>1, <3>1 DEF Descriptor
    <3>3. ~IsRead /\ desc.issued < desc.length
      BY <1>4, PumpWriteFacts DEF CanPump
    <3> QED
      BY <3>2, <3>3 DEF HalfInv, IsRead
  <2> QED
    BY <2>1, <2>2
<1>5. CASE IsrAbort \/ IsrOver \/ IsrDrain
  <2>1. /\ desc'.issued = desc.issued /\ desc'.length = desc.length
        /\ desc'.write_registers = desc.write_registers
        /\ desc'.write_is_data = desc.write_is_data
    BY <1>1, <1>5 DEF IsrAbort, IsrOver, IsrDrain, Descriptor
  <2> QED
    BY <2>1 DEF HalfInv, IsRead
<1>6. CASE UNCHANGED desc
  BY <1>6 DEF HalfInv, IsRead
<1>7. Takes \/ GivesUp => Yields
  BY MovesYield
<1> QED
  BY <1>2, <1>3, <1>4, <1>5, <1>6, <1>7, DescSteps DEF Moves

(* What is issued and stored is at most twice the length.                  *)
LEMMA ProgressBound ==
  ASSUME DriverTypeOK, Counters, HalfInv
  PROVE  Progress \in Nat /\ desc.length \in Nat /\ Progress <= 2 * desc.length
<1>1. /\ desc.issued \in Nat /\ desc.received \in Nat /\ desc.length \in Nat
      /\ desc.write_is_data \in BOOLEAN
  BY SeriesType DEF DriverTypeOK
<1>2. /\ IsRead => Progress = desc.issued + desc.received
      /\ ~IsRead /\ desc.write_is_data => Progress = 2 * desc.issued + 1
      /\ ~IsRead /\ ~desc.write_is_data => Progress = 2 * desc.issued + 0
  BY Zenon DEF Progress, Issued, IsRead
<1>3. CASE IsRead
  BY <1>1, <1>2, <1>3 DEF Counters
<1>4. CASE ~IsRead /\ desc.write_is_data
  BY <1>1, <1>2, <1>4 DEF HalfInv
<1>5. CASE ~IsRead /\ ~desc.write_is_data
  BY <1>1, <1>2, <1>5 DEF Counters
<1> QED
  BY <1>3, <1>4, <1>5

(* The controller never takes a command by itself that it has not started, *)
(* so an empty FIFO stays empty, ...                                       *)
LEMMA EmptyStaysEmpty == ASSUME ControllerTypeOK, HwNext, TxLevel = 0 PROVE TxLevel' = 0
<1>1. tx \in Seq(Cmd) /\ Len(tx) \in Nat /\ (tx = <<>> <=> Len(tx) = 0)
      /\ (shifting => tx # <<>>) /\ shifting \in BOOLEAN
  BY LenProperties, EmptySeq DEF ControllerTypeOK
<1>2. CASE HwFetch
  BY <1>1, <1>2 DEF HwFetch, TxLevel
<1>3. CASE HwWriteByte \/ HwReadByte
  <2>1. shifting /\ tx' = Tail(tx) /\ ~shifting'
    BY <1>3 DEF HwWriteByte, HwReadByte, Complete
  <2>2. Len(tx') = Len(tx) - 1
    BY <1>1, <2>1, HeadTailProperties
  <2> QED
    BY <2>1, <2>2 DEF TxLevel
<1>4. CASE HwStop
  BY <1>4 DEF HwStop, TxLevel
<1>5. ASSUME NEW source, HwAbort(source) PROVE TxLevel' = 0
  BY <1>5, EmptySeq DEF HwAbort, TxLevel
<1> QED
  BY <1>2, <1>3, <1>4, <1>5 DEF HwNext

(* ... and what the handler has seen is still there when it gets to it.    *)
LEMMA CauseBusStep ==
  ASSUME DriverTypeOK, DriverInv, WireInv, BusStep, PromptStart, Cause
  PROVE  Cause'
<1>1. UNCHANGED drvvars /\ HwNext /\ ControllerTypeOK
  BY DEF BusStep, DriverTypeOK
<1>2. CmdAhead => CmdAhead'
  BY <1>1, EmptyStaysEmpty DEF CmdAhead, drvvars
<1>3. StopAhead \/ OverAhead => StopAhead' \/ OverAhead'
  BY <1>1 DEF StopAhead, OverAhead, drvvars
<1>4. ByteAhead => ByteAhead'
  <2> SUFFICES ASSUME ByteAhead PROVE ByteAhead'
    OBVIOUS
  <2>1. rx # <<>> /\ i2c1_state = "I2C_READING" /\ rx \in Seq(Byte)
    BY DEF ByteAhead, DriverTypeOK, ControllerTypeOK
  <2>2. \A source \in AbortSource : ~HwAbort(source)
    BY <2>1, AbortIsEarly
  <2>3. rx' = rx \/ rx' = Append(rx, regs[ptr])
    BY <1>1, <2>2 DEF HwNext, HwFetch, HwWriteByte, HwReadByte, HwStop
  <2>4. rx' # <<>>
    <3>1. regs[ptr] \in Byte
      BY DEF DriverTypeOK, ControllerTypeOK
    <3>2. Len(Append(rx, regs[ptr])) = Len(rx) + 1 /\ Len(rx) \in Nat
      BY <2>1, <3>1
    <3> QED
      BY <2>1, <2>3, <3>2, EmptySeq
  <2> QED
    BY <1>1, <2>4 DEF ByteAhead, drvvars
<1> QED
  BY <1>1, <1>2, <1>3, <1>4 DEF Cause, drvvars

(* A transfer starts its count anew.                                       *)
StartEntries == thread \in Starting => hits = 0

LEMMA StartEntriesStep ==
  ASSUME DriverTypeOK, DriverInv, StartEntries, Moves PROVE StartEntries'
<1>1. CASE Begins
  BY <1>1 DEF Begins, StartRead, StartWrite, StartEntries
<1>2. CASE IsrStorm \/ IsrEnter
  BY <1>2, IrqFacts DEF IsrStorm, IsrEnter, Wake, StartEntries, Starting
<1>3. CASE BusStep \/ ApiNext \/ Tick \/ Takes \/ GivesUp \/ UNCHANGED i2cvars
  <2>1. UNCHANGED hits /\ (thread' \in Starting => thread \in Starting)
    BY <1>3 DEF BusStep, ApiNext, StartReadCmd, StartState, StartMask, WaitCheck, WaitSleep,
       Tick, Wake, Takes, GivesUp, i2cvars, drvvars, Starting
  <2> QED
    BY <2>1 DEF StartEntries
<1>4. CASE IsrNext /\ ~(IsrStorm \/ IsrEnter)
  BY <1>4 DEF IsrNext, IsrAbort, IsrOver, IsrRx, IsrDrain, IsrDrainEnd, IsrTx, PumpRead,
     PumpWrite, PumpEnd, IsrStop, IsrStopEnd, IsrExit, StartEntries
<1> QED
  BY <1>1, <1>2, <1>3, <1>4 DEF Moves, DriverNext

(* An entry has a cause the handler will get to.                           *)
LEMMA EntryHasCause ==
  ASSUME DriverTypeOK, DriverInv, WireInv, MaskInv, IsrEnter, Busy
  PROVE  Cause'
<1>1. /\ isr = "off" /\ IntrStat # {} /\ irq_status' = IntrStat
      /\ isr' = (IF "TX_ABRT" \in IntrStat THEN "abort" ELSE "over")
      /\ UNCHANGED <<hwvars, i2c1_state, desc>>
  BY DEF IsrEnter, Irq
<1>2. UNCHANGED <<tx, shifting, rx, latched, intr_mask>>
  BY <1>1 DEF hwvars
<1>3. CASE "TX_ABRT" \in IntrStat
  BY <1>1, <1>3 DEF Cause
<1>4. CASE "STOP_DET" \in IntrStat /\ "TX_ABRT" \notin IntrStat
  BY <1>1, <1>4 DEF Cause, StopAhead
<1>5. CASE "RX_OVER" \in IntrStat /\ "TX_ABRT" \notin IntrStat
  <2>1. Overrun
    BY <1>5 DEF IntrStat, Overrun
  <2>2. i2c1_state = "I2C_READING"
    BY <2>1 DEF Busy, DriverInv, TransferInv, WriteInv
  <2> QED
    BY <1>1, <1>5, <2>2 DEF Cause, OverAhead
<1>6. CASE "RX_FULL" \in IntrStat /\ IntrStat \cap {"TX_ABRT", "RX_OVER"} = {}
  <2>1. rx # <<>>
    BY <1>6 DEF IntrStat, RxNotEmpty, DriverTypeOK, ControllerTypeOK, Latching
  <2>2. i2c1_state = "I2C_READING"
    BY <2>1 DEF Busy, DriverInv, TransferInv, WriteInv
  <2>3. Always \subseteq intr_mask
    BY <2>2 DEF DriverInv, ControlInv, RestInv
  <2>4. ~Aborted /\ ~Overrun
    BY <1>6, <2>3 DEF IntrStat, Always, Aborted, Overrun
  <2>5. Len(rx) # 0
    BY <2>1, EmptySeq DEF DriverTypeOK, ControllerTypeOK
  <2>6. desc.received < desc.issued
    BY <2>2, <2>4, <2>5, ReadFacts DEF DriverInv, TransferInv, ReadInv
  <2> QED
    BY <1>1, <1>2, <1>6, <2>1, <2>2, <2>6 DEF Cause, ByteAhead
<1>7. CASE "TX_EMPTY" \in IntrStat /\ "TX_ABRT" \notin IntrStat
  <2>1. TxLevel = 0 /\ "TX_EMPTY" \in intr_mask
    BY <1>7 DEF IntrStat, DriverTypeOK, ControllerTypeOK, Latching
  <2>2. desc.issued < desc.length
    BY <1>1, <2>1 DEF MaskInv
  <2>3. TxLevel' = 0
    BY <1>2, <2>1 DEF TxLevel
  <2> QED
    BY <1>1, <1>7, <2>2, <2>3 DEF Cause, CmdAhead
<1>8. IntrStat \subseteq {"TX_ABRT", "RX_OVER", "STOP_DET", "TX_EMPTY", "RX_FULL"}
  BY DEF IntrStat, DriverTypeOK, ControllerTypeOK, Interrupt
<1> QED
  BY <1>1, <1>3, <1>4, <1>5, <1>6, <1>7, <1>8

(* A turn of the drain or of the pump is one step forward.                 *)
LEMMA Forward ==
  ASSUME DriverTypeOK, DriverInv, Counters, HalfInv, IsrDrain \/ PumpRead \/ PumpWrite
  PROVE  Progress' = Progress + 1 /\ Progress \in Nat
<1>1. desc \in Descriptor /\ desc.issued \in Nat /\ desc.received \in Nat /\ Progress \in Nat
  BY ProgressBound, SeriesType DEF DriverTypeOK
<1>2. CASE IsrDrain
  <2>1. i2c1_state = "I2C_READING"
    BY <1>2 DEF IsrDrain, DriverInv, ControlInv, PlaceInv
  <2>2. IsRead
    BY <2>1, ReadFacts
  <2>3. /\ desc'.issued = desc.issued /\ desc'.received = desc.received + 1
        /\ desc'.write_registers = desc.write_registers
    BY <1>1, <1>2 DEF IsrDrain, Descriptor
  <2> QED
    BY <1>1, <2>2, <2>3 DEF Progress, IsRead
<1>3. CASE PumpRead
  <2>1. /\ desc'.issued = desc.issued + 1 /\ desc'.received = desc.received /\ IsRead
        /\ desc'.write_registers = desc.write_registers
    BY <1>3, PumpReadFacts
  <2> QED
    BY <1>1, <2>1 DEF Progress, IsRead
<1>4. CASE PumpWrite
  <2>1. /\ Issued(desc') = Issued(desc) + 1 /\ ~IsRead
        /\ desc'.write_registers = desc.write_registers
    BY <1>4, PumpWriteFacts
  <2> QED
    BY <1>1, <2>1 DEF Progress, IsRead
<1> QED
  BY <1>2, <1>3, <1>4

(* Inside the handler the cause is acted on or stays ahead.                *)
LEMMA CauseKept ==
  ASSUME DriverTypeOK, DriverInv, Cause, Busy, Busy',
         IsrOver \/ IsrRx \/ IsrDrainEnd \/ IsrTx \/ PumpEnd \/ IsrStop \/ IsrStopEnd \/ IsrExit
  PROVE  Cause'
<1> USE DEF Cause, StopAhead, OverAhead, ByteAhead, CmdAhead
<1>1. CASE IsrOver
  <2>1. /\ isr = "over" /\ isr' = "rx"
        /\ UNCHANGED <<tx, shifting, rx, desc, i2c1_state, irq_status>>
        /\ ~("RX_OVER" \in irq_status /\ i2c1_state = "I2C_READING")
    BY <1>1 DEF IsrOver, Busy
  <2>2. UNCHANGED TxLevel
    BY <2>1 DEF TxLevel
  <2> QED
    BY <2>1, <2>2
<1>2. CASE IsrRx
  <2>1. /\ isr = "rx" /\ UNCHANGED <<tx, shifting, desc, i2c1_state, irq_status>>
        /\ \/ isr' = "tx" /\ ~("RX_FULL" \in irq_status /\ i2c1_state = "I2C_READING")
           \/ isr' = "drain" /\ UNCHANGED rx
    BY <1>2 DEF IsrRx
  <2>2. UNCHANGED TxLevel
    BY <2>1 DEF TxLevel
  <2> QED
    BY <2>1, <2>2
<1>3. CASE IsrDrainEnd
  <2>1. /\ UNCHANGED <<tx, shifting, rx, desc, i2c1_state, irq_status>>
        /\ \/ isr = "drain" /\ isr' = "tx"
           \/ isr = "stop_drain" /\ isr' = "stop_end"
        /\ ~(desc.received < desc.issued /\ rx # <<>>)
    BY <1>3 DEF IsrDrainEnd, CanDrain, RxNotEmpty, hwvars
  <2>2. UNCHANGED TxLevel
    BY <2>1 DEF TxLevel
  <2> QED
    BY <2>1, <2>2
<1>4. CASE IsrTx
  <2>1. /\ isr = "tx" /\ UNCHANGED <<tx, shifting, rx, desc, i2c1_state, irq_status>>
        /\ isr' = (IF "TX_EMPTY" \in irq_status THEN "pump" ELSE "stop")
    BY <1>4 DEF IsrTx, hwvars
  <2>2. UNCHANGED TxLevel
    BY <2>1 DEF TxLevel
  <2> QED
    BY <2>1, <2>2
<1>5. CASE PumpEnd
  <2>1. /\ isr = "pump" /\ isr' = "stop" /\ UNCHANGED irq_status
        /\ ~(desc.issued < desc.length /\ TxNotFull)
    BY <1>5 DEF PumpEnd, CanPump
  <2>2. TxLevel = 0 => TxNotFull
    BY ControllerAssumption DEF TxNotFull
  <2> QED
    BY <2>1, <2>2
<1>6. CASE IsrStop
  <2>1. isr = "stop" /\ "STOP_DET" \in irq_status => isr' = "stop_drain"
    BY <1>6 DEF IsrStop, Busy
  <2> QED
    BY <1>6, <2>1 DEF IsrStop
<1>7. CASE IsrStopEnd \/ IsrExit
  BY <1>7 DEF IsrStopEnd, IsrExit, Busy
<1> QED
  BY <1>1, <1>2, <1>3, <1>4, <1>5, <1>6, <1>7

(* Every entry during a transfer has moved it on, or is about to.          *)
LEMMA BusyEntriesStep ==
  ASSUME DriverTypeOK, DriverInv, Counters, HalfInv, WireInv, MaskInv, StartEntries,
         BusyEntries, Moves, PromptStart
  PROVE  BusyEntries'
<1> SUFFICES ASSUME Busy' PROVE (hits <= Progress + (IF Cause THEN 1 ELSE 0))'
  BY DEF BusyEntries
<1>1. Progress \in Nat /\ hits \in Nat
  BY ProgressBound DEF DriverTypeOK
<1>2. CASE BusStep
  <2>1. UNCHANGED <<hits, Progress, Busy>> /\ Busy
    BY <1>2 DEF BusStep, drvvars, Progress, IsRead, Busy
  <2> QED
    BY <1>1, <1>2, <2>1, CauseBusStep DEF BusyEntries
<1>3. CASE Begins \/ Takes \/ GivesUp \/ StartReadCmd
  <2>1. ~Busy'
    BY <1>3 DEF Begins, StartRead, StartWrite, Takes, GivesUp, StartReadCmd, DriverInv,
       ControlInv, StartInv, Starting, drvvars, Busy
  <2> QED
    BY <2>1
<1>4. CASE StartState
  <2>1. UNCHANGED desc /\ hits' = 0
    BY <1>4 DEF StartState, StartEntries, Starting
  <2>2. Progress' = Progress
    BY <2>1 DEF Progress, IsRead
  <2> QED
    BY <1>1, <2>1, <2>2
<1>5. CASE StartMask \/ WaitCheck \/ WaitSleep \/ Tick \/ UNCHANGED i2cvars
  <2>1. UNCHANGED <<tx, shifting, rx, drvvars>>
    BY <1>5 DEF StartMask, WaitCheck, WaitSleep, Tick, i2cvars, hwvars
  <2>2. UNCHANGED <<hits, Progress, Busy>>
    BY <2>1 DEF drvvars, Progress, IsRead, Busy
  <2>3. UNCHANGED Cause
    BY <2>1 DEF Cause, StopAhead, OverAhead, ByteAhead, CmdAhead, TxLevel, drvvars
  <2> QED
    BY <2>2, <2>3 DEF BusyEntries
<1>6. CASE IsrStorm \/ IsrAbort
  <2>1. ~Busy'
    BY <1>6 DEF IsrStorm, IsrAbort, Busy
  <2> QED
    BY <2>1
<1>7. CASE IsrEnter
  <2>1. isr = "off" /\ hits' = hits + 1 /\ UNCHANGED <<desc, i2c1_state>>
    BY <1>7 DEF IsrEnter, Irq
  <2>2. ~Cause
    BY <2>1 DEF Cause, StopAhead, OverAhead, ByteAhead, CmdAhead
  <2>3. Progress' = Progress /\ Busy
    BY <2>1 DEF Progress, IsRead, Busy
  <2>4. Cause'
    BY <1>7, <2>3, EntryHasCause
  <2> QED
    BY <1>1, <2>1, <2>2, <2>3, <2>4 DEF BusyEntries
<1>8. CASE IsrDrain \/ PumpRead \/ PumpWrite
  <2>1. UNCHANGED hits /\ Busy
    BY <1>8 DEF IsrDrain, PumpRead, PumpWrite, Busy
  <2>2. Progress' = Progress + 1
    BY <1>8, Forward
  <2> QED
    BY <1>1, <2>1, <2>2 DEF BusyEntries
<1>9. CASE IsrOver \/ IsrRx \/ IsrDrainEnd \/ IsrTx \/ PumpEnd \/ IsrStop \/ IsrStopEnd
           \/ IsrExit
  <2>1. UNCHANGED hits /\ Busy
    BY <1>9 DEF IsrOver, IsrRx, IsrDrainEnd, IsrTx, PumpEnd, IsrStop, IsrStopEnd, IsrExit, Busy
  <2>2. UNCHANGED desc
    BY <1>9 DEF IsrOver, IsrRx, IsrDrainEnd, IsrTx, PumpEnd, IsrStop, IsrStopEnd, IsrExit, Busy
  <2>3. Progress' = Progress
    BY <2>2 DEF Progress, IsRead
  <2>4. Cause => Cause'
    BY <1>9, <2>1, CauseKept
  <2> QED
    BY <1>1, <2>1, <2>3, <2>4 DEF BusyEntries
<1> QED
  BY <1>2, <1>3, <1>4, <1>5, <1>6, <1>7, <1>8, <1>9 DEF Moves, DriverNext, ApiNext, IsrNext

-----------------------------------------------------------------------------
(* Entries after an error.                                                 *)

(* What can still raise a latched interrupt, a command or the STOP, and    *)
(* what has raised one.                                                    *)
Flag(i) == IF i \in latched THEN 1 ELSE 0
Flags == Flag("TX_ABRT") + (Flag("RX_OVER") + Flag("STOP_DET"))
Left == Len(tx) + (IF tx = <<>> /\ bus # "stop" THEN 0 ELSE 1)
Pending == Left + Flags

(* Only the last command has a STOP.                                       *)
StopLast ==
  /\ \A k \in 1 .. Len(tx) - 1 : ~tx[k].stop
  /\ bus = "stop" => tx = <<>>

(* The guard has fired, or the entries that are left are those of the      *)
(* interrupts that are left; the handler may be about to clear one.        *)
Stormed == isr = "off" /\ intr_mask = {} /\ hits <= 2 * desc.length + 2
Owed == isr \in {"abort", "over"} \/ (isr \in {"rx", "tx", "stop"} /\ "STOP_DET" \in irq_status)
AbortRaised == isr = "abort" => "TX_ABRT" \in latched
Settling ==
  /\ StopLast
  /\ hits + Pending <= (2 * desc.length + 2) + (IF Owed THEN 1 ELSE 0)
  /\ isr = "over" => {"RX_OVER", "STOP_DET"} \cap irq_status # {}
ErrorEntries == i2c1_state = "I2C_ERROR" => Stormed \/ Settling

RestEntries == i2c1_state \in {"I2C_IDLE", "I2C_DONE"} => hits <= 2 * desc.length + 2

LEMMA PendingType ==
  ASSUME ControllerTypeOK
  PROVE  /\ Flag("TX_ABRT") \in {0, 1} /\ Flag("RX_OVER") \in {0, 1} /\ Flag("STOP_DET") \in {0, 1}
         /\ Len(tx) \in Nat /\ Left \in Nat /\ Flags \in Nat /\ Pending \in Nat
<1>1. Len(tx) \in Nat
  BY LenProperties DEF ControllerTypeOK
<1>2. Flag("TX_ABRT") \in {0, 1} /\ Flag("RX_OVER") \in {0, 1} /\ Flag("STOP_DET") \in {0, 1}
  BY DEF Flag
<1>3. Left \in Nat
  BY <1>1 DEF Left
<1>4. Flags \in Nat
  BY <1>2 DEF Flags
<1> QED
  BY <1>1, <1>2, <1>3, <1>4 DEF Pending

(* Two sums, term by term.                                                 *)
LEMMA Trade == \A a, b, c, d \in Nat : a <= b - 1 /\ c <= d + 1 => a + c <= b + d /\ a + c \in Nat
  OBVIOUS

LEMMA Drop == \A a, b, c \in Nat : a <= b - 1 => c + a <= (c + b) - 1
  OBVIOUS

LEMMA Keep == \A a, b, c \in Nat : a <= b => c + a <= c + b /\ c + a \in Nat
  OBVIOUS

LEMMA Alone == \A a, b \in Nat : (b = 0 => a + b = a) /\ (a = 0 => a + b = b)
  OBVIOUS

LEMMA Missing ==
  \A i, r, x, t, n, h, p \in Nat :
    h <= (i + r) + 1 /\ p <= t + 1 /\ ((r + x) + t) + 1 <= i /\ i <= n => h + p <= 2 * n + 2
  OBVIOUS

LEMMA Lower == \A b, h, p, q \in Nat : h + p <= b /\ q <= p => h + q <= b
  OBVIOUS

LEMMA Second == \A n \in Nat : n # 0 /\ n # 1 => 1 \in 1 .. n - 1
  OBVIOUS

(* The controller by itself uses up what is left, command by command.      *)
LEMMA PendingBusStep ==
  ASSUME ControllerTypeOK, StopLast, HwNext
  PROVE  StopLast' /\ Pending' <= Pending /\ Pending' \in Nat
<1>1. /\ tx \in Seq(Cmd) /\ Len(tx) \in Nat /\ (tx = <<>> <=> Len(tx) = 0)
      /\ (shifting => tx # <<>>) /\ Left \in Nat /\ Flags \in Nat
      /\ Flag("TX_ABRT") \in {0, 1} /\ Flag("RX_OVER") \in {0, 1} /\ Flag("STOP_DET") \in {0, 1}
  BY PendingType, EmptySeq DEF ControllerTypeOK
<1>0. Pending = Left + Flags /\ Pending' = Left' + Flags' /\ Pending \in Nat
  BY PendingType DEF Pending
<1>2. CASE HwFetch
  <2>1. UNCHANGED <<tx, bus, latched>>
    BY <1>2 DEF HwFetch
  <2>2. Left' = Left /\ Flags' = Flags
    BY <2>1 DEF Left, Flags, Flag
  <2>3. StopLast'
    BY <2>1 DEF StopLast
  <2> QED
    BY <1>0, <2>2, <2>3
<1>3. CASE HwWriteByte \/ HwReadByte
  <2>1. /\ tx' = Tail(tx) /\ tx # <<>> /\ latched' \subseteq latched \cup {"RX_OVER"}
        /\ (bus' = "stop" => Head(tx).stop)
    BY <1>1, <1>3 DEF HwWriteByte, HwReadByte, Complete
  <2>2. /\ Len(tx') = Len(tx) - 1 /\ Head(tx) = tx[1] /\ tx' \in Seq(Cmd)
        /\ \A k \in 1 .. Len(tx') : tx'[k] = tx[k + 1]
        /\ (tx' = <<>> <=> Len(tx') = 0)
    <3>1. /\ Len(Tail(tx)) = Len(tx) - 1 /\ Head(tx) = tx[1] /\ Tail(tx) \in Seq(Cmd)
          /\ \A k \in 1 .. Len(Tail(tx)) : Tail(tx)[k] = tx[k + 1]
      BY <1>1, <2>1, HeadTailProperties
    <3> QED
      BY <2>1, <3>1, EmptySeq
  <2>3. bus' = "stop" => tx' = <<>>
    <3>1. Len(tx) # 1 => 1 \in 1 .. Len(tx) - 1
      <4>1. Len(tx) \in Nat /\ Len(tx) # 0
        BY <1>1, <2>1
      <4> QED
        BY <4>1, Second
    <3>2. Head(tx).stop => Len(tx) = 1
      BY <2>2, <3>1 DEF StopLast
    <3> QED
      BY <2>1, <2>2, <3>2
  <2>4. StopLast'
    <3>1. \A k \in 1 .. Len(tx') - 1 :
            k \in 1 .. Len(tx') /\ k + 1 \in 1 .. Len(tx) - 1
      BY <1>1, <2>2
    <3>2. \A k \in 1 .. Len(tx') - 1 : ~tx'[k].stop
      BY <2>2, <3>1 DEF StopLast
    <3> QED
      BY <2>3, <3>2 DEF StopLast
  <2>5. Left' <= Left - 1 /\ Left' \in Nat
    BY <1>1, <2>1, <2>2, <2>3 DEF Left
  <2>6. Flags' <= Flags + 1 /\ Flags' \in Nat
    <3>1. /\ Flag("TX_ABRT")' \in {0, 1} /\ Flag("TX_ABRT")' <= Flag("TX_ABRT")
          /\ Flag("STOP_DET")' \in {0, 1} /\ Flag("STOP_DET")' <= Flag("STOP_DET")
          /\ Flag("RX_OVER")' \in {0, 1}
      BY <2>1 DEF Flag
    <3> QED
      BY <1>1, <3>1 DEF Flags
  <2> QED
    BY <1>1, <2>4, <2>5, <2>6, Trade DEF Pending
<1>4. CASE HwStop
  <2>1. /\ bus = "stop" /\ bus' = "idle" /\ tx = <<>> /\ tx' = tx
        /\ latched' = latched \cup {"STOP_DET"}
    BY <1>4 DEF HwStop, StopLast
  <2>2. Left' <= Left - 1 /\ Left' \in Nat
    BY <1>1, <2>1 DEF Left
  <2>3. Flags' <= Flags + 1 /\ Flags' \in Nat
    <3>1. /\ Flag("TX_ABRT")' = Flag("TX_ABRT") /\ Flag("RX_OVER")' = Flag("RX_OVER")
          /\ Flag("STOP_DET")' = 1
      BY <2>1 DEF Flag
    <3> QED
      BY <1>1, <3>1 DEF Flags
  <2>4. StopLast'
    BY <1>1, <2>1 DEF StopLast
  <2> QED
    BY <1>1, <2>2, <2>3, <2>4, Trade DEF Pending
<1>5. ASSUME NEW source, HwAbort(source) PROVE StopLast' /\ Pending' <= Pending /\ Pending' \in Nat
  <2>1. tx # <<>> /\ tx' = <<>> /\ bus' = "stop" /\ latched' = latched \cup {"TX_ABRT"}
    BY <1>1, <1>5 DEF HwAbort
  <2>2. Len(tx') = 0 /\ Left' <= Left - 1 /\ Left' \in Nat
    BY <1>1, <2>1, EmptySeq DEF Left
  <2>3. Flags' <= Flags + 1 /\ Flags' \in Nat
    <3>1. /\ Flag("STOP_DET")' = Flag("STOP_DET") /\ Flag("RX_OVER")' = Flag("RX_OVER")
          /\ Flag("TX_ABRT")' = 1
      BY <2>1 DEF Flag
    <3> QED
      BY <1>1, <3>1 DEF Flags
  <2>4. StopLast'
    BY <2>1, <2>2 DEF StopLast
  <2> QED
    BY <1>1, <2>2, <2>3, <2>4, Trade DEF Pending
<1> QED
  BY <1>2, <1>3, <1>4, <1>5 DEF HwNext

(* What clearing an interrupt does to the count.                           *)
LEMMA PendingCleared ==
  ASSUME ControllerTypeOK, UNCHANGED <<tx, bus>>, latched' \subseteq latched
  PROVE  /\ Pending' <= Pending /\ Pending' \in Nat
         /\ \A i \in Latching : i \in latched /\ i \notin latched' => Pending' <= Pending - 1
<1>1. /\ Left \in Nat /\ Flags \in Nat
      /\ Flag("TX_ABRT") \in {0, 1} /\ Flag("RX_OVER") \in {0, 1} /\ Flag("STOP_DET") \in {0, 1}
  BY PendingType
<1>2. Left' = Left
  BY DEF Left
<1>3. /\ Flag("TX_ABRT")' \in {0, 1} /\ Flag("TX_ABRT")' <= Flag("TX_ABRT")
      /\ Flag("STOP_DET")' \in {0, 1} /\ Flag("STOP_DET")' <= Flag("STOP_DET")
      /\ Flag("RX_OVER")' \in {0, 1} /\ Flag("RX_OVER")' <= Flag("RX_OVER")
  BY DEF Flag
<1>4. Flags' <= Flags /\ Flags' \in Nat
  BY <1>1, <1>3 DEF Flags
<1>5. ASSUME NEW i \in Latching, i \in latched, i \notin latched' PROVE Flags' <= Flags - 1
  <2>1. Flag(i) = 1 /\ Flag(i)' = 0
    BY <1>5 DEF Flag
  <2> QED
    BY <1>1, <1>3, <2>1 DEF Flags, Latching
<1>6. Pending' <= Pending /\ Pending' \in Nat
  BY <1>1, <1>2, <1>4, Keep DEF Pending
<1>7. ASSUME NEW i \in Latching, i \in latched, i \notin latched' PROVE Pending' <= Pending - 1
  BY <1>1, <1>2, <1>4, <1>5, <1>7, Drop DEF Pending
<1> QED
  BY <1>6, <1>7

(* Of a transfer, only the last command has a STOP.                        *)
LEMMA CommandStop ==
  ASSUME NEW d \in Descriptor, NEW m \in Nat, m + 1 < Total(d)
  PROVE  Command(d, m).stop = FALSE
<1>1. d.length \in Nat
  BY SeriesType
<1>2. CASE d.write_registers = <<>>
  <2>1. Total(d) = d.length + 1
    BY <1>2, Zenon DEF Total
  <2>2. m # d.length
    BY <1>1, <2>1
  <2> QED
    BY <1>2, <2>2, ReadCommand
<1>3. CASE d.write_registers # <<>>
  <2>1. Total(d) = 2 * d.length
    BY <1>3, Zenon DEF Total
  <2>2. m % 2 # 0 => (m \div 2) + 1 # d.length
    <3>1. m \div 2 \in Nat /\ m % 2 \in {0, 1} /\ m = 2 * (m \div 2) + (m % 2)
      BY Halves
    <3> QED
      BY <1>1, <2>1, <3>1
  <2>3. CASE m % 2 = 0
    BY <1>3, <2>3, WriteCommand
  <2>4. CASE m % 2 # 0
    <3>1. Command(d, m).stop = ((m \div 2) + 1 = d.length)
      BY <1>3, <2>4, WriteCommand
    <3> QED
      BY <2>2, <2>4, <3>1
  <2> QED
    BY <2>3, <2>4
<1> QED
  BY <1>2, <1>3

LEMMA StopLastBusy == ASSUME DriverTypeOK, DriverInv, Busy PROVE StopLast
<1>1. /\ tx \in Seq(Cmd) /\ Len(tx) \in Nat /\ (tx = <<>> <=> Len(tx) = 0)
      /\ desc \in Descriptor
  BY LenProperties, EmptySeq DEF DriverTypeOK, ControllerTypeOK
<1>2. Issued(desc) \in Nat /\ Total(desc) \in Nat
  BY <1>1, SeriesType
<1>3. CASE Aborted
  <2>1. tx = <<>> /\ Len(tx) = 0
    BY <1>1, <1>3 DEF DriverInv, TransferInv, PhaseInv
  <2> QED
    BY <2>1 DEF StopLast
<1>4. CASE ~Aborted
  <2>1. /\ Len(tx) <= Issued(desc) /\ Issued(desc) <= Total(desc)
        /\ \A k \in 1 .. Len(tx) : tx[k] = Command(desc, Completed + k - 1)
    BY <1>4 DEF DriverInv, TransferInv, QueueInv
  <2>2. Completed \in Nat /\ Completed + Len(tx) <= Total(desc)
    BY <1>1, <1>2, <2>1 DEF Completed
  <2>3. ASSUME NEW k \in 1 .. Len(tx) - 1 PROVE ~tx[k].stop
    <3>1. k \in 1 .. Len(tx) /\ Completed + k - 1 \in Nat /\ (Completed + k - 1) + 1 < Total(desc)
      BY <1>1, <1>2, <2>2
    <3> QED
      BY <1>1, <2>1, <3>1, CommandStop
  <2>4. bus = "stop" => tx = <<>>
    BY <1>1, <1>2, <1>4, <2>2 DEF DriverInv, TransferInv, PhaseInv
  <2> QED
    BY <2>3, <2>4 DEF StopLast
<1> QED
  BY <1>3, <1>4

(* An abort that ends a transfer leaves at most the STOP it owes.          *)
LEMMA AbortSettles ==
  ASSUME DriverTypeOK, DriverInv, Counters, HalfInv, WireInv, BusyEntries, IsrAbort, Busy
  PROVE  Settling'
<1>1. Aborted /\ ~Overrun /\ tx = <<>>
  BY DEF IsrAbort, DriverInv, ControlInv, TransferInv, PlaceInv, PhaseInv, WriteInv, WireInv, Busy
<1>2. /\ isr' = "off" /\ latched' = latched \ {"TX_ABRT", "STOP_DET"}
      /\ UNCHANGED <<tx, bus, hits>> /\ desc'.length = desc.length
  BY DEF IsrAbort, DriverTypeOK, Descriptor
<1>3. Flags' = 0
  BY <1>1, <1>2 DEF Flags, Flag, Overrun
<1>4. Len(tx') = 0
  BY <1>1, <1>2, EmptySeq
<1>5. Left' \in {0, 1}
  BY <1>4 DEF Left
<1>6. Pending' \in {0, 1}
  <2>1. Left' \in Nat /\ Flags' \in Nat
    BY <1>3, <1>5
  <2>2. Pending' = Left'
    BY <1>3, <2>1, Alone DEF Pending
  <2> QED
    BY <1>5, <2>2
<1>7. hits <= Progress + 1 /\ hits \in Nat
  BY ProgressBound DEF BusyEntries, DriverTypeOK
<1>8. hits' + Pending' <= 2 * desc'.length + 2
  BY <1>2, <1>6, <1>7, ProgressBound
<1>9. ~Owed' /\ StopLast'
  BY <1>1, <1>2, <1>4 DEF Owed, StopLast
<1>10. (IF Owed THEN 1 ELSE 0)' = 0
  BY <1>9
<1>11. (2 * desc'.length + 2) + 0 = 2 * desc'.length + 2
  BY <1>2, ProgressBound
<1> QED
  BY <1>2, <1>8, <1>9, <1>10, <1>11 DEF Settling

(* A byte that was lost leaves the commands of the others.                 *)
LEMMA OverrunSettles ==
  ASSUME DriverTypeOK, DriverInv, Counters, HalfInv, WireInv, SeenInv, BusyEntries, IsrOver,
         "RX_OVER" \in irq_status, i2c1_state = "I2C_READING"
  PROVE  Settling'
<1>1. Overrun /\ ~Aborted /\ Busy
  BY DEF IsrOver, SeenInv, WireInv, Overrun, Busy
<1>2. /\ desc \in Descriptor /\ IsRead
      /\ desc.issued \in Nat /\ desc.received \in Nat /\ desc.length \in Nat
      /\ Len(tx) \in Nat /\ Len(rx) \in Nat /\ (tx = <<>> <=> Len(tx) = 0)
      /\ Issued(desc) = desc.issued + 1 /\ Total(desc) = desc.length + 1
      /\ Completed = (desc.issued + 1) - Len(tx)
  BY ReadFacts, EmptySeq DEF DriverTypeOK, ControllerTypeOK
<1>3. /\ isr' = "rx" /\ latched' = latched \ {"RX_OVER"}
      /\ UNCHANGED <<tx, bus, hits>> /\ desc'.length = desc.length
  BY <1>2 DEF IsrOver, Descriptor
<1>4. Flags' = IF "STOP_DET" \in latched THEN 1 ELSE 0
  BY <1>1, <1>3 DEF Flags, Flag, Aborted
<1>5. "STOP_DET" \in latched => tx = <<>> /\ bus = "idle"
  <2>1. "STOP_DET" \in latched => Completed = Total(desc) /\ bus = "idle"
    BY <1>1 DEF DriverInv, TransferInv, PhaseInv
  <2> QED
    BY <1>2, <2>1 DEF Counters
<1>6. Left' <= Len(tx) + 1 /\ Left' \in Nat /\ ("STOP_DET" \in latched => Left' = 0)
  BY <1>2, <1>3, <1>5 DEF Left
<1>7. Pending' <= Len(tx) + 1 /\ Pending' \in Nat
  <2>1. CASE "STOP_DET" \in latched
    <3>1. Left' = 0 /\ Flags' = 1 /\ Left' \in Nat /\ Flags' \in Nat
      BY <1>4, <1>6, <2>1
    <3>2. Pending' = Flags'
      BY <3>1, Alone DEF Pending
    <3> QED
      BY <1>2, <3>1, <3>2
  <2>2. CASE "STOP_DET" \notin latched
    <3>1. Flags' = 0 /\ Flags' \in Nat
      BY <1>4, <2>2
    <3>2. Pending' = Left'
      BY <1>6, <3>1, Alone DEF Pending
    <3> QED
      BY <1>6, <3>2
  <2> QED
    BY <2>1, <2>2
<1>8. hits <= (desc.issued + desc.received) + 1 /\ hits \in Nat
  <2>1. Progress = desc.issued + desc.received
    BY <1>2, Zenon DEF Progress
  <2>2. hits <= Progress + 1 /\ hits \in Nat
    BY <1>1, ProgressBound DEF BusyEntries, DriverTypeOK
  <2> QED
    BY <2>1, <2>2
<1>9. ((desc.received + Len(rx)) + Len(tx)) + 1 <= desc.issued /\ desc.issued <= desc.length
  BY <1>1 DEF WireInv, Counters
<1>10. hits' + Pending' <= 2 * desc'.length + 2
  <2>1. PICK p \in Nat : p = Pending'
    BY <1>7
  <2>2. hits + p <= 2 * desc.length + 2
    BY <1>2, <1>7, <1>8, <1>9, <2>1, Missing
  <2> QED
    BY <1>3, <2>1, <2>2
<1>11. StopLast'
  BY <1>1, <1>3, StopLastBusy DEF StopLast
<1>12. (IF Owed THEN 1 ELSE 0)' \in {0, 1}
  OBVIOUS
<1>13. hits' + Pending' <= (2 * desc'.length + 2) + (IF Owed THEN 1 ELSE 0)'
  <2>1. hits' \in Nat /\ desc'.length \in Nat
    BY <1>2, <1>3, <1>8
  <2>2. PICK p \in Nat : p = Pending'
    BY <1>7
  <2>3. PICK o \in {0, 1} : o = (IF Owed THEN 1 ELSE 0)'
    BY <1>12
  <2>4. hits' + p <= (2 * desc'.length + 2) + o
    BY <1>10, <2>1, <2>2
  <2> QED
    BY <2>2, <2>3, <2>4, Zenon
<1> QED
  BY <1>3, <1>11, <1>13 DEF Settling

(* With the levels masked an interrupt that is raised is a latched one.    *)
LEMMA LatchedIrq ==
  ASSUME DriverTypeOK, intr_mask \cap Pacing = {}, Stormed \/ Settling, Irq
  PROVE  /\ Settling /\ IntrStat # {} /\ IntrStat \subseteq latched /\ Pending >= 1
         /\ hits + Pending <= 2 * desc.length + 2
<1>1. isr = "off" /\ IntrStat # {}
  BY DEF Irq
<1>3. IntrStat \subseteq latched
  BY DEF IntrStat, Pacing
<1>4. Settling
  BY <1>1 DEF Stormed, IntrStat
<1>5. PICK i \in latched : i \in {"TX_ABRT", "RX_OVER", "STOP_DET"}
  BY <1>1, <1>3 DEF DriverTypeOK, ControllerTypeOK, Latching
<1>6. Flag(i) = 1
  BY <1>5 DEF Flag
<1>7. Flags >= 1
  BY <1>5, <1>6, PendingType DEF Flags, DriverTypeOK
<1>8. Pending >= 1
  BY <1>7, PendingType DEF Pending, DriverTypeOK
<1>9. hits + Pending <= 2 * desc.length + 2
  <2>1. ~Owed
    BY <1>1 DEF Owed
  <2>2. hits + Pending <= (2 * desc.length + 2) + 0
    BY <1>4, <2>1, Zenon DEF Settling
  <2> QED
    BY <2>2, SeriesType DEF DriverTypeOK
<1> QED
  BY <1>1, <1>3, <1>4, <1>8, <1>9

(* The guard, should it fire, fires within the bound.                      *)
LEMMA StormWithin ==
  ASSUME DriverTypeOK, DriverInv, Counters, HalfInv, MaskInv, BusyEntries, ErrorEntries, Irq
  PROVE  hits + 1 <= 2 * desc.length + 2
<1>1. hits \in Nat /\ desc.length \in Nat
  BY SeriesType DEF DriverTypeOK
<1>2. CASE Busy
  <2>1. ~Cause
    BY DEF Irq, Cause, StopAhead, OverAhead, ByteAhead, CmdAhead
  <2>2. hits <= Progress + 0
    BY <1>2, <2>1, Zenon DEF BusyEntries
  <2> QED
    BY <1>1, <2>2, ProgressBound
<1>3. CASE i2c1_state = "I2C_ERROR"
  <2>1. intr_mask \cap Pacing = {} /\ (Stormed \/ Settling)
    BY <1>3 DEF MaskInv, ErrorEntries, Irq
  <2> QED
    BY <1>1, <2>1, LatchedIrq, PendingType DEF DriverTypeOK
<1> QED
  BY <1>2, <1>3, IrqFacts DEF DriverTypeOK, State, Busy

(* An entry after an error: the interrupt it is for is still counted.      *)
LEMMA ErrorEnter ==
  ASSUME DriverTypeOK, intr_mask \cap Pacing = {}, Stormed \/ Settling, IsrEnter
  PROVE  Settling'
<1>1. /\ Irq /\ isr' \in {"abort", "over"} /\ hits' = hits + 1
      /\ irq_status' = IntrStat /\ UNCHANGED <<tx, bus, latched, desc>>
      /\ (isr' = "over" => "TX_ABRT" \notin IntrStat)
  BY DEF IsrEnter, hwvars
<1>2. Settling /\ IntrStat # {} /\ IntrStat \subseteq latched
      /\ hits + Pending <= 2 * desc.length + 2
  BY <1>1, LatchedIrq
<1>3. Pending' = Pending
  BY <1>1 DEF Pending, Left, Flags, Flag
<1>4. Owed' /\ StopLast'
  BY <1>1, <1>2 DEF Owed, Settling, StopLast
<1>5. hits' + Pending' <= (2 * desc'.length + 2) + 1
  <2>1. hits \in Nat /\ desc.length \in Nat /\ Pending \in Nat
    BY SeriesType, PendingType DEF DriverTypeOK
  <2>2. (hits + 1) + Pending <= (2 * desc.length + 2) + 1
    BY <1>2, <2>1
  <2> QED
    BY <1>1, <1>3, <2>2
<1>6. isr' = "over" => {"RX_OVER", "STOP_DET"} \cap irq_status' # {}
  BY <1>1, <1>2 DEF DriverTypeOK, ControllerTypeOK, Latching
<1>7. (IF Owed THEN 1 ELSE 0)' = 1
  BY <1>4
<1> QED
  BY <1>4, <1>5, <1>6, <1>7 DEF Settling

(* What the handler does with an interrupt it has seen.                    *)
LEMMA Settles ==
  ASSUME DriverTypeOK, Settling, UNCHANGED <<tx, bus, hits, desc>>, latched' \subseteq latched,
         isr' # "over", Owed' => Owed,
         Owed /\ ~Owed' => \E i \in Latching : i \in latched /\ i \notin latched'
  PROVE  Settling'
<1>1. hits \in Nat /\ desc.length \in Nat /\ Pending \in Nat /\ ControllerTypeOK
  BY SeriesType, PendingType DEF DriverTypeOK
<1>2. PICK b \in Nat : b = 2 * desc.length + 2
  BY <1>1
<1>3. Pending' <= Pending /\ Pending' \in Nat
  BY <1>1, PendingCleared
<1>4. Owed /\ ~Owed' => Pending' <= Pending - 1
  BY <1>1, PendingCleared
<1>5. hits + Pending' <= b + (IF Owed THEN 1 ELSE 0)'
  <2>1. CASE ~Owed
    <3>1. hits + Pending <= b + 0
      BY <1>2, <2>1, Zenon DEF Settling
    <3>2. hits + Pending' <= b + 0
      BY <1>1, <1>2, <1>3, <3>1
    <3>3. (IF Owed THEN 1 ELSE 0)' = 0
      BY <2>1
    <3> QED
      BY <3>2, <3>3
  <2>2. CASE Owed /\ Owed'
    <3>1. hits + Pending <= b + 1
      BY <1>2, <2>2, Zenon DEF Settling
    <3>2. hits + Pending' <= b + 1
      BY <1>1, <1>2, <1>3, <3>1
    <3>3. (IF Owed THEN 1 ELSE 0)' = 1
      BY <2>2
    <3> QED
      BY <3>2, <3>3
  <2>3. CASE Owed /\ ~Owed'
    <3>1. hits + Pending <= b + 1
      BY <1>2, <2>3, Zenon DEF Settling
    <3>2. hits + Pending' <= b + 0
      BY <1>1, <1>2, <1>3, <1>4, <2>3, <3>1
    <3>3. (IF Owed THEN 1 ELSE 0)' = 0
      BY <2>3
    <3> QED
      BY <3>2, <3>3
  <2> QED
    BY <2>1, <2>2, <2>3
<1>6. hits' + Pending' <= (2 * desc'.length + 2) + (IF Owed THEN 1 ELSE 0)'
  BY <1>2, <1>5
<1>7. StopLast'
  BY DEF Settling, StopLast
<1> QED
  BY <1>6, <1>7 DEF Settling

(* The blocks of the handler with no transfer in progress.                 *)
LEMMA ErrorBlocks ==
  ASSUME DriverTypeOK, AbortRaised, SeenInv, Settling, ~Busy,
         IsrAbort \/ IsrOver \/ IsrRx \/ IsrTx \/ IsrStop \/ IsrExit
  PROVE  Settling'
<1>1. CASE IsrAbort
  <2>1. /\ isr = "abort" /\ isr' = "off" /\ UNCHANGED <<tx, bus, hits, desc>>
        /\ latched' = latched \ {"TX_ABRT", "STOP_DET"}
    BY <1>1 DEF IsrAbort
  <2>2. "TX_ABRT" \in latched
    BY <2>1 DEF AbortRaised
  <2>3. ~Owed' /\ "TX_ABRT" \in Latching /\ "TX_ABRT" \notin latched'
    BY <2>1 DEF Owed, Latching
  <2> QED
    BY <2>1, <2>2, <2>3, Settles
<1>2. CASE IsrOver
  <2>1. /\ isr = "over" /\ isr' = "rx" /\ UNCHANGED <<tx, bus, hits, desc, irq_status>>
        /\ latched' = latched \ (irq_status \cap {"RX_OVER"})
    BY <1>2 DEF IsrOver, Busy
  <2>2. CASE "RX_OVER" \in irq_status
    <3>1. "RX_OVER" \in latched /\ "RX_OVER" \notin latched' /\ "RX_OVER" \in Latching
      BY <2>1, <2>2 DEF SeenInv, Latching
    <3> QED
      BY <2>1, <3>1, Settles DEF Owed
  <2>3. CASE "RX_OVER" \notin irq_status
    <3>1. Owed'
      BY <2>1, <2>3 DEF Settling, Owed
    <3> QED
      BY <2>1, <3>1, Settles DEF Owed
  <2> QED
    BY <2>2, <2>3
<1>3. CASE IsrRx \/ IsrTx
  <2>1. /\ isr \in {"rx", "tx"} /\ isr' \in {"tx", "stop"}
        /\ UNCHANGED <<tx, bus, hits, desc, latched, irq_status>>
    BY <1>3 DEF IsrRx, IsrTx, hwvars, Busy
  <2>2. Owed <=> Owed'
    BY <2>1 DEF Owed
  <2> QED
    BY <2>1, <2>2, Settles
<1>4. CASE IsrStop
  <2>1. /\ isr = "stop" /\ isr' = "exit" /\ UNCHANGED <<tx, bus, hits, desc, irq_status>>
        /\ latched' = latched \ (irq_status \cap {"STOP_DET"})
    BY <1>4 DEF IsrStop, Busy
  <2>2. ~Owed' /\ (Owed => "STOP_DET" \in latched /\ "STOP_DET" \notin latched')
    BY <2>1 DEF Owed, SeenInv
  <2>3. "STOP_DET" \in Latching
    BY DEF Latching
  <2> QED
    BY <2>1, <2>2, <2>3, Settles
<1>5. CASE IsrExit
  <2>1. isr = "exit" /\ isr' = "off" /\ UNCHANGED <<tx, bus, hits, desc, latched>>
    BY <1>5 DEF IsrExit
  <2>2. ~Owed /\ ~Owed'
    BY <2>1 DEF Owed
  <2> QED
    BY <2>1, <2>2, Settles
<1> QED
  BY <1>1, <1>2, <1>3, <1>4, <1>5

(* The controller after an error.                                          *)
LEMMA ErrorBusStep ==
  ASSUME DriverTypeOK, Stormed \/ Settling, BusStep PROVE Stormed' \/ Settling'
<1>1. HwNext /\ UNCHANGED <<drvvars, intr_mask>> /\ ControllerTypeOK
  BY DEF BusStep, DriverTypeOK, HwNext, HwFetch, HwWriteByte, HwReadByte, HwStop, HwAbort
<1>2. CASE Stormed
  BY <1>1, <1>2 DEF Stormed, drvvars
<1>3. CASE Settling
  <2>1. StopLast' /\ Pending' <= Pending /\ Pending' \in Nat
    BY <1>1, <1>3, PendingBusStep DEF Settling
  <2>2. Owed <=> Owed'
    BY <1>1 DEF Owed, drvvars
  <2>3. (IF Owed THEN 1 ELSE 0)' = (IF Owed THEN 1 ELSE 0)
    BY <2>2
  <2>4. PICK b \in Nat : b = (2 * desc.length + 2) + (IF Owed THEN 1 ELSE 0)
    BY SeriesType DEF DriverTypeOK
  <2>5. hits \in Nat /\ Pending \in Nat
    BY PendingType DEF DriverTypeOK
  <2>7. hits + Pending <= b
    BY <1>3, <2>4 DEF Settling
  <2>8. hits + Pending' <= b
    BY <2>1, <2>4, <2>5, <2>7, Lower
  <2>9. hits' + Pending' <= (2 * desc'.length + 2) + (IF Owed THEN 1 ELSE 0)'
    BY <1>1, <2>3, <2>4, <2>8 DEF drvvars
  <2> QED
    BY <1>1, <1>3, <2>1, <2>9 DEF Settling, drvvars
<1> QED
  BY <1>2, <1>3

(* Every step after an error keeps the count of what is left.              *)
LEMMA ErrorEntriesStep ==
  ASSUME DriverTypeOK, DriverInv, Counters, HalfInv, WireInv, SeenInv, MaskInv,
         BusyEntries, ErrorEntries, Moves
  PROVE  ErrorEntries'
<1> SUFFICES ASSUME i2c1_state' = "I2C_ERROR" PROVE Stormed' \/ Settling'
  BY DEF ErrorEntries
<1>1. CASE BusStep
  BY <1>1, ErrorBusStep DEF ErrorEntries, BusStep, drvvars
<1>2. CASE Begins \/ Takes \/ StartReadCmd \/ StartState \/ StartMask
  <2>1. FALSE
    BY <1>2 DEF Begins, StartRead, StartWrite, Takes, StartReadCmd, StartState, StartMask,
       DriverInv, ControlInv, StartInv, Starting, drvvars
  <2> QED
    BY <2>1
<1>3. CASE WaitCheck \/ WaitSleep \/ Tick \/ GivesUp \/ UNCHANGED i2cvars
  <2>1. UNCHANGED <<tx, bus, latched, intr_mask, drvvars>>
    BY <1>3 DEF WaitCheck, WaitSleep, Tick, GivesUp, i2cvars, hwvars
  <2>2. UNCHANGED <<Stormed, Settling>>
    BY <2>1 DEF Stormed, Settling, StopLast, Pending, Left, Flags, Flag, Owed, drvvars
  <2> QED
    BY <2>1, <2>2 DEF ErrorEntries, drvvars
<1>4. CASE IsrStorm
  <2>1. hits + 1 <= 2 * desc.length + 2
    BY <1>4, StormWithin DEF IsrStorm
  <2> QED
    BY <1>4, <2>1 DEF IsrStorm, Irq, Stormed
<1>5. CASE IsrEnter
  <2>1. intr_mask \cap Pacing = {} /\ (Stormed \/ Settling)
    BY <1>5 DEF MaskInv, ErrorEntries, IsrEnter, Irq
  <2> QED
    BY <1>5, <2>1, ErrorEnter
<1>6. CASE IsrAbort /\ Busy
  BY <1>6, AbortSettles
<1>7. CASE IsrOver /\ Busy
  <2>1. "RX_OVER" \in irq_status /\ i2c1_state = "I2C_READING"
    BY <1>7 DEF IsrOver, Busy
  <2> QED
    BY <1>7, <2>1, OverrunSettles
<1>a. AbortRaised
  BY DEF AbortRaised, DriverInv, ControlInv, PlaceInv, Aborted
<1>8. CASE (IsrAbort \/ IsrOver) /\ ~Busy
  <2>1. i2c1_state = "I2C_ERROR" /\ isr # "off"
    BY <1>8 DEF IsrAbort, IsrOver, Busy
  <2> QED
    BY <1>8, <1>a, <2>1, ErrorBlocks DEF ErrorEntries, Stormed, Busy
<1>9. CASE IsrRx \/ IsrTx \/ IsrExit
  <2>1. i2c1_state = "I2C_ERROR" /\ isr # "off"
    BY <1>9 DEF IsrRx, IsrTx, IsrExit
  <2> QED
    BY <1>9, <1>a, <2>1, ErrorBlocks DEF ErrorEntries, Stormed, Busy
<1>10. CASE IsrStop
  <2>1. i2c1_state # "I2C_WRITING"
    BY <1>10, WriteStopped DEF IsrStop, Busy
  <2>2. i2c1_state = "I2C_ERROR" /\ isr # "off"
    BY <1>10, <2>1 DEF IsrStop
  <2> QED
    BY <1>10, <1>a, <2>2, ErrorBlocks DEF ErrorEntries, Stormed, Busy
<1>11. CASE IsrDrain \/ IsrDrainEnd \/ PumpRead \/ PumpWrite \/ PumpEnd \/ IsrStopEnd
  <2>1. FALSE
    BY <1>11 DEF IsrDrain, IsrDrainEnd, PumpRead, PumpWrite, PumpEnd, IsrStopEnd,
       DriverInv, ControlInv, PlaceInv, StopInv, Busy
  <2> QED
    BY <2>1
<1> QED
  BY <1>1, <1>2, <1>3, <1>4, <1>5, <1>6, <1>7, <1>8, <1>9, <1>10, <1>11
  DEF Moves, DriverNext, ApiNext, IsrNext

(* A transfer that succeeds has counted no more.                           *)
LEMMA RestEntriesStep ==
  ASSUME DriverTypeOK, DriverInv, Counters, HalfInv, StartEntries, BusyEntries, RestEntries, Moves
  PROVE  RestEntries'
<1>1. hits \in Nat /\ desc.length \in Nat /\ desc \in Descriptor
  BY SeriesType DEF DriverTypeOK
<1>2. CASE Begins
  <2>1. hits' = 0 /\ desc' \in Descriptor
    BY <1>2, BeginsType DEF Begins, StartRead, StartWrite, DriverTypeOK
  <2>2. desc'.length \in Nat
    BY <2>1, SeriesType
  <2> QED
    BY <2>1, <2>2 DEF RestEntries
<1>3. CASE i2c1_state \in {"I2C_IDLE", "I2C_DONE"} /\ ~Begins
  <2>1. ~IsrStorm /\ ~IsrEnter
    BY <1>3, IrqFacts DEF IsrStorm, IsrEnter
  <2>2. ~IsrAbort /\ ~IsrOver /\ ~IsrDrain /\ ~PumpRead /\ ~PumpWrite
    BY <1>3 DEF IsrAbort, IsrOver, IsrDrain, PumpRead, PumpWrite, DriverInv, ControlInv, RestInv,
       StartInv
  <2>3. UNCHANGED desc
    BY <1>3, <2>2, DescSteps, MovesYield DEF Moves
  <2>4. UNCHANGED hits
    BY <1>3, <2>1, <2>2 DEF Moves, DriverNext, BusStep, ApiNext, StartReadCmd, StartState, StartMask,
       WaitCheck, WaitSleep, Tick, IsrNext, IsrRx, IsrDrainEnd, IsrTx, PumpEnd, IsrStop,
       IsrStopEnd, IsrExit, Takes, GivesUp, i2cvars, drvvars
  <2> QED
    BY <1>3, <2>3, <2>4 DEF RestEntries
<1>4. CASE IsrStop \/ IsrStopEnd
  <2>1. UNCHANGED <<desc, hits>> /\ (i2c1_state' \in {"I2C_IDLE", "I2C_DONE"} =>
                                     i2c1_state \in {"I2C_IDLE", "I2C_DONE"} \/ Busy)
    BY <1>4 DEF IsrStop, IsrStopEnd, Busy, DriverTypeOK, State, DriverInv, ControlInv, PlaceInv
  <2>2. Busy => hits <= 2 * desc.length + 2
    BY <1>1, ProgressBound DEF BusyEntries
  <2> QED
    BY <2>1, <2>2 DEF RestEntries
<1>5. CASE i2c1_state = "I2C_ERROR" \/ Busy
  <2>1. ~(IsrStop \/ IsrStopEnd) /\ ~Begins => i2c1_state' \notin {"I2C_IDLE", "I2C_DONE"}
    BY <1>5 DEF Moves, DriverNext, BusStep, ApiNext, StartReadCmd, StartState, StartMask,
       WaitCheck, WaitSleep, Tick, IsrNext, IsrStorm, IsrEnter, IsrAbort, IsrOver, IsrRx,
       IsrDrain, IsrDrainEnd, IsrTx, PumpRead, PumpWrite, PumpEnd, IsrExit, Takes, GivesUp,
       i2cvars, drvvars, Busy
  <2> QED
    BY <1>2, <1>4, <2>1 DEF RestEntries
<1> QED
  BY <1>2, <1>3, <1>5 DEF DriverTypeOK, State, Busy

-----------------------------------------------------------------------------
(* Everything above, together.                                             *)

(* An error has a cause in the descriptor, or the guard has fired.         *)
FaultInv == i2c1_state = "I2C_ERROR" => desc.fault # {} \/ hits > StormLimit

(* Nothing but the guard masks what i2c_irq_enable has unmasked, and after *)
(* the guard there is no other transfer.                                   *)
KeptInv == intr_mask \ Pacing = IF hits > StormLimit THEN {} ELSE Always
StormInv == hits > StormLimit => isr = "off" /\ i2c1_state = "I2C_ERROR"

EntriesInv ==
  /\ Counters /\ HalfInv /\ SeenInv /\ MaskInv /\ WireInv
  /\ StartEntries /\ BusyEntries /\ ErrorEntries /\ RestEntries
  /\ FaultInv /\ KeptInv /\ StormInv

LEMMA FaultStep == ASSUME DriverTypeOK, DriverInv, FaultInv, Moves PROVE FaultInv'
<1> SUFFICES ASSUME i2c1_state' = "I2C_ERROR" PROVE desc'.fault # {} \/ hits' > StormLimit
  BY DEF FaultInv
<1>1. hits \in Nat /\ StormLimit \in Nat /\ desc \in Descriptor
  BY DriverAssumption DEF DriverTypeOK
<1>2. CASE IsrStorm
  BY <1>1, <1>2 DEF IsrStorm
<1>3. CASE IsrEnter
  BY <1>1, <1>3 DEF IsrEnter, FaultInv
<1>4. CASE IsrAbort \/ IsrOver \/ IsrDrain
  <2>1. desc.fault \subseteq desc'.fault /\ UNCHANGED hits
        /\ (i2c1_state # "I2C_ERROR" => desc'.fault # {})
    BY <1>1, <1>4, ZenonT(30) DEF IsrAbort, IsrOver, IsrDrain, Descriptor
  <2> QED
    BY <2>1 DEF FaultInv
<1>5. CASE Begins \/ Takes \/ StartReadCmd \/ StartState \/ StartMask
  <2>1. FALSE
    BY <1>5 DEF Begins, StartRead, StartWrite, Takes, StartReadCmd, StartState, StartMask,
       DriverInv, ControlInv, StartInv, Starting, drvvars
  <2> QED
    BY <2>1
<1>6. CASE IsrStop \/ IsrStopEnd
  <2>1. UNCHANGED <<i2c1_state, desc, hits>>
    BY <1>6, WriteStopped DEF IsrStop, IsrStopEnd, Busy, DriverInv, ControlInv, PlaceInv, StopInv
  <2> QED
    BY <2>1 DEF FaultInv
<1>7. CASE PumpRead \/ PumpWrite
  BY <1>7 DEF PumpRead, PumpWrite
<1>8. CASE BusStep \/ WaitCheck \/ WaitSleep \/ Tick \/ GivesUp \/ UNCHANGED i2cvars
           \/ IsrRx \/ IsrDrainEnd \/ IsrTx \/ PumpEnd \/ IsrExit
  <2>1. UNCHANGED <<i2c1_state, desc, hits>>
    BY <1>8 DEF BusStep, WaitCheck, WaitSleep, Tick, GivesUp, i2cvars, drvvars, IsrRx,
       IsrDrainEnd, IsrTx, PumpEnd, IsrExit
  <2> QED
    BY <2>1 DEF FaultInv
<1> QED
  BY <1>2, <1>3, <1>4, <1>5, <1>6, <1>7, <1>8 DEF Moves, DriverNext, ApiNext, IsrNext

LEMMA KeptStep ==
  ASSUME DriverTypeOK, DriverInv, KeptInv, StormInv, Moves PROVE KeptInv'
<1>1. hits \in Nat /\ StormLimit \in Nat
  BY DriverAssumption DEF DriverTypeOK
<1>2. CASE Begins
  <2>1. hits' = 0 /\ UNCHANGED intr_mask /\ i2c1_state = "I2C_IDLE"
    BY <1>2 DEF Begins, StartRead, StartWrite, hwvars
  <2> QED
    BY <1>1, <2>1 DEF KeptInv, StormInv
<1>3. CASE IsrStorm
  BY <1>1, <1>3 DEF IsrStorm, KeptInv
<1>4. CASE IsrEnter
  BY <1>1, <1>4 DEF IsrEnter, KeptInv, hwvars
<1>5. CASE StartMask \/ IsrAbort \/ PumpEnd \/ IsrExit
  <2>1. intr_mask' \ Pacing = intr_mask \ Pacing /\ UNCHANGED hits
    BY <1>5 DEF StartMask, IsrAbort, PumpEnd, IsrExit, drvvars, Pacing
  <2> QED
    BY <2>1 DEF KeptInv
<1>6. CASE BusStep \/ StartReadCmd \/ StartState \/ WaitCheck \/ WaitSleep \/ Tick \/ Takes
           \/ GivesUp \/ UNCHANGED i2cvars \/ IsrOver \/ IsrRx \/ IsrDrain \/ IsrDrainEnd
           \/ IsrTx \/ PumpRead \/ PumpWrite \/ IsrStop \/ IsrStopEnd
  <2>1. UNCHANGED <<intr_mask, hits>>
    BY <1>6 DEF BusStep, HwNext, HwFetch, HwWriteByte, HwReadByte, HwStop, HwAbort, StartReadCmd,
       StartState, WaitCheck, WaitSleep, Tick, Takes, GivesUp, i2cvars, hwvars, drvvars, IsrOver,
       IsrRx, IsrDrain, IsrDrainEnd, IsrTx, PumpRead, PumpWrite, IsrStop, IsrStopEnd
  <2> QED
    BY <2>1 DEF KeptInv
<1> QED
  BY <1>2, <1>3, <1>4, <1>5, <1>6 DEF Moves, DriverNext, ApiNext, IsrNext

LEMMA StormStep ==
  ASSUME DriverTypeOK, DriverInv, MaskInv, KeptInv, StormInv, Moves PROVE StormInv'
<1>1. hits \in Nat /\ StormLimit \in Nat
  BY DriverAssumption DEF DriverTypeOK
<1>2. CASE Begins
  BY <1>1, <1>2 DEF Begins, StartRead, StartWrite, StormInv
<1>3. CASE IsrStorm
  BY <1>3 DEF IsrStorm, Irq, StormInv
<1>4. CASE IsrEnter
  BY <1>1, <1>4 DEF IsrEnter, StormInv
<1>5. CASE hits > StormLimit /\ ~Begins /\ ~IsrStorm /\ ~IsrEnter
  <2>1. isr = "off" /\ i2c1_state = "I2C_ERROR"
    BY <1>5 DEF StormInv
  <2>2. ~StartState
    BY <2>1 DEF StartState, DriverInv, ControlInv, StartInv, Starting
  <2>3. UNCHANGED <<isr, i2c1_state>>
    BY <1>5, <2>1, <2>2 DEF Moves, DriverNext, BusStep, ApiNext, StartReadCmd, StartMask,
       WaitCheck, WaitSleep, Tick, IsrNext, IsrAbort, IsrOver, IsrRx, IsrDrain, IsrDrainEnd,
       IsrTx, PumpRead, PumpWrite, PumpEnd, IsrStop, IsrStopEnd, IsrExit, Takes, GivesUp,
       i2cvars, drvvars
  <2> QED
    BY <2>1, <2>3 DEF StormInv
<1>6. CASE ~(hits > StormLimit) /\ ~Begins /\ ~IsrStorm /\ ~IsrEnter
  <2>1. UNCHANGED hits
    BY <1>6 DEF Moves, DriverNext, BusStep, ApiNext, StartReadCmd, StartState, StartMask,
       WaitCheck, WaitSleep, Tick, IsrNext, IsrAbort, IsrOver, IsrRx, IsrDrain, IsrDrainEnd,
       IsrTx, PumpRead, PumpWrite, PumpEnd, IsrStop, IsrStopEnd, IsrExit, Takes, GivesUp,
       i2cvars, drvvars
  <2> QED
    BY <1>6, <2>1 DEF StormInv
<1> QED
  BY <1>2, <1>3, <1>4, <1>5, <1>6

LEMMA EntriesInit == DriverInit => EntriesInv
<1> SUFFICES ASSUME DriverInit PROVE EntriesInv
  OBVIOUS
<1>1. /\ i2c1_state = "I2C_IDLE" /\ hits = 0 /\ isr = "off" /\ ~desc.write_is_data
      /\ desc.length \in Nat /\ intr_mask = Always
  BY DEF DriverInit, ReadDescriptor, NewDescriptor
<1>2. HalfInv /\ SeenInv /\ MaskInv /\ WireInv /\ StartEntries /\ BusyEntries /\ ErrorEntries
      /\ FaultInv
  BY <1>1 DEF HalfInv, SeenInv, MaskInv, WireInv, StartEntries, BusyEntries, ErrorEntries,
     FaultInv, Busy
<1>3. RestEntries
  BY <1>1 DEF RestEntries
<1>4. KeptInv /\ StormInv
  <2>1. ~(hits > StormLimit)
    BY <1>1, DriverAssumption
  <2> QED
    BY <1>1, <2>1 DEF KeptInv, StormInv, Always, Pacing
<1> QED
  BY <1>2, <1>3, <1>4, CountersInit DEF EntriesInv

LEMMA EntriesStep ==
  ASSUME DriverTypeOK, DriverInv, EntriesInv, Moves, PromptStart PROVE EntriesInv'
<1>1. DriverNext \/ Begins \/ Yields \/ UNCHANGED i2cvars
  BY MovesYield DEF Moves
<1>2. Counters' /\ SeenInv'
  BY <1>1, CountersStep, SeenStep DEF EntriesInv
<1>3. HalfInv' /\ MaskInv' /\ WireInv' /\ StartEntries'
  BY HalfStep, MaskStep, WireStep, StartEntriesStep DEF EntriesInv
<1>4. BusyEntries' /\ ErrorEntries' /\ RestEntries' /\ FaultInv'
  BY BusyEntriesStep, ErrorEntriesStep, RestEntriesStep, FaultStep DEF EntriesInv
<1>5. KeptInv' /\ StormInv'
  BY KeptStep, StormStep DEF EntriesInv
<1> QED
  BY <1>2, <1>3, <1>4, <1>5 DEF EntriesInv

(* An interrupt the handler has seen is one of those counted.              *)
LEMMA OwedIsPending ==
  ASSUME DriverTypeOK, AbortRaised, SeenInv, Settling, Owed PROVE Pending >= 1
<1>1. PICK i \in {"TX_ABRT", "RX_OVER", "STOP_DET"} : i \in latched
  BY DEF Owed, Settling, SeenInv, AbortRaised
<1>2. Flag(i) = 1
  BY <1>1 DEF Flag
<1>3. Flags >= 1
  BY <1>1, <1>2, PendingType DEF Flags, DriverTypeOK
<1> QED
  BY <1>3, PendingType DEF Pending, DriverTypeOK

LEMMA SettledBound ==
  ASSUME DriverTypeOK, AbortRaised, SeenInv, Stormed \/ Settling
  PROVE  hits <= 2 * desc.length + 2
<1>1. hits \in Nat /\ desc.length \in Nat /\ Pending \in Nat
  BY SeriesType, PendingType DEF DriverTypeOK
<1>2. CASE Settling
  <2>1. hits + Pending <= (2 * desc.length + 2) + (IF Owed THEN 1 ELSE 0)
    BY <1>2 DEF Settling
  <2>2. Owed => Pending >= 1
    BY <1>2, OwedIsPending
  <2>3. PICK b \in Nat : b = 2 * desc.length + 2
    BY <1>1
  <2>4. hits + Pending <= b + (IF Owed THEN 1 ELSE 0)
    BY <2>1, <2>3
  <2>5. hits <= b
    BY <1>1, <2>2, <2>3, <2>4
  <2> QED
    BY <2>3, <2>5
<1>3. CASE Stormed
  BY <1>3 DEF Stormed
<1> QED
  BY <1>2, <1>3

(* The bound on the entries of any transfer.                               *)
LEMMA EntriesBound ==
  ASSUME DriverTypeOK, DriverInv, EntriesInv PROVE hits <= 2 * desc.length + 2
<1>1. hits \in Nat /\ desc.length \in Nat /\ Pending \in Nat
  BY SeriesType, PendingType DEF DriverTypeOK
<1>2. CASE Busy
  <2>1. hits <= Progress + (IF Cause THEN 1 ELSE 0)
    BY <1>2 DEF EntriesInv, BusyEntries
  <2> QED
    BY <1>1, <2>1, ProgressBound DEF EntriesInv
<1>3. CASE i2c1_state = "I2C_ERROR"
  BY <1>3, SettledBound
  DEF EntriesInv, ErrorEntries, AbortRaised, DriverInv, ControlInv, PlaceInv, Aborted
<1>5. CASE i2c1_state \in {"I2C_IDLE", "I2C_DONE"}
  BY <1>5 DEF EntriesInv, RestEntries
<1> QED
  BY <1>2, <1>3, <1>5 DEF DriverTypeOK, State, Busy

(* With a limit above the bound the guard never fires, and an error always *)
(* has its cause in the descriptor.                                        *)
LEMMA NoStorm ==
  ASSUME DriverTypeOK, DriverInv, EntriesInv, 2 * desc.length + 2 <= StormLimit
  PROVE  ~IsrStorm /\ (i2c1_state = "I2C_ERROR" => desc.fault # {})
<1>1. hits \in Nat /\ desc.length \in Nat /\ StormLimit \in Nat
  BY SeriesType, DriverAssumption DEF DriverTypeOK
<1>2. ~IsrStorm
  BY <1>1, StormWithin DEF IsrStorm, EntriesInv
<1>3. ~(hits > StormLimit)
  BY <1>1, EntriesBound
<1> QED
  BY <1>2, <1>3 DEF EntriesInv, FaultInv

-----------------------------------------------------------------------------
(* The descriptor names one request from the call that makes it to the     *)
(* call that makes the next.                                               *)

LEMMA RequestKept ==
  ASSUME DriverTypeOK, DriverNext \/ Yields \/ UNCHANGED i2cvars
  PROVE  /\ desc'.reg_addr = desc.reg_addr /\ desc'.length = desc.length
         /\ desc'.write_registers = desc.write_registers /\ desc'.data = desc.data
<1>1. desc \in Descriptor
  BY DEF DriverTypeOK
<1>2. CASE IsrAbort \/ IsrOver \/ IsrDrain
  BY <1>1, <1>2 DEF IsrAbort, IsrOver, IsrDrain, Descriptor
<1>3. CASE PumpRead \/ PumpWrite
  BY <1>1, <1>3 DEF PumpRead, PumpWrite, Descriptor
<1> QED
  BY <1>2, <1>3, DescSteps

(* Only a start call leaves the rest between two transfers.                *)
InUse == thread \in Starting \/ i2c1_state # "I2C_IDLE"

LEMMA UseBegins ==
  ASSUME DriverTypeOK, DriverInv, InUse',
         DriverNext \/ Takes \/ GivesUp \/ UNCHANGED i2cvars
  PROVE  InUse
<1> SUFFICES ASSUME ~InUse PROVE FALSE
  OBVIOUS
<1>1. thread \notin Starting /\ i2c1_state = "I2C_IDLE"
  BY DEF InUse
<1>2. isr = "off"
  BY <1>1 DEF DriverInv, ControlInv, RestInv
<1>3. ~IsrNext
  BY <1>1, <1>2, IrqFacts DEF IsrNext, IsrStorm, IsrEnter, IsrAbort, IsrOver, IsrRx, IsrDrain,
     IsrDrainEnd, IsrTx, PumpRead, PumpWrite, PumpEnd, IsrStop, IsrStopEnd, IsrExit
<1>4. i2c1_state' = "I2C_IDLE" /\ thread' \notin Starting
  BY <1>1, <1>3 DEF DriverNext, BusStep, ApiNext, StartReadCmd, StartState, StartMask,
     WaitCheck, WaitSleep, Tick, Wake, Takes, GivesUp, i2cvars, drvvars, Starting
<1> QED
  BY <1>4 DEF InUse

-----------------------------------------------------------------------------
(* A read changes no register of the sensor, whatever becomes of it: the   *)
(* one byte it writes is the register address that opens it.               *)
ReadsOnly ==
  IsRead => \A k \in 1 .. Len(tx) : tx[k].read \/ (k = 1 /\ bus # "w_data")

LEMMA ReadsOnlyStep ==
  ASSUME DriverTypeOK, ReadsOnly, IsRead, DriverNext, ~PumpWrite,
         thread = "r_cmd" => tx = <<>> /\ bus # "w_data"
  PROVE  ReadsOnly' /\ regs' = regs
<1>1. /\ tx \in Seq(Cmd) /\ Len(tx) \in Nat /\ (tx = <<>> <=> Len(tx) = 0)
      /\ (shifting => tx # <<>>) /\ desc \in Descriptor
  BY LenProperties, EmptySeq DEF DriverTypeOK, ControllerTypeOK
<1>2. \A k \in 1 .. Len(tx) : tx[k].read \/ (k = 1 /\ bus # "w_data")
  BY DEF ReadsOnly
<1>3. CASE BusStep
  <2>1. CASE HwFetch \/ HwStop
    <3>1. UNCHANGED <<tx, regs>> /\ (bus # "w_data" => bus' # "w_data")
      BY <2>1 DEF HwFetch, HwStop
    <3> QED
      BY <1>2, <3>1 DEF ReadsOnly
  <2>2. CASE HwWriteByte \/ HwReadByte
    <3>1. tx # <<>> /\ tx' = Tail(tx)
      BY <1>1, <2>2 DEF HwWriteByte, HwReadByte, Complete
    <3>2. /\ Len(Tail(tx)) = Len(tx) - 1 /\ Head(tx) = tx[1]
          /\ \A k \in 1 .. Len(Tail(tx)) : Tail(tx)[k] = tx[k + 1]
      BY <1>1, <3>1, HeadTailProperties
    <3>3. \A k \in 1 .. Len(Tail(tx)) : k + 1 \in 1 .. Len(tx) /\ k + 1 # 1
      BY <1>1, <3>2
    <3>4. \A k \in 1 .. Len(Tail(tx)) : Tail(tx)[k].read
      BY <1>2, <3>2, <3>3
    <3>5. ReadsOnly'
      BY <3>1, <3>4 DEF ReadsOnly
    <3>6. 1 \in 1 .. Len(tx)
      BY <1>1, <3>1
    <3>7. ~Head(tx).read => bus # "w_data"
      BY <1>2, <3>2, <3>6
    <3> QED
      BY <2>2, <3>5, <3>7 DEF HwWriteByte, HwReadByte
  <2>3. ASSUME NEW source, HwAbort(source) PROVE ReadsOnly' /\ regs' = regs
    <3>1. tx' = <<>> /\ Len(tx') = 0 /\ regs' = regs
      BY <2>3, EmptySeq DEF HwAbort
    <3> QED
      BY <3>1 DEF ReadsOnly
  <2> QED
    BY <1>3, <2>1, <2>2, <2>3 DEF BusStep, HwNext
<1>4. CASE StartReadCmd
  <2>1. UNCHANGED <<bus, regs>> /\ tx = <<>> /\ bus # "w_data"
    BY <1>4 DEF StartReadCmd
  <2>2. Len(tx') \in {0, 1}
    BY <1>1, <1>4, <2>1, EmptySeq DEF StartReadCmd, PushCmd
  <2>3. \A k \in 1 .. Len(tx') : k = 1
    <3>1. \A n \in {0, 1} : \A k \in 1 .. n : k = 1
      OBVIOUS
    <3> QED
      BY <2>2, <3>1
  <2> QED
    BY <2>1, <2>3 DEF ReadsOnly
<1>5. CASE PumpRead
  <2>1. UNCHANGED <<bus, regs>>
    BY <1>5 DEF PumpRead
  <2>2. PICK restart \in BOOLEAN, stop \in BOOLEAN : PushCmd(ReadCmd(restart, stop))
    <3>1. (desc.issued = 0) \in BOOLEAN /\ LastOne \in BOOLEAN
      BY DEF LastOne
    <3> QED
      BY <1>5, <3>1 DEF PumpRead
  <2>3. ReadCmd(restart, stop).read = TRUE
    BY DEF ReadCmd
  <2>4. CASE tx' = tx
    BY <1>2, <2>1, <2>4 DEF ReadsOnly
  <2>5. CASE tx' = Append(tx, ReadCmd(restart, stop))
    <3>1. ReadCmd(restart, stop) \in Cmd
      BY ControllerAssumption DEF ReadCmd, Cmd, Byte
    <3>2. /\ Len(tx') = Len(tx) + 1 /\ tx'[Len(tx) + 1] = ReadCmd(restart, stop)
          /\ \A k \in 1 .. Len(tx) : tx'[k] = tx[k]
      BY <1>1, <2>5, <3>1, AppendProperties
    <3>3. \A k \in 1 .. Len(tx') : k \in 1 .. Len(tx) \/ k = Len(tx) + 1
      BY <1>1, <3>2
    <3>4. \A k \in 1 .. Len(tx') : tx'[k].read \/ (k = 1 /\ bus' # "w_data")
      BY <1>2, <2>1, <2>3, <3>2, <3>3
    <3> QED
      BY <2>1, <3>4 DEF ReadsOnly
  <2> QED
    BY <2>2, <2>4, <2>5 DEF PushCmd
<1>6. CASE ~BusStep /\ ~StartReadCmd /\ ~PumpRead
  <2>1. UNCHANGED <<tx, bus, regs>>
    BY <1>6 DEF DriverNext, ApiNext, StartState, StartMask, WaitCheck, WaitSleep, Tick, IsrNext,
       IsrStorm, IsrEnter, IsrAbort, IsrOver, IsrRx, IsrDrain, IsrDrainEnd, IsrTx, PumpEnd,
       IsrStop, IsrStopEnd, IsrExit, hwvars
  <2> QED
    BY <1>2, <2>1 DEF ReadsOnly
<1> QED
  BY <1>3, <1>4, <1>5, <1>6

(* With the driver's invariant there are no other conditions.              *)
LEMMA ReadsKeep ==
  ASSUME DriverTypeOK, DriverInv, ReadsOnly, Moves
  PROVE  ReadsOnly' /\ (IsRead => regs' = regs)
<1>1. CASE Begins
  <2>1. UNCHANGED <<tx, bus, regs>> /\ tx = <<>>
    BY <1>1 DEF Begins, StartRead, StartWrite, hwvars, DriverInv, ControlInv, RestInv, Starting
  <2>2. Len(tx') = 0
    BY <2>1, EmptySeq
  <2> QED
    BY <2>1, <2>2 DEF ReadsOnly
<1>2. CASE Takes \/ GivesUp \/ UNCHANGED i2cvars
  BY <1>2 DEF Takes, GivesUp, i2cvars, hwvars, drvvars, ReadsOnly, IsRead
<1>3. CASE DriverNext
  <2>1. (desc.write_registers)' = desc.write_registers
    BY <1>3, RequestKept
  <2>2. CASE IsRead
    <3>1. ~PumpWrite
      BY <2>2, PumpWriteFacts
    <3>2. thread = "r_cmd" => tx = <<>> /\ bus # "w_data"
      BY DEF DriverInv, ControlInv, StartInv, Starting, Quiet
    <3> QED
      BY <1>3, <2>2, <3>1, <3>2, ReadsOnlyStep
  <2>3. CASE ~IsRead
    BY <2>1, <2>3 DEF ReadsOnly, IsRead
  <2> QED
    BY <2>2, <2>3
<1> QED
  BY <1>1, <1>2, <1>3 DEF Moves
=============================================================================
