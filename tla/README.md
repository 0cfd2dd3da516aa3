# A TLA+ model of the BME280 I2C driver for the RP2350

The repository is a bare-metal firmware: an interrupt-driven I2C driver, a boot
sequence that reads the calibration of a BME280 sensor and configures it, formulas
for its readings, and a console (a formatting and buffering `Writer` on top of
SEGGER's RTT rings). One core runs `main`
and the interrupt handlers; the I2C controller, the sensor and a debug host move
on their own. The specifications here model that program and its surroundings, the
TLC configurations check them on small instances, and the TLAPS proofs establish
some of the results for every size.

Line numbers below refer to `i2c_state_machine.c`, `main.c`, `bme280.c`, `rtt.c`,
`Writer.c`, `_crt0.c` and `entry.c` under `src/src/`; `PROJECT.json` maps every definition to
its lines.

## The system

| component | state | operations | modelled by |
|---|---|---|---|
| I2C driver, `driver/i2c_state_machine.c` | `i2c1_state`, `i2c1_descriptor`, `dbg_isr_hits`, the interrupt mask | `i2c_init_master`, `i2c_irq_enable`, the two start calls, `I2C1_IRQ_Handler` with its drain and pump loops | `I2CStateMachine`, `I2CClient` |
| I2C1 block and sensor (hardware) | FIFOs, latched interrupts, bus phase, register pointer, registers | bytes sent and received, aborts, STOP | `I2CController` (external) |
| boot, `main.c` and `bme280.c` 6-60 | which transfer is next, the calibration bytes, the readback buffer | two calibration reads, configuration write, readback | `Firmware` |
| RTT up channel, `rtt.c` | the ring, `WrOff`, `RdOff`, `rtt_bytes_dropped` | `rtt_write`, `rtt_flush`, `writer_error`; the host's reads | `RttUp` |
| Writer, `Writer.c` 25-60, 243-249 | buffer and `current_size` | `writer_write`, `writer_write_char`, `flush` | `Console` |
| RTT down channel, `rtt_read` | the ring, its `WrOff` and `RdOff` | `rtt_read` (no caller yet); the host's writes | `RttDown` |
| Writer formatting, `Writer.c` 62-378 | the position in the format string | `writer_print`, decimal and hexadecimal conversion | `Format`, `Conversions` |
| start-up, `_crt0.c`, `main.c` 59-88 | RAM, the clocks' and resets' status | waits for the clocks, copying `.data`, clearing `.bss`, waits of `main` | `Startup` |
| SysTick, `main.c` 34-57 | `ms`, `next`, the LED | the LED toggles every 500 ms, across the wrap of `ms` | `Startup`; as a wake-up in `I2CStateMachine` |
| calibration decoding, `bme280.c` 49-55, `bme280.h` | `dig_*` | bytes to words | `Compensation` |
| compensation, `bme280.c` 62-130 | `t_fine` | three formulas (no caller yet) | `Compensation` |
| panic, `entry.c` 12-18 | | every unused vector and `PANIC` | the panic of `I2CClient` and `Firmware` |
| `clib_replacements.c` | none | `strlen`, `memcpy`, `memset` | `strlen` in `Format`, the copy of `writer_write` in `Console`; `memset` not modelled |
| vector table, headers, build files | none | | not modelled |

How they interact. `main` and `bme280.c` call a start function of the driver, then
loop on `i2c1_state` with WFI. The start call stores the descriptor, the state and
the mask; the handler, entered on a level (TX_EMPTY, RX_FULL) or a latched interrupt
(TX_ABRT, RX_OVER, STOP_DET), moves bytes between the FIFOs and the caller's memory
and finally sets I2C_DONE or I2C_ERROR. The caller resets the state to I2C_IDLE.
Nothing but `i2c1_state` tells one side what the other has done. The console shares
its ring with a debugger that reads and writes RAM over SWD, with no locking at all.

What is hard:

* the controller moves between any two statements of thread or handler, and so do
  the interrupts between any two statements of the thread;
* transfers are longer than the FIFOs, a pair of a write can be split between two
  interrupts, a byte can be lost when the handler is late;
* an abort flushes the FIFOs and owes the bus a STOP that comes later;
* an interrupt between the caller's test and its WFI does not wake it;
* one buffer is on a stack (`bme280.c` 36);
* errors are returned as fault bits, and 0 bits mean success;
* main ignores two results: the start call's (133, 148) and the readback's (149-153);
* the ring's two sides work on offsets that are out of date;
* RAM survives a reset, and a reset may strike while it is being initialised;
* counters wrap, products use the full width of 32 bits, `>>` rounds down, and digits
  are converted several at a time.

The `hazards` of `PROJECT.json` list these at their lines, with the properties
that would notice.

## Modules

`I2CController` is the hardware as the driver programs it. `tx` holds the commands
that are not completed; its head is in the shift register when `shifting`. TX_EMPTY
and RX_FULL are levels of the FIFOs, `latched` the interrupts that stay until
cleared; `IntrStat` is what IC_INTR_STAT shows under `intr_mask`. `HwAbort` stands
for a missing acknowledge of an address or a written byte and can happen at each.
A byte that finds the RX FIFO full is lost and latches RX_OVER. The sensor takes
written bytes alternately as a register address and a value, and sends registers
from its pointer on.

`I2CStateMachine` is the driver. The thread is at `thread` ("out" of the driver, at
a statement of a start call, or in the wait loop: about to "check", before the
"wfi", or in "sleep"), the handler at `isr`. The thread moves only with `isr =
"off"`. `StartRead`, `StartReadCmd`, `StartState`, `StartMask` are
`i2c_start_bulk_read_async` statement by statement, because an interrupt may fall
between them; the handler's blocks are one action each (`IsrAbort`, `IsrOver`,
`IsrRx`, `IsrTx`, `IsrStop`, `IsrExit`), and its loops one action per turn
(`IsrDrain`, `PumpRead`, `PumpWrite`), because the controller moves in between.
`desc` is the descriptor with the caller's arrays in it; `buf` is what has been
stored through `.buf`, by index, so that a store out of bounds or out of order
shows. `IsrStorm` is the guard of lines 174-184.

`I2CClient` runs the driver under any sequence of transfers from `Reads` and
`Writes`, with the callers' discipline: start in I2C_IDLE, wait, and panic on an
error.

`RegisterAccess` is the abstract specification: a transfer is requested, takes
effect on the registers pair by pair in order, succeeds or fails, and is
acknowledged. `I2CRefinement` maps the driver to it: the caller sees the request
when `i2c1_state` leaves I2C_IDLE and the result when it is I2C_DONE.

`Firmware` is the boot of `main` on the driver: `step` is the transfer main is at.
Each caller looks at other things when its wait is over, and each is its own action:
the calibration reads return the fault bits on anything but I2C_DONE (`Calibrated`),
the configuration panics on I2C_ERROR (`Configured`), the readback looks at nothing
(`SetupSuccess`).

`RttUp` is the ring. `rtt_write` copies both offsets, stores byte by byte, and
publishes `WrOff`; the host looks at the offsets, copies byte by byte, and publishes
`RdOff`. `Console` puts the Writer on top. Bytes are numbered, text upwards from 1
and errors downwards from -1, so that order, duplication and alteration show in the
bytes themselves.

`RttDown` is the mirror image: `rtt_read` copies both offsets, takes bytes until the
ring is empty by its copy or `max` is reached, and publishes `RdOff`.

`Format` reads a format string character by character: `place` is where the code's
nested conditions stand between two calls of `next`, `Panic` its ERROR_HANDLER.
Strings and arguments are chosen as they are read. A pair of braces that is whole
takes an argument and renders it (`Close`) with the operators of `Conversions`, which
are the code's algorithms. `Turn` is a turn of the loop that takes two decimal digits
from a table; ten digits take five turns. The hexadecimal conversion moves four digits
to a byte each and tests all of them for being letters with one addition; its masks
and shifts are written as the quotients and remainders they are.

`Compensation` has the calibration bytes of a sensor, decoded as the code decodes
them, and one action per formula; `t_fine` is the state between them. `>>` is division
that rounds down. TLC's integers have 32 bits and stop a run that overflows, as the
code's signed ones must not; where the code's pressure is unsigned (line 99),
`Quotient` computes the same value from numbers that stay below 2^31.

`Startup` goes from a reset to the running SysTick. `BootOrder` is the order of the
statements that wait for hardware, with the two loops between them; `Settles` is the
hardware's answer. `ram` holds a few variables of `.data`, the last of them `next`,
and of `.bss`, the last of them `ms`. `Reset` is the debug probe's, at any moment: RAM
keeps its content.

Definitions with a suffix `Bug...` are not part of any model. Each is the definition
it is named after with one plausible mistake (a dropped reset, a comparison off by
one, a wrong order) and is used to confirm that the properties notice.

## What the runs check

| run | instance | question |
|---|---|---|
| `i2c_driver` | FIFOs of 2, reads of 4 and 1 bytes, writes of 3 and 1 pairs, 4 registers; 26,460 states | are reads and writes exact, stores in bounds and in frame, errors and aborts explained, the mask as it was when idle, the bus quiet when done; does every transfer end, and every waiter return; does the driver implement `RegisterAccess` |
| `i2c_late` | reads of 3 and 1, writes of 2 and 1, without `PromptStart`, a storm guard of 8 entries; 549,265 states | is every waiter let go even if an abort arrives inside a start call or the guard masks all interrupts |
| `boot` | 8 registers, blocks of 3 and 1, 3 pairs, a readback of 4; 8,969 states | does main calibrate, configure and loop, or panic; what does a failed readback still raise in that loop |
| `boot_storm` | the same with a storm guard of 3 entries; 7,668 states | and when the guard fires in the middle of any transfer |
| `setup_success` | as `boot` | is what main shows as the readback what the sensor holds (no: finding) |
| `console` | ring of 4, Writer of 2, texts up to 3, 6 bytes of text and 2 of errors; 155,195 states | is the output in order, whole and accounted for without ever waiting |
| `rtt_down` | ring of 4, `max` up to 3, 7 bytes; 2,191 states | does every byte of the host arrive once and in order, and does a call take what was there |
| `format` | format strings of up to 7 characters, integer arguments at the edges of every size and power of ten; 164,480 states | is exactly the grammar the code accepts printed and everything else refused, and does every text read back as its argument |
| `compensation` | the humidity words of three sensors, the others of one (also with `dig_p1` = 0), readings over the operating range; 49,542 states | are the packed words decoded, is the temperature as fine as promised, is the pressure without a seam, does humidity rise from 0 to 100 %; no i32 overflows |
| `humidity_datasheet` | as `compensation` | is the humidity formula the datasheet's (no: finding) |
| `startup` | two variables each in `.data` and `.bss`, a u32 of 5 bits, a period of 5, two resets; 4,309 states | is RAM initialised when main starts, does the LED keep its period, does the start-up end |

Bounds. A transfer longer than a FIFO is the interesting case (26 bytes against 16
in the firmware), so FIFOs of 2 and transfers of 4 bytes or 3 pairs (6 bytes) make
every combination of full, empty and partly drained FIFOs occur; the one-byte
transfers are the case where the first command is the last. The write of three pairs
names a register of the read, so a value that is not there is seen. Bytes and
addresses share one small set, which makes confusing them visible and wraps the
sensor's pointer. `StormLimit` is 30 in `i2c_driver` and `boot`, where the guard must not matter (`FewEntries`
shows that no transfer of length n needs more than 2n + 2 entries, so the 10000 of the
code is out of reach; a transfer of the firmware is at most 26 bytes) 8 in
`i2c_late` and 3 in `boot_storm`, where it fires. In `console` the ring of 4 (three usable slots) is larger than the Writer's
buffer, as 1024 is than 512, a text can exceed both, and the ring is passed around
more than once; `Wrap`, 2^32 in the code, is 4, so that the drop counter wraps.
`TextLimit` and `ErrorLimit` bound the number of bytes only. The driver's own
counters need no bound: a descriptor counts to its length, and `hits` is reset
by each start.

In `rtt_down` the ring of 4 is passed around twice and `max` can be 0, cut a read short
or take a full ring. In `format` seven characters hold the longest pair of braces
(`{u:xb}`, six) with one before or after it, or two short pairs; a length of 8 is the
Writer's capacity and is refused. Outside of braces `a` and `}` stand for every
character but `{`; within them every character the code asks for occurs, and `{`
for the rest. `WordBits` is 30 in place of 32 because TLC's integers cannot hold more:
the largest number still has ten digits, and the sign rules are those of the width;
the upper three quarters of u32 are not tried, but `EveryTextReadsBack` holds of the
width 32, too. In `compensation` the calibration
is of the size sensors have, with negative and extreme nibbles among the humidity
words and a divisor of 0; pressure readings lie 25 apart around the place where the
formula changes branches. Outside the operating range (a calibration with which the
raw humidity is far above 100 %) line 123 squares more than an i32 holds; the run
does not claim those, and the theorems name their ranges. In `startup` the u32 wraps after 32 ticks, which the run
passes several times, since 5 does not divide 32 at every phase; two resets are
enough to interrupt an initialisation and the one after it.

A shorter instance is enough for `i2c_late`, which adds an interrupt inside every start
call: its transfers still exceed the FIFOs.

Deadlock is checked in `console`, `rtt_down`, `compensation` and
`startup`. The other configurations switch it off because the program stops there:
after a panic nothing moves any more, and in `format` the call is over.

Fairness. The core executes (weak fairness of the thread's steps and of the
handler's), the controller completes what it has begun, and SysTick keeps ticking
(`main.c` 46 enables it before any transfer and nothing disables it but a panic).
The client is not required to start a transfer. Without the ticks `WaiterReturns` and
`BootEnds` fail: the WFI of `bme280.c` 21 may be entered after the transfer's last
interrupt, and only the 1 kHz tick lets the caller look again. In `console` only the
core is fair; the host may never come. In `startup` the core is fair and so is each
answer of the hardware, but only where the hardware can answer: a clock does not
switch to an oscillator that is off.

## Assumptions

* `PromptStart`: no byte gets across the bus (at least 90 us at 100 kHz) while the few
  instructions of a start call run. It is a constant, and `i2c_late` shows what does
  not need it. Without it an abort of the register address can fall between line 146
  and line 147: the handler sees I2C_IDLE, drops the abort, and the transfer goes on
  from a flushed FIFO; then a read may end I2C_DONE with bytes read from wherever the
  sensor's pointer is. Stores stay in bounds and in frame and the waiter still
  returns. An interrupt handler longer than 90 us on top of the start call would be
  needed; SYSTICK_Handler, the only other one, is a few instructions.
* One core; the handler is not interrupted by another that touches the driver. SysTick
  may preempt or be preempted, but shares nothing with it.
* The interrupt is a level. An NVIC entry that is pending from before the handler cleared
  its cause, and then finds IC_INTR_STAT empty, is not modelled; such an entry changes
  nothing but `dbg_isr_hits`, so it is not in the bound of `FewEntries`.
* No second master, hence no arbitration loss, and no clock stretching by the sensor
  that never ends.
* `len` > 0, as every caller has it. A read of 0 bytes stores no command with a STOP
  and never ends.
* The order of the stores in `rtt_write` is that of the source. The barrier of `rtt.h`
  34 lacks a memory clobber, so this is a property of the build and not of the code.

## Findings

* `setup_success` (`main.c` 148-156): when the readback fails, main sets the state to
  I2C_IDLE, prints the uninitialised part of `readback` and "SETUP SUCCESS!". The
  fault bits that would tell are there (`ReadbackOrFault` in `boot`), main does not
  read them.
* `humidity_datasheet` (`bme280.c` 121): the comment of line 62 names the datasheet's
  formulas, but 2097162 and 1892 stand where those have 2097152 (2^21) and 8192
  (2^13, for rounding). The result differs by about one unit of 1/1024 %.

Two behaviours are recorded because they look wrong and are shown harmless in this
program. An error of the storm guard has no fault bit, so `get_tp_params` returns it
as 0, success; `boot_storm` shows that main then panics on the refused next start
(`CalibrationFirst`, `LoopIsConfigured`). And main ignores I2C_BUS_BUSY; it never gets
it unless the guard has fired (`NeverRefused` in `boot`).

## What is proved

Every safety property that a run checks is a theorem of its specification for all
values of the constants, and so is the refinement. Some rest on a hypothesis, which
the theorem names: the program as it is for the driver's contract, and for the
compensation formulas the ranges in which they are meant to be used.

**The driver** (`I2CDriverProofs`, `I2CClientProofs`). For every
depth of the FIFOs, number of registers, set of transfers and storm limit, with and
without `PromptStart` and aborts:

* `TypeCorrect`: `Spec => []TypeOK`. `TypeOK` is inductive; besides the types it says
  that a write's descriptor has as many addresses and values as its length (else the
  pump would read past the arrays) and that a reader's buffer is filled from index 0
  without gaps up to `received`.
* `StoresInBounds`: `Spec => []BufferBounds`. The invariant is `Counters`: received
  <= issued <= length. `CanDrain` and `CanPump` each keep one half of it and a new
  descriptor starts at 0; with `TypeOK` it gives the bound.
* `StoresInFrame`: `Spec => NoLateStore`. The invariant is `InFrame`: a busy state has
  its caller in the start call or the wait loop, and the drain loop runs only in
  state I2C_READING. It needs nothing of the hardware.
* `AbortsHaveSource`: `Spec => []AbortHasSource`. The invariant `SourceKept` says that
  a latched TX_ABRT has a source, and that the handler is in its abort block only with
  TX_ABRT still latched: nothing but the block itself clears it.

The others hold of the program as it is, `AsCalled`, which is `PromptStart` (see
Assumptions; without it `ReadExact` is false), and need that the client, as all callers
do, starts no transfer after an error. They are consequences of `ClientInv`, which is
inductive (`ClientInvariant`):

* `DriverInv` describes a transfer while it is under way. Everything is expressed by
  `Completed`, the commands issued less those in the FIFO: the FIFO holds the commands
  from there on (`QueueInv`), the bus is in the phase that number gives (`PhaseInv`),
  `received` and the bytes in the RX FIFO make up the bytes read so far, each of them
  the register it should be (`ReadInv`), every second byte written is the value of the
  register the one before named (`WriteInv`). `StopInv` is the delicate part: the
  handler works on a copy of the interrupts, and a STOP_DET in that copy, however old,
  still means that all commands are completed and that no byte is missing unless
  RX_OVER is in the same copy. An abort or an overrun switches the other parts off, as
  it does in the code.
* `EntriesInv` counts the entries of the handler. While a transfer is in progress each
  entry issues a command or stores a byte, or its cause is still ahead of the handler
  (`Cause`); after an error each entry takes one latched interrupt, of which the
  controller raises at most as many as commands are left (`Pending`). It needs to know
  that the mask excludes what is not wanted (`MaskInv`), that what the handler has
  seen is still there (`SeenInv`), and what the bus can still do (`WireInv`). `KeptInv`
  is the other part of the mask: only the guard takes away what `i2c_irq_enable` gave,
  and after it no start call, which would reset `hits`, is accepted (`StormInv`).

From these:

* `ReadsAreExact`, `WritesAreExact`, `DoneLeavesNothing`, `MaskedOutsideTransfers`:
  `ReadExact`, `WriteExact`, `DoneIsQuiet`, `IdleIsMasked`.
* `EntriesAreFew`: `FewEntries`, at most 2n + 2 entries for n bytes or pairs.
* `ErrorsHaveFaults`: `ErrorHasFault`. It also assumes `LimitIsHigh`: the storm limit is not
  below 2n + 2 for any transfer of the client. In the code it is 10000 and n at most 26;
  `EntriesAreFew` then excludes the guard, the only error without a bit. With a lower limit
  it is false (`boot_storm` has such errors).
* `DriverImplements`: `Spec => ImplementsRegisterAccess`, under the same hypotheses.
  Each action has a lemma that names the abstract step: the start call that sets
  the state is a request, the bus step that moves a value to the sensor a pair, the
  handler's step to I2C_DONE or I2C_ERROR the outcome, the caller's reset the
  acknowledgement, everything else a stutter. `RefInv` adds that a read changes no
  register (`ReadsOnly`) and that an abort leaves no command of a write behind
  (`WriteErrorInv`), so that registers change only in a write in progress.

**The boot** (`FirmwareProofs`), with `PromptStart`, for every calibration,
configuration and block read back. `MainInv` says that the transfer under way is the
one of main's step, on top of `DriverInv` and `EntriesInv`, which do not mention a
client.

* `CalibratesFirst` and `LoopsConfigured`: `CalibrationFirst` and `LoopIsConfigured`, for every
  storm limit. `CalibInv` contains the reason main survives a fault of 0: a calibration
  read that failed leaves I2C_ERROR, and main does not get past the next start with it.
* `LoopStaysCalm`: `LoopIsCalm`, for every storm limit. main sets I2C_IDLE after a
  readback that failed (153), and `DriverInv`, which describes a client that would not,
  is lost with it. `Calm` says what is left: the count of what is still on its way
  (`Settling`), the mask, and that an interrupt the handler has seen is still latched.
  Its steps are the ones after an error in `EntriesInv`, whose lemmas (`LatchedIrq`,
  `ErrorEnter`, `ErrorBlocks`) need no more than that no transfer is in progress.
* `StartsAccepted` and `ReadbackFaults`: `NeverRefused` and `ReadbackOrFault`, with
  `LimitIsHigh` for main's transfers; with a lower limit they are false.

**The console** (`ConsoleProofs`), for every size of the ring, the Writer's buffer and
the texts, and any behaviour of the host:

* `ConsoleTypeCorrect`: `Spec => []TypeOK`: indices stay in the ring, texts in the
  buffer.
* `UnreadIsKept`: `Spec => NoOverwrite`. The invariant `RingInv` orders the indices
  around the circle: from the old RdOff that `rtt_write` remembers, one meets the real
  RdOff, then WrOff, then `wr_idx`; from RdOff, the end of the host's part comes
  before WrOff. It is kept by both sides' steps in any interleaving.
* `TextInOrder`, `LossesCounted`, `ExcessDropped`: `InOrder`, `Accounted`,
  `DropsExcess`. The argument is about `Stream`, all text on its way. Most steps move
  text from one part of it to the next and leave it as it is (`StoreMoves`,
  `HostMoves`, `BeginMoves`, `TurnMoves`): for the ring this is that a byte stored
  behind the last extends the text between two indices (`RingExtend`) and a byte read
  is the first of it (`RingTake`), which needs the order of the indices and
  `PlaceInv`, that the host stays within the part it looked at. Only three steps
  change `Stream` (`StreamStep`): a call adds text at its end, an error in the middle,
  and the end of `rtt_write` removes what it has not stored. Order of two texts
  put together is order of each and of their letters pairwise (`SortedConcat`,
  `CrossConcat`); the counter is compared modulo its width (`ModAdd`).

**The down channel** (`RttDownProofs`), for every size of the ring and of `max`.
`DownInv` is `RingInv` with the sides exchanged, and says which byte of the host is
in which slot (`ContentInv`).

* `AllDelivered`: `Spec => []Delivered`; `TakesExactly`: `Spec => TakesWhatIsThere`.

**Start-up** (`StartupProofs`), for every number of variables, width of the counters,
period, content of RAM at power-up and number of resets:

* `MainFindsItsVariables` and `PeriodIsKept`: `Spec => []MainInitialised` and
  `Spec => EveryPeriod`; both use that the pointer of the loops stays in RAM and that no
  period passes without a toggle (`StartupTypeCorrect`). `Copied` says that everything below the
  pointer of the loops is initialised, and that the second loop starts where the first
  ended; so a reset, which sets the pointer back, cannot leave old values to `main`.
  `Ahead` says that `next` is `Period - since` ahead of `ms` in the arithmetic of u32:
  a tick shrinks the distance by one (`OneMore`) and a toggle adds a period, wherever
  the two are on the circle. At the start it rests on `Copied`.

**Format strings and texts** (`FormatProofs`), for format strings of every length, every
set of numbers and every word of 17 to 32 bits:

* `GrammarIsPrinted`: `Spec => []PrintsTheGrammar`. `GrammarInv` says at each `place`
  which characters were read since the last `{` (`Begun`), that every pair before is
  whole, and that after a panic some pair is not. The pairs of the grammar are first
  put as conditions on single characters (`StartsMatches`); a longer string changes
  nothing about a pair that is whole (`MatchesStay`), and a pair that has gone wrong
  stays wrong.
* `EveryTextReadsBack`: `Spec => []ReadsBack`. For decimals, `Written` is what a turn of
  the loop keeps (`TurnWrites`): the digits written and the number left make up the
  number, what is left has as many digits as there are to write, and the first one is
  not 0; `CountDigits` starts it (`CountDigitsLeast`). The sign is that of the least
  number, too (`SignedIsRead`). For hexadecimals, `CarriesKept` is the reason the digits
  can be converted together: neither the 6 that finds the letters nor the 39 that
  makes them carries out of the digit's byte (`Spread16Hexits`, `Spread32Hexits`); the
  bytes then come out in order (`CopyTwo`, `CopyFour`).

**Calibration and compensation** (`CompensationProofs`):

* `WordsUnpacked`: `Spec => []Unpacked`, for all bytes of a sensor, by the two halves of
  the shared byte.
* `TemperatureWithinAHundredth`: `Spec => [](TemperatureRange => Hundredth)`. The range is
  a reading within 500000 of 16 * `t1`, about 100 degrees to both sides of the sensor's
  reference, and |`t3`| below 2^13; `t1` and `t2` are any words. Each of the two terms
  is compared with its exact value (`FirstTerm`, 14 units of `t_fine` at most;
  `SecondTerm`, 9), and the last shift adds half of a hundredth.
* `TemperatureStaysI32`: in that range nothing the function computes leaves an i32.
* `HumidityRisesWithGain`: `Spec => [](HumidityRange => HumidityRises)`, for all words and
  every `t_fine`. The parabola that line 123 subtracts is a staircase with treads of
  2^15, and the difference falls at the end of each. Humidity rises all the same,
  because one unit of the scaled reading moves the product by the gain of line 121: the
  hypothesis is that the gain is at least a tread (and at most six, for the upper bound)
  and that the product is an i32. Then the staircase takes back less than the product
  gains (`ParabolaChange`).
* `PressureHasNoSeam`: `Spec => [](PressureRange => NoSeam)`, for all words `p1` to `p8`
  and |`p9`| up to 2^14. The hypotheses are that the input fits the u32 of line 99, as
  `NoSeam` demands of the run's readings, that the divisor is 0 or at least 12500 and at
  most 2083 times the distance of the readings, and that the quotient is below 2^18.
  Both orders of division give a quotient less than two below the exact one
  (`QuotientCovers`), so it falls by two at least (`QuotientFalls`); the correction of
  lines 107-109 changes by a third of that and a constant (`CorrectionSmall`).

  Every state of `compensation` is within these ranges. Without them the properties
  are false of some words: the formulas overflow, or a sensor whose humidity gain is
  small shows the steps of the staircase.

The proofs rest on the named assumptions on constants (`ControllerAssumption`,
`DriverAssumption`, `ClientAssumption`, `FirmwareAssumption`, `UpAssumption`,
`ConsoleAssumption`, `DownAssumption`, `StartupAssumption`, `ConversionsAssumption`,
`FormatAssumption`, `CompensationAssumption`), which TLC evaluates in the runs, and on
what the theorems name. The instances of `i2c_driver` and `boot` satisfy `AsCalled` and
`LimitIsHigh`. The `Spec` of `I2CClient` is without fairness; the `FairSpec` that its
runs check implies it.

Only model-checked are the liveness properties (`TransferEnds`, `WaiterReturns`,
`BootEnds`, `CallsReturn`, `StartupEnds`): liveness under fairness and ENABLED are out
of the prover's reach. The formulas of `Compensation` outside of the ranges above
are neither proved nor checked.

## Not modelled

* What `main` prints of the parameters (103-112) and of the readback: the texts go through
  `Format` and `Console`, their content is not followed from one to the other. The
  number of bytes `writer_print` returns has no reader.
* The order in which a caller uses the compensation formulas: there is none yet.
  `t_fine` is 0 until the first temperature.
* A host that stays attached over a reset and publishes an offset of before the reset
  into the initialised control block; a sensor that still holds SDA low after a reset.
* The vector table and boot block of `entry.c`, `addresses.h` (Bosch's header) and the
  other headers are constants; `memset` has no caller but the compiler;
  the FPU is enabled and not used by anything modelled.
* The order of memory accesses the compiler makes of `rtt.c` (see Assumptions).
