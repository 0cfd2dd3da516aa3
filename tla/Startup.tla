------------------------------ MODULE Startup ------------------------------
(***************************************************************************)
(* From a reset to the blinking LED: _crt0.c (clocks, .data, .bss), the    *)
(* part of main that waits for the reset controller and the tick           *)
(* generator, and SYSTICK_Handler with its two counters, one of which .data*)
(* and one of which .bss must hold when it first runs.  RAM keeps what was *)
(* in it over a reset.                                                     *)
(*                                                                         *)
(* A definition with a suffix Bug... is not part of the model: it is the   *)
(* definition it is named after with one plausible mistake in it.          *)
(***************************************************************************)
EXTENDS Integers

CONSTANTS
  Half,       \* half the values a u32 takes (2^31)
  Period,     \* milliseconds between two toggles (500)
  DataSize, BssSize,  \* variables in .data and in .bss
  PowerUp,    \* what a variable may hold before the first reset
  ResetLimit  \* bound: resets

Wrap == 2 * Half
Value == 0 .. Wrap - 1

(* The handler is shorter than a millisecond, a period than half the range.*)
ASSUME StartupAssumption ==
  /\ Half \in Nat /\ Period \in Nat /\ 0 < Period /\ Period < Half
  /\ DataSize \in Nat \ {0} /\ BssSize \in Nat \ {0}
  /\ PowerUp \subseteq Value /\ ResetLimit \in Nat

(* RAM, one index for each variable: .data, then .bss.  `next' is the last *)
(* of the one, `ms' the last of the other.                                 *)
NextAt == DataSize
MsAt == DataSize + BssSize
Ram == 1 .. MsAt

(* The image of .data in flash: `next' starts at 500, the others anywhere. *)
Image(i) == IF i = NextAt THEN Period ELSE Wrap - 1

VARIABLES
  ram,
  place,   \* where the thread is
  dest,    \* the pointer of the two loops of _crt0
  ready,   \* the register the thread polls shows what it waits for
  xosc,    \* the crystal oscillator is enabled
  led,     \* the output of PIN25
  since,   \* ticks since the last toggle, or since SysTick was enabled
  resets   \* resets so far

vars == <<ram, place, dest, ready, xosc, led, since, resets>>
ms == ram[MsAt]
next == ram[NextAt]

(* The statements that wait for hardware, and the two loops, in order.     *)
BootOrderBugRef ==
  [clk_ref |-> "xosc", xosc |-> "clk_sys", clk_sys |-> "data", data |-> "bss",
   bss |-> "resets", resets |-> "ticks", ticks |-> "running"]
BootOrder ==
  [xosc |-> "clk_sys", clk_sys |-> "clk_ref", clk_ref |-> "data", data |-> "bss",
   bss |-> "resets", resets |-> "ticks", ticks |-> "running"]
FirstPlace == CHOOSE p \in DOMAIN BootOrder : \A q \in DOMAIN BootOrder : BootOrder[q] # p
Polling == {"xosc", "clk_sys", "clk_ref", "resets", "ticks"}

AtReset == place = FirstPlace /\ dest = 1 /\ ready = FALSE /\ led = FALSE /\ since = 0
Init == ram \in [Ram -> PowerUp] /\ AtReset /\ xosc = FALSE /\ resets = 0

-----------------------------------------------------------------------------
(* _config_sys_clock enables the oscillator before it waits for it; the    *)
(* reference clock cannot switch to an oscillator that is off.             *)
Settles ==
  /\ place \in Polling /\ ~ready
  /\ place = "clk_ref" => xosc
  /\ ready' = TRUE /\ xosc' = (xosc \/ place = "xosc")
  /\ UNCHANGED <<ram, place, dest, led, since, resets>>

(* A turn of a polling loop, and its end.                                  *)
Polls == place \in Polling /\ ~ready /\ UNCHANGED vars
Passes(p) ==
  /\ place = p /\ ready
  /\ place' = BootOrder[p] /\ ready' = FALSE
  /\ UNCHANGED <<ram, dest, xosc, led, since, resets>>

(* _config_sys_clock, with its two waits, and _config_ref_clock.           *)
ConfigClocks == \E p \in {"xosc", "clk_sys", "clk_ref"} : Passes(p)

(* The first wait of main, and the last, after which SysTick is enabled.   *)
ResetsClear == Passes("resets")
ConfigureSystick == Passes("ticks")

CopyData ==
  /\ place = "data" /\ dest <= DataSize
  /\ ram' = [ram EXCEPT ![dest] = Image(dest)] /\ dest' = dest + 1
  /\ UNCHANGED <<place, ready, xosc, led, since, resets>>

(* The first variable of .bss is left out.                                 *)
StartBssBugSkip ==
  /\ place = "data" /\ dest > DataSize
  /\ place' = BootOrder["data"] /\ dest' = dest + 1
  /\ UNCHANGED <<ram, ready, xosc, led, since, resets>>

StartBss ==
  /\ place = "data" /\ dest > DataSize
  /\ place' = BootOrder["data"] /\ dest' = DataSize + 1
  /\ UNCHANGED <<ram, ready, xosc, led, since, resets>>

ClearBss ==
  /\ place = "bss" /\ dest <= MsAt
  /\ ram' = [ram EXCEPT ![dest] = 0] /\ dest' = dest + 1
  /\ UNCHANGED <<place, ready, xosc, led, since, resets>>

CallMain ==
  /\ place = "bss" /\ dest > MsAt
  /\ place' = BootOrder["bss"]
  /\ UNCHANGED <<ram, dest, ready, xosc, led, since, resets>>

-----------------------------------------------------------------------------
(* SYSTICK_Handler, once a millisecond.  u32 addition and subtraction.     *)
Add(a, b) == IF a + b < Wrap THEN a + b ELSE a + b - Wrap
Sub(a, b) == IF a >= b THEN a - b ELSE a - b + Wrap

DueBugUnsigned(now) == now >= next
Due(now) == Sub(now, next) < Half      \* (i32)(ms - next) >= 0

Tick ==
  /\ place = "running"
  /\ LET now == Add(ms, 1) IN
       /\ ram' = [ram EXCEPT ![MsAt] = now,
                             ![NextAt] = IF Due(now) THEN Add(@, Period) ELSE @]
       /\ led' = (led # Due(now))
       /\ since' = IF Due(now) THEN 0 ELSE since + 1
  /\ UNCHANGED <<place, dest, ready, xosc, resets>>

(* The debug probe's reset, at any moment.  The oscillator may stay on.    *)
Reset ==
  /\ resets < ResetLimit /\ resets' = resets + 1
  /\ place' = FirstPlace /\ dest' = 1 /\ ready' = FALSE /\ led' = FALSE /\ since' = 0
  /\ xosc' \in {FALSE, xosc}
  /\ UNCHANGED ram

Core == ConfigClocks \/ CopyData \/ StartBss \/ ClearBss \/ CallMain
        \/ ResetsClear \/ ConfigureSystick
Next == Settles \/ Polls \/ Core \/ Tick \/ Reset

(* The core runs and the hardware answers a request it can answer.         *)
Spec == Init /\ [][Next]_vars /\ WF_vars(Core) /\ WF_vars(Settles) /\ WF_vars(Tick)

-----------------------------------------------------------------------------
(* Types, and no period of ticks passes without a toggle.                  *)
TypeOK ==
  /\ ram \in [Ram -> Value]
  /\ place \in DOMAIN BootOrder \cup {"running"}
  /\ dest \in 1 .. MsAt + 1
  /\ {ready, xosc, led} \subseteq BOOLEAN
  /\ since \in 0 .. Period - 1 /\ resets \in Nat

(* main finds every variable as the program initialises it, whatever RAM   *)
(* held at power-up or when a reset struck, also one in the middle of the  *)
(* copying.                                                                *)
MainInitialised ==
  place \in {"resets", "ticks"} =>
    \A i \in Ram : ram[i] = IF i <= DataSize THEN Image(i) ELSE 0

(* The LED toggles at every Period-th tick and at no other, the first time *)
(* after a reset as well as when ms, next or both have wrapped around.     *)
EveryPeriod == [][Tick => ((led' # led) <=> since = Period - 1)]_vars

(* No wait of the start-up is for something that a later statement enables.*)
StartupEnds == place # "running" ~> place = "running"
=============================================================================
