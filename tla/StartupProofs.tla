--------------------------- MODULE StartupProofs ---------------------------
(***************************************************************************)
(* What Startup promises, for every number of variables, width of a u32,   *)
(* period and number of resets.  The invariant follows the pointer of the  *)
(* two loops through RAM and, once SysTick runs, ties `since' to the       *)
(* distance of ms from next, which no wrap changes.                        *)
(***************************************************************************)
EXTENDS Startup, TLAPS

Initial(i) == IF i <= DataSize THEN Image(i) ELSE 0
Before == {"xosc", "clk_sys", "clk_ref"}

(* The variables below dest are initialised, and above it nothing is said. *)
Copied ==
  /\ place \in Before => dest = 1
  /\ place = "data" => dest <= DataSize + 1
  /\ place = "bss" => dest >= DataSize + 1
  /\ place \in {"data", "bss"} => \A i \in Ram : i < dest => ram[i] = Initial(i)
  /\ place \in {"resets", "ticks"} => \A i \in Ram : ram[i] = Initial(i)

(* next is as far ahead of ms as the LED has still to wait.                *)
Ahead ==
  /\ place # "running" => since = 0
  /\ place = "running" => Sub(next, ms) = Period - since

StartupInv == TypeOK /\ Copied /\ Ahead

-----------------------------------------------------------------------------
LEMMA ValueFacts ==
  /\ Wrap \in Nat /\ Value = 0 .. Wrap - 1 /\ Period \in Value /\ Wrap - 1 \in Value
  /\ 0 \in Value /\ 1 \in Value /\ Half < Wrap /\ Wrap = 2 * Half
BY StartupAssumption DEF StartupAssumption, Wrap, Value

LEMMA RamFacts ==
  /\ NextAt \in Ram /\ MsAt \in Ram /\ NextAt # MsAt /\ DataSize < MsAt
  /\ NextAt = DataSize /\ MsAt \in Nat /\ DataSize \in Nat /\ Ram = 1 .. MsAt
BY StartupAssumption DEF StartupAssumption, NextAt, MsAt, Ram

LEMMA InitialIsValue == ASSUME NEW i \in Ram PROVE Initial(i) \in Value /\ Image(i) \in Value
BY ValueFacts DEF Initial, Image

(* u32 addition and subtraction stay in their range.                       *)
LEMMA AddSub ==
  ASSUME NEW a \in Value, NEW b \in Value
  PROVE  Add(a, b) \in Value /\ Sub(a, b) \in Value
BY ValueFacts, StartupAssumption DEF StartupAssumption, Add, Sub, Value, Wrap

(* One more millisecond: the distance from a to b shrinks by one, and the  *)
(* signed difference turns non-negative exactly when it reaches zero.      *)
LEMMA OneMore ==
  ASSUME NEW a \in Value, NEW b \in Value, NEW s \in 0 .. Period - 1,
         Sub(b, a) = Period - s
  PROVE  /\ Sub(Add(a, 1), b) < Half <=> s = Period - 1
         /\ s # Period - 1 => Sub(b, Add(a, 1)) = Period - (s + 1)
         /\ s = Period - 1 => Sub(Add(b, Period), Add(a, 1)) = Period
BY ValueFacts, StartupAssumption DEF StartupAssumption, Add, Sub, Value, Wrap

LEMMA Order ==
  /\ FirstPlace = "xosc"
  /\ BootOrder["xosc"] = "clk_sys" /\ BootOrder["clk_sys"] = "clk_ref"
  /\ BootOrder["clk_ref"] = "data" /\ BootOrder["data"] = "bss" /\ BootOrder["bss"] = "resets"
  /\ BootOrder["resets"] = "ticks" /\ BootOrder["ticks"] = "running"
  /\ DOMAIN BootOrder = {"xosc", "clk_sys", "clk_ref", "data", "bss", "resets", "ticks"}
<1>1. /\ BootOrder["xosc"] = "clk_sys" /\ BootOrder["clk_sys"] = "clk_ref"
      /\ BootOrder["clk_ref"] = "data" /\ BootOrder["data"] = "bss" /\ BootOrder["bss"] = "resets"
      /\ BootOrder["resets"] = "ticks" /\ BootOrder["ticks"] = "running"
  BY DEF BootOrder
<1>2. DOMAIN BootOrder = {"xosc", "clk_sys", "clk_ref", "data", "bss", "resets", "ticks"}
  BY DEF BootOrder
<1>3. \A p \in DOMAIN BootOrder :
        (\A q \in DOMAIN BootOrder : BootOrder[q] # p) <=> p = "xosc"
  BY <1>1, <1>2
<1>4. FirstPlace = "xosc"
  BY <1>2, <1>3 DEF FirstPlace
<1>5. QED
  BY <1>1, <1>2, <1>4

-----------------------------------------------------------------------------
LEMMA InitInv == Init => StartupInv
<1> SUFFICES ASSUME Init PROVE StartupInv
  OBVIOUS
<1>1. TypeOK
  <2>1. ram \in [Ram -> Value]
    BY StartupAssumption DEF StartupAssumption, Init
  <2>2. place \in DOMAIN BootOrder \cup {"running"} /\ {ready, xosc, led} \subseteq BOOLEAN
    BY Order DEF Init, AtReset
  <2>3. dest \in 1 .. MsAt + 1 /\ since \in 0 .. Period - 1 /\ resets \in Nat
    BY StartupAssumption, RamFacts DEF StartupAssumption, Init, AtReset
  <2>4. QED
    BY <2>1, <2>2, <2>3 DEF TypeOK
<1>2. Copied
  BY Order DEF Init, AtReset, Copied, Before
<1>3. Ahead
  BY Order DEF Init, AtReset, Ahead
<1>4. QED
  BY <1>1, <1>2, <1>3 DEF StartupInv

(* A polling loop ends: RAM is as it was, and what the next place asks of  *)
(* it is what this one did.                                                *)
LEMMA PassesInv ==
  ASSUME StartupInv, NEW p \in Polling, Passes(p)
  PROVE  StartupInv'
<1> USE DEF StartupInv, Passes
<1>1. p \in {"xosc", "clk_sys", "clk_ref", "resets", "ticks"}
  BY DEF Polling
<1>2. TypeOK'
  BY <1>1, Order DEF TypeOK
<1>3. Copied'
  <2>1. CASE p \in {"xosc", "clk_sys"}
    BY <2>1, Order DEF Copied, Before
  <2>2. CASE p = "clk_ref"
    <3>1. place' = "data" /\ dest' = 1 /\ ram' = ram
      BY <2>2, Order DEF Copied, Before
    <3>2. \A i \in Ram : ~(i < 1)
      BY RamFacts
    <3>3. QED
      BY <3>1, <3>2, RamFacts DEF Copied, Before
  <2>3. CASE p \in {"resets", "ticks"}
    BY <2>3, Order DEF Copied, Before
  <2>4. QED
    BY <1>1, <2>1, <2>2, <2>3
<1>4. Ahead'
  <2>1. CASE p # "ticks"
    BY <1>1, <2>1, Order DEF Ahead
  <2>2. CASE p = "ticks"
    <3>1. place' = "running" /\ since' = 0 /\ ram' = ram
      BY <2>2, Order DEF Ahead
    <3>2. ms = 0 /\ next = Period
      BY <2>2, RamFacts DEF Copied, Initial, Image, ms, next
    <3>3. Sub(next, ms) = Period
      BY <3>2, StartupAssumption DEF StartupAssumption, Sub
    <3>4. QED
      BY <3>1, <3>3, StartupAssumption DEF StartupAssumption, Ahead, ms, next
  <2>3. QED
    BY <2>1, <2>2
<1>5. QED
  BY <1>2, <1>3, <1>4

(* One turn of either loop initialises the variable at dest.               *)
LEMMA CopyInv == ASSUME StartupInv, CopyData PROVE StartupInv'
<1> USE DEF StartupInv, CopyData
<1>1. dest \in Ram /\ dest <= DataSize /\ dest \in Nat
  BY RamFacts DEF TypeOK
<1>2. Image(dest) = Initial(dest) /\ Image(dest) \in Value
  BY <1>1, InitialIsValue DEF Initial
<1>3. TypeOK'
  BY <1>1, <1>2, RamFacts DEF TypeOK
<1>4. Copied'
  <2>1. ASSUME NEW i \in Ram, i < dest'
        PROVE  ram'[i] = Initial(i)
    <3>1. i = dest \/ i < dest
      BY <1>1, <2>1, RamFacts
    <3>2. QED
      BY <1>1, <1>2, <2>1, <3>1 DEF Copied, TypeOK
  <2>2. QED
    BY <1>1, <2>1, RamFacts DEF Copied, Before
<1>5. Ahead'
  BY DEF Ahead
<1>6. QED
  BY <1>3, <1>4, <1>5

LEMMA ClearInv == ASSUME StartupInv, ClearBss PROVE StartupInv'
<1> USE DEF StartupInv, ClearBss
<1>1. dest \in Ram /\ dest > DataSize /\ dest \in Nat
  BY RamFacts DEF TypeOK, Copied
<1>2. 0 = Initial(dest) /\ 0 \in Value
  BY <1>1, ValueFacts, RamFacts DEF Initial
<1>3. TypeOK'
  BY <1>1, <1>2, RamFacts DEF TypeOK
<1>4. Copied'
  <2>1. ASSUME NEW i \in Ram, i < dest'
        PROVE  ram'[i] = Initial(i)
    <3>1. i = dest \/ i < dest
      BY <1>1, <2>1, RamFacts
    <3>2. QED
      BY <1>1, <1>2, <2>1, <3>1 DEF Copied, TypeOK
  <2>2. QED
    BY <1>1, <2>1, RamFacts DEF Copied, Before
<1>5. Ahead'
  BY DEF Ahead
<1>6. QED
  BY <1>3, <1>4, <1>5

(* Between the loops: the one of .bss begins where that of .data ended.    *)
LEMMA BetweenInv == ASSUME StartupInv, StartBss \/ CallMain PROVE StartupInv'
<1> USE DEF StartupInv
<1>1. CASE StartBss
  <2> USE <1>1 DEF StartBss
  <2>1. dest = DataSize + 1 /\ place' = "bss"
    BY Order, RamFacts DEF TypeOK, Copied
  <2>2. TypeOK'
    BY <2>1, Order, RamFacts DEF TypeOK
  <2>3. Copied'
    BY <2>1, RamFacts DEF Copied, Before
  <2>4. Ahead'
    BY <2>1 DEF Ahead
  <2>5. QED
    BY <2>2, <2>3, <2>4
<1>2. CASE CallMain
  <2> USE <1>2 DEF CallMain
  <2>1. dest = MsAt + 1 /\ place' = "resets"
    BY Order, RamFacts DEF TypeOK
  <2>2. TypeOK'
    BY <2>1, Order DEF TypeOK
  <2>3. \A i \in Ram : ram[i] = Initial(i)
    BY <2>1, RamFacts DEF Copied
  <2>4. Copied' /\ Ahead'
    BY <2>1, <2>3 DEF Copied, Before, Ahead
  <2>5. QED
    BY <2>2, <2>4
<1>3. QED
  BY <1>1, <1>2

(* SYSTICK_Handler, with what EveryPeriod says of it.                      *)
LEMMA TickInv ==
  ASSUME StartupInv, Tick
  PROVE  StartupInv' /\ ((led' # led) <=> since = Period - 1)
<1> DEFINE now == Add(ms, 1)
<1>1. /\ ms \in Value /\ next \in Value /\ since \in 0 .. Period - 1
      /\ Sub(next, ms) = Period - since /\ place = "running" /\ led \in BOOLEAN
  BY RamFacts DEF StartupInv, TypeOK, Ahead, Tick, ms, next
<1>2. now \in Value /\ Add(next, Period) \in Value
  BY <1>1, ValueFacts, AddSub
<1>3. Due(now) <=> since = Period - 1
  BY <1>1, OneMore DEF Due
<1>4. Due(now) \in BOOLEAN
  BY DEF Due
<1>5. (led' # led) <=> since = Period - 1
  <2>1. led' = (led # Due(now))
    BY DEF Tick
  <2>2. QED
    BY <1>1, <1>3, <1>4, <2>1
<1>6. /\ ms' = now /\ next' = IF Due(now) THEN Add(next, Period) ELSE next
      /\ ram' \in [Ram -> Value]
  BY <1>1, <1>2, RamFacts DEF StartupInv, TypeOK, Tick, ms, next
<1>7. since' = IF Due(now) THEN 0 ELSE since + 1
  BY DEF Tick
<1>8. since' \in 0 .. Period - 1
  BY <1>1, <1>3, <1>7, StartupAssumption DEF StartupAssumption
<1>9. TypeOK'
  <2>1. led' \in BOOLEAN /\ UNCHANGED <<place, dest, ready, xosc, resets>>
    BY DEF Tick
  <2>2. QED
    BY <1>6, <1>8, <2>1 DEF StartupInv, TypeOK
<1>10. Copied'
  BY <1>1 DEF StartupInv, Copied, Tick, Before
<1>11. Sub(next', ms') = Period - since'
  <2>1. CASE since = Period - 1
    BY <1>1, <1>3, <1>6, <1>7, <2>1, OneMore, StartupAssumption DEF StartupAssumption
  <2>2. CASE since # Period - 1
    BY <1>1, <1>3, <1>6, <1>7, <2>2, OneMore
  <2>3. QED
    BY <2>1, <2>2
<1>12. Ahead'
  BY <1>1, <1>11 DEF Ahead, Tick, ms, next
<1>13. QED
  BY <1>5, <1>9, <1>10, <1>12 DEF StartupInv

LEMMA ResetInv == ASSUME StartupInv, Reset PROVE StartupInv'
<1> USE DEF StartupInv, Reset
<1>1. TypeOK'
  <2>1. place' \in DOMAIN BootOrder \cup {"running"} /\ {ready', xosc', led'} \subseteq BOOLEAN
    BY Order DEF TypeOK
  <2>2. dest' \in 1 .. MsAt + 1 /\ since' \in 0 .. Period - 1 /\ resets' \in Nat
    BY StartupAssumption, RamFacts DEF StartupAssumption, TypeOK
  <2>3. QED
    BY <2>1, <2>2 DEF TypeOK
<1>2. Copied' /\ Ahead'
  BY Order DEF Copied, Before, Ahead
<1>3. QED
  BY <1>1, <1>2

LEMMA StepInv ==
  ASSUME StartupInv, [Next]_vars
  PROVE  StartupInv'
<1>1. CASE Settles
  <2>1. TypeOK'
    BY <1>1 DEF Settles, StartupInv, TypeOK
  <2>2. Copied' /\ Ahead'
    BY <1>1 DEF Settles, StartupInv, Copied, Ahead, ms, next
  <2>3. QED
    BY <2>1, <2>2 DEF StartupInv
<1>2. CASE Core
  BY <1>2, PassesInv, CopyInv, ClearInv, BetweenInv
  DEF Core, ConfigClocks, ResetsClear, ConfigureSystick, Polling
<1>3. CASE Tick
  BY <1>3, TickInv
<1>4. CASE Reset
  BY <1>4, ResetInv
<1>5. CASE Polls \/ UNCHANGED vars
  BY <1>5 DEF Polls, vars, StartupInv, TypeOK, Copied, Ahead, ms, next
<1>6. QED
  BY <1>1, <1>2, <1>3, <1>4, <1>5 DEF Next

LEMMA Inductive == Spec => []StartupInv
<1>1. StartupInv /\ [Next]_vars => StartupInv'
  BY StepInv
<1>2. QED
  BY InitInv, <1>1, PTL DEF Spec

-----------------------------------------------------------------------------
(* Types of every variable: the pointer of _crt0 stays in .data and .bss,  *)
(* and no more than a period passes without a toggle.                      *)
THEOREM StartupTypeCorrect == Spec => []TypeOK
<1>1. StartupInv => TypeOK
  BY DEF StartupInv
<1>2. QED
  BY Inductive, <1>1, PTL

(* main finds .data as in flash and .bss zero, from any content of RAM and *)
(* after resets at any moment.                                             *)
THEOREM MainFindsItsVariables == Spec => []MainInitialised
<1>1. StartupInv => MainInitialised
  BY DEF StartupInv, Copied, MainInitialised, Initial
<1>2. QED
  BY Inductive, <1>1, PTL

(* SYSTICK_Handler toggles the LED at every Period-th tick and at no other,*)
(* for every width of its counters.                                        *)
THEOREM PeriodIsKept == Spec => EveryPeriod
<1>1. StartupInv /\ [Next]_vars => [Tick => ((led' # led) <=> since = Period - 1)]_vars
  BY TickInv
<1>2. QED
  BY Inductive, <1>1, PTL DEF Spec, EveryPeriod
=============================================================================
