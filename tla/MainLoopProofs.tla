--------------------------- MODULE MainLoopProofs ---------------------------
(***************************************************************************)
(* Proofs about module MainLoop for any delays and any watchdog period     *)
(* that leave the budget of BudgetAssumption: the watchdog spares a board  *)
(* whose sensors answer, and nothing is powered while it does not run.     *)
(***************************************************************************)
EXTENDS MainLoop, TLAPS

(* Milliseconds since the last feed that were the program's own. *)
OwnMs == fed - waited

Beat == DelayMs + Slack

(* What each stage may add, in its delay under way, to the time since the     *)
(* last feed.  A round in the loop of set_global_overcurrent follows a feed.  *)
WithinBudget ==
  /\ stage \in Boot => fed = 0 /\ left = 0
  /\ stage = "beep" => OwnMs + left <= Beat
  /\ stage = "poll" => OwnMs + left <= Beat + PollMs
  /\ stage \in {"overcurrent_deinit", "flat_deinit"} =>
       OwnMs + left <= Beat + PollMs + DeinitMs + PollMs
  /\ stage = "bootloader_deinit" =>
       OwnMs + left <= Beat + PollMs + AckMs + DeinitMs + PollMs
  /\ stage = "bootloader" => left = 0
  /\ stage \in Loops \cup {"bootloader"} => OwnMs + left <= Budget
  /\ stage = "overcurrent" /\ reading => OwnMs = 0

(* The watchdog runs from iwdg_start on, and only then are there readings. *)
ArmedFromStart ==
  /\ stage \in Boot \ {"reset_board"} => ~armed
  /\ stage \notin (Boot \ {"reset_board"}) \cup {"bootloader"} => armed
  /\ ~armed => fed = 0
  /\ reading => stage \in Running \cup {"overcurrent"}

(* Between disable_all_outputs and the watchdog everything is off. *)
DarkUntilArmed ==
  /\ stage \in {"init_i2c_sensors", "outputs_init", "systick_init", "iwdg_start"} => powered = {}
  /\ offset # "loaded"

(* The inductive invariant. *)
IInv == TypeOK /\ WithinBudget /\ ArmedFromStart /\ DarkUntilArmed

USE TimesAssumption
USE DEF vars, timeVars, dogVars, Stages, Boot, Running, Deinit, Loops, Outs, smps_on_boot
USE DEF IInv, TypeOK, OwnMs, Beat, Budget

(* The program starts in the bootloader, with the watchdog stopped. *)
THEOREM InitEstablishes == Init => IInv
<1> SUFFICES ASSUME Init PROVE IInv
  OBVIOUS
<1>1. ClockTypeOK
  BY DEF ClockTypeOK, Init
<1>2. BoardTypeOK /\ FlagsTypeOK
  BY DEF BoardTypeOK, FlagsTypeOK, Init
<1>3. WithinBudget
  BY DEF WithinBudget, Init
<1>4. ArmedFromStart /\ DarkUntilArmed
  BY DEF ArmedFromStart, DarkUntilArmed, Init
<1>5. QED
  BY <1>1, <1>2, <1>3, <1>4

(* A shutdown starts with a budget left for usb_deinit, whether an interrupt  *)
(* of the main thread brings it about or the loop of set_global_overcurrent.  *)
LEMMA ShutdownPreserves ==
  ASSUME IInv, NEW to \in {"overcurrent_deinit", "flat_deinit"}, NEW late \in Nat,
         armed, OwnMs + late <= Beat + PollMs, Shutdown(to, late)
  PROVE  IInv'
<1>0. /\ left' \in Nat /\ left' <= DeinitMs + PollMs
      /\ stage' = to /\ OwnMs' = OwnMs + late
  BY DEF ClockTypeOK, Shutdown, Later
<1>1. ClockTypeOK'
  BY DEF ClockTypeOK, Shutdown, Later
<1>2. BoardTypeOK' /\ FlagsTypeOK'
  <2>1. BoardTypeOK'
    BY DEF BoardTypeOK, Shutdown, Later
  <2>2. FlagsTypeOK'
    BY DEF FlagsTypeOK, Shutdown, Later
  <2>3. QED
    BY <2>1, <2>2
<1>3. WithinBudget'
  BY <1>0 DEF ClockTypeOK, WithinBudget
<1>4. ArmedFromStart' /\ DarkUntilArmed'
  BY DEF ClockTypeOK, ArmedFromStart, DarkUntilArmed, Shutdown, Later
<1>5. QED
  BY <1>1, <1>2, <1>3, <1>4

(* Every step keeps the inductive invariant. *)
THEOREM NextPreserves == IInv /\ [Next]_vars => IInv'
<1> SUFFICES ASSUME IInv, [Next]_vars PROVE IInv'
  OBVIOUS
<1>1. CASE BootUp
  <2> USE <1>1
  <2>1. ClockTypeOK'
    BY DEF ClockTypeOK, BootUp, BootStep, InitPeripherals, DisableOutputs, NullSensors, Nulled,
       InitOutputs, systick_init, StartWatchdog, StartBeep
  <2>2. BoardTypeOK' /\ FlagsTypeOK'
    <3>1. BoardTypeOK'
      BY DEF BoardTypeOK, BootUp, BootStep, InitPeripherals, DisableOutputs, NullSensors, Nulled,
       InitOutputs, systick_init, StartWatchdog, StartBeep
    <3>2. FlagsTypeOK'
      BY DEF FlagsTypeOK, BootUp, BootStep, InitPeripherals, DisableOutputs, NullSensors, Nulled,
       InitOutputs, systick_init, StartWatchdog, StartBeep
    <3>3. QED
      BY <3>1, <3>2
  <2>3. WithinBudget'
    BY DEF ClockTypeOK, WithinBudget, ArmedFromStart, BootUp, BootStep, InitPeripherals, DisableOutputs, NullSensors, Nulled,
       InitOutputs, systick_init, StartWatchdog, StartBeep
  <2>4. ArmedFromStart' /\ DarkUntilArmed'
    BY DEF ClockTypeOK, ArmedFromStart, DarkUntilArmed, BootUp, BootStep, InitPeripherals, DisableOutputs, NullSensors, Nulled,
       InitOutputs, systick_init, StartWatchdog, StartBeep
  <2>5. QED
    BY <2>1, <2>2, <2>3, <2>4
<1>2. CASE BeepLoop
  <2>0. /\ stage' = "beep" /\ OwnMs' = 0
        /\ left' \in Nat /\ left' <= Beat
    BY <1>2 DEF BeepLoop, iwdg_reset, ClockTypeOK, WithinBudget
  <2> USE <1>2
  <2>1. ClockTypeOK'
    BY DEF ClockTypeOK, BeepLoop, iwdg_reset
  <2>2. BoardTypeOK' /\ FlagsTypeOK'
    <3>1. BoardTypeOK'
      BY DEF BoardTypeOK, BeepLoop, iwdg_reset
    <3>2. FlagsTypeOK'
      BY DEF FlagsTypeOK, BeepLoop, iwdg_reset
    <3>3. QED
      BY <3>1, <3>2
  <2>3. WithinBudget'
    BY <2>0 DEF WithinBudget
  <2>4. ArmedFromStart' /\ DarkUntilArmed'
    BY DEF ClockTypeOK, ArmedFromStart, DarkUntilArmed, BeepLoop, iwdg_reset
  <2>5. QED
    BY <2>1, <2>2, <2>3, <2>4
<1>3. CASE BeepOver
  <2>0. /\ stage' = "poll" /\ OwnMs' \in Int /\ OwnMs' <= Beat
        /\ left' \in Nat /\ left' <= PollMs
    BY <1>3 DEF BeepOver, ClockTypeOK, WithinBudget
  <2> USE <1>3
  <2>1. ClockTypeOK'
    BY DEF ClockTypeOK, BeepOver
  <2>2. BoardTypeOK' /\ FlagsTypeOK'
    <3>1. BoardTypeOK'
      BY DEF BoardTypeOK, BeepOver
    <3>2. FlagsTypeOK'
      BY DEF FlagsTypeOK, BeepOver
    <3>3. QED
      BY <3>1, <3>2
  <2>3. WithinBudget'
    BY <2>0 DEF WithinBudget
  <2>4. ArmedFromStart' /\ DarkUntilArmed'
    BY DEF ClockTypeOK, ArmedFromStart, DarkUntilArmed, BeepOver
  <2>5. QED
    BY <2>1, <2>2, <2>3, <2>4
<1>4. CASE PollAgain
  <2>0. /\ stage' = "poll" /\ OwnMs' = 0
        /\ left' \in Nat /\ left' <= PollMs
    BY <1>4 DEF PollAgain, iwdg_reset, ClockTypeOK, WithinBudget
  <2> USE <1>4
  <2>1. ClockTypeOK'
    BY DEF ClockTypeOK, PollAgain, iwdg_reset
  <2>2. BoardTypeOK' /\ FlagsTypeOK'
    <3>1. BoardTypeOK'
      BY DEF BoardTypeOK, PollAgain, iwdg_reset
    <3>2. FlagsTypeOK'
      BY DEF FlagsTypeOK, PollAgain, iwdg_reset
    <3>3. QED
      BY <3>1, <3>2
  <2>3. WithinBudget'
    BY <2>0 DEF WithinBudget
  <2>4. ArmedFromStart' /\ DarkUntilArmed'
    BY DEF ClockTypeOK, ArmedFromStart, DarkUntilArmed, PollAgain, iwdg_reset
  <2>5. QED
    BY <2>1, <2>2, <2>3, <2>4
<1>5. CASE jump_to_bootloader
  <2>0. /\ stage' = "bootloader_deinit" /\ OwnMs' \in Int /\ OwnMs' <= Beat + PollMs
        /\ left' \in Nat /\ left' <= AckMs + DeinitMs + PollMs
    BY <1>5 DEF jump_to_bootloader, ClockTypeOK, WithinBudget
  <2> USE <1>5
  <2>1. ClockTypeOK'
    BY DEF ClockTypeOK, jump_to_bootloader
  <2>2. BoardTypeOK' /\ FlagsTypeOK'
    <3>1. BoardTypeOK'
      BY DEF BoardTypeOK, jump_to_bootloader
    <3>2. FlagsTypeOK'
      BY DEF FlagsTypeOK, jump_to_bootloader
    <3>3. QED
      BY <3>1, <3>2
  <2>3. WithinBudget'
    BY <2>0 DEF WithinBudget
  <2>4. ArmedFromStart' /\ DarkUntilArmed'
    BY DEF ClockTypeOK, ArmedFromStart, DarkUntilArmed, jump_to_bootloader
  <2>5. QED
    BY <2>1, <2>2, <2>3, <2>4
<1>6. CASE FastTick
  <2>1. CASE /\ Later(1) /\ left' = left - 1 /\ slow' = slow + 1
             /\ TickEnds /\ UNCHANGED reading
    <3> USE <1>6, <2>1
    <3>1. ClockTypeOK'
      BY DEF ClockTypeOK, FastTick, Later, TickEnds, Count
    <3>2. BoardTypeOK' /\ FlagsTypeOK'
      <4>1. BoardTypeOK'
        BY DEF BoardTypeOK, FastTick, Later, TickEnds, Count
      <4>2. FlagsTypeOK'
        BY DEF FlagsTypeOK, FastTick, Later, TickEnds, Count
      <4>3. QED
        BY <4>1, <4>2
    <3>3. WithinBudget'
      BY DEF ClockTypeOK, WithinBudget, ArmedFromStart, FastTick, Later, TickEnds, Count
    <3>4. ArmedFromStart' /\ DarkUntilArmed'
      BY DEF ClockTypeOK, ArmedFromStart, DarkUntilArmed, FastTick, Later, TickEnds, Count
    <3>5. QED
      BY <3>1, <3>2, <3>3, <3>4
  <2>2. CASE Shutdown("overcurrent_deinit", 1)
    BY <1>6, <2>2, ShutdownPreserves DEF FastTick, ClockTypeOK, WithinBudget, ArmedFromStart
  <2>3. QED
    BY <1>6, <2>1, <2>2 DEF FastTick
<1>7. CASE SlowTick
  <2> USE <1>7
  <2>1. ClockTypeOK'
    BY DEF ClockTypeOK, SlowTick, Later
  <2>2. BoardTypeOK' /\ FlagsTypeOK'
    <3>1. BoardTypeOK'
      BY DEF BoardTypeOK, SlowTick, Later
    <3>2. FlagsTypeOK'
      BY DEF FlagsTypeOK, SlowTick, Later
    <3>3. QED
      BY <3>1, <3>2
  <2>3. WithinBudget'
    BY DEF ClockTypeOK, WithinBudget, ArmedFromStart, SlowTick, Later
  <2>4. ArmedFromStart' /\ DarkUntilArmed'
    BY DEF ClockTypeOK, ArmedFromStart, DarkUntilArmed, SlowTick, Later
  <2>5. QED
    BY <2>1, <2>2, <2>3, <2>4
<1>8. CASE RoundEnds
  <2>1. CASE reading' = FALSE /\ slow' = 0 /\ TickEnds /\ UNCHANGED <<left, fed>>
    <3> USE <1>8, <2>1
    <3>1. ClockTypeOK'
      BY DEF ClockTypeOK, RoundEnds, TickEnds, Count
    <3>2. BoardTypeOK' /\ FlagsTypeOK'
      <4>1. BoardTypeOK'
        BY DEF BoardTypeOK, RoundEnds, TickEnds, Count
      <4>2. FlagsTypeOK'
        BY DEF FlagsTypeOK, RoundEnds, TickEnds, Count
      <4>3. QED
        BY <4>1, <4>2
    <3>3. WithinBudget'
      BY DEF ClockTypeOK, WithinBudget, ArmedFromStart, RoundEnds, TickEnds, Count
    <3>4. ArmedFromStart' /\ DarkUntilArmed'
      BY DEF ClockTypeOK, ArmedFromStart, DarkUntilArmed, RoundEnds, TickEnds, Count
    <3>5. QED
      BY <3>1, <3>2, <3>3, <3>4
  <2>2. CASE \E to \in {"overcurrent_deinit", "flat_deinit"} : Shutdown(to, 0)
    BY <1>8, <2>2, ShutdownPreserves DEF RoundEnds, ClockTypeOK, WithinBudget, ArmedFromStart
  <2>3. QED
    BY <1>8, <2>1, <2>2 DEF RoundEnds
<1>9. CASE BusWait
  <2> USE <1>9
  <2>1. ClockTypeOK'
    BY DEF ClockTypeOK, ArmedFromStart, BusWait, Later
  <2>2. BoardTypeOK' /\ FlagsTypeOK'
    <3>1. BoardTypeOK'
      BY DEF BoardTypeOK, BusWait, Later
    <3>2. FlagsTypeOK'
      BY DEF FlagsTypeOK, BusWait, Later
    <3>3. QED
      BY <3>1, <3>2
  <2>3. WithinBudget'
    BY DEF ClockTypeOK, WithinBudget, ArmedFromStart, BusWait, Later
  <2>4. ArmedFromStart' /\ DarkUntilArmed'
    BY DEF ClockTypeOK, ArmedFromStart, DarkUntilArmed, BusWait, Later
  <2>5. QED
    BY <2>1, <2>2, <2>3, <2>4
<1>10. CASE Elapse
  <2> USE <1>10
  <2>1. ClockTypeOK'
    BY DEF ClockTypeOK, Elapse, Later
  <2>2. BoardTypeOK' /\ FlagsTypeOK'
    <3>1. BoardTypeOK'
      BY DEF BoardTypeOK, Elapse, Later
    <3>2. FlagsTypeOK'
      BY DEF FlagsTypeOK, Elapse, Later
    <3>3. QED
      BY <3>1, <3>2
  <2>3. WithinBudget'
    BY DEF ClockTypeOK, WithinBudget, ArmedFromStart, Elapse, Later
  <2>4. ArmedFromStart' /\ DarkUntilArmed'
    BY DEF ClockTypeOK, ArmedFromStart, DarkUntilArmed, Elapse, Later
  <2>5. QED
    BY <2>1, <2>2, <2>3, <2>4
<1>11. CASE DeinitReturns
  <2> USE <1>11
  <2>1. ClockTypeOK'
    BY DEF ClockTypeOK, DeinitReturns
  <2>2. BoardTypeOK' /\ FlagsTypeOK'
    <3>1. BoardTypeOK'
      BY DEF BoardTypeOK, DeinitReturns
    <3>2. FlagsTypeOK'
      BY DEF FlagsTypeOK, DeinitReturns
    <3>3. QED
      BY <3>1, <3>2
  <2>3. WithinBudget'
    BY DEF ClockTypeOK, WithinBudget, ArmedFromStart, DeinitReturns
  <2>4. ArmedFromStart' /\ DarkUntilArmed'
    BY DEF ClockTypeOK, ArmedFromStart, DarkUntilArmed, DeinitReturns
  <2>5. QED
    BY <2>1, <2>2, <2>3, <2>4
<1>12. CASE FaultLoop
  <2> USE <1>12
  <2>1. ClockTypeOK'
    BY DEF ClockTypeOK, FaultLoop, iwdg_reset
  <2>2. BoardTypeOK' /\ FlagsTypeOK'
    <3>1. BoardTypeOK'
      BY DEF BoardTypeOK, FaultLoop, iwdg_reset
    <3>2. FlagsTypeOK'
      BY DEF FlagsTypeOK, FaultLoop, iwdg_reset
    <3>3. QED
      BY <3>1, <3>2
  <2>3. WithinBudget'
    BY DEF ClockTypeOK, WithinBudget, ArmedFromStart, FaultLoop, iwdg_reset
  <2>4. ArmedFromStart' /\ DarkUntilArmed'
    BY DEF ClockTypeOK, ArmedFromStart, DarkUntilArmed, FaultLoop, iwdg_reset
  <2>5. QED
    BY <2>1, <2>2, <2>3, <2>4
<1>13. CASE FaultRead
  <2>1. CASE /\ Later(RoundMs) /\ reading' = FALSE
             /\ left' = DelayMs /\ turns' = LoopTurns
             /\ UNCHANGED <<stage, tone, slow, bus, armed, waited, powered, offset>>
    <3> USE <1>13, <2>1
    <3>1. ClockTypeOK'
      BY DEF ClockTypeOK, FaultRead, Later
    <3>2. BoardTypeOK' /\ FlagsTypeOK'
      <4>1. BoardTypeOK'
        BY DEF BoardTypeOK, FaultRead, Later
      <4>2. FlagsTypeOK'
        BY DEF FlagsTypeOK, FaultRead, Later
      <4>3. QED
        BY <4>1, <4>2
    <3>3. WithinBudget'
      BY DEF ClockTypeOK, WithinBudget, ArmedFromStart, FaultRead, Later
    <3>4. ArmedFromStart' /\ DarkUntilArmed'
      BY DEF ClockTypeOK, ArmedFromStart, DarkUntilArmed, FaultRead, Later
    <3>5. QED
      BY <3>1, <3>2, <3>3, <3>4
  <2>2. CASE Shutdown("flat_deinit", RoundMs)
    BY <1>13, <2>2, ShutdownPreserves DEF FaultRead, ClockTypeOK, WithinBudget, ArmedFromStart
  <2>3. QED
    BY <1>13, <2>1, <2>2 DEF FaultRead
<1>14. CASE FlatLoop
  <2> USE <1>14
  <2>1. ClockTypeOK'
    BY DEF ClockTypeOK, FlatLoop, iwdg_reset
  <2>2. BoardTypeOK' /\ FlagsTypeOK'
    <3>1. BoardTypeOK'
      BY DEF BoardTypeOK, FlatLoop, iwdg_reset
    <3>2. FlagsTypeOK'
      BY DEF FlagsTypeOK, FlatLoop, iwdg_reset
    <3>3. QED
      BY <3>1, <3>2
  <2>3. WithinBudget'
    BY DEF ClockTypeOK, WithinBudget, ArmedFromStart, FlatLoop, iwdg_reset
  <2>4. ArmedFromStart' /\ DarkUntilArmed'
    BY DEF ClockTypeOK, ArmedFromStart, DarkUntilArmed, FlatLoop, iwdg_reset
  <2>5. QED
    BY <2>1, <2>2, <2>3, <2>4
<1>15. CASE BusChanges
  <2> USE <1>15
  <2>1. ClockTypeOK'
    BY DEF ClockTypeOK, BusChanges
  <2>2. BoardTypeOK' /\ FlagsTypeOK'
    <3>1. BoardTypeOK'
      BY DEF BoardTypeOK, BusChanges
    <3>2. FlagsTypeOK'
      BY DEF FlagsTypeOK, BusChanges
    <3>3. QED
      BY <3>1, <3>2
  <2>3. WithinBudget'
    BY DEF ClockTypeOK, WithinBudget, ArmedFromStart, BusChanges
  <2>4. ArmedFromStart' /\ DarkUntilArmed'
    BY DEF ClockTypeOK, ArmedFromStart, DarkUntilArmed, BusChanges
  <2>5. QED
    BY <2>1, <2>2, <2>3, <2>4
<1>16. CASE WatchdogReset \/ BootloaderReset
  <2> USE <1>16
  <2>1. ClockTypeOK'
    BY DEF ClockTypeOK, WatchdogReset, BootloaderReset, Reset
  <2>2. BoardTypeOK' /\ FlagsTypeOK'
    <3>1. BoardTypeOK'
      BY DEF BoardTypeOK, WatchdogReset, BootloaderReset, Reset
    <3>2. FlagsTypeOK'
      BY DEF FlagsTypeOK, WatchdogReset, BootloaderReset, Reset
    <3>3. QED
      BY <3>1, <3>2
  <2>3. WithinBudget'
    BY DEF ClockTypeOK, WithinBudget, ArmedFromStart, WatchdogReset, BootloaderReset, Reset
  <2>4. ArmedFromStart' /\ DarkUntilArmed'
    BY DEF ClockTypeOK, ArmedFromStart, DarkUntilArmed, WatchdogReset, BootloaderReset, Reset
  <2>5. QED
    BY <2>1, <2>2, <2>3, <2>4
<1>17. CASE StartProgram
  <2> USE <1>17
  <2>1. ClockTypeOK'
    BY DEF ClockTypeOK, StartProgram
  <2>2. BoardTypeOK' /\ FlagsTypeOK'
    <3>1. BoardTypeOK'
      BY DEF BoardTypeOK, StartProgram
    <3>2. FlagsTypeOK'
      BY DEF FlagsTypeOK, StartProgram
    <3>3. QED
      BY <3>1, <3>2
  <2>3. WithinBudget'
    BY DEF ClockTypeOK, WithinBudget, ArmedFromStart, StartProgram
  <2>4. ArmedFromStart' /\ DarkUntilArmed'
    BY DEF ClockTypeOK, ArmedFromStart, DarkUntilArmed, StartProgram
  <2>5. QED
    BY <2>1, <2>2, <2>3, <2>4
<1>18. CASE UNCHANGED vars
  <2> USE <1>18
  <2>1. ClockTypeOK'
    BY DEF ClockTypeOK, vars
  <2>2. BoardTypeOK' /\ FlagsTypeOK'
    <3>1. BoardTypeOK'
      BY DEF BoardTypeOK, vars
    <3>2. FlagsTypeOK'
      BY DEF FlagsTypeOK, vars
    <3>3. QED
      BY <3>1, <3>2
  <2>3. WithinBudget'
    BY DEF ClockTypeOK, WithinBudget, ArmedFromStart, vars
  <2>4. ArmedFromStart' /\ DarkUntilArmed'
    BY DEF ClockTypeOK, ArmedFromStart, DarkUntilArmed, vars
  <2>5. QED
    BY <2>1, <2>2, <2>3, <2>4
<1>19. QED
  BY <1>1, <1>2, <1>3, <1>4, <1>5, <1>6, <1>7, <1>8, <1>9, <1>10, <1>11, <1>12, <1>13, <1>14, <1>15, <1>16, <1>17, <1>18
     DEF Next, Program, Main, SysTick, Masked

(* Type correctness *)
THEOREM TypeCorrectness == Spec => []TypeOK
<1>1. IInv => TypeOK
  OBVIOUS
<1>2. QED
  BY <1>1, InitEstablishes, NextPreserves, PTL DEF Spec

(* As long as no busy wait is held up, the watchdog is fed in time, for any   *)
(* period beyond the budget.                                                  *)
THEOREM WatchdogSparesHealthy == Spec => []HealthyBoardIsFed
<1>1. IInv => HealthyBoardIsFed
  BY BudgetAssumption DEF ClockTypeOK, WithinBudget, ArmedFromStart, HealthyBoardIsFed, Alive
<1>2. QED
  BY <1>1, InitEstablishes, NextPreserves, PTL DEF Spec

(* Waiting without a watchdog and taking the sensors' zero are unloaded. *)
THEOREM DarkStartUp == Spec => []StartUpIsDark
<1>1. IInv => StartUpIsDark
  BY DEF ClockTypeOK, ArmedFromStart, DarkUntilArmed, StartUpIsDark
<1>2. QED
  BY <1>1, InitEstablishes, NextPreserves, PTL DEF Spec
=============================================================================
