------------------------------ MODULE MainLoop ------------------------------
(***************************************************************************)
(* The life of the program as a whole, in milliseconds: start-up, start    *)
(* beep, main loop, the two shutdowns and the way back to the bootloader   *)
(* (src/src/main.c, systick.c, output.c), under the independent watchdog   *)
(* that restarts the board unless it is fed.                               *)
(*                                                                         *)
(* What the program does to outputs, buzzer and sensors in detail is the   *)
(* subject of the other modules.  Here the outputs are the brain's and     *)
(* all the others together, the two sensors are one, and a round of        *)
(* readings is one step that a bus held by a sensor can delay for ever.    *)
(***************************************************************************)
EXTENDS Integers

CONSTANTS
  Period,      \* of the watchdog: 50 ms in the code
  DelayMs,     \* delay(20), between two feeds
  DeinitMs,    \* delay(2) in usb_deinit
  AckMs,       \* delay(1) in jump_to_bootloader
  SlowPeriod,  \* ticks to a round of sensor readings: 20
  BeepMs,      \* length of the start beep: 150
  LoopTurns,   \* feeds in one turn of set_global_overcurrent's loop: 50 + 25
  Slack,       \* by which the interrupts in it may lengthen a delay
  PollMs,      \* the longest that the callbacks of usb_poll take
  RoundMs      \* a round of readings on a bus that is not held

(* The longest way from one feed of the watchdog to the next: the board      *)
(* shuts down at the end of the main loop's first poll after the beep.       *)
Budget == DelayMs + Slack + PollMs + DeinitMs + PollMs + DelayMs

ASSUME TimesAssumption ==
  /\ Period \in Nat /\ DelayMs \in Nat /\ DeinitMs \in Nat /\ AckMs \in Nat
  /\ BeepMs \in Nat /\ Slack \in Nat /\ PollMs \in Nat /\ RoundMs \in Nat
  /\ SlowPeriod \in Nat \ {0} /\ LoopTurns \in Nat \ {0}
  /\ AckMs <= DelayMs /\ RoundMs <= DelayMs

ASSUME BudgetAssumption == Budget < Period

VARIABLES
  stage,    \* what the program is doing, see Stages
  left,     \* ms until the delay, or the callbacks, under way are over
  turns,    \* feeds left in the turn of set_global_overcurrent's loop
  tone,     \* buzzer_ticks_remaining of the start beep
  slow,     \* systick_slow_tick
  reading,  \* a round of sensor readings is under way
  bus,      \* "free", or "held" by a sensor that keeps a busy wait from ending
  armed,    \* the watchdog has been started
  fed,      \* ms since the watchdog was started or fed
  waited,   \* history: how many of these went to waiting for a held bus
  powered,  \* outputs that are on
  offset    \* ina219_offsets: "unset", or taken "unloaded" or "loaded"

timeVars == <<left, turns, tone, slow>>
dogVars  == <<armed, fed, waited>>
vars == <<stage, timeVars, reading, bus, dogVars, powered, offset>>

Outs    == {"brain", "others"}
Boot    == {"init", "disable_all_outputs", "init_i2c_sensors", "outputs_init",
            "systick_init", "iwdg_start", "reset_board"}
Running == {"beep", "poll"}
Deinit  == {"overcurrent_deinit", "flat_deinit", "bootloader_deinit"}
Loops   == {"overcurrent", "flat"}
Stages  == {"bootloader"} \cup Boot \cup Running \cup Deinit \cup Loops

-----------------------------------------------------------------------------
(***************************************************************************)
(* The bootloader runs first after every reset.  smps_on_boot has switched *)
(* the 5 V output on by the time it starts the program.                    *)
(***************************************************************************)
smps_on_boot == {"others"}

Init ==
  /\ stage = "bootloader"
  /\ left = 0 /\ turns = 0 /\ tone = 0 /\ slow = 0
  /\ reading = FALSE /\ bus = "free"
  /\ armed = FALSE /\ fed = 0 /\ waited = 0
  /\ powered = smps_on_boot /\ offset = "unset"

Reset ==
  /\ stage' = "bootloader"
  /\ left' = 0 /\ turns' = 0 /\ tone' = 0 /\ slow' = 0
  /\ reading' = FALSE /\ UNCHANGED bus
  /\ armed' = FALSE /\ fed' = 0 /\ waited' = 0
  /\ powered' = smps_on_boot /\ offset' = "unset"

(* Nothing but a reset stops the watchdog once it runs. *)
Alive == armed => fed < Period

WatchdogReset == ~Alive /\ stage # "bootloader" /\ Reset

(* With the watchdog still running the bootloader ends in a reset ... *)
BootloaderReset == stage = "bootloader" /\ armed /\ Reset

(* ... and otherwise, unless both buttons are held down, it starts the program. *)
StartProgram ==
  /\ stage = "bootloader" /\ ~armed
  /\ stage' = "init"
  /\ UNCHANGED <<timeVars, reading, bus, dogVars, powered, offset>>

-----------------------------------------------------------------------------
(***************************************************************************)
(* init() and the first statements of main, in their order.  The watchdog  *)
(* is started last, so until then no time is counted.                      *)
(***************************************************************************)
BootStep(from, to) == stage = from /\ stage' = to /\ UNCHANGED <<left, turns, bus, reading>>

(* usb_init, led_init, i2c_init: no poll follows before the beep is over. *)
InitPeripherals ==
  /\ BootStep("init", "disable_all_outputs")
  /\ UNCHANGED <<tone, slow, dogVars, powered, offset>>

(* Slip: the brain's supply is switched off, the rest left to outputs_init. *)
DisableOutputs_BrainOnly ==
  /\ BootStep("disable_all_outputs", "init_i2c_sensors")
  /\ powered' = powered \ {"brain"}
  /\ UNCHANGED <<tone, slow, dogVars, offset>>

(* disable_all_outputs(true) *)
DisableOutputs ==
  /\ BootStep("disable_all_outputs", "init_i2c_sensors")
  /\ powered' = {}
  /\ UNCHANGED <<tone, slow, dogVars, offset>>

(* What set_current_offset_value stores, unless a transfer fails. *)
Nulled == {"unset", IF powered = {} THEN "unloaded" ELSE "loaded"}

(* init_i2c_sensors(true): busy waits with no watchdog to end them. *)
NullSensors ==
  /\ bus = "free"
  /\ BootStep("init_i2c_sensors", "outputs_init")
  /\ offset' \in Nulled
  /\ UNCHANGED <<tone, slow, dogVars, powered>>

(* button_init, fan_init, adc_init, outputs_init, buzzer_init *)
InitOutputs ==
  /\ BootStep("outputs_init", "systick_init")
  /\ powered' = {}
  /\ UNCHANGED <<tone, slow, dogVars, offset>>

systick_init ==
  /\ BootStep("systick_init", "iwdg_start")
  /\ slow' = 0
  /\ UNCHANGED <<tone, dogVars, powered, offset>>

(* iwdg_set_period_ms(50), iwdg_start *)
StartWatchdog ==
  /\ BootStep("iwdg_start", "reset_board")
  /\ armed' = TRUE /\ fed' = 0 /\ waited' = 0
  /\ UNCHANGED <<tone, slow, powered, offset>>

(* reset_board and buzzer_note(523, 150) *)
StartBeep ==
  /\ BootStep("reset_board", "beep")
  /\ powered' = {"brain"} /\ tone' = BeepMs
  /\ UNCHANGED <<slow, dogVars, offset>>

BootUp ==
  \/ InitPeripherals \/ DisableOutputs \/ NullSensors \/ InitOutputs
  \/ systick_init \/ StartWatchdog \/ StartBeep

-----------------------------------------------------------------------------
iwdg_reset == fed' = 0 /\ waited' = 0 /\ UNCHANGED armed

(***************************************************************************)
(* The main thread, at the end of a delay or of a call of usb_poll.        *)
(***************************************************************************)

(* Slip: the loop that waits for the end of the beep does not feed. *)
BeepLoop_Unfed ==
  /\ stage = "beep" /\ left = 0 /\ tone > 0 /\ ~reading
  /\ left' \in DelayMs .. DelayMs + Slack
  /\ UNCHANGED <<stage, turns, tone, slow, reading, bus, dogVars, powered, offset>>

(* while (buzzer_running()) { iwdg_reset(); delay(20); } *)
BeepLoop ==
  /\ stage = "beep" /\ left = 0 /\ tone > 0 /\ ~reading
  /\ iwdg_reset
  /\ left' \in DelayMs .. DelayMs + Slack
  /\ UNCHANGED <<stage, turns, tone, slow, reading, bus, powered, offset>>

(* Slip: the loop waits for the beep the wrong way round. *)
BeepOver_Never ==
  /\ stage = "beep" /\ left = 0 /\ tone > BeepMs /\ ~reading
  /\ stage' = "poll" /\ left' \in 0 .. PollMs
  /\ UNCHANGED <<turns, tone, slow, reading, bus, dogVars, powered, offset>>

BeepOver ==
  /\ stage = "beep" /\ left = 0 /\ tone = 0 /\ ~reading
  /\ stage' = "poll" /\ left' \in 0 .. PollMs
  /\ UNCHANGED <<turns, tone, slow, reading, bus, dogVars, powered, offset>>

(* usb_poll has returned: commands may have switched any outputs. *)
PollAgain ==
  /\ stage = "poll" /\ left = 0 /\ ~reading
  /\ iwdg_reset
  /\ left' \in 0 .. PollMs
  /\ powered' \in SUBSET Outs
  /\ UNCHANGED <<stage, turns, tone, slow, reading, bus, offset>>

(* A DFU_DETACH request has set re_enter_bootloader. *)
jump_to_bootloader ==
  /\ stage = "poll" /\ left = 0 /\ ~reading
  /\ stage' = "bootloader_deinit"
  /\ left' \in AckMs + DeinitMs .. AckMs + DeinitMs + PollMs
  /\ powered' \in SUBSET {"brain"}
  /\ UNCHANGED <<turns, tone, slow, reading, bus, dogVars, offset>>

Main == BeepLoop \/ BeepOver \/ PollAgain \/ jump_to_bootloader

-----------------------------------------------------------------------------
(***************************************************************************)
(* Time, and the SysTick interrupt with it.                                *)
(***************************************************************************)
Count(n) == IF n = 0 THEN 0 ELSE n - 1
Later(d) == fed' = IF armed THEN fed + d ELSE fed

(* disable_all_outputs(true), systick_counter_disable, usb_deinit *)
Shutdown(to, late) ==
  /\ stage' = to /\ powered' = {}
  /\ left' \in DeinitMs .. DeinitMs + PollMs
  /\ turns' = 0 /\ tone' = 0 /\ slow' = 0 /\ reading' = FALSE
  /\ Later(late)
  /\ UNCHANGED <<bus, armed, waited, offset>>

(* The end of a tick: buzzer_tick, and detect_overcurrent that finds nothing. *)
TickEnds == tone' = Count(tone) /\ UNCHANGED <<stage, turns, bus, armed, waited, powered, offset>>

(* Slip: the slow tick comes one tick late. *)
FastTick_TooFar ==
  /\ stage \in Running /\ left > 0 /\ ~reading /\ slow < SlowPeriod
  /\ \/ /\ Later(1) /\ left' = left - 1 /\ slow' = slow + 1
        /\ TickEnds /\ UNCHANGED reading
     \/ Shutdown("overcurrent_deinit", 1)

(* A tick without readings *)
FastTick ==
  /\ stage \in Running /\ left > 0 /\ ~reading /\ slow < SlowPeriod - 1
  /\ \/ /\ Later(1) /\ left' = left - 1 /\ slow' = slow + 1
        /\ TickEnds /\ UNCHANGED reading
     \/ Shutdown("overcurrent_deinit", 1)

(* The tick in which the sensors are read begins. *)
SlowTick ==
  /\ stage \in Running /\ left > 0 /\ ~reading /\ slow = SlowPeriod - 1
  /\ Later(1) /\ left' = left - 1 /\ reading' = TRUE
  /\ UNCHANGED <<stage, turns, tone, slow, bus, armed, waited, powered, offset>>

(* Slip: the sensors are nulled again when they are set up again. *)
RoundEnds_Nulling ==
  /\ stage \in Running /\ reading /\ bus = "free"
  /\ reading' = FALSE /\ slow' = 0 /\ tone' = Count(tone)
  /\ offset' \in Nulled
  /\ UNCHANGED <<stage, turns, bus, armed, waited, powered, left, fed>>

(* The readings, and handle_uvlo and detect_overcurrent after them.  The     *)
(* time the interrupt takes is part of the delay that it lengthens.          *)
RoundEnds ==
  /\ stage \in Running /\ reading /\ bus = "free"
  /\ \/ /\ reading' = FALSE /\ slow' = 0
        /\ TickEnds /\ UNCHANGED <<left, fed>>
     \/ \E to \in {"overcurrent_deinit", "flat_deinit"} : Shutdown(to, 0)

(* Slip: the watchdog is fed while the driver waits. *)
BusWait_Feeding ==
  /\ reading /\ bus = "held"
  /\ fed' = 0 /\ waited' = 0
  /\ UNCHANGED <<stage, timeVars, reading, bus, armed, powered, offset>>

(* while (!(I2C_SR1(I2C1) & ...)): a millisecond of a busy wait. *)
BusWait ==
  /\ reading /\ bus = "held"
  /\ Later(1) /\ waited' = waited + 1
  /\ UNCHANGED <<stage, timeVars, reading, bus, armed, powered, offset>>

SysTick == FastTick \/ SlowTick \/ RoundEnds \/ BusWait

-----------------------------------------------------------------------------
(***************************************************************************)
(* With SysTick stopped: usb_deinit and the two loops that never end.      *)
(***************************************************************************)
Elapse ==
  /\ stage \in Deinit \cup Loops /\ left > 0 /\ ~reading
  /\ Later(1) /\ left' = left - 1
  /\ UNCHANGED <<stage, turns, tone, slow, reading, bus, armed, waited, powered, offset>>

(* usb_deinit returns; a pending packet may have switched outputs on again. *)
DeinitReturns ==
  /\ stage \in Deinit /\ left = 0
  /\ stage' = CASE stage = "overcurrent_deinit" -> "overcurrent"
                [] stage = "flat_deinit"        -> "flat"
                [] OTHER                        -> "bootloader"
  /\ left' = IF stage = "bootloader_deinit" THEN 0 ELSE DelayMs
  /\ turns' = IF stage = "overcurrent_deinit" THEN LoopTurns ELSE 0
  /\ powered' \in SUBSET Outs
  /\ UNCHANGED <<tone, slow, reading, bus, dogVars, offset>>

(* delay(20) has ended in set_global_overcurrent: feed, and go round or read. *)
FaultLoop ==
  /\ stage = "overcurrent" /\ left = 0 /\ turns > 0 /\ ~reading
  /\ iwdg_reset
  /\ turns' = turns - 1
  /\ IF turns = 1 THEN reading' = TRUE /\ left' = 0
                  ELSE UNCHANGED reading /\ left' = DelayMs
  /\ UNCHANGED <<stage, tone, slow, bus, powered, offset>>

(* The battery has been read in the loop; handle_uvlo may not return. *)
FaultRead ==
  /\ stage = "overcurrent" /\ reading /\ bus = "free"
  /\ \/ /\ Later(RoundMs) /\ reading' = FALSE
        /\ left' = DelayMs /\ turns' = LoopTurns
        /\ UNCHANGED <<stage, tone, slow, bus, armed, waited, powered, offset>>
     \/ Shutdown("flat_deinit", RoundMs)

(* delay(20) has ended in the loop for a flat battery. *)
FlatLoop ==
  /\ stage = "flat" /\ left = 0
  /\ iwdg_reset
  /\ left' = DelayMs
  /\ UNCHANGED <<stage, turns, tone, slow, reading, bus, powered, offset>>

Masked == Elapse \/ DeinitReturns \/ FaultLoop \/ FaultRead \/ FlatLoop

-----------------------------------------------------------------------------
(* A sensor holds the bus, or lets it go. *)
BusChanges ==
  /\ bus' = IF bus = "free" THEN "held" ELSE "free"
  /\ UNCHANGED <<stage, timeVars, reading, dogVars, powered, offset>>

Program == Alive /\ (BootUp \/ Main \/ SysTick \/ Masked)

Next == Program \/ BusChanges \/ WatchdogReset \/ BootloaderReset \/ StartProgram

(***************************************************************************)
(* The processor executes, time passes, and a watchdog that is not fed     *)
(* resets.  The bus and the bootloader are under no obligation.            *)
(***************************************************************************)
Spec == Init /\ [][Next]_vars /\ WF_vars(Program) /\ WF_vars(WatchdogReset)
-----------------------------------------------------------------------------
ClockTypeOK ==
  /\ stage \in Stages /\ bus \in {"free", "held"}
  /\ left \in Nat /\ tone \in 0 .. BeepMs /\ slow \in 0 .. SlowPeriod - 1
  /\ turns \in 0 .. LoopTurns /\ (turns > 0 => stage = "overcurrent")
  /\ fed \in Nat /\ waited \in 0 .. fed

BoardTypeOK == powered \subseteq Outs /\ offset \in {"unset", "unloaded", "loaded"}

FlagsTypeOK == armed \in BOOLEAN /\ reading \in BOOLEAN

(* Type invariant: what is not under way counts nothing. *)
TypeOK == ClockTypeOK /\ BoardTypeOK /\ FlagsTypeOK

(* The watchdog restarts no board whose sensors answer: from any feed to the  *)
(* next, through the end of the beep, the first poll, a fault in it, the      *)
(* delay and the polls of usb_deinit and the first delay of the loop that     *)
(* follows, its period is long enough.                                        *)
HealthyBoardIsFed == ~Alive => waited > 0

(* While the watchdog does not run, a busy wait may last for ever, and the    *)
(* sensors' zero is taken: both only with every output off, although the      *)
(* bootloader hands over the board with the 5 V output on.                    *)
StartUpIsDark ==
  /\ ~armed /\ (reading \/ stage = "init_i2c_sensors") => powered = {}
  /\ offset # "loaded"

(* No sensor can keep a board that has started in a busy wait: it answers,    *)
(* or the watchdog restarts the board.                                        *)
HeldBusEndsInReset == reading ~> ~reading

(* If the sensors let the bus go for good and the bootloader never stays,     *)
(* every start comes to the main loop, or to one of the loops that the board  *)
(* stays in after a fault: the resets end, and so does the beep.              *)
StartUpEnds ==
  <>[](bus = "free") /\ []<>(stage # "bootloader") =>
    (stage \in Boot \cup {"beep"} ~> stage \in {"poll"} \cup Loops)
=============================================================================
