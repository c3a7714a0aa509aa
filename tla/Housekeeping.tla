----------------------------- MODULE Housekeeping -----------------------------
(***************************************************************************)
(* What the SysTick interrupt of src/src/systick.c does beside protecting  *)
(* the outputs: once a second it reads the temperature and switches the    *)
(* fan, and on every tick it latches presses of the two buttons, which the *)
(* main thread reports and clears on a BTN:START:GET? command.  The main   *)
(* thread executes one access at a time, and a tick may come between any   *)
(* two of them.                                                            *)
(***************************************************************************)
EXTENDS Integers, Conversions

CONSTANTS
  TempPeriod,       \* 1000 in the code: ticks between two temperatures
  FAN_THRESHOLD,    \* 40 degrees
  Temperatures      \* temperatures the board may have, as the ADC sees them

ASSUME HousekeepingAssumption ==
  /\ TempPeriod \in Nat \ {0}
  /\ FAN_THRESHOLD \in Nat \ {0}       \* below 0 the division of C rounds upwards
  /\ Temperatures \subseteq AdcValues /\ Temperatures # {}

Buttons == {"int", "ext"}

VARIABLES
  systick_temp_tick,
  board_temp,        \* the last reading
  fan,               \* the fan's pin
  fan_override,
  temperature,       \* what the sensor shows the ADC now
  down,              \* the buttons that are held down
  pressed,           \* int_button_pressed and ext_button_pressed
  context,           \* which code has the processor
  program,           \* accesses the main thread has still to make
  reply,             \* what the command under way has read
  owed,              \* history: buttons sampled as pressed since their flag was last read
  hot, cold          \* history: ticks in a row to have the fan on, or off

housekeeping == <<systick_temp_tick, board_temp, fan>>
history == <<owed, hot, cold>>
vars == <<housekeeping, fan_override, temperature, down, pressed, context,
          program, reply, history>>

Deinit   == {"overcurrent_deinit", "flat_deinit", "bootloader_deinit"}
Contexts == {"running", "overcurrent", "flat", "bootloader"} \cup Deinit

(* main has called reset_board; the fan is off and a first second begins. *)
Init ==
  /\ systick_temp_tick = 0 /\ board_temp = 0 /\ fan = FALSE /\ fan_override = FALSE
  /\ temperature \in Temperatures /\ down \in SUBSET Buttons
  /\ pressed = [b \in Buttons |-> FALSE]
  /\ context = "running" /\ program = "idle"
  /\ reply = [b \in Buttons |-> FALSE]
  /\ owed = [b \in Buttons |-> FALSE] /\ hot = 0 /\ cold = 0

-----------------------------------------------------------------------------
(***************************************************************************)
(* sys_tick_handler.                                                       *)
(***************************************************************************)
TempTick == systick_temp_tick = TempPeriod - 1

(* Slip: the counter is not reset. *)
NextTempTick_NoReset == systick_temp_tick + 1

NextTempTick == IF TempTick THEN 0 ELSE systick_temp_tick + 1

(* Slip: below the threshold or not is all that is asked. *)
fan_enable_NoBand == fan' = (board_temp' >= FAN_THRESHOLD \/ fan_override)

(* At the threshold itself the fan stays as it is. *)
fan_enable ==
  IF board_temp' > FAN_THRESHOLD \/ fan_override THEN fan' = TRUE
  ELSE IF board_temp' < FAN_THRESHOLD THEN fan' = FALSE
  ELSE UNCHANGED fan

ReadTemperature ==
  IF TempTick THEN board_temp' = adc_to_temp(temperature) /\ fan_enable
  ELSE UNCHANGED <<board_temp, fan>>

(* Slip: the buttons are copied and not latched. *)
sample_buttons_Copy == pressed' = [b \in Buttons |-> b \in down]

sample_buttons == pressed' = [b \in Buttons |-> pressed[b] \/ b \in down]

(* A whole degree above the threshold, or anything below it, by the sensor's  *)
(* characteristic and not by the division of the code.                        *)
Hot  == 275 * (temperature - 496) >= 6656 * (FAN_THRESHOLD + 1)
Cool == 275 * (temperature - 496) < 6656 * FAN_THRESHOLD

Streak(cond, n) == IF cond THEN IF n < TempPeriod THEN n + 1 ELSE n ELSE 0

sys_tick_handler ==
  /\ context = "running"
  /\ systick_temp_tick' = NextTempTick
  /\ ReadTemperature
  /\ sample_buttons
  /\ owed' = [b \in Buttons |-> owed[b] \/ b \in down]
  /\ hot'  = Streak(Hot \/ fan_override, hot)
  /\ cold' = Streak(Cool /\ ~fan_override, cold)
  /\ UNCHANGED <<fan_override, temperature, down, context, program, reply>>

(* A fault found by the interrupt, or a jump to the bootloader.  Only the     *)
(* loops of set_global_overcurrent and handle_uvlo touch the fan, after       *)
(* usb_deinit; commands that usb_deinit may still handle do not reach it, and *)
(* their replies do not reach the host.  A tick that ends in                  *)
(* set_global_overcurrent has done all its other work before; one that ends   *)
(* in handle_uvlo has done none of it.                                        *)
Shutdown(c) ==
  /\ context' = c /\ program' = "idle"
  /\ UNCHANGED <<housekeeping, fan_override, temperature, down, pressed, reply, history>>

set_global_overcurrent == context = "running" /\ Shutdown("overcurrent_deinit")
handle_uvlo            == context \in {"running", "overcurrent"} /\ Shutdown("flat_deinit")
jump_to_bootloader     == context = "running" /\ program = "idle" /\ Shutdown("bootloader_deinit")

(* Slip: the fan goes on running from a flat battery. *)
usb_deinit_return_KeepFan ==
  /\ context \in Deinit
  /\ context' = CASE context = "overcurrent_deinit" -> "overcurrent"
                  [] context = "flat_deinit" -> "flat"
                  [] OTHER -> "bootloader"
  /\ fan' = IF context = "overcurrent_deinit" THEN TRUE ELSE fan
  /\ UNCHANGED <<systick_temp_tick, board_temp, fan_override, temperature, down, pressed,
                 program, reply, history>>

usb_deinit_return ==
  /\ context \in Deinit
  /\ context' = CASE context = "overcurrent_deinit" -> "overcurrent"
                  [] context = "flat_deinit" -> "flat"
                  [] OTHER -> "bootloader"
  /\ fan' = CASE context = "overcurrent_deinit" -> TRUE
              [] context = "flat_deinit" -> FALSE
              [] OTHER -> fan
  /\ UNCHANGED <<systick_temp_tick, board_temp, fan_override, temperature, down, pressed,
                 program, reply, history>>

-----------------------------------------------------------------------------
(***************************************************************************)
(* The main thread.                                                        *)
(***************************************************************************)
Step(from, to) ==
  /\ program = from /\ program' = to /\ context = "running"
  /\ UNCHANGED <<housekeeping, temperature, down, context, hot, cold>>

button_get == Step("idle", "read_int") /\ UNCHANGED <<fan_override, pressed, reply, owed>>

(* A read puts the flag into the reply; what the next reply owes begins anew. *)
Read(b, from, to) ==
  /\ Step(from, to)
  /\ reply' = [reply EXCEPT ![b] = pressed[b]]
  /\ owed' = [owed EXCEPT ![b] = FALSE]
  /\ UNCHANGED <<fan_override, pressed>>
ReadInt == Read("int", "read_int", "read_ext")
ReadExt == Read("ext", "read_ext", "clear_int")

(* The flags are cleared after both have been read. *)
Clear(b, from, to) ==
  /\ Step(from, to)
  /\ pressed' = [pressed EXCEPT ![b] = FALSE]
  /\ UNCHANGED <<fan_override, reply, owed>>
ClearInt == Clear("int", "clear_int", "clear_ext")

(* Slip: the external button's flag is not cleared. *)
ClearExt_Missing == Step("clear_ext", "answer") /\ UNCHANGED <<fan_override, pressed, reply, owed>>

ClearExt == Clear("ext", "clear_ext", "answer")

Answer ==
  /\ Step("answer", "idle")
  /\ reply' = [b \in Buttons |-> FALSE]
  /\ UNCHANGED <<fan_override, pressed, owed>>

(* The end of reset_board clears the flags, and with them presses that no     *)
(* command has reported.                                                      *)
ResetInt == Clear("int", "idle", "reset_ext")
ResetExt == Clear("ext", "reset_ext", "idle")

fan_set(v) ==
  /\ Step("idle", "idle") /\ fan_override' = v
  /\ UNCHANGED <<pressed, reply, owed>>

MainStep ==
  \/ button_get \/ ReadInt \/ ReadExt \/ ClearInt \/ ClearExt \/ Answer
  \/ ResetInt \/ ResetExt
  \/ \E v \in BOOLEAN : fan_set(v)

(* People press and release buttons, and boards heat up and cool down. *)
Press ==
  /\ \E b \in Buttons : down' = IF b \in down THEN down \ {b} ELSE down \cup {b}
  /\ UNCHANGED <<housekeeping, fan_override, temperature, pressed, context, program, reply, history>>

Heat ==
  /\ temperature' \in Temperatures
  /\ UNCHANGED <<housekeeping, fan_override, down, pressed, context, program, reply, history>>

Next ==
  \/ sys_tick_handler \/ set_global_overcurrent \/ handle_uvlo
  \/ jump_to_bootloader \/ usb_deinit_return \/ MainStep \/ Press \/ Heat

Spec == Init /\ [][Next]_vars
-----------------------------------------------------------------------------
TypeOK ==
  /\ systick_temp_tick \in 0 .. TempPeriod - 1
  /\ board_temp \in {0} \cup {adc_to_temp(t) : t \in Temperatures} /\ temperature \in Temperatures
  /\ fan \in BOOLEAN /\ fan_override \in BOOLEAN /\ down \subseteq Buttons
  /\ context \in Contexts
  /\ program \in {"idle", "read_int", "read_ext", "clear_int", "clear_ext", "answer", "reset_ext"}
  /\ \A f \in {pressed, reply, owed} : f \in [Buttons -> BOOLEAN]
  /\ hot \in 0 .. TempPeriod /\ cold \in 0 .. TempPeriod

(* The main thread has read the flag of b and not cleared it yet. *)
Reported(b) ==
  CASE b = "int" -> program \in {"read_ext", "clear_int"}
    [] b = "ext" -> program \in {"clear_int", "clear_ext"}

(* No press is reported twice: a flag that is set stands for a sample since   *)
(* its last reading, except between the reading and the clearing.             *)
NoPressReportedTwice ==
  context = "running" => \A b \in Buttons : pressed[b] => owed[b] \/ Reported(b)

(* A press since the last query that the next one will not report             *)
Lost(b) == owed[b] /\ ~pressed[b]

(* A sampled press is lost in two ways and no other: by a tick between the    *)
(* reading and the clearing of the flag, and by the RESET command, which      *)
(* clears both flags whether or not they have been reported (output.c:322).   *)
PressLostOnlyInGapOrByReset ==
  [][\A b \in Buttons :
       Lost(b)' /\ ~Lost(b) =>
         Reported(b) \/ (IF b = "int" THEN ResetInt ELSE ResetExt)]_vars

(* The fan runs whenever the board has been a degree too hot, or the fan      *)
(* forced on, for a whole period of the temperature, and rests when it has    *)
(* been cool for one, wherever in the period the change came and however cold *)
(* it is; the fault loops set it for good.                                    *)
FanKeepsUp ==
  /\ context = "running" /\ hot = TempPeriod => fan
  /\ context = "running" /\ cold = TempPeriod => ~fan
  /\ context = "overcurrent" => fan
  /\ context = "flat" => ~fan

(* The interrupt switches the fan only for a reason that is a degree away     *)
(* from the opposite one: on when the board is a whole degree too hot or the  *)
(* fan forced, off when it is cool and the fan free. A temperature that moves *)
(* about the threshold by less than that never makes the fan chatter.         *)
FanSwitchesForCause ==
  [][context' = "running" /\ fan' # fan =>
       IF fan' THEN Hot \/ fan_override ELSE Cool /\ ~fan_override]_vars

=============================================================================
