-------------------------- MODULE HousekeepingProofs --------------------------
(***************************************************************************)
(* Proofs about module Housekeeping, for any period of the temperature,    *)
(* any positive threshold and any temperatures that the sensor can show:   *)
(* the fan keeps up with the board and never chatters, no press of a       *)
(* button is reported twice, and only a tick in one window or the RESET    *)
(* command loses one.                                                      *)
(***************************************************************************)
EXTENDS Housekeeping, TLAPS

------------------------------------------------------------------------------
(****************************************************************************)
(* What the reading of the temperature means: module Conversions.           *)
(****************************************************************************)

(* A number that fits into 16 bits with its sign stays as it is.              *)
LEMMA FitsSigned ==
  ASSUME NEW n \in Int, -32768 <= n, n < 32768 PROVE int16_t(n) = n
<1>1. CASE 0 <= n
  <2>1. n % 65536 = n
    BY <1>1, SMT
  <2>2. QED
    BY <2>1, SMT DEF int16_t
<1>2. CASE n < 0
  <2>1. n % 65536 = n + 65536
    BY <1>2, SMT
  <2>2. QED
    BY <1>2, <2>1, SMT DEF int16_t
<1>3. QED
  BY <1>1, <1>2, SMT

(* The whole degrees of a code, on either side of 0 degrees, fit the type.    *)
LEMMA TemperatureOf ==
  ASSUME NEW a \in Int, 0 <= a, a < 4096
  PROVE  adc_to_temp(a) = Quotient((a - 496) * 275, 6656)
<1> DEFINE t == Quotient((a - 496) * 275, 6656)
<1>1. t \in Int /\ -32768 <= t /\ t < 32768
  <2>1. CASE a >= 496
    BY <2>1, SMT DEF Quotient
  <2>2. CASE a < 496
    BY <2>2, SMT DEF Quotient
  <2>3. QED
    BY <2>1, <2>2, SMT
<1> HIDE DEF t
<1>2. int16_t(t) = t
  BY <1>1, FitsSigned
<1>3. adc_to_temp(a) = int16_t(t)
  BY DEF adc_to_temp, t
<1>4. QED
  BY <1>2, <1>3 DEF t

(* adc_to_temp is right to less than a degree, also below freezing, where the *)
(* C division rounds upwards.                                                 *)
THEOREM TemperatureWithinADegree ==
  ASSUME NEW a \in AdcValues
  PROVE  /\ adc_to_temp(a) \in -20 .. 148
         /\ 6656 * adc_to_temp(a) - 275 * (a - 496) \in -6655 .. 6655
<1>1. a \in Int /\ 0 <= a /\ a < 4096
  BY SMT DEF AdcValues
<1>2. adc_to_temp(a) = Quotient((a - 496) * 275, 6656)
  BY <1>1, TemperatureOf
<1>3. CASE a >= 496
  BY <1>1, <1>2, <1>3, SMT DEF Quotient
<1>4. CASE a < 496
  BY <1>1, <1>2, <1>4, SMT DEF Quotient
<1>5. QED
  BY <1>1, <1>3, <1>4, SMT

(* The fan goes on at 41 degrees and off below 40: the codes between, where it *)
(* stays as it is, are the one degree of hysteresis the board has.             *)
THEOREM FanBand ==
  ASSUME NEW a \in AdcValues
  PROVE  /\ adc_to_temp(a) > 40 <=> a >= 1489
         /\ adc_to_temp(a) < 40 <=> a < 1465
<1>1. a \in Int /\ 0 <= a /\ a < 4096
  BY SMT DEF AdcValues
<1>2. adc_to_temp(a) = Quotient((a - 496) * 275, 6656)
  BY <1>1, TemperatureOf
<1>3. CASE a >= 496
  BY <1>1, <1>2, <1>3, SMT DEF Quotient
<1>4. CASE a < 496
  BY <1>1, <1>2, <1>4, SMT DEF Quotient
<1>5. QED
  BY <1>1, <1>3, <1>4, SMT

------------------------------------------------------------------------------
(* A streak of hot or of cool ticks that began before the last reading of the *)
(* temperature has moved the fan.                                             *)
FanFollows ==
  context = "running" =>
    /\ hot > systick_temp_tick => fan
    /\ cold > systick_temp_tick => ~fan

(* The fault loops are entered with the fan set.                              *)
FanLeftSet ==
  /\ context = "overcurrent" => fan
  /\ context = "flat" => ~fan

(* The inductive invariant.                                                   *)
IInv == TypeOK /\ FanFollows /\ FanLeftSet /\ NoPressReportedTwice

(* The parameters, as the proofs need them.                                   *)
LEMMA Parameters ==
  /\ TempPeriod \in Nat /\ TempPeriod >= 1
  /\ FAN_THRESHOLD \in Nat /\ FAN_THRESHOLD >= 1
  /\ Temperatures \subseteq AdcValues
BY HousekeepingAssumption

-----------------------------------------------------------------------------
(***************************************************************************)
(* The temperature.                                                        *)
(***************************************************************************)

(* What is a degree too hot, or cool, by the sensor's characteristic is so by *)
(* the integers of the code, and nothing else is, although the division       *)
(* rounds towards zero.                                                       *)
LEMMA DegreesAreRead ==
  ASSUME temperature \in Temperatures
  PROVE  /\ Hot <=> adc_to_temp(temperature) > FAN_THRESHOLD
         /\ Cool <=> adc_to_temp(temperature) < FAN_THRESHOLD
<1> DEFINE a == temperature
           x == (a - 496) * 275
           t == FAN_THRESHOLD
<1>1. t \in Int /\ t >= 1 /\ a \in AdcValues
  BY Parameters
<1>2. a \in Int /\ 0 <= a /\ a < 4096
  BY <1>1, SMT DEF AdcValues
<1>3. adc_to_temp(a) = Quotient(x, 6656)
  BY <1>2, TemperatureOf
<1>4. /\ Hot  <=> x >= 6656 * (t + 1)
      /\ Cool <=> x < 6656 * t
  BY <1>1, <1>2 DEF Hot, Cool
<1>5. x \in Int
  BY <1>2
<1> HIDE DEF x, t, a
<1>6. /\ x >= 6656 * (t + 1) <=> Quotient(x, 6656) > t
      /\ x < 6656 * t <=> Quotient(x, 6656) < t
  <2>1. CASE x >= 0
    BY <1>1, <1>5, <2>1, SMT DEF Quotient
  <2>2. CASE x < 0
    BY <1>1, <1>5, <2>2, SMT DEF Quotient
  <2>3. QED
    BY <1>5, <2>1, <2>2
<1>7. QED
  BY <1>3, <1>4, <1>6 DEF a, t

(* The temperature's part of a tick.                                          *)
LEMMA TemperatureStep ==
  ASSUME TypeOK, FanFollows, sys_tick_handler
  PROVE  /\ systick_temp_tick' \in 0 .. TempPeriod - 1
         /\ hot' \in 0 .. TempPeriod /\ cold' \in 0 .. TempPeriod
         /\ board_temp' \in {0} \cup {adc_to_temp(t) : t \in Temperatures}
         /\ fan' \in BOOLEAN
         /\ hot' > systick_temp_tick' => fan'
         /\ cold' > systick_temp_tick' => ~fan'
<1> USE Parameters
<1>1. /\ systick_temp_tick \in 0 .. TempPeriod - 1 /\ fan \in BOOLEAN /\ fan_override \in BOOLEAN
      /\ hot \in 0 .. TempPeriod /\ cold \in 0 .. TempPeriod /\ temperature \in Temperatures
      /\ board_temp \in {0} \cup {adc_to_temp(t) : t \in Temperatures}
  BY DEF TypeOK
<1>2. /\ systick_temp_tick' = NextTempTick /\ ReadTemperature
      /\ hot' = Streak(Hot \/ fan_override, hot) /\ cold' = Streak(Cool /\ ~fan_override, cold)
      /\ hot > systick_temp_tick => fan
      /\ cold > systick_temp_tick => ~fan
  BY DEF sys_tick_handler, FanFollows
<1>3. systick_temp_tick' = IF TempTick THEN 0 ELSE systick_temp_tick + 1
  BY <1>2 DEF NextTempTick
<1>4. /\ hot' \in 0 .. TempPeriod /\ hot' <= hot + 1 /\ (hot' > 0 => Hot \/ fan_override)
      /\ cold' \in 0 .. TempPeriod /\ cold' <= cold + 1 /\ (cold' > 0 => Cool /\ ~fan_override)
  <2>1. hot' \in 0 .. TempPeriod /\ hot' <= hot + 1 /\ (hot' > 0 => Hot \/ fan_override)
    BY <1>1, <1>2 DEF Streak
  <2>2. cold' \in 0 .. TempPeriod /\ cold' <= cold + 1 /\ (cold' > 0 => Cool /\ ~fan_override)
    BY <1>1, <1>2 DEF Streak
  <2>3. QED
    BY <2>1, <2>2
<1>5. CASE TempTick
  <2>1. board_temp' = adc_to_temp(temperature) /\ fan_enable
    BY <1>2, <1>5 DEF ReadTemperature
  <2>2. /\ Hot => board_temp' > FAN_THRESHOLD
        /\ Cool => board_temp' < FAN_THRESHOLD
    BY <1>1, <2>1, DegreesAreRead
  <2>3. board_temp' \in Int
    <3>1. temperature \in AdcValues
      BY <1>1
    <3>2. adc_to_temp(temperature) \in -20 .. 148
      BY <3>1, TemperatureWithinADegree
    <3>3. QED
      BY <2>1, <3>2
  <2>4. /\ board_temp' > FAN_THRESHOLD \/ fan_override => fan' = TRUE
        /\ board_temp' < FAN_THRESHOLD /\ ~fan_override => fan' = FALSE
        /\ fan' \in BOOLEAN
    <3>1. CASE board_temp' > FAN_THRESHOLD \/ fan_override
      <4>1. fan' = TRUE
        BY <2>1, <3>1, Zenon DEF fan_enable
      <4>2. QED
        BY <2>3, <3>1, <4>1
    <3>2. CASE ~(board_temp' > FAN_THRESHOLD) /\ ~fan_override
      <4>1. IF board_temp' < FAN_THRESHOLD THEN fan' = FALSE ELSE fan' = fan
        BY <2>1, <3>2, Zenon DEF fan_enable
      <4>2. QED
        BY <1>1, <3>2, <4>1
    <3>3. QED
      BY <3>1, <3>2
  <2>5. systick_temp_tick' = 0 /\ systick_temp_tick' \in 0 .. TempPeriod - 1
    BY <1>3, <1>5
  <2>6. hot' > 0 => fan'
    BY <1>4, <2>2, <2>4
  <2>7. cold' > 0 => ~fan'
    BY <1>4, <2>2, <2>4
  <2>8. QED
    BY <1>1, <1>4, <2>1, <2>4, <2>5, <2>6, <2>7
<1>6. CASE ~TempTick
  <2>1. fan' = fan /\ board_temp' = board_temp
    BY <1>2, <1>6 DEF ReadTemperature
  <2>2. systick_temp_tick' = systick_temp_tick + 1 /\ systick_temp_tick' \in 0 .. TempPeriod - 1
    BY <1>1, <1>3, <1>6 DEF TempTick
  <2>3. /\ hot' > systick_temp_tick' => hot > systick_temp_tick
        /\ cold' > systick_temp_tick' => cold > systick_temp_tick
    BY <1>1, <1>4, <2>2
  <2>4. QED
    BY <1>1, <1>2, <1>4, <2>1, <2>2, <2>3
<1>7. QED
  BY <1>5, <1>6

-----------------------------------------------------------------------------
(***************************************************************************)
(* The inductive invariant is one.                                         *)
(***************************************************************************)

LEMMA InitEstablishes == Init => IInv
<1> SUFFICES ASSUME Init PROVE IInv
  OBVIOUS
<1> USE Parameters
<1>1. TypeOK
  <2>1. [b \in Buttons |-> FALSE] \in [Buttons -> BOOLEAN]
    OBVIOUS
  <2>2. \A f \in {pressed, reply, owed} : f \in [Buttons -> BOOLEAN]
    BY <2>1 DEF Init
  <2>3. /\ systick_temp_tick \in 0 .. TempPeriod - 1
        /\ hot \in 0 .. TempPeriod /\ cold \in 0 .. TempPeriod
        /\ board_temp \in {0} \cup {adc_to_temp(t) : t \in Temperatures}
        /\ temperature \in Temperatures
    BY DEF Init
  <2>4. /\ fan \in BOOLEAN /\ fan_override \in BOOLEAN /\ down \subseteq Buttons
        /\ context \in Contexts
        /\ program \in {"idle", "read_int", "read_ext", "clear_int", "clear_ext", "answer", "reset_ext"}
    BY DEF Init, Contexts
  <2>5. QED
    BY <2>2, <2>3, <2>4, Zenon DEF TypeOK
<1>2. FanFollows /\ FanLeftSet
  BY DEF Init, FanFollows, FanLeftSet
<1>3. NoPressReportedTwice
  BY DEF Init, NoPressReportedTwice
<1>4. QED
  BY <1>1, <1>2, <1>3 DEF IInv

(* A tick keeps it.                                                           *)
LEMMA TickPreserves == ASSUME IInv, sys_tick_handler PROVE IInv'
<1>1. TypeOK /\ FanFollows /\ NoPressReportedTwice /\ context = "running"
  BY DEF IInv, sys_tick_handler
<1>2. /\ pressed' = [b \in Buttons |-> pressed[b] \/ b \in down]
      /\ owed' = [b \in Buttons |-> owed[b] \/ b \in down]
      /\ UNCHANGED <<fan_override, temperature, down, context, program, reply>>
  BY DEF sys_tick_handler, sample_buttons
<1>3. TypeOK'
  <2>1. pressed' \in [Buttons -> BOOLEAN] /\ owed' \in [Buttons -> BOOLEAN]
    BY <1>2
  <2>2. reply' \in [Buttons -> BOOLEAN]
    BY <1>1, <1>2 DEF TypeOK
  <2>3. QED
    BY <1>1, <1>2, <2>1, <2>2, TemperatureStep DEF TypeOK
<1>4. FanFollows' /\ FanLeftSet'
  BY <1>1, <1>2, TemperatureStep DEF FanFollows, FanLeftSet
<1>5. NoPressReportedTwice'
  <2> SUFFICES ASSUME NEW b \in Buttons, pressed'[b] PROVE owed'[b] \/ Reported(b)'
    BY DEF NoPressReportedTwice
  <2>1. pressed[b] \/ b \in down
    BY <1>2
  <2>2. pressed[b] => owed[b] \/ Reported(b)
    BY <1>1 DEF NoPressReportedTwice
  <2>3. Reported(b)' <=> Reported(b)
    BY <1>2 DEF Reported
  <2>4. (owed[b] \/ b \in down) => owed'[b]
    BY <1>2
  <2>5. QED
    BY <2>1, <2>2, <2>3, <2>4
<1>6. QED
  BY <1>3, <1>4, <1>5 DEF IInv

(* So does a shutdown, and the end of usb_deinit after it.                    *)
LEMMA ShutdownPreserves ==
  ASSUME IInv, set_global_overcurrent \/ handle_uvlo \/ jump_to_bootloader \/ usb_deinit_return
  PROVE  IInv'
<1>1. TypeOK
  BY DEF IInv
<1>2. CASE set_global_overcurrent \/ handle_uvlo \/ jump_to_bootloader
  <2>1. /\ context' \in Deinit /\ program' = "idle"
        /\ UNCHANGED <<systick_temp_tick, board_temp, fan, fan_override, temperature, down, pressed,
                       reply, owed, hot, cold>>
    BY <1>2 DEF set_global_overcurrent, handle_uvlo, jump_to_bootloader, Shutdown, Deinit, housekeeping, history
  <2>2. TypeOK'
    BY <1>1, <2>1 DEF TypeOK, Contexts
  <2>3. FanFollows' /\ FanLeftSet' /\ NoPressReportedTwice'
    BY <2>1 DEF FanFollows, FanLeftSet, NoPressReportedTwice, Deinit
  <2>4. QED
    BY <2>2, <2>3 DEF IInv
<1>3. CASE usb_deinit_return
  <2>1. /\ context' \in {"overcurrent", "flat", "bootloader"} /\ fan' \in BOOLEAN
        /\ context' = "overcurrent" => fan'
        /\ context' = "flat" => ~fan'
    BY <1>1, <1>3 DEF usb_deinit_return, Deinit, TypeOK
  <2>2. UNCHANGED <<systick_temp_tick, board_temp, fan_override, temperature, down, pressed,
                    program, reply, owed, hot, cold>>
    BY <1>3 DEF usb_deinit_return, history
  <2>3. TypeOK'
    BY <1>1, <2>1, <2>2 DEF TypeOK, Contexts
  <2>4. FanFollows' /\ FanLeftSet' /\ NoPressReportedTwice'
    BY <2>1 DEF FanFollows, FanLeftSet, NoPressReportedTwice
  <2>5. QED
    BY <2>3, <2>4 DEF IInv
<1>4. QED
  BY <1>2, <1>3

(* One access of the main thread keeps it.                                    *)
LEMMA MainPreserves == ASSUME IInv, MainStep PROVE IInv'
<1>1. /\ TypeOK /\ FanFollows /\ FanLeftSet
      /\ \A b \in Buttons : context = "running" /\ pressed[b] => owed[b] \/ Reported(b)
  BY DEF IInv, NoPressReportedTwice
<1>2. /\ context = "running"
      /\ UNCHANGED <<systick_temp_tick, board_temp, fan, temperature, down, context, hot, cold>>
  BY DEF MainStep, button_get, ReadInt, ReadExt, ClearInt, ClearExt, Answer, ResetInt, ResetExt, fan_set,
         Read, Clear, Step, housekeeping
<1>3. ASSUME fan_override' \in BOOLEAN,
             program' \in {"idle", "read_int", "read_ext", "clear_int", "clear_ext", "answer", "reset_ext"},
             pressed' \in [Buttons -> BOOLEAN], owed' \in [Buttons -> BOOLEAN], reply' \in [Buttons -> BOOLEAN],
             \A b \in Buttons : pressed'[b] => owed'[b] \/ Reported(b)'
      PROVE  IInv'
  <2>1. TypeOK'
    BY <1>1, <1>2, <1>3 DEF TypeOK
  <2>2. FanFollows' /\ FanLeftSet'
    BY <1>1, <1>2 DEF FanFollows, FanLeftSet
  <2>3. QED
    BY <1>3, <2>1, <2>2 DEF IInv, NoPressReportedTwice
<1>4. /\ fan_override \in BOOLEAN
      /\ pressed \in [Buttons -> BOOLEAN] /\ owed \in [Buttons -> BOOLEAN] /\ reply \in [Buttons -> BOOLEAN]
  BY <1>1 DEF TypeOK
<1>5. \A b \in Buttons : pressed[b] => owed[b] \/ Reported(b)
  BY <1>1, <1>2
<1> USE DEF Step, Buttons, Reported
<1> HIDE DEF IInv
<1>6. CASE button_get
  BY <1>3, <1>4, <1>5, <1>6 DEF button_get
<1>7. CASE ReadInt
  BY <1>3, <1>4, <1>5, <1>7 DEF ReadInt, Read
<1>8. CASE ReadExt
  BY <1>3, <1>4, <1>5, <1>8 DEF ReadExt, Read
<1>9. CASE ClearInt
  BY <1>3, <1>4, <1>5, <1>9 DEF ClearInt, Clear
<1>10. CASE ClearExt
  BY <1>3, <1>4, <1>5, <1>10 DEF ClearExt, Clear
<1>11. CASE Answer
  BY <1>3, <1>4, <1>5, <1>11 DEF Answer
<1>12. CASE ResetInt
  BY <1>3, <1>4, <1>5, <1>12 DEF ResetInt, Clear
<1>13. CASE ResetExt
  BY <1>3, <1>4, <1>5, <1>13 DEF ResetExt, Clear
<1>14. ASSUME NEW v \in BOOLEAN, fan_set(v) PROVE IInv'
  BY <1>3, <1>4, <1>5, <1>14 DEF fan_set
<1>15. QED
  BY <1>6, <1>7, <1>8, <1>9, <1>10, <1>11, <1>12, <1>13, <1>14 DEF MainStep

(* Every step keeps it.                                                       *)
LEMMA NextPreserves == IInv /\ [Next]_vars => IInv'
<1> SUFFICES ASSUME IInv, [Next]_vars PROVE IInv'
  OBVIOUS
<1>1. ASSUME UNCHANGED <<housekeeping, fan_override, pressed, context, program, reply, history>>,
             temperature' \in Temperatures, down' \subseteq Buttons
      PROVE  IInv'
  <2>1. TypeOK'
    BY <1>1 DEF IInv, TypeOK, housekeeping, history
  <2>2. FanFollows' /\ FanLeftSet' /\ NoPressReportedTwice'
    BY <1>1 DEF IInv, FanFollows, FanLeftSet, NoPressReportedTwice, Reported, housekeeping, history
  <2>3. QED
    BY <2>1, <2>2 DEF IInv
<1>2. temperature \in Temperatures /\ down \subseteq Buttons
  BY DEF IInv, TypeOK
<1>3. CASE Press
  BY <1>1, <1>2, <1>3 DEF Press
<1>4. CASE Heat
  BY <1>1, <1>2, <1>4 DEF Heat
<1>5. CASE UNCHANGED vars
  BY <1>1, <1>2, <1>5 DEF vars
<1>6. QED
  BY <1>3, <1>4, <1>5, TickPreserves, ShutdownPreserves, MainPreserves DEF Next

(* The inductive invariant holds in every state that can be reached.          *)
LEMMA Invariance == Spec => []IInv
BY InitEstablishes, NextPreserves, PTL DEF Spec

-----------------------------------------------------------------------------
(***************************************************************************)
(* What module Housekeeping promises.                                      *)
(***************************************************************************)

(* The variables of the second's work and of the buttons keep their types.    *)
THEOREM TypeCorrectness == Spec => []TypeOK
<1>1. IInv => TypeOK
  BY DEF IInv
<1>2. QED
  BY <1>1, Invariance, PTL

(* After a period of heat, or of cold, the fan has followed, and the fault    *)
(* loops find it as they need it.                                             *)
THEOREM FanFollowsTemperature == Spec => []FanKeepsUp
<1>1. IInv => FanKeepsUp
  <2> SUFFICES ASSUME IInv PROVE FanKeepsUp
    OBVIOUS
  <2>1. systick_temp_tick \in 0 .. TempPeriod - 1 /\ TempPeriod > systick_temp_tick
    BY Parameters DEF IInv, TypeOK
  <2>2. QED
    BY <2>1 DEF IInv, FanFollows, FanLeftSet, FanKeepsUp
<1>2. QED
  BY <1>1, Invariance, PTL

(* A flag that is set, and has not been read, is a press that no reply has    *)
(* carried: no press is reported by two commands.                             *)
THEOREM PressesReportedOnce == Spec => []NoPressReportedTwice
<1>1. IInv => NoPressReportedTwice
  BY DEF IInv
<1>2. QED
  BY <1>1, Invariance, PTL

(* A sampled press goes astray only when it is sampled between the reading of *)
(* its flag and the clearing, or when RESET clears a flag that no command has *)
(* reported: no other step, of either thread, loses one.                      *)
THEOREM PressesSurvive == Spec => PressLostOnlyInGapOrByReset
<1> DEFINE Kept ==
      \A b \in Buttons :
        Lost(b)' /\ ~Lost(b) =>
          Reported(b) \/ (IF b = "int" THEN ResetInt ELSE ResetExt)
<1>1. ASSUME TypeOK, [Next]_vars PROVE [Kept]_vars
  <2> SUFFICES ASSUME NEW b \in Buttons, owed'[b], ~pressed'[b], ~(owed[b] /\ ~pressed[b])
               PROVE  Reported(b) \/ (IF b = "int" THEN ResetInt ELSE ResetExt)
    BY DEF Lost
  <2>1. pressed \in [Buttons -> BOOLEAN] /\ owed \in [Buttons -> BOOLEAN]
    BY <1>1 DEF TypeOK
  <2>2. ~sys_tick_handler
    <3> SUFFICES ASSUME sys_tick_handler PROVE FALSE
      OBVIOUS
    <3>1. /\ pressed' = [c \in Buttons |-> pressed[c] \/ c \in down]
          /\ owed' = [c \in Buttons |-> owed[c] \/ c \in down]
      BY DEF sys_tick_handler, sample_buttons
    <3>2. ~pressed[b] /\ b \notin down /\ owed[b]
      BY <3>1
    <3>3. QED
      BY <3>2
  <2>3. ~(pressed' = pressed /\ owed' = owed)
    OBVIOUS
  <2>4. /\ ~set_global_overcurrent /\ ~handle_uvlo /\ ~jump_to_bootloader /\ ~usb_deinit_return
        /\ ~Press /\ ~Heat /\ vars' # vars
    BY <2>3 DEF set_global_overcurrent, handle_uvlo, jump_to_bootloader, Shutdown, usb_deinit_return,
                Press, Heat, vars, history
  <2>5. /\ ~button_get /\ ~Answer /\ \A v \in BOOLEAN : ~fan_set(v)
    BY <2>3 DEF button_get, Answer, fan_set
  <2>6. ~ReadInt /\ ~ReadExt
    BY <2>1 DEF ReadInt, ReadExt, Read, Buttons
  <2>7. CASE ResetInt
    <3>1. b = "int"
      BY <2>1, <2>7 DEF ResetInt, Clear, Buttons
    <3>2. QED
      BY <2>7, <3>1
  <2>8. CASE ResetExt
    <3>1. b = "ext"
      BY <2>1, <2>8 DEF ResetExt, Clear, Buttons
    <3>2. QED
      BY <2>8, <3>1
  <2>9. CASE ClearInt
    BY <2>1, <2>9 DEF ClearInt, Clear, Step, Buttons, Reported
  <2>10. CASE ClearExt
    BY <2>1, <2>10 DEF ClearExt, Clear, Step, Buttons, Reported
  <2>11. QED
    BY <1>1, <2>2, <2>4, <2>5, <2>6, <2>7, <2>8, <2>9, <2>10 DEF Next, MainStep
<1>2. IInv => TypeOK
  BY DEF IInv
<1>3. QED
  BY <1>1, <1>2, Invariance, PTL DEF Spec, PressLostOnlyInGapOrByReset

(* The interrupt turns the fan on only when the board is a whole degree too   *)
(* hot or the fan is forced, and off only when it is cool and the fan free.   *)
THEOREM FanNeverChatters == Spec => FanSwitchesForCause
<1> DEFINE Caused ==
      context' = "running" /\ fan' # fan =>
        IF fan' THEN Hot \/ fan_override ELSE Cool /\ ~fan_override
<1>1. ASSUME TypeOK, [Next]_vars PROVE [Caused]_vars
  <2> SUFFICES ASSUME context' = "running", fan' # fan
               PROVE  IF fan' THEN Hot \/ fan_override ELSE Cool /\ ~fan_override
    OBVIOUS
  <2>1. /\ ~set_global_overcurrent /\ ~handle_uvlo /\ ~jump_to_bootloader
        /\ ~Press /\ ~Heat /\ vars' # vars
    BY DEF set_global_overcurrent, handle_uvlo, jump_to_bootloader, Shutdown, Press, Heat, vars,
           housekeeping
  <2>2. ~usb_deinit_return
    BY DEF usb_deinit_return, Deinit
  <2>3. ~MainStep
    BY DEF MainStep, button_get, ReadInt, ReadExt, ClearInt, ClearExt, Answer, ResetInt, ResetExt, fan_set,
           Read, Clear, Step, housekeeping
  <2>4. sys_tick_handler
    BY <1>1, <2>1, <2>2, <2>3 DEF Next
  <2>5. board_temp' = adc_to_temp(temperature) /\ fan_enable
    BY <2>4 DEF sys_tick_handler, ReadTemperature
  <2>6. /\ Hot <=> board_temp' > FAN_THRESHOLD
        /\ Cool <=> board_temp' < FAN_THRESHOLD
    BY <1>1, <2>5, DegreesAreRead DEF TypeOK
  <2>7. CASE Hot \/ fan_override
    <3>1. fan' = TRUE
      BY <2>5, <2>6, <2>7, Zenon DEF fan_enable
    <3>2. QED
      BY <2>7, <3>1
  <2>8. CASE ~Hot /\ ~fan_override
    <3>1. IF board_temp' < FAN_THRESHOLD THEN fan' = FALSE ELSE fan' = fan
      BY <2>5, <2>6, <2>8, Zenon DEF fan_enable
    <3>2. Cool /\ fan' = FALSE
      BY <2>6, <3>1
    <3>3. QED
      BY <2>8, <3>2
  <2>9. QED
    BY <2>7, <2>8
<1>2. IInv => TypeOK
  BY DEF IInv
<1>3. QED
  BY <1>1, <1>2, Invariance, PTL DEF Spec, FanSwitchesForCause
=============================================================================
