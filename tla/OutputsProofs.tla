---------------------------- MODULE OutputsProofs ----------------------------
(***************************************************************************)
(* Proofs, for any number of outputs and any length of the last packet, of *)
(* the safety properties of module Outputs.                                *)
(***************************************************************************)
EXTENDS Outputs, TLAPS

(* A routine under way and its next statement belong together. *)
RoutineMatchesPc ==
  /\ pc = "idle" <=> routine = "none"
  /\ pc \in {"clear_inhibit", "clear_led"} => routine = "reset_board"
  /\ pc = "tail" /\ routine # "enable_output" => out = NumOutputs
  /\ pc = "write" /\ routine = "usb_reset_callback" => out # BRAIN_OUTPUT

(* enable_output is called by SYS:BRAIN for the brain and by OUT for any      *)
(* other output, and what remembers the call is cleared when it returns.      *)
CommandNamesOutput ==
  IF routine = "enable_output" THEN OwnCommand(out) ELSE command = "none"

(* reset_board has cleared the flag of the output it is at, so a flag that is *)
(* up again was raised by a trip, which has also cut the output.              *)
RetripIsOff ==
  routine = "reset_board" /\ pc \in {"clear_led", "check"} /\ output_inhibited[out]
    => ~gpio[out]

(* With SysTick stopped, a check still holds when its write comes. *)
MaskedWriteIsChecked ==
  context # "running" /\ pc = "write" => ~output_inhibited[out]

SafetyInv == ResetSweeps /\ UsbResetSweeps /\ InhibitHoldsWhenMasked /\ StatLedMeansInhibited

(* The inductive invariant. *)
IInv ==
  /\ TypeOK
  /\ RoutineMatchesPc
  /\ CommandNamesOutput
  /\ RetripIsOff
  /\ MaskedWriteIsChecked
  /\ SafetyInv

USE DEF output_t, Contexts, Deinit, Routines, Commands, Labels, vars, routineVars, deinitVars
USE DEF IInv, TypeOK, SafetyInv

(* The program starts with every output off and inhibited, in reset_board. *)
THEOREM InitEstablishes == Init => IInv
<1> SUFFICES ASSUME Init PROVE IInv
  OBVIOUS
<1>1. OutputsTypeOK
  BY DEF Init, OutputsTypeOK
<1>2. ControlTypeOK
  BY OutputsAssumption DEF Init, ControlTypeOK
<1>3. FlagsTypeOK
  BY DEF Init, FlagsTypeOK
<1>4. RoutineMatchesPc /\ CommandNamesOutput /\ RetripIsOff /\ MaskedWriteIsChecked
  BY DEF Init, RoutineMatchesPc, CommandNamesOutput, OwnCommand, RetripIsOff, MaskedWriteIsChecked
<1>5. ResetSweeps /\ UsbResetSweeps
  BY OutputsAssumption DEF Init, ResetSweeps, UsbResetSweeps
<1>6. InhibitHoldsWhenMasked /\ StatLedMeansInhibited
  BY DEF Init, InhibitHoldsWhenMasked, StatLedMeansInhibited
<1>7. QED
  BY <1>1, <1>2, <1>3, <1>4, <1>5, <1>6

(* Every step keeps the inductive invariant. *)
THEOREM NextPreserves == IInv /\ [Next]_vars => IInv'
<1> SUFFICES ASSUME IInv, [Next]_vars PROVE IInv'
  OBVIOUS
<1> USE OutputsAssumption
<1>1. ASSUME NEW o \in output_t, NEW v \in BOOLEAN, OutSet(o, v) PROVE IInv'
  <2> USE <1>1 DEF OutSet, ReadCommand, CallEnable, Call
  <2>1. OutputsTypeOK' /\ ControlTypeOK'
    BY DEF OutputsTypeOK, ControlTypeOK
  <2>2. FlagsTypeOK'
    BY DEF FlagsTypeOK
  <2>3. (RoutineMatchesPc /\ CommandNamesOutput /\ RetripIsOff /\ MaskedWriteIsChecked /\ SafetyInv)'
    BY DEF OutputsTypeOK, ControlTypeOK, RoutineMatchesPc, CommandNamesOutput, OwnCommand, RetripIsOff, MaskedWriteIsChecked,
       ResetSweeps, UsbResetSweeps, InhibitHoldsWhenMasked, StatLedMeansInhibited
  <2>4. QED
    BY <2>1, <2>2, <2>3
<1>2. ASSUME NEW v \in BOOLEAN, BrainSet(v) PROVE IInv'
  <2> USE <1>2 DEF BrainSet, ReadCommand, CallEnable, Call
  <2>1. OutputsTypeOK' /\ ControlTypeOK'
    BY DEF OutputsTypeOK, ControlTypeOK
  <2>2. FlagsTypeOK'
    BY DEF FlagsTypeOK
  <2>3. (RoutineMatchesPc /\ CommandNamesOutput /\ RetripIsOff /\ MaskedWriteIsChecked /\ SafetyInv)'
    BY DEF OutputsTypeOK, ControlTypeOK, RoutineMatchesPc, CommandNamesOutput, OwnCommand, RetripIsOff, MaskedWriteIsChecked,
       ResetSweeps, UsbResetSweeps, InhibitHoldsWhenMasked, StatLedMeansInhibited
  <2>4. QED
    BY <2>1, <2>2, <2>3
<1>3. CASE BoardReset
  <2> USE <1>3 DEF BoardReset, ReadCommand, CallLoop, Call
  <2>1. OutputsTypeOK' /\ ControlTypeOK'
    BY DEF OutputsTypeOK, ControlTypeOK
  <2>2. FlagsTypeOK'
    BY DEF FlagsTypeOK
  <2>3. (RoutineMatchesPc /\ CommandNamesOutput /\ RetripIsOff /\ MaskedWriteIsChecked /\ SafetyInv)'
    BY DEF OutputsTypeOK, ControlTypeOK, RoutineMatchesPc, CommandNamesOutput, OwnCommand, RetripIsOff, MaskedWriteIsChecked,
       ResetSweeps, UsbResetSweeps, InhibitHoldsWhenMasked, StatLedMeansInhibited
  <2>4. QED
    BY <2>1, <2>2, <2>3
<1>4. CASE BusReset
  <2> USE <1>4 DEF BusReset, CallLoop, Call
  <2>1. OutputsTypeOK' /\ ControlTypeOK'
    BY DEF OutputsTypeOK, ControlTypeOK
  <2>2. FlagsTypeOK'
    BY DEF FlagsTypeOK
  <2>3. (RoutineMatchesPc /\ CommandNamesOutput /\ RetripIsOff /\ MaskedWriteIsChecked /\ SafetyInv)'
    BY DEF OutputsTypeOK, ControlTypeOK, RoutineMatchesPc, CommandNamesOutput, OwnCommand, RetripIsOff, MaskedWriteIsChecked,
       ResetSweeps, UsbResetSweeps, InhibitHoldsWhenMasked, StatLedMeansInhibited
  <2>4. QED
    BY <2>1, <2>2, <2>3
<1>5. CASE jump_to_bootloader
  <2> USE <1>5 DEF jump_to_bootloader, disable_all_outputs, StartDeinit, Abandon
  <2>1. OutputsTypeOK'
    BY DEF OutputsTypeOK
  <2>2. ControlTypeOK' 
    BY DEF ControlTypeOK
  <2>3. FlagsTypeOK'
    BY DEF FlagsTypeOK
  <2>4. RoutineMatchesPc' /\ CommandNamesOutput' /\ RetripIsOff' /\ MaskedWriteIsChecked'
    BY DEF OutputsTypeOK, ControlTypeOK, RoutineMatchesPc, CommandNamesOutput, OwnCommand, RetripIsOff, MaskedWriteIsChecked
  <2>5. ResetSweeps' /\ UsbResetSweeps'
    BY DEF OutputsTypeOK, ControlTypeOK, RoutineMatchesPc, RetripIsOff, ResetSweeps, UsbResetSweeps
  <2>6. InhibitHoldsWhenMasked' /\ StatLedMeansInhibited'
    BY DEF OutputsTypeOK, RoutineMatchesPc, MaskedWriteIsChecked, InhibitHoldsWhenMasked, StatLedMeansInhibited
  <2>7. QED
    BY <2>1, <2>2, <2>3, <2>4, <2>5, <2>6
<1>6. CASE ClearInhibit
  <2> USE <1>6 DEF ClearInhibit
  <2>1. OutputsTypeOK'
    BY DEF OutputsTypeOK
  <2>2. ControlTypeOK' 
    BY DEF ControlTypeOK
  <2>3. FlagsTypeOK'
    BY DEF FlagsTypeOK
  <2>4. RoutineMatchesPc' /\ CommandNamesOutput' /\ RetripIsOff' /\ MaskedWriteIsChecked'
    BY DEF OutputsTypeOK, ControlTypeOK, RoutineMatchesPc, CommandNamesOutput, OwnCommand, RetripIsOff, MaskedWriteIsChecked
  <2>5. ResetSweeps' /\ UsbResetSweeps'
    BY DEF OutputsTypeOK, ControlTypeOK, RoutineMatchesPc, RetripIsOff, ResetSweeps, UsbResetSweeps
  <2>6. InhibitHoldsWhenMasked' /\ StatLedMeansInhibited'
    BY DEF OutputsTypeOK, RoutineMatchesPc, MaskedWriteIsChecked, InhibitHoldsWhenMasked, StatLedMeansInhibited
  <2>7. QED
    BY <2>1, <2>2, <2>3, <2>4, <2>5, <2>6
<1>7. CASE ClearLed
  <2> USE <1>7 DEF ClearLed
  <2>1. OutputsTypeOK'
    BY DEF OutputsTypeOK
  <2>2. ControlTypeOK' 
    BY DEF ControlTypeOK
  <2>3. FlagsTypeOK'
    BY DEF FlagsTypeOK
  <2>4. RoutineMatchesPc' /\ CommandNamesOutput' /\ RetripIsOff' /\ MaskedWriteIsChecked'
    BY DEF OutputsTypeOK, ControlTypeOK, RoutineMatchesPc, CommandNamesOutput, OwnCommand, RetripIsOff, MaskedWriteIsChecked
  <2>5. ResetSweeps' /\ UsbResetSweeps'
    BY DEF OutputsTypeOK, ControlTypeOK, RoutineMatchesPc, RetripIsOff, ResetSweeps, UsbResetSweeps
  <2>6. InhibitHoldsWhenMasked' /\ StatLedMeansInhibited'
    BY DEF OutputsTypeOK, RoutineMatchesPc, MaskedWriteIsChecked, InhibitHoldsWhenMasked, StatLedMeansInhibited
  <2>7. QED
    BY <2>1, <2>2, <2>3, <2>4, <2>5, <2>6
<1>8. CASE SkipBrain
  <2> USE <1>8 DEF SkipBrain, NextOutput, LoopStart
  <2>1. OutputsTypeOK' /\ ControlTypeOK'
    BY DEF OutputsTypeOK, ControlTypeOK
  <2>2. FlagsTypeOK'
    BY DEF FlagsTypeOK
  <2>3. (RoutineMatchesPc /\ CommandNamesOutput /\ RetripIsOff /\ MaskedWriteIsChecked /\ SafetyInv)'
    BY DEF OutputsTypeOK, ControlTypeOK, RoutineMatchesPc, CommandNamesOutput, OwnCommand, RetripIsOff, MaskedWriteIsChecked,
       ResetSweeps, UsbResetSweeps, InhibitHoldsWhenMasked, StatLedMeansInhibited
  <2>4. QED
    BY <2>1, <2>2, <2>3
<1>9. CASE EnableCheck
  <2> USE <1>9 DEF EnableCheck, NextOutput, LoopStart
  <2>1. OutputsTypeOK'
    BY DEF OutputsTypeOK
  <2>2. ControlTypeOK' 
    BY DEF ControlTypeOK
  <2>3. FlagsTypeOK'
    BY DEF FlagsTypeOK
  <2>4. RoutineMatchesPc' /\ CommandNamesOutput' /\ RetripIsOff' /\ MaskedWriteIsChecked'
    BY DEF OutputsTypeOK, ControlTypeOK, RoutineMatchesPc, CommandNamesOutput, OwnCommand, RetripIsOff, MaskedWriteIsChecked
  <2>5. ResetSweeps' /\ UsbResetSweeps'
    BY DEF OutputsTypeOK, ControlTypeOK, RoutineMatchesPc, RetripIsOff, ResetSweeps, UsbResetSweeps
  <2>6. InhibitHoldsWhenMasked' /\ StatLedMeansInhibited'
    BY DEF OutputsTypeOK, RoutineMatchesPc, MaskedWriteIsChecked, InhibitHoldsWhenMasked, StatLedMeansInhibited
  <2>7. QED
    BY <2>1, <2>2, <2>3, <2>4, <2>5, <2>6
<1>10. CASE EnableWrite
  <2> USE <1>10 DEF EnableWrite, NextOutput, LoopStart
  <2>1. Level \in BOOLEAN
    BY DEF Level, FlagsTypeOK
  <2>2. /\ out \in output_t /\ gpio'[out] = Level
        /\ \A o \in output_t \ {out} : gpio'[o] = gpio[o]
    BY DEF OutputsTypeOK, ControlTypeOK
  <2>3. OutputsTypeOK'
    BY <2>1, <2>2 DEF OutputsTypeOK
  <2>4. ControlTypeOK' /\ FlagsTypeOK'
    <3>1. ControlTypeOK'
      BY DEF ControlTypeOK
    <3>2. FlagsTypeOK'
      BY DEF FlagsTypeOK
    <3>3. QED
      BY <3>1, <3>2
  <2>5. RoutineMatchesPc' /\ CommandNamesOutput' /\ RetripIsOff' /\ MaskedWriteIsChecked'
    BY DEF ControlTypeOK, RoutineMatchesPc, CommandNamesOutput, OwnCommand, RetripIsOff, MaskedWriteIsChecked
  <2>6. ResetSweeps'
    <3> SUFFICES ASSUME routine = "reset_board", NEW o \in 0 .. out
                 PROVE IF o = BRAIN_OUTPUT THEN gpio'[o] \/ output_inhibited'[o] ELSE ~gpio'[o]
      BY DEF ControlTypeOK, ResetSweeps
    <3>1. CASE o = out
      BY <2>2, <3>1 DEF Level
    <3>2. CASE o # out
      BY <2>2, <3>2 DEF ControlTypeOK, ResetSweeps
    <3>3. QED
      BY <3>1, <3>2
  <2>7. UsbResetSweeps'
    <3> SUFFICES ASSUME routine = "usb_reset_callback", NEW o \in 0 .. out, o # BRAIN_OUTPUT
                 PROVE ~gpio'[o] \/ output_inhibited'[o]
      BY DEF ControlTypeOK, UsbResetSweeps
    <3>1. CASE o = out
      BY <2>2, <3>1 DEF Level
    <3>2. CASE o # out
      BY <2>2, <3>2 DEF ControlTypeOK, UsbResetSweeps
    <3>3. QED
      BY <3>1, <3>2
  <2>8. InhibitHoldsWhenMasked' /\ StatLedMeansInhibited'
    BY <2>2 DEF MaskedWriteIsChecked, InhibitHoldsWhenMasked, StatLedMeansInhibited
  <2>9. QED
    BY <2>3, <2>4, <2>5, <2>6, <2>7, <2>8
<1>11. CASE Return
  <2> USE <1>11 DEF Return
  <2>1. OutputsTypeOK' /\ ControlTypeOK'
    BY DEF OutputsTypeOK, ControlTypeOK
  <2>2. FlagsTypeOK'
    BY DEF FlagsTypeOK
  <2>3. (RoutineMatchesPc /\ CommandNamesOutput /\ RetripIsOff /\ MaskedWriteIsChecked /\ SafetyInv)'
    BY DEF OutputsTypeOK, ControlTypeOK, RoutineMatchesPc, CommandNamesOutput, OwnCommand, RetripIsOff, MaskedWriteIsChecked,
       ResetSweeps, UsbResetSweeps, InhibitHoldsWhenMasked, StatLedMeansInhibited
  <2>4. QED
    BY <2>1, <2>2, <2>3
<1>12. ASSUME NEW S \in SUBSET output_t, Trip(S) PROVE IInv'
  <2> USE <1>12 DEF Trip, TripLeds, HasStatLed
  <2>1. OutputsTypeOK'
    BY DEF OutputsTypeOK
  <2>2. ControlTypeOK' 
    BY DEF ControlTypeOK
  <2>3. FlagsTypeOK'
    BY DEF FlagsTypeOK
  <2>4. RoutineMatchesPc' /\ CommandNamesOutput' /\ RetripIsOff' /\ MaskedWriteIsChecked'
    BY DEF OutputsTypeOK, ControlTypeOK, RoutineMatchesPc, CommandNamesOutput, OwnCommand, RetripIsOff, MaskedWriteIsChecked
  <2>5. ResetSweeps' /\ UsbResetSweeps'
    BY DEF OutputsTypeOK, ControlTypeOK, RoutineMatchesPc, RetripIsOff, ResetSweeps, UsbResetSweeps
  <2>6. InhibitHoldsWhenMasked' /\ StatLedMeansInhibited'
    BY DEF OutputsTypeOK, RoutineMatchesPc, MaskedWriteIsChecked, InhibitHoldsWhenMasked, StatLedMeansInhibited
  <2>7. QED
    BY <2>1, <2>2, <2>3, <2>4, <2>5, <2>6
<1>13. ASSUME NEW S \in SUBSET output_t, set_global_overcurrent(S) PROVE IInv'
  <2> USE <1>13 DEF set_global_overcurrent, TripLeds, HasStatLed, disable_all_outputs, StartDeinit, Abandon
  <2>1. OutputsTypeOK'
    BY DEF OutputsTypeOK
  <2>2. ControlTypeOK' 
    BY DEF ControlTypeOK
  <2>3. FlagsTypeOK'
    BY DEF FlagsTypeOK
  <2>4. RoutineMatchesPc' /\ CommandNamesOutput' /\ RetripIsOff' /\ MaskedWriteIsChecked'
    BY DEF OutputsTypeOK, ControlTypeOK, RoutineMatchesPc, CommandNamesOutput, OwnCommand, RetripIsOff, MaskedWriteIsChecked
  <2>5. ResetSweeps' /\ UsbResetSweeps'
    BY DEF OutputsTypeOK, ControlTypeOK, RoutineMatchesPc, RetripIsOff, ResetSweeps, UsbResetSweeps
  <2>6. InhibitHoldsWhenMasked' /\ StatLedMeansInhibited'
    BY DEF OutputsTypeOK, RoutineMatchesPc, MaskedWriteIsChecked, InhibitHoldsWhenMasked, StatLedMeansInhibited
  <2>7. QED
    BY <2>1, <2>2, <2>3, <2>4, <2>5, <2>6
<1>14. CASE handle_uvlo
  <2> USE <1>14 DEF handle_uvlo, disable_all_outputs, StartDeinit, Abandon
  <2>1. OutputsTypeOK'
    BY DEF OutputsTypeOK
  <2>2. ControlTypeOK' 
    BY DEF ControlTypeOK
  <2>3. FlagsTypeOK'
    BY DEF FlagsTypeOK
  <2>4. RoutineMatchesPc' /\ CommandNamesOutput' /\ RetripIsOff' /\ MaskedWriteIsChecked'
    BY DEF OutputsTypeOK, ControlTypeOK, RoutineMatchesPc, CommandNamesOutput, OwnCommand, RetripIsOff, MaskedWriteIsChecked
  <2>5. ResetSweeps' /\ UsbResetSweeps'
    BY DEF OutputsTypeOK, ControlTypeOK, RoutineMatchesPc, RetripIsOff, ResetSweeps, UsbResetSweeps
  <2>6. InhibitHoldsWhenMasked' /\ StatLedMeansInhibited'
    BY DEF OutputsTypeOK, RoutineMatchesPc, MaskedWriteIsChecked, InhibitHoldsWhenMasked, StatLedMeansInhibited
  <2>7. QED
    BY <2>1, <2>2, <2>3, <2>4, <2>5, <2>6
<1>15. CASE PollNothing
  <2> USE <1>15 DEF PollNothing, Poll
  <2>1. OutputsTypeOK' /\ ControlTypeOK'
    BY DEF OutputsTypeOK, ControlTypeOK
  <2>2. FlagsTypeOK'
    BY DEF FlagsTypeOK
  <2>3. (RoutineMatchesPc /\ CommandNamesOutput /\ RetripIsOff /\ MaskedWriteIsChecked /\ SafetyInv)'
    BY DEF OutputsTypeOK, ControlTypeOK, RoutineMatchesPc, CommandNamesOutput, OwnCommand, RetripIsOff, MaskedWriteIsChecked,
       ResetSweeps, UsbResetSweeps, InhibitHoldsWhenMasked, StatLedMeansInhibited
  <2>4. QED
    BY <2>1, <2>2, <2>3
<1>16. CASE PollReset
  <2> USE <1>16 DEF PollReset, Poll, CallLoop, Call
  <2>1. OutputsTypeOK' /\ ControlTypeOK'
    BY DEF OutputsTypeOK, ControlTypeOK
  <2>2. FlagsTypeOK'
    BY DEF FlagsTypeOK
  <2>3. (RoutineMatchesPc /\ CommandNamesOutput /\ RetripIsOff /\ MaskedWriteIsChecked /\ SafetyInv)'
    BY DEF OutputsTypeOK, ControlTypeOK, RoutineMatchesPc, CommandNamesOutput, OwnCommand, RetripIsOff, MaskedWriteIsChecked,
       ResetSweeps, UsbResetSweeps, InhibitHoldsWhenMasked, StatLedMeansInhibited
  <2>4. QED
    BY <2>1, <2>2, <2>3
<1>17. CASE PollData
  <2> USE <1>17 DEF PollData, Poll
  <2>1. OutputsTypeOK' /\ ControlTypeOK'
    BY DEF OutputsTypeOK, ControlTypeOK
  <2>2. FlagsTypeOK'
    BY DEF FlagsTypeOK
  <2>3. (RoutineMatchesPc /\ CommandNamesOutput /\ RetripIsOff /\ MaskedWriteIsChecked /\ SafetyInv)'
    BY DEF OutputsTypeOK, ControlTypeOK, RoutineMatchesPc, CommandNamesOutput, OwnCommand, RetripIsOff, MaskedWriteIsChecked,
       ResetSweeps, UsbResetSweeps, InhibitHoldsWhenMasked, StatLedMeansInhibited
  <2>4. QED
    BY <2>1, <2>2, <2>3
<1>18. CASE PacketEnd
  <2> USE <1>18 DEF PacketEnd
  <2>1. OutputsTypeOK' /\ ControlTypeOK'
    BY DEF OutputsTypeOK, ControlTypeOK
  <2>2. FlagsTypeOK'
    BY DEF FlagsTypeOK
  <2>3. (RoutineMatchesPc /\ CommandNamesOutput /\ RetripIsOff /\ MaskedWriteIsChecked /\ SafetyInv)'
    BY DEF OutputsTypeOK, ControlTypeOK, RoutineMatchesPc, CommandNamesOutput, OwnCommand, RetripIsOff, MaskedWriteIsChecked,
       ResetSweeps, UsbResetSweeps, InhibitHoldsWhenMasked, StatLedMeansInhibited
  <2>4. QED
    BY <2>1, <2>2, <2>3
<1>19. CASE usb_deinit_return
  <2> USE <1>19 DEF usb_deinit_return, After
  <2>1. OutputsTypeOK' /\ ControlTypeOK'
    BY DEF OutputsTypeOK, ControlTypeOK
  <2>2. FlagsTypeOK'
    BY DEF FlagsTypeOK
  <2>3. (RoutineMatchesPc /\ CommandNamesOutput /\ RetripIsOff /\ MaskedWriteIsChecked /\ SafetyInv)'
    BY DEF OutputsTypeOK, ControlTypeOK, RoutineMatchesPc, CommandNamesOutput, OwnCommand, RetripIsOff, MaskedWriteIsChecked,
       ResetSweeps, UsbResetSweeps, InhibitHoldsWhenMasked, StatLedMeansInhibited
  <2>4. QED
    BY <2>1, <2>2, <2>3
<1>20. CASE Restart
  <2> USE <1>20 DEF Restart
  <2>1. OutputsTypeOK' /\ ControlTypeOK'
    BY DEF OutputsTypeOK, ControlTypeOK
  <2>2. FlagsTypeOK'
    BY DEF FlagsTypeOK
  <2>3. (RoutineMatchesPc /\ CommandNamesOutput /\ RetripIsOff /\ MaskedWriteIsChecked /\ SafetyInv)'
    BY DEF OutputsTypeOK, ControlTypeOK, RoutineMatchesPc, CommandNamesOutput, OwnCommand, RetripIsOff, MaskedWriteIsChecked,
       ResetSweeps, UsbResetSweeps, InhibitHoldsWhenMasked, StatLedMeansInhibited
  <2>4. QED
    BY <2>1, <2>2, <2>3
<1>21. CASE UNCHANGED vars
  <2> USE <1>21 DEF vars
  <2>1. OutputsTypeOK' /\ ControlTypeOK'
    BY DEF OutputsTypeOK, ControlTypeOK
  <2>2. FlagsTypeOK'
    BY DEF FlagsTypeOK
  <2>3. (RoutineMatchesPc /\ CommandNamesOutput /\ RetripIsOff /\ MaskedWriteIsChecked /\ SafetyInv)'
    BY DEF OutputsTypeOK, ControlTypeOK, RoutineMatchesPc, CommandNamesOutput, OwnCommand, RetripIsOff, MaskedWriteIsChecked,
       ResetSweeps, UsbResetSweeps, InhibitHoldsWhenMasked, StatLedMeansInhibited
  <2>4. QED
    BY <2>1, <2>2, <2>3
<1>22. QED
  BY <1>1, <1>2, <1>3, <1>4, <1>5, <1>6, <1>7, <1>8, <1>9, <1>10, <1>11, <1>12, <1>13, <1>14, <1>15, <1>16, <1>17, <1>18, <1>19, <1>20, <1>21
     DEF Next, Host, RoutineStep, SysTick, DeinitStep

(* Type correctness, and with it the fact that no loop runs past the last     *)
(* output while it still reads or writes one.                                 *)
THEOREM TypeCorrectness == Spec => []TypeOK
<1>1. IInv => TypeOK
  OBVIOUS
<1>2. QED
  BY <1>1, InitEstablishes, NextPreserves, PTL DEF Spec

(* reset_board and the bus reset of output.c sweep every output they have     *)
(* passed, and with interrupts off no inhibited output is left on, for any    *)
(* number of outputs.                                                         *)
THEOREM Safety == Spec => [](ResetSweeps /\ UsbResetSweeps /\ InhibitHoldsWhenMasked)
<1>1. IInv => ResetSweeps /\ UsbResetSweeps /\ InhibitHoldsWhenMasked
  OBVIOUS
<1>2. QED
  BY <1>1, InitEstablishes, NextPreserves, PTL DEF Spec

(* A channel LED that is lit belongs to an output that set_overcurrent has    *)
(* inhibited, or that reset_board is about to darken, whenever a trip comes.  *)
THEOREM StatLeds == Spec => []StatLedMeansInhibited
<1>1. IInv => StatLedMeansInhibited
  OBVIOUS
<1>2. QED
  BY <1>1, InitEstablishes, NextPreserves, PTL DEF Spec

(* An output that is on and inhibited got there by a write of enable_output   *)
(* whose check an interrupt had overtaken; no other step can bring it about.  *)
THEOREM StaleCheck == Spec => OnlyStaleCheckDefeatsInhibit
<1> DEFINE Defeated(o) == gpio[o] /\ output_inhibited[o]
           A == \A o \in output_t : (gpio'[o] /\ output_inhibited'[o]) /\ ~(gpio[o] /\ output_inhibited[o])
                  => EnableWrite /\ out = o /\ output_inhibited[o]
<1>1. IInv /\ [Next]_vars => [A]_vars
  <2> SUFFICES ASSUME IInv, Next, NEW o \in output_t,
                      gpio'[o], output_inhibited'[o], ~(gpio[o] /\ output_inhibited[o])
               PROVE EnableWrite /\ out = o /\ output_inhibited[o]
    OBVIOUS
  <2> USE OutputsAssumption DEF OutputsTypeOK, ControlTypeOK
  <2>1. CASE EnableWrite
    BY <2>1 DEF EnableWrite
  <2>2. CASE UNCHANGED <<gpio, output_inhibited>>
    BY <2>2
  <2>3. CASE ClearInhibit
    BY <2>3 DEF ClearInhibit
  <2>4. ASSUME NEW S \in SUBSET output_t, Trip(S) PROVE FALSE
    BY <2>4 DEF Trip
  <2>5. ASSUME NEW S \in SUBSET output_t, set_global_overcurrent(S) PROVE FALSE
    BY <2>5 DEF set_global_overcurrent, disable_all_outputs
  <2>6. CASE handle_uvlo \/ jump_to_bootloader
    BY <2>6 DEF handle_uvlo, jump_to_bootloader, disable_all_outputs
  <2>7. CASE Restart
    BY <2>7 DEF Restart
  <2>8. QED
    BY <2>1, <2>2, <2>3, <2>4, <2>5, <2>6, <2>7
       DEF Next, Host, RoutineStep, SysTick, DeinitStep, OutSet, BrainSet, BoardReset, BusReset, CallEnable, CallLoop, Call,
           ClearLed, SkipBrain, EnableCheck, Return, PollNothing, PollReset, PollData, PacketEnd, usb_deinit_return
<1>2. QED
  BY <1>1, InitEstablishes, NextPreserves, PTL DEF Spec, OnlyStaleCheckDefeatsInhibit

(* Every output is switched for a reason of its own: OUT never reaches the    *)
(* brain output, no bus reset or jump to the bootloader takes it down, and    *)
(* usb_deinit brings no output up but by the command that names it.           *)
THEOREM SwitchedForCause == Spec => OutputsSwitchForCause
<1> DEFINE A == \A o \in output_t :
                  /\ gpio[o] /\ ~gpio'[o] => MayFall(o)
                  /\ ~gpio[o] /\ gpio'[o] => MayRise(o)
<1>1. IInv /\ [Next]_vars => [A]_vars
  <2> SUFFICES ASSUME IInv, Next, NEW o \in output_t
               PROVE  /\ gpio[o] /\ ~gpio'[o] => MayFall(o)
                      /\ ~gpio[o] /\ gpio'[o] => MayRise(o)
    OBVIOUS
  <2> USE OutputsAssumption DEF OutputsTypeOK, ControlTypeOK
  <2>1. CASE EnableWrite
    <3>1. pc = "write" /\ routine \in {"enable_output", "usb_reset_callback", "reset_board"}
      BY <2>1 DEF EnableWrite, RoutineMatchesPc
    <3>2. gpio'[o] = IF o = out THEN Level ELSE gpio[o]
      BY <2>1 DEF EnableWrite
    <3>3. CASE routine = "enable_output"
      BY <3>2, <3>3 DEF Level, CommandNamesOutput, OwnCommand, MayFall, MayRise
    <3>4. CASE routine = "usb_reset_callback"
      BY <3>1, <3>2, <3>4 DEF Level, RoutineMatchesPc, MayFall
    <3>5. CASE routine = "reset_board"
      BY <3>2, <3>5 DEF Level, MayFall, MayRise
    <3>6. QED
      BY <3>1, <3>3, <3>4, <3>5
  <2>2. CASE UNCHANGED gpio
    BY <2>2
  <2>3. ASSUME NEW S \in SUBSET output_t, Trip(S)
        PROVE  (gpio'[o] => gpio[o]) /\ (gpio[o] /\ ~gpio'[o] => MayFall(o))
    BY <2>3 DEF Trip, MayFall
  <2>4. ASSUME NEW S \in SUBSET output_t, set_global_overcurrent(S) PROVE ~gpio'[o] /\ MayFall(o)
    BY <2>4 DEF set_global_overcurrent, disable_all_outputs, StartDeinit, MayFall
  <2>5. CASE handle_uvlo
    BY <2>5 DEF handle_uvlo, disable_all_outputs, StartDeinit, MayFall
  <2>6. CASE jump_to_bootloader
    BY <2>6 DEF jump_to_bootloader, disable_all_outputs, MayFall
  <2>7. CASE Restart
    BY <2>7 DEF Restart, MayFall
  <2>8. QED
    BY <2>1, <2>2, <2>3, <2>4, <2>5, <2>6, <2>7
       DEF Next, Host, RoutineStep, SysTick, DeinitStep, OutSet, BrainSet, BoardReset, BusReset, CallEnable, CallLoop, Call,
           ClearInhibit, ClearLed, SkipBrain, EnableCheck, Return, PollNothing, PollReset, PollData, PacketEnd, usb_deinit_return
<1>2. QED
  BY <1>1, InitEstablishes, NextPreserves, PTL DEF Spec, OutputsSwitchForCause

-----------------------------------------------------------------------------
(* When an interrupt has overtaken a check, it has also cut the output, so    *)
(* the write that follows finds it off.                                       *)
LateWriteIsOff == pc = "write" /\ output_inhibited[out] => ~gpio[out]

(* The write of a routine whose check has been overtaken always finds the     *)
(* output off: every step keeps it so.                                        *)
LEMMA LateWrites == IInv /\ LateWriteIsOff /\ [Next]_vars => LateWriteIsOff'
<1> SUFFICES ASSUME IInv, LateWriteIsOff, [Next]_vars PROVE LateWriteIsOff'
  OBVIOUS
<1> USE OutputsAssumption DEF LateWriteIsOff, OutputsTypeOK, ControlTypeOK
<1>1. CASE EnableCheck
  BY <1>1 DEF EnableCheck, NextOutput, LoopStart
<1>2. CASE EnableWrite \/ SkipBrain
  BY <1>2 DEF EnableWrite, SkipBrain, NextOutput, LoopStart
<1>3. ASSUME NEW S \in SUBSET output_t, Trip(S) PROVE LateWriteIsOff'
  BY <1>3 DEF Trip
<1>4. CASE ClearInhibit \/ ClearLed \/ Return
  BY <1>4 DEF ClearInhibit, ClearLed, Return
<1>5. CASE Host
  BY <1>5 DEF Host, OutSet, BrainSet, BoardReset, BusReset, CallEnable, CallLoop, Call, jump_to_bootloader,
              StartDeinit, Abandon
<1>6. CASE handle_uvlo \/ \E S \in SUBSET output_t : set_global_overcurrent(S)
  BY <1>6 DEF handle_uvlo, set_global_overcurrent, StartDeinit, Abandon
<1>7. CASE DeinitStep
  BY <1>7 DEF DeinitStep, PollNothing, PollReset, PollData, Poll, CallLoop, Call, PacketEnd, usb_deinit_return
<1>8. CASE Restart \/ UNCHANGED vars
  BY <1>8 DEF Restart
<1>9. QED
  BY <1>1, <1>2, <1>3, <1>4, <1>5, <1>6, <1>7, <1>8 DEF Next, RoutineStep, SysTick

(* Every step of the outputs is a step of their contract or leaves what it    *)
(* speaks of alone.                                                           *)
LEMMA StepRefines ==
  IInv /\ LateWriteIsOff /\ [Next]_vars => [Contract!Next]_(Contract!vars)
<1> SUFFICES ASSUME IInv, LateWriteIsOff, [Next]_vars
             PROVE  Contract!Next \/ UNCHANGED Contract!vars
  OBVIOUS
<1> USE OutputsAssumption DEF OutputsTypeOK, ControlTypeOK
<1>1. CASE UNCHANGED <<gpio, output_inhibited, context>>
  BY <1>1 DEF Contract!vars, Status
<1>2. CASE ClearInhibit
  <2>1. /\ out \in output_t /\ ~output_inhibited'[out] /\ gpio' = gpio
        /\ \A o \in output_t \ {out} : output_inhibited'[o] = output_inhibited[o]
    BY <1>2 DEF ClearInhibit
  <2>2. CASE output_inhibited[out]
    <3>1. Contract!Release(out)
      BY <1>2, <2>1, <2>2 DEF ClearInhibit, Contract!Release, Contract!Becomes, Status
    <3>2. QED
      BY <2>1, <3>1 DEF Contract!Next
  <2>3. CASE ~output_inhibited[out]
    BY <1>1, <1>2, <2>3 DEF ClearInhibit
  <2>4. QED
    BY <2>2, <2>3
<1>3. CASE EnableWrite
  <2>1. Level \in BOOLEAN
    BY DEF Level, FlagsTypeOK
  <2>2. /\ out \in output_t /\ gpio'[out] = Level
        /\ \A o \in output_t \ {out} : gpio'[o] = gpio[o]
    BY <1>3 DEF EnableWrite
  <2>3. CASE ~output_inhibited[out]
    <3>1. Contract!Switch(out)
      BY <1>3, <2>1, <2>2, <2>3 DEF EnableWrite, Contract!Switch, Contract!Becomes, Status
    <3>2. QED
      BY <2>2, <3>1 DEF Contract!Next
  <2>4. CASE output_inhibited[out] /\ Level
    <3>1. context = "running" /\ ~gpio[out]
      BY <1>3, <2>4 DEF EnableWrite, LateWriteIsOff, MaskedWriteIsChecked
    <3>2. Contract!LateWrite(out)
      BY <1>3, <2>2, <2>4, <3>1 DEF EnableWrite, Contract!LateWrite, Contract!Becomes, Status
    <3>3. QED
      BY <2>2, <3>2 DEF Contract!Next
  <2>5. CASE output_inhibited[out] /\ ~Level
    <3>1. ~gpio[out]
      BY <1>3, <2>5 DEF EnableWrite, LateWriteIsOff
    <3>2. /\ \A o \in output_t : gpio'[o] = gpio[o]
          /\ output_inhibited' = output_inhibited /\ context' = context
      BY <1>3, <2>1, <2>2, <2>5, <3>1 DEF EnableWrite
    <3>3. QED
      BY <3>2 DEF Contract!vars, Status
  <2>6. QED
    BY <2>1, <2>3, <2>4, <2>5
<1>4. ASSUME NEW S \in SUBSET output_t, Trip(S) PROVE Contract!Next
  <2>1. Contract!Cut(S)
    BY <1>4 DEF Trip, Contract!Cut, Contract!Becomes, Status
  <2>2. QED
    BY <2>1 DEF Contract!Next
<1>5. CASE handle_uvlo \/ \E S \in SUBSET output_t : set_global_overcurrent(S)
  <2>1. Contract!Stop
    BY <1>5 DEF handle_uvlo, set_global_overcurrent, disable_all_outputs, StartDeinit,
                Contract!Stop, Contract!Becomes, Status
  <2>2. QED
    BY <2>1 DEF Contract!Next
<1>6. CASE jump_to_bootloader
  <2>1. Contract!HandOver
    BY <1>6 DEF jump_to_bootloader, disable_all_outputs, StartDeinit,
                Contract!HandOver, Contract!Becomes, Status
  <2>2. QED
    BY <2>1 DEF Contract!Next
<1>7. CASE Restart
  <2>1. Contract!Restart
    BY <1>7 DEF Restart, Contract!Restart, Contract!Becomes, Status
  <2>2. QED
    BY <2>1 DEF Contract!Next
<1>8. CASE usb_deinit_return
  BY <1>8 DEF usb_deinit_return, After, Contract!vars, Status
<1>9. QED
  BY <1>1, <1>2, <1>3, <1>4, <1>5, <1>6, <1>7, <1>8
     DEF Next, Host, RoutineStep, SysTick, DeinitStep, OutSet, BrainSet, BoardReset, BusReset, CallEnable, CallLoop, Call,
         ClearLed, SkipBrain, EnableCheck, Return, PollNothing, PollReset, PollData, PacketEnd

(* The outputs implement their contract, for any number of outputs.           *)
THEOREM Refinement == Spec => KeepsContract
<1>1. Init => LateWriteIsOff /\ Contract!Init
  BY DEF Init, LateWriteIsOff, Contract!Init, Status
<1>2. QED
  BY <1>1, InitEstablishes, NextPreserves, LateWrites, StepRefines, PTL
     DEF Spec, KeepsContract, Contract!Spec
=============================================================================
