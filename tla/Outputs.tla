------------------------------- MODULE Outputs -------------------------------
(***************************************************************************)
(* The switched power outputs of src/src/output.c: the output pins, the    *)
(* output_inhibited flags and the channel error LEDs, as they are shared   *)
(* between                                                                 *)
(*   - the main thread, which runs one statement at a time: reset_board,   *)
(*     usb_reset_callback and the enable_output calls of handle_msg, and   *)
(*   - the SysTick interrupt, which may run between any two statements of  *)
(*     the main thread and is itself never interrupted.                    *)
(*                                                                         *)
(* Which outputs a tick cuts is decided by detect_overcurrent; that        *)
(* decision is the subject of module Overcurrent, and here a tick may cut  *)
(* any set of outputs.  LED_RUN, LED_ERROR and the buzzer, which the same  *)
(* routines also touch, are the subjects of modules Leds and Buzzer; their *)
(* statements come after the loops over the outputs, at label "tail".      *)
(***************************************************************************)
EXTENDS Integers

CONSTANTS
  NumOutputs,     \* 7 in the code: H0, H1, L0, L1, L2, L3, 5V
  BRAIN_OUTPUT,   \* OUT_L2
  OUT_5V,         \* the last output; it has no error LED
  MaxBurst        \* commands in the packet that is pending at a shutdown

ASSUME OutputsAssumption ==
  /\ NumOutputs \in Nat
  /\ OUT_5V = NumOutputs - 1
  /\ BRAIN_OUTPUT \in 0 .. OUT_5V - 1
  /\ MaxBurst \in Nat

output_t == 0 .. NumOutputs - 1

VARIABLES
  gpio,              \* level of each output pin
  output_inhibited,  \* output_inhibited[out]
  statLed,           \* channel error LED of each output
  context,           \* which code has the processor, see Contexts
  routine,           \* the routine of output.c under way
  pc,                \* its next statement
  out,               \* its loop variable or its argument
  enable,            \* enable_output's second argument when a command calls it
  command,           \* the command that calls it: the call site in handle_msg
  polls,             \* calls of usb_poll that usb_deinit still makes
  rxPending,         \* the OUT endpoint may hold an unread packet
  burst              \* commands left in the packet usb_deinit is handling

routineVars == <<routine, pc, out, enable, command>>
deinitVars  == <<polls, rxPending, burst>>
vars == <<gpio, output_inhibited, statLed, context, routineVars, deinitVars>>

(***************************************************************************)
(* "running": init() is over, SysTick ticks, the main thread executes.     *)
(* The "..._deinit" contexts execute usb_deinit with SysTick stopped, on   *)
(* the way to the loop of set_global_overcurrent, to the loop of           *)
(* handle_uvlo, or to the bootloader.                                      *)
(***************************************************************************)
Deinit   == {"overcurrent_deinit", "flat_deinit", "bootloader_deinit"}
Contexts == {"running", "overcurrent", "flat", "bootloader"} \cup Deinit

After(c) == CASE c = "overcurrent_deinit" -> "overcurrent"
              [] c = "flat_deinit"        -> "flat"
              [] OTHER                    -> "bootloader"

Routines == {"none", "enable_output", "usb_reset_callback", "reset_board"}
Commands == {"none", "OUT", "BRAIN"}
Labels   == {"idle", "clear_inhibit", "clear_led", "check", "write", "tail"}

(* Slip: reset_board swaps the levels of the brain and the other outputs. *)
Level_ResetInverted == CASE routine = "enable_output" -> enable
                         [] routine = "reset_board"   -> out # BRAIN_OUTPUT
                         [] OTHER                     -> FALSE

(* The level that enable_output is asked for by the routine under way. *)
Level == CASE routine = "enable_output" -> enable
           [] routine = "reset_board"   -> out = BRAIN_OUTPUT
           [] OTHER                     -> FALSE

-----------------------------------------------------------------------------
(***************************************************************************)
(* Start-up.  init() leaves every output off and inhibited, and main then  *)
(* calls reset_board with SysTick already ticking.                         *)
(***************************************************************************)
Init ==
  /\ gpio = [o \in output_t |-> FALSE]
  /\ output_inhibited = [o \in output_t |-> TRUE]
  /\ statLed = [o \in output_t |-> FALSE]
  /\ context = "running"
  /\ routine = "reset_board" /\ pc = "clear_inhibit" /\ out = 0
  /\ enable = FALSE /\ command = "none"
  /\ polls = 0 /\ rxPending = FALSE /\ burst = 0

(* The watchdog, the power switch or the bootloader starts the program again. *)
Restart ==
  /\ gpio' = [o \in output_t |-> FALSE]
  /\ output_inhibited' = [o \in output_t |-> TRUE]
  /\ statLed' = [o \in output_t |-> FALSE]
  /\ context' = "running"
  /\ routine' = "reset_board" /\ pc' = "clear_inhibit" /\ out' = 0
  /\ enable' = FALSE /\ command' = "none"
  /\ polls' = 0 /\ rxPending' = FALSE /\ burst' = 0

-----------------------------------------------------------------------------
(***************************************************************************)
(* Calls.  In context "running" usb_poll may deliver a command or a bus    *)
(* reset whenever the main thread is idle.  usb_deinit polls four times    *)
(* with the bus already disconnected: at most one packet is still waiting, *)
(* with any commands (see module UsbLines for when it is of no effect).    *)
(***************************************************************************)
Call(r, l, o) ==
  /\ routine' = r /\ pc' = l /\ out' = o
  /\ UNCHANGED <<gpio, output_inhibited, statLed, context>>

(* handle_msg calls enable_output(o, v). *)
CallEnable(c, o, v) == Call("enable_output", "check", o) /\ command' = c /\ enable' = v

(* The loops pass the level themselves. *)
CallLoop(r, l, o) == Call(r, l, o) /\ UNCHANGED <<enable, command>>

ReadCommand ==
  /\ pc = "idle"
  /\ \/ context = "running" /\ UNCHANGED burst
     \/ burst > 0 /\ burst' = burst - 1
  /\ UNCHANGED <<polls, rxPending>>

(* Slip: handle_msg takes the number of the brain output as any other. *)
OutSet_BrainToo(o, v) == ReadCommand /\ CallEnable("OUT", o, v)

(* OUT:<n>:SET:<v>; handle_msg refuses the brain output. *)
OutSet(o, v) == o # BRAIN_OUTPUT /\ ReadCommand /\ CallEnable("OUT", o, v)

(* The SYS:BRAIN:SET:<v> command *)
BrainSet(v) == ReadCommand /\ CallEnable("BRAIN", BRAIN_OUTPUT, v)

(* Slip: the loop of reset_board starts at the second output. *)
BoardReset_FromOne == ReadCommand /\ CallLoop("reset_board", "clear_inhibit", 1)

(* The RESET command *)
BoardReset == ReadCommand /\ CallLoop("reset_board", "clear_inhibit", 0)

(* The host resets or suspends the bus while the main loop polls. *)
BusReset ==
  /\ pc = "idle" /\ context = "running"
  /\ CallLoop("usb_reset_callback", "check", 0)
  /\ UNCHANGED deinitVars

-----------------------------------------------------------------------------
(***************************************************************************)
(* enable_output, set_overcurrent(.., false) and the loops around them.    *)
(***************************************************************************)
LoopStart == IF routine = "reset_board" THEN "clear_inhibit" ELSE "check"

(* Slip: the loops run to out <= 7. *)
NextOutput_OneTooFar ==
  /\ out' = IF routine = "enable_output" THEN out ELSE out + 1
  /\ pc'  = IF routine = "enable_output" \/ out = NumOutputs
            THEN "tail" ELSE LoopStart
  /\ UNCHANGED <<routine, enable, command>>

(* The routine moves on to its next output, or to the statements after its loop. *)
NextOutput ==
  /\ out' = IF routine = "enable_output" THEN out ELSE out + 1
  /\ pc'  = IF routine = "enable_output" \/ out = NumOutputs - 1
            THEN "tail" ELSE LoopStart
  /\ UNCHANGED <<routine, enable, command>>

(* reset_board -> set_overcurrent(out, false): the flag first ... *)
ClearInhibit ==
  /\ pc = "clear_inhibit"
  /\ output_inhibited' = [output_inhibited EXCEPT ![out] = FALSE]
  /\ pc' = "clear_led"
  /\ UNCHANGED <<gpio, statLed, context, routine, out, enable, command, deinitVars>>

(* Slip: a channel is missing from the switch that clears the LEDs. *)
ClearLed_MissingCase ==
  /\ pc = "clear_led"
  /\ statLed' = IF out = 0 THEN statLed ELSE [statLed EXCEPT ![out] = FALSE]
  /\ pc' = "check"
  /\ UNCHANGED <<gpio, output_inhibited, context, routine, out, enable, command, deinitVars>>

(* ... and the channel error LED second. *)
ClearLed ==
  /\ pc = "clear_led"
  /\ statLed' = [statLed EXCEPT ![out] = FALSE]
  /\ pc' = "check"
  /\ UNCHANGED <<gpio, output_inhibited, context, routine, out, enable, command, deinitVars>>

(* usb_reset_callback leaves the brain output alone. *)
SkipBrain ==
  /\ pc = "check" /\ routine = "usb_reset_callback" /\ out = BRAIN_OUTPUT
  /\ NextOutput
  /\ UNCHANGED <<gpio, output_inhibited, statLed, context, deinitVars>>

(* Slip: enable_output no longer looks at output_inhibited. *)
EnableCheck_Unguarded ==
  /\ pc = "check"
  /\ ~(routine = "usb_reset_callback" /\ out = BRAIN_OUTPUT)
  /\ pc' = "write"
  /\ UNCHANGED <<routine, out, enable, command, gpio, output_inhibited, statLed, context, deinitVars>>

(* enable_output reads output_inhibited and, if it is set, returns ... *)
EnableCheck ==
  /\ pc = "check"
  /\ ~(routine = "usb_reset_callback" /\ out = BRAIN_OUTPUT)
  /\ IF output_inhibited[out]
     THEN NextOutput
     ELSE pc' = "write" /\ UNCHANGED <<routine, out, enable, command>>
  /\ UNCHANGED <<gpio, output_inhibited, statLed, context, deinitVars>>

(* ... otherwise it writes the pin, by then on the strength of an old reading. *)
EnableWrite ==
  /\ pc = "write"
  /\ gpio' = [gpio EXCEPT ![out] = Level]
  /\ NextOutput
  /\ UNCHANGED <<output_inhibited, statLed, context, deinitVars>>

(* The statements after the loop, which touch no output, and the return. *)
Return ==
  /\ pc = "tail"
  /\ routine' = "none" /\ pc' = "idle" /\ out' = 0 /\ enable' = FALSE /\ command' = "none"
  /\ UNCHANGED <<gpio, output_inhibited, statLed, context, deinitVars>>

RoutineStep ==
  ClearInhibit \/ ClearLed \/ SkipBrain \/ EnableCheck \/ EnableWrite \/ Return

-----------------------------------------------------------------------------
(***************************************************************************)
(* The SysTick interrupt.                                                  *)
(***************************************************************************)
HasStatLed(o) == o # OUT_5V

(* set_overcurrent(out, true) for every output of S *)
TripLeds(S) == [o \in output_t |-> statLed[o] \/ (o \in S /\ HasStatLed(o))]

(* Slip: set_overcurrent raises the flag and leaves the pin alone. *)
Trip_FlagOnly(S) ==
  /\ context = "running"
  /\ output_inhibited' = [o \in output_t |-> output_inhibited[o] \/ o \in S]
  /\ statLed' = TripLeds(S)
  /\ UNCHANGED <<gpio, context, routineVars, deinitVars>>

(* detect_overcurrent cuts the outputs of S and the interrupt returns. *)
Trip(S) ==
  /\ context = "running"
  /\ gpio' = [o \in output_t |-> gpio[o] /\ o \notin S]
  /\ output_inhibited' = [o \in output_t |-> output_inhibited[o] \/ o \in S]
  /\ statLed' = TripLeds(S)
  /\ UNCHANGED <<context, routineVars, deinitVars>>

(* disable_all_outputs(disable_brain) *)
disable_all_outputs(disable_brain) ==
  LET kept(o) == ~disable_brain /\ o = BRAIN_OUTPUT IN
  /\ gpio' = [o \in output_t |-> kept(o) /\ gpio[o]]
  /\ output_inhibited' = [o \in output_t |-> kept(o) => output_inhibited[o]]

(* Whatever was executing is abandoned for good: the new code never returns. *)
Abandon ==
  /\ routine' = "none" /\ pc' = "idle" /\ out' = 0 /\ enable' = FALSE /\ command' = "none"
  /\ burst' = 0

(* systick_counter_disable and the start of usb_deinit *)
StartDeinit(c) == context' = c /\ polls' = 4 /\ Abandon

(* detect_overcurrent cuts S, then finds the total or the negative current. *)
set_global_overcurrent(S) ==
  /\ context = "running"
  /\ statLed' = TripLeds(S)
  /\ disable_all_outputs(TRUE)
  /\ StartDeinit("overcurrent_deinit") /\ rxPending' = TRUE

(* handle_uvlo, from the interrupt or from the loop of set_global_overcurrent. *)
handle_uvlo ==
  /\ context \in {"running", "overcurrent"}
  /\ disable_all_outputs(TRUE)
  /\ StartDeinit("flat_deinit") /\ rxPending' = (context = "running" \/ rxPending)
  /\ UNCHANGED statLed

(* Slip: the jump to the bootloader cuts the brain output as well. *)
jump_to_bootloader_BrainToo ==
  /\ context = "running" /\ pc = "idle"
  /\ disable_all_outputs(TRUE)
  /\ StartDeinit("bootloader_deinit") /\ rxPending' = TRUE
  /\ UNCHANGED statLed

(* The main loop leaves for the bootloader after a DFU_DETACH request. *)
jump_to_bootloader ==
  /\ context = "running" /\ pc = "idle"
  /\ disable_all_outputs(FALSE)
  /\ StartDeinit("bootloader_deinit") /\ rxPending' = TRUE
  /\ UNCHANGED statLed

-----------------------------------------------------------------------------
(***************************************************************************)
(* usb_deinit: four calls of usb_poll.                                     *)
(***************************************************************************)
Poll ==
  /\ context \in Deinit /\ pc = "idle" /\ burst = 0 /\ polls > 0
  /\ polls' = polls - 1

PollNothing == Poll /\ rxPending' = FALSE /\ UNCHANGED <<burst, context, routineVars, gpio, output_inhibited, statLed>>

PollReset ==
  /\ Poll
  /\ CallLoop("usb_reset_callback", "check", 0)
  /\ UNCHANGED <<rxPending, burst>>

PollData ==
  /\ Poll /\ rxPending
  /\ rxPending' = FALSE /\ burst' = MaxBurst
  /\ UNCHANGED <<context, routineVars, gpio, output_inhibited, statLed>>

(* The packet holds no further command. *)
PacketEnd ==
  /\ pc = "idle" /\ burst > 0
  /\ burst' = 0
  /\ UNCHANGED <<polls, rxPending, context, routineVars, gpio, output_inhibited, statLed>>

usb_deinit_return ==
  /\ context \in Deinit /\ pc = "idle" /\ burst = 0 /\ polls = 0
  /\ context' = After(context)
  /\ UNCHANGED <<gpio, output_inhibited, statLed, routineVars, deinitVars>>

DeinitStep == PollNothing \/ PollReset \/ PollData \/ PacketEnd \/ usb_deinit_return

-----------------------------------------------------------------------------
Host ==
  \/ \E o \in output_t, v \in BOOLEAN : OutSet(o, v)
  \/ \E v \in BOOLEAN : BrainSet(v)
  \/ BoardReset
  \/ BusReset
  \/ jump_to_bootloader

SysTick ==
  \/ \E S \in SUBSET output_t : Trip(S)
  \/ \E S \in SUBSET output_t : set_global_overcurrent(S)
  \/ handle_uvlo

Next == Host \/ RoutineStep \/ SysTick \/ DeinitStep \/ Restart

(***************************************************************************)
(* The processor never stops: the main thread runs between ticks, and the  *)
(* polls of usb_deinit follow one another.  Hosts, faults and restarts are *)
(* under no obligation.                                                    *)
(***************************************************************************)
Fairness == WF_vars(RoutineStep) /\ WF_vars(DeinitStep)

Spec == Init /\ [][Next]_vars /\ Fairness
-----------------------------------------------------------------------------
OutputsTypeOK ==
  /\ gpio \in [output_t -> BOOLEAN]
  /\ output_inhibited \in [output_t -> BOOLEAN]
  /\ statLed \in [output_t -> BOOLEAN]

ControlTypeOK ==
  /\ context \in Contexts /\ routine \in Routines /\ pc \in Labels
  /\ out \in 0 .. NumOutputs
  /\ pc \in {"clear_inhibit", "clear_led", "check", "write"} => out \in output_t
  /\ polls \in 0 .. 4 /\ burst \in 0 .. MaxBurst

FlagsTypeOK == enable \in BOOLEAN /\ command \in Commands /\ rxPending \in BOOLEAN

(* Type invariant: the loop variable of a routine never names an eighth      *)
(* output while a statement still uses it.                                   *)
TypeOK == OutputsTypeOK /\ ControlTypeOK /\ FlagsTypeOK

(* RESET reaches the safe state whatever the interrupt does meanwhile: an    *)
(* output the loop of reset_board has passed is off, even one that a lost     *)
(* race had left on and inhibited, and the brain output is on unless it has   *)
(* been cut since.                                                            *)
ResetSweeps ==
  routine = "reset_board" =>
    \A o \in 0 .. out - 1 :
      IF o = BRAIN_OUTPUT THEN gpio[o] \/ output_inhibited[o] ELSE ~gpio[o]

(* A bus reset switches off every output but the brain, except an output that *)
(* is inhibited: usb_reset_callback goes through enable_output, which leaves  *)
(* those as they are.                                                         *)
UsbResetSweeps ==
  routine = "usb_reset_callback" =>
    \A o \in 0 .. out - 1 : o # BRAIN_OUTPUT => ~gpio[o] \/ output_inhibited[o]

(* Once SysTick is stopped, no interrupt can slip between check and write, so *)
(* an inhibited output is off in the fault loops and in the polls of          *)
(* usb_deinit before them; on the way to the bootloader all but the brain,    *)
(* whose state disable_all_outputs(false) leaves alone.                       *)
InhibitHoldsWhenMasked ==
  context # "running" =>
    \A o \in output_t :
      output_inhibited[o] /\ gpio[o] =>
        o = BRAIN_OUTPUT /\ context \in {"bootloader_deinit", "bootloader"}

(* A lit channel LED means an inhibited output, except for the one moment in  *)
(* reset_board between the two statements that clear them: clearing the flag  *)
(* first is what makes a trip in that moment come out right.                  *)
StatLedMeansInhibited ==
  \A o \in output_t :
    statLed[o] => output_inhibited[o] \/ (pc = "clear_led" /\ out = o)

(* The one way to an output that is on while it is inhibited is the write of  *)
(* enable_output after a check that an interrupt has overtaken.               *)
OnlyStaleCheckDefeatsInhibit ==
  [][\A o \in output_t :
       (gpio'[o] /\ output_inhibited'[o]) /\ ~(gpio[o] /\ output_inhibited[o])
         => EnableWrite /\ out = o /\ output_inhibited[o]]_vars

(* The command for output o is under way: SYS:BRAIN for the brain, else OUT.  *)
OwnCommand(o) == out = o /\ command = IF o = BRAIN_OUTPUT THEN "BRAIN" ELSE "OUT"

(* What may take output o down: a cut, a shutdown or a restart, which leave   *)
(* it inhibited; its own command; for any but the brain a reset of bus or     *)
(* board.  The jump to the bootloader is no reason for the brain.             *)
MayFall(o) ==
  \/ output_inhibited'[o] /\ (o = BRAIN_OUTPUT => context' # "bootloader_deinit")
  \/ OwnCommand(o) /\ ~enable
  \/ o # BRAIN_OUTPUT /\ routine \in {"usb_reset_callback", "reset_board"}

(* What may bring it up: its own command, and a board reset for the brain.    *)
MayRise(o) ==
  \/ OwnCommand(o) /\ enable
  \/ o = BRAIN_OUTPUT /\ routine = "reset_board"

(* No output is switched for another reason than its own: no OUT command      *)
(* reaches the brain (msg_handler.c:57), no bus reset or jump to the          *)
(* bootloader takes it down, and whatever usb_deinit still executes, another  *)
(* output comes on only by an OUT command that names it.                      *)
OutputsSwitchForCause ==
  [][\A o \in output_t :
       /\ gpio[o] /\ ~gpio'[o] => MayFall(o)
       /\ ~gpio[o] /\ gpio'[o] => MayRise(o)]_vars

(* The state of an output as module OutputContract sees it *)
Status(o) == IF output_inhibited[o] THEN IF gpio[o] THEN "defeated" ELSE "barred"
             ELSE IF gpio[o] THEN "on" ELSE "off"

Contract == INSTANCE OutputContract WITH
  Output <- output_t, Brain <- BRAIN_OUTPUT,
  status <- [o \in output_t |-> Status(o)], serving <- context = "running"

(* The outputs keep the promise of OutputContract: each moves between off,    *)
(* on and barred only as it says, whatever the order of statements,           *)
(* interrupts, shutdowns and what is left to do after them.                   *)
KeepsContract == Contract!Spec

(* A RESET that is accepted is carried through: every output but the brain   *)
(* is off at some later moment, however often the interrupt gets in between.  *)
ResetDelivers ==
  routine = "reset_board" ~> \A o \in output_t \ {BRAIN_OUTPUT} : ~gpio[o]

-----------------------------------------------------------------------------
(* What the comments of the source say, and the code does not do.            *)

(* output.c, enable_output: "Output has had an overcurrent and is disabled".  *)
InhibitedIsDisabled == \A o \in output_t : output_inhibited[o] => ~gpio[o]

(* output.c, disable_all_outputs: "Inhibit all outputs to prevent them being  *)
(* re-enabled", on the way into the loops that keep the board shut down.      *)
ShutdownPreventsReenabling ==
  context \in {"overcurrent", "flat"} => \A o \in output_t : ~gpio[o]
=============================================================================
