-------------------------------- MODULE Buzzer --------------------------------
(***************************************************************************)
(* The buzzer of src/src/buzzer.c: the timer that sounds it and the count  *)
(* buzzer_ticks_remaining, which the main thread stores and the SysTick    *)
(* interrupt counts down.  The main thread executes one statement at a     *)
(* time and the interrupt may run between any two of them.                 *)
(***************************************************************************)
EXTENDS Integers

CONSTANTS
  Frequencies,   \* arguments of NOTE commands, in Hz
  Durations,     \* and in ms; the count itself is a uint32_t
  StartDuration, \* 150 in the code, the beep main waits for
  MaxCommands    \* commands and bus resets after which the host is silent

UINT16_MAX   == 65535
MaxFrequency == 10000

ASSUME BuzzerAssumption ==
  /\ Frequencies \subseteq 0 .. UINT16_MAX      \* handle_msg refuses others
  /\ Durations \subseteq Nat
  /\ StartDuration \in Nat \ {0} /\ MaxCommands \in Nat

StartFrequency == 523
FaultFrequency == 2000
FaultDuration  == 1000    \* "meaningless now systick is stopped"

VARIABLES
  sounding,                \* TIM3 counts and toggles the buzzer's pin
  buzzer_frequency,
  buzzer_ticks_remaining,
  context,                 \* which code has the processor
  pc,                      \* the next statement of the main thread
  duration,                \* the argument of the buzzer_note under way
  listening,               \* usb_poll may find commands, see below
  reply,                   \* what NOTE:GET? has read so far
  commands                 \* commands and bus resets so far

buzzer == <<sounding, buzzer_frequency, buzzer_ticks_remaining>>
vars   == <<buzzer, context, pc, duration, listening, reply, commands>>

Deinit   == {"overcurrent_deinit", "flat_deinit", "bootloader_deinit"}
Contexts == {"running", "overcurrent", "flat", "bootloader"} \cup Deinit
Labels   == {"idle", "enable_timer", "store_ticks", "disable_timer", "clear_ticks",
             "beep_wait", "get_freq", "get_remaining", "answer"}
After(c) == CASE c = "overcurrent_deinit" -> "overcurrent"
              [] c = "flat_deinit"        -> "flat"
              [] OTHER                    -> "bootloader"

(* Slip: the frequency of a command is taken as it is. *)
Clamped_None(f) == f

Clamped(f) == IF f > MaxFrequency THEN MaxFrequency ELSE f

-----------------------------------------------------------------------------
(* reset_board has stopped the buzzer, and main plays the start-up beep. *)
Init ==
  /\ sounding = FALSE /\ buzzer_frequency = StartFrequency /\ buzzer_ticks_remaining = 0
  /\ context = "running" /\ pc = "enable_timer" /\ duration = StartDuration
  /\ listening = FALSE /\ reply = [freq |-> 0, remaining |-> 0] /\ commands = 0

(***************************************************************************)
(* Calls by the main thread: from usb_poll in the main loop, or from the   *)
(* four calls of usb_poll in usb_deinit.  The board is listening once main *)
(* has played its beep: before, no host has found it on the bus.           *)
(***************************************************************************)
Accept ==
  /\ pc = "idle" /\ listening /\ context \in {"running"} \cup Deinit
  /\ commands < MaxCommands /\ commands' = commands + 1
  /\ UNCHANGED <<sounding, buzzer_ticks_remaining, context, listening, reply>>

(* NOTE:<f>:<d>.  The timer's period and buzzer_frequency are stored before  *)
(* anything that the interrupt reads, so they are part of the call.          *)
buzzer_note(f, d) ==
  /\ Accept
  /\ IF f = 0 \/ d = 0
     THEN pc' = "disable_timer" /\ UNCHANGED <<buzzer_frequency, duration>>
     ELSE pc' = "enable_timer" /\ buzzer_frequency' = Clamped(f) /\ duration' = d

(* buzzer_stop, called by reset_board and by usb_reset_callback *)
buzzer_stop == Accept /\ pc' = "disable_timer" /\ UNCHANGED <<buzzer_frequency, duration>>

(* NOTE:GET? *)
note_get == Accept /\ pc' = "get_freq" /\ UNCHANGED <<buzzer_frequency, duration>>

-----------------------------------------------------------------------------
(***************************************************************************)
(* The statements of buzzer_note, of buzzer_stop and of a query.           *)
(***************************************************************************)
Statement(from, to) ==
  /\ pc = from /\ pc' = to
  /\ UNCHANGED <<buzzer_frequency, context, duration, commands>>

EnableTimer ==
  /\ Statement("enable_timer", "store_ticks")
  /\ sounding' = TRUE
  /\ UNCHANGED <<buzzer_ticks_remaining, listening, reply>>

StoreTicks ==
  /\ Statement("store_ticks", IF listening THEN "idle" ELSE "beep_wait")
  /\ buzzer_ticks_remaining' = duration
  /\ UNCHANGED <<sounding, listening, reply>>

DisableTimer ==
  /\ Statement("disable_timer", "clear_ticks")
  /\ sounding' = FALSE
  /\ UNCHANGED <<buzzer_ticks_remaining, listening, reply>>

ClearTicks ==
  /\ Statement("clear_ticks", "idle")
  /\ buzzer_ticks_remaining' = 0
  /\ UNCHANGED <<sounding, listening, reply>>

(* main waits for the beep: while (buzzer_running()) *)
BeepWait ==
  /\ buzzer_ticks_remaining = 0
  /\ Statement("beep_wait", "idle")
  /\ listening' = TRUE
  /\ UNCHANGED <<sounding, buzzer_ticks_remaining, reply>>

buzzer_get_freq == IF buzzer_ticks_remaining # 0 THEN buzzer_frequency ELSE 0

ReadFreq ==
  /\ Statement("get_freq", "get_remaining")
  /\ reply' = [reply EXCEPT !.freq = buzzer_get_freq]
  /\ UNCHANGED <<sounding, buzzer_ticks_remaining, listening>>

ReadRemaining ==
  /\ Statement("get_remaining", "answer")
  /\ reply' = [reply EXCEPT !.remaining = buzzer_ticks_remaining]
  /\ UNCHANGED <<sounding, buzzer_ticks_remaining, listening>>

Answer ==
  /\ Statement("answer", "idle")
  /\ reply' = [freq |-> 0, remaining |-> 0]
  /\ UNCHANGED <<sounding, buzzer_ticks_remaining, listening>>

MainStep ==
  \/ EnableTimer \/ StoreTicks \/ DisableTimer \/ ClearTicks \/ BeepWait
  \/ ReadFreq \/ ReadRemaining \/ Answer

-----------------------------------------------------------------------------
(***************************************************************************)
(* The SysTick interrupt, and the code it may enter and never leave.       *)
(***************************************************************************)

(* Slip: the count runs out and the timer goes on. *)
buzzer_tick_NoStop ==
  /\ context = "running" /\ buzzer_ticks_remaining # 0
  /\ buzzer_ticks_remaining' = buzzer_ticks_remaining - 1
  /\ UNCHANGED <<sounding, buzzer_frequency, context, pc, duration, listening, reply, commands>>

(* Slip: only the ticks in which the buzzer sounds are counted. *)
buzzer_tick_WhenSounding ==
  /\ context = "running" /\ buzzer_ticks_remaining # 0 /\ sounding
  /\ buzzer_ticks_remaining' = buzzer_ticks_remaining - 1
  /\ sounding' = (buzzer_ticks_remaining' # 0)
  /\ UNCHANGED <<buzzer_frequency, context, pc, duration, listening, reply, commands>>

(* buzzer_tick, with the buzzer_stop of the last tick; otherwise it does nothing. *)
buzzer_tick ==
  /\ context = "running" /\ buzzer_ticks_remaining # 0
  /\ buzzer_ticks_remaining' = buzzer_ticks_remaining - 1
  /\ sounding' = (sounding /\ buzzer_ticks_remaining' # 0)
  /\ UNCHANGED <<buzzer_frequency, context, pc, duration, listening, reply, commands>>

(* disable_all_outputs stops the buzzer; SysTick stops, and whatever the main *)
(* thread was executing is abandoned.                                         *)
Shutdown(c) ==
  /\ context' = c /\ sounding' = FALSE /\ buzzer_ticks_remaining' = 0
  /\ pc' = "idle"
  /\ reply' = [freq |-> 0, remaining |-> 0]
  /\ UNCHANGED <<buzzer_frequency, duration, listening, commands>>

set_global_overcurrent == context = "running" /\ Shutdown("overcurrent_deinit")
handle_uvlo            == context \in {"running", "overcurrent"} /\ Shutdown("flat_deinit")
jump_to_bootloader     == context = "running" /\ pc = "idle" /\ listening /\ Shutdown("bootloader_deinit")

usb_deinit_return ==
  /\ context \in Deinit /\ pc = "idle" /\ context' = After(context)
  /\ UNCHANGED <<buzzer, pc, duration, listening, reply, commands>>

(* The loop of set_global_overcurrent: one second of alarm, half a second of  *)
(* silence, with SysTick stopped.                                             *)
Alarm ==
  /\ context = "overcurrent"
  /\ IF sounding
     THEN sounding' = FALSE /\ buzzer_ticks_remaining' = 0 /\ UNCHANGED buzzer_frequency
     ELSE /\ sounding' = TRUE /\ buzzer_ticks_remaining' = FaultDuration
          /\ buzzer_frequency' = FaultFrequency
  /\ UNCHANGED <<context, pc, duration, listening, reply, commands>>

(* The loops of handle_uvlo and of the bootloader leave the buzzer alone. *)
Quiet == context \in {"flat", "bootloader"} /\ UNCHANGED vars

Host ==
  \/ \E f \in Frequencies, d \in Durations : buzzer_note(f, d)
  \/ buzzer_stop \/ note_get \/ jump_to_bootloader
Next ==
  Host \/ MainStep \/ buzzer_tick \/ set_global_overcurrent \/ handle_uvlo
  \/ usb_deinit_return \/ Alarm \/ Quiet

(* SysTick keeps ticking while it is enabled, and the main thread runs between *)
(* two ticks.  The host owes nothing, and says nothing after MaxCommands.      *)
Spec == Init /\ [][Next]_vars /\ WF_vars(buzzer_tick) /\ WF_vars(MainStep)
-----------------------------------------------------------------------------
TypeOK ==
  /\ sounding \in BOOLEAN /\ buzzer_frequency \in 1 .. MaxFrequency
  /\ buzzer_ticks_remaining \in Nat
  /\ context \in Contexts /\ pc \in Labels /\ duration \in Nat \ {0}
  /\ listening \in BOOLEAN /\ commands \in 0 .. MaxCommands
  /\ reply \in [freq : 0 .. MaxFrequency, remaining : Nat]

(* A tone that nobody counts down would sound for ever: while SysTick ticks    *)
(* and no note is half started, the buzzer sounds only with ticks left.        *)
NoStuckTone ==
  context = "running" /\ sounding =>
    buzzer_ticks_remaining > 0 \/ pc \in {"store_ticks", "disable_timer"}

(* When the host falls silent the buzzer does too: notes run out, also those   *)
(* that an earlier note's last tick has muted, and main gets past its beep.    *)
EventuallyQuiet ==
  <>[](context = "running" => listening /\ pc = "idle" /\ ~sounding /\ buzzer_ticks_remaining = 0)
=============================================================================
