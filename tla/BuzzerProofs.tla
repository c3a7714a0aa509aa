----------------------------- MODULE BuzzerProofs -----------------------------
(***************************************************************************)
(* Proofs about module Buzzer, for any notes, any start beep and any       *)
(* number of commands: no tone sounds without a count that will end it.    *)
(***************************************************************************)
EXTENDS Buzzer, TLAPS

(* Between the two statements of buzzer_stop the timer is off, so that        *)
(* clearing the count leaves no tone behind.                                  *)
StoppedFirst == pc = "clear_ticks" => ~sounding

(* What sounds while SysTick ticks is either counted down or about to be.     *)
Counted ==
  context = "running" /\ sounding =>
    buzzer_ticks_remaining # 0 \/ pc \in {"store_ticks", "disable_timer"}

(* The endless loops execute nothing of the main thread.                      *)
LoopsAbandonMain == context \in {"overcurrent", "flat", "bootloader"} => pc = "idle"

(* The inductive invariant.                                                   *)
IInv == TypeOK /\ Counted /\ StoppedFirst /\ LoopsAbandonMain

Replies == [freq : 0 .. MaxFrequency, remaining : Nat]

(* The notes of the program itself are within the limit.                      *)
LEMMA OwnFrequencies ==
  /\ StartFrequency \in 1 .. MaxFrequency /\ FaultFrequency \in 1 .. MaxFrequency
  /\ FaultDuration \in Nat /\ FaultDuration # 0
  /\ MaxFrequency \in Nat /\ MaxFrequency >= 1 /\ MaxCommands \in Nat
BY BuzzerAssumption, SMT DEF StartFrequency, FaultFrequency, FaultDuration, MaxFrequency

(* What handle_msg lets through to buzzer_note, and buzzer_note to the timer. *)
LEMMA Arguments ==
  ASSUME NEW f \in Frequencies, NEW d \in Durations
  PROVE  d \in Nat /\ (f # 0 => Clamped(f) \in 1 .. MaxFrequency)
<1>1. f \in 0 .. UINT16_MAX /\ d \in Nat
  BY BuzzerAssumption
<1>2. f \in Nat
  BY <1>1 DEF UINT16_MAX
<1>3. QED
  BY <1>1, <1>2, OwnFrequencies DEF Clamped

(* A state that differs from another only where the answer is put together.   *)
LEMMA NoReply == [freq |-> 0, remaining |-> 0] \in Replies
BY OwnFrequencies DEF Replies

(* The type invariant, with its parts as the proofs below refer to them.      *)
LEMMA Types ==
  TypeOK <=>
    /\ sounding \in BOOLEAN /\ buzzer_frequency \in 1 .. MaxFrequency
    /\ buzzer_ticks_remaining \in Nat
    /\ context \in Contexts /\ pc \in Labels /\ duration \in Nat \ {0}
    /\ listening \in BOOLEAN /\ commands \in 0 .. MaxCommands /\ reply \in Replies
BY Zenon DEF TypeOK, Replies

-----------------------------------------------------------------------------
(***************************************************************************)
(* The inductive invariant is one.                                         *)
(***************************************************************************)

LEMMA InitEstablishes == Init => IInv
<1> SUFFICES ASSUME Init PROVE IInv
  OBVIOUS
<1>1. /\ duration \in Nat \ {0} /\ commands \in 0 .. MaxCommands /\ reply \in Replies
      /\ buzzer_ticks_remaining \in Nat /\ buzzer_frequency \in 1 .. MaxFrequency
  BY BuzzerAssumption, OwnFrequencies, NoReply DEF Init
<1>2. sounding = FALSE /\ listening = FALSE /\ context = "running" /\ pc = "enable_timer"
  BY DEF Init
<1>3. TypeOK
  BY <1>1, <1>2, Types DEF Contexts, Labels
<1>4. QED
  BY <1>2, <1>3 DEF IInv, Counted, StoppedFirst, LoopsAbandonMain

(* A command is accepted between two others.                                  *)
LEMMA CommandsPreserve == ASSUME IInv, Accept, pc' \in {"enable_timer", "disable_timer", "get_freq"},
                                 buzzer_frequency' \in 1 .. MaxFrequency, duration' \in Nat \ {0}
                          PROVE  IInv'
<1>1. /\ TypeOK /\ Counted /\ context \in {"running"} \cup Deinit /\ pc = "idle"
      /\ UNCHANGED <<sounding, buzzer_ticks_remaining, context, listening, reply>>
      /\ commands < MaxCommands /\ commands' = commands + 1
  BY DEF IInv, Accept
<1>2. commands' \in 0 .. MaxCommands
  BY <1>1, OwnFrequencies, Types
<1>3. /\ sounding' \in BOOLEAN /\ buzzer_ticks_remaining' \in Nat /\ context' \in Contexts
      /\ listening' \in BOOLEAN /\ reply' \in Replies /\ pc' \in Labels
  BY <1>1, Types DEF Labels
<1>4. TypeOK'
  BY <1>2, <1>3, Zenon DEF TypeOK, Replies
<1>5. Counted' /\ StoppedFirst' /\ LoopsAbandonMain'
  BY <1>1 DEF Counted, StoppedFirst, LoopsAbandonMain, Deinit
<1>6. QED
  BY <1>4, <1>5 DEF IInv

(* One statement of the main thread.                                          *)
LEMMA StatementsPreserve == ASSUME IInv, MainStep PROVE IInv'
<1>1. /\ sounding \in BOOLEAN /\ buzzer_frequency \in 1 .. MaxFrequency
      /\ buzzer_ticks_remaining \in Nat
      /\ context \in Contexts /\ pc \in Labels /\ duration \in Nat \ {0}
      /\ listening \in BOOLEAN /\ commands \in 0 .. MaxCommands /\ reply \in Replies
  BY Types DEF IInv
<1>2. /\ UNCHANGED <<buzzer_frequency, context, duration, commands>>
      /\ pc' \in Labels
  BY DEF MainStep, EnableTimer, StoreTicks, DisableTimer, ClearTicks, BeepWait, ReadFreq, ReadRemaining, Answer,
         Statement, Labels
<1>3. pc # "idle"
  BY DEF MainStep, EnableTimer, StoreTicks, DisableTimer, ClearTicks, BeepWait, ReadFreq, ReadRemaining, Answer,
         Statement
<1>4. LoopsAbandonMain'
  BY <1>2, <1>3 DEF IInv, LoopsAbandonMain
<1>5. reply' \in Replies
  <2>1. CASE ReadFreq
    <3>1. buzzer_get_freq \in 0 .. MaxFrequency
      BY <1>1, OwnFrequencies DEF buzzer_get_freq
    <3>2. QED
      BY <1>1, <2>1, <3>1 DEF ReadFreq, Replies
  <2>2. CASE ReadRemaining
    BY <1>1, <2>2 DEF ReadRemaining, Replies
  <2>3. CASE Answer
    BY <2>3, NoReply DEF Answer
  <2>4. CASE UNCHANGED reply
    BY <1>1, <2>4
  <2>5. QED
    BY <2>1, <2>2, <2>3, <2>4
       DEF MainStep, EnableTimer, StoreTicks, DisableTimer, ClearTicks, BeepWait
<1>6. sounding' \in BOOLEAN /\ buzzer_ticks_remaining' \in Nat /\ listening' \in BOOLEAN
  <2>1. sounding' \in BOOLEAN
    <3>1. sounding' = sounding \/ sounding' = TRUE \/ sounding' = FALSE
      BY Zenon DEF MainStep, EnableTimer, StoreTicks, DisableTimer, ClearTicks, BeepWait, ReadFreq, ReadRemaining, Answer
    <3>2. QED
      BY <1>1, <3>1
  <2>2. buzzer_ticks_remaining' \in Nat
    <3>1. \/ buzzer_ticks_remaining' = buzzer_ticks_remaining
          \/ buzzer_ticks_remaining' = duration
          \/ buzzer_ticks_remaining' = 0
      BY Zenon DEF MainStep, EnableTimer, StoreTicks, DisableTimer, ClearTicks, BeepWait, ReadFreq, ReadRemaining, Answer
    <3>2. QED
      BY <1>1, <3>1
  <2>3. listening' \in BOOLEAN
    <3>1. listening' = listening \/ listening' = TRUE
      BY Zenon DEF MainStep, EnableTimer, StoreTicks, DisableTimer, ClearTicks, BeepWait, ReadFreq, ReadRemaining, Answer
    <3>2. QED
      BY <1>1, <3>1
  <2>4. QED
    BY <2>1, <2>2, <2>3
<1>7. TypeOK'
  BY <1>1, <1>2, <1>5, <1>6, Zenon DEF TypeOK, Replies
<1>8. Counted' /\ StoppedFirst'
  <2>1. CASE EnableTimer
    BY <2>1 DEF EnableTimer, Statement, Counted, StoppedFirst
  <2>2. CASE StoreTicks
    BY <1>1, <2>2 DEF StoreTicks, Statement, Counted, StoppedFirst
  <2>3. CASE DisableTimer
    BY <2>3 DEF DisableTimer, Statement, Counted, StoppedFirst
  <2>4. CASE ClearTicks
    BY <2>4 DEF IInv, ClearTicks, Statement, Counted, StoppedFirst
  <2>5. CASE BeepWait
    BY <2>5 DEF IInv, BeepWait, Statement, Counted, StoppedFirst
  <2>6. CASE ReadFreq \/ ReadRemaining \/ Answer
    BY <2>6 DEF IInv, ReadFreq, ReadRemaining, Answer, Statement, Counted, StoppedFirst
  <2>7. QED
    BY <2>1, <2>2, <2>3, <2>4, <2>5, <2>6 DEF MainStep
<1>9. QED
  BY <1>4, <1>7, <1>8 DEF IInv

(* The interrupt's own step.                                                  *)
LEMMA TickPreserves == ASSUME IInv, buzzer_tick PROVE IInv'
<1>1. /\ context = "running" /\ sounding \in BOOLEAN
      /\ buzzer_ticks_remaining \in Nat /\ buzzer_ticks_remaining # 0
      /\ buzzer_ticks_remaining' = buzzer_ticks_remaining - 1
      /\ UNCHANGED <<buzzer_frequency, context, pc, duration, listening, reply, commands>>
  BY DEF IInv, TypeOK, buzzer_tick
<1>2. sounding' = (sounding /\ buzzer_ticks_remaining' # 0)
  BY DEF buzzer_tick
<1>3. sounding' \in BOOLEAN /\ buzzer_ticks_remaining' \in Nat
  BY <1>1, <1>2
<1>4. sounding' => sounding /\ buzzer_ticks_remaining' # 0
  BY <1>2
<1>5. TypeOK'
  BY <1>1, <1>3 DEF IInv, TypeOK
<1>6. QED
  BY <1>1, <1>4, <1>5 DEF IInv, Counted, StoppedFirst, LoopsAbandonMain

(* A shutdown silences the buzzer and abandons the main thread.               *)
LEMMA ShutdownPreserves == ASSUME IInv, NEW c \in Deinit, Shutdown(c) PROVE IInv'
<1>1. /\ context' = c /\ sounding' = FALSE /\ buzzer_ticks_remaining' = 0 /\ pc' = "idle"
      /\ reply' = [freq |-> 0, remaining |-> 0]
      /\ UNCHANGED <<buzzer_frequency, duration, listening, commands>>
  BY DEF Shutdown
<1>2. reply' \in Replies
  BY <1>1, NoReply
<1>3. TypeOK'
  BY <1>1, <1>2 DEF IInv, TypeOK, Contexts, Labels, Replies
<1>4. QED
  BY <1>1, <1>3 DEF IInv, Counted, StoppedFirst, LoopsAbandonMain

(* The endless loops, the alarm of one of them included.                      *)
LEMMA LoopsPreserve == ASSUME IInv, usb_deinit_return \/ Alarm PROVE IInv'
<1>1. CASE usb_deinit_return
  <2>1. /\ pc = "idle" /\ context' \in {"overcurrent", "flat", "bootloader"}
        /\ UNCHANGED <<buzzer, pc, duration, listening, reply, commands>>
    BY <1>1 DEF usb_deinit_return, Deinit, After
  <2>2. TypeOK'
    BY <2>1 DEF IInv, TypeOK, Contexts, buzzer
  <2>3. QED
    BY <2>1, <2>2 DEF IInv, Counted, StoppedFirst, LoopsAbandonMain
<1>2. CASE Alarm
  <2>1. /\ context = "overcurrent" /\ pc = "idle"
        /\ UNCHANGED <<context, pc, duration, listening, reply, commands>>
    BY <1>2 DEF Alarm, IInv, LoopsAbandonMain
  <2>2. sounding' \in BOOLEAN /\ buzzer_ticks_remaining' \in Nat /\ buzzer_frequency' \in 1 .. MaxFrequency
    <3>1. sounding \in BOOLEAN /\ buzzer_frequency \in 1 .. MaxFrequency
      BY DEF IInv, TypeOK
    <3>2. CASE sounding
      <4>1. sounding' = FALSE /\ buzzer_ticks_remaining' = 0 /\ buzzer_frequency' = buzzer_frequency
        BY <1>2, <3>2, Zenon DEF Alarm
      <4>2. QED
        BY <3>1, <4>1
    <3>3. CASE ~sounding
      <4>1. sounding' = TRUE /\ buzzer_ticks_remaining' = FaultDuration /\ buzzer_frequency' = FaultFrequency
        BY <1>2, <3>3, Zenon DEF Alarm
      <4>2. QED
        BY <4>1, OwnFrequencies
    <3>4. QED
      BY <3>2, <3>3
  <2>3. TypeOK'
    BY <2>1, <2>2 DEF IInv, TypeOK
  <2>4. QED
    BY <2>1, <2>3 DEF IInv, Counted, StoppedFirst, LoopsAbandonMain
<1>3. QED
  BY <1>1, <1>2

(* Every step keeps it.                                                       *)
LEMMA NextPreserves == IInv /\ [Next]_vars => IInv'
<1> SUFFICES ASSUME IInv, [Next]_vars PROVE IInv'
  OBVIOUS
<1>1. ASSUME NEW f \in Frequencies, NEW d \in Durations, buzzer_note(f, d) PROVE IInv'
  <2>1. CASE f = 0 \/ d = 0
    BY <1>1, <2>1, CommandsPreserve DEF buzzer_note, IInv, TypeOK
  <2>2. CASE f # 0 /\ d # 0
    BY <1>1, <2>2, Arguments, CommandsPreserve DEF buzzer_note
  <2>3. QED
    BY <2>1, <2>2
<1>2. CASE buzzer_stop \/ note_get
  BY <1>2, CommandsPreserve DEF buzzer_stop, note_get, IInv, TypeOK
<1>3. CASE jump_to_bootloader \/ set_global_overcurrent \/ handle_uvlo
  BY <1>3, ShutdownPreserves DEF jump_to_bootloader, set_global_overcurrent, handle_uvlo, Deinit
<1>4. CASE UNCHANGED vars
  BY <1>4 DEF vars, buzzer, IInv, TypeOK, Counted, StoppedFirst, LoopsAbandonMain
<1>5. QED
  BY <1>1, <1>2, <1>3, <1>4, StatementsPreserve, TickPreserves, LoopsPreserve DEF Next, Host, Quiet

(* The inductive invariant holds in every state that can be reached.          *)
LEMMA Invariance == Spec => []IInv
BY InitEstablishes, NextPreserves, PTL DEF Spec

-----------------------------------------------------------------------------
(* The variables of module Buzzer keep their types, and frequencies their     *)
(* limits.                                                                    *)
THEOREM TypeCorrectness == Spec => []TypeOK
<1>1. IInv => TypeOK
  BY DEF IInv
<1>2. QED
  BY <1>1, Invariance, PTL

(* While SysTick ticks, no tone goes on without ticks left to end it, however *)
(* notes, stops and ticks interleave.                                         *)
THEOREM NoToneIsStuck == Spec => []NoStuckTone
<1>1. IInv => NoStuckTone
  BY DEF IInv, TypeOK, Counted, NoStuckTone
<1>2. QED
  BY <1>1, Invariance, PTL
=============================================================================
