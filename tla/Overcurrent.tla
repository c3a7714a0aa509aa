----------------------------- MODULE Overcurrent -----------------------------
(***************************************************************************)
(* The protection of the board: what the SysTick interrupt of              *)
(* src/src/systick.c measures, how detect_overcurrent and handle_uvlo of   *)
(* src/src/output.c debounce it, and what they switch off.                 *)
(*                                                                         *)
(* One interrupt is one step: nothing interrupts it, and the main thread,  *)
(* whose stores to the same variables are the actions of Host, runs only   *)
(* between two of them.  (What happens when it is caught inside            *)
(* enable_output is the subject of module Outputs.)  Readings are what the *)
(* converters deliver, in their own units, and keep the limits of the      *)
(* code; the periods and the width of the counters are parameters.         *)
(***************************************************************************)
EXTENDS Integers, Functions, Conversions

CONSTANTS
  NumHigh,          \* 2 in the code: H0 and H1, each alone in its phase
  NumPairs,         \* 2: L0 with L1, and L2 with L3
  SlowPeriod,       \* 20: ticks between two readings of the INA219s
  UvloStep,         \* 20: what handle_uvlo adds to its counter
  U16,              \* 65536: the counters and the holdoffs are uint16_t
  LoadVectors,      \* what the ADCs may see of the sensed outputs at one moment
  HostOutputs,      \* the outputs that commands and resets address: all
  BatteryCurrents, BatteryVoltages, RegCurrents,  \* registers of the INA219s
  DefaultHoldoff,   \* the holdoffs of output.c before any command
  HostHoldoffs      \* the values a DELAY_COEFF command may store

NumPhases  == NumHigh + NumPairs
OUT_5V     == NumHigh + 2 * NumPairs
output_t   == 0 .. OUT_5V
Sensed     == 0 .. OUT_5V - 1
HoldoffNames == {"ADC", "BATT", "REG", "UVLO", "NEG"}

ASSUME OvercurrentAssumption ==
  /\ NumHigh \in Nat /\ NumPairs \in Nat /\ NumPhases >= 2
  /\ SlowPeriod \in Nat /\ SlowPeriod >= 2
  /\ UvloStep \in Nat \ {0}
  /\ U16 \in Nat /\ U16 >= 2
  /\ HostHoldoffs \subseteq 0 .. U16 - 2        \* handle_msg refuses U16 - 1
  /\ DefaultHoldoff \in [HoldoffNames -> HostHoldoffs]
  /\ LoadVectors \subseteq [Sensed -> AdcValues] /\ HostOutputs \subseteq output_t
  /\ \A R \in {BatteryCurrents, BatteryVoltages, RegCurrents} : R \subseteq Registers

VARIABLES
  context,             \* "running"; or the loop of set_global_overcurrent ...
                       \* ("overcurrent") or of handle_uvlo ("flat")
  systick_slow_tick,
  current_phase,
  csPhase,             \* the phase whose current-sense outputs are enabled
  battery, reg_5v,     \* the last readings of the INA219s
  output_current,
  overcurrent_delay,   \* per output; its eighth element is total_delay
  total_delay, neg_current_delay, uvlo_delay,
  holdoff,             \* the five ..._DELAY variables
  gpio, output_inhibited,
  samples,             \* history: over-limit samples in a row, per output
  held,                \* history: overloaded ticks in a row that left it on
  bad,                 \* history: bad readings of the battery in a row
  summed               \* history: what the outputs draw together has a share in total_delay

schedule == <<systick_slow_tick, current_phase, csPhase>>
readings == <<battery, reg_5v, output_current>>
counters == <<overcurrent_delay, total_delay, neg_current_delay, uvlo_delay>>
outputs  == <<gpio, output_inhibited>>
history  == <<samples, held, bad, summed>>
vars == <<context, schedule, readings, counters, holdoff, outputs, history>>

-----------------------------------------------------------------------------
(***************************************************************************)
(* Readings.  An INA219 that answers with a NACK sets i2c_timed_out, which *)
(* fails every later transaction until the next slow tick re-initialises   *)
(* the bus: the regulator is read after the battery, so its reading never  *)
(* succeeds when the battery's has failed.  Sensors are taken as nulled at *)
(* 0 (offsets are a subject of module CurrentSense).                       *)
(***************************************************************************)
BatteryReadings ==
  [success : {TRUE}, current : {BatteryCurrent(r, 0) : r \in BatteryCurrents},
   voltage : {Voltage(r) : r \in BatteryVoltages}]
RegReadings == [success : {TRUE}, current : {Current(r, 0) : r \in RegCurrents}]
NoBattery   == [success |-> FALSE, current |-> 0, voltage |-> 0]
NoReg       == [success |-> FALSE, current |-> 0]

measure_current_sense ==
  \/ battery' \in BatteryReadings /\ reg_5v' \in RegReadings \cup {NoReg}
  \/ battery' = NoBattery /\ reg_5v' = NoReg

Low(b)      == b.success /\ b.voltage < 10200
Overdraw(b) == b.success /\ b.current > 30000
Negative(b) == b.success /\ b.current < -1000

current_limit(o) == IF o < NumHigh THEN 20000 ELSE 10000

(* The outputs that share a phase: one of H0 and H1, or a pair of L0 to L3. *)
SampledIn(phase) == IF phase < NumHigh THEN {phase}
                    ELSE {2 * phase - NumHigh, 2 * phase - NumHigh + 1}

(* setup_current_phase(phase) *)
setup_current_phase(phase) == csPhase' = phase

(* What the two ADCs convert: the outputs of the enabled phase, and for H0   *)
(* or H1 the two halves of its current.                                      *)
Sensing(load) ==
  IF csPhase < NumHigh THEN <<load[csPhase], load[csPhase]>>
  ELSE <<load[2 * csPhase - NumHigh], load[2 * csPhase - NumHigh + 1]>>

(* Slip: the product of the conversion is cut to 16 bits before its division. *)
Converted_Narrow(codes) == [i \in 1 .. 2 |-> 7 * codes[i] + uint16_t(codes[i] * 9671) \div 28672]

Converted(codes) == [i \in 1 .. 2 |-> adc_to_current(codes[i])]

save_current_values(phase, current) ==
  output_current' =
    [o \in Sensed |->
       IF o \notin SampledIn(phase) THEN output_current[o]
       ELSE IF phase < NumHigh THEN SumOfHalves(current[1], current[2])
       ELSE current[o - (2 * phase - NumHigh) + 1]]

(* Slip: current_phase is not taken modulo the number of phases. *)
read_next_current_phase_NoWrap(load) ==
  /\ setup_current_phase((current_phase + 1) % NumPhases)
  /\ save_current_values(current_phase, Converted(Sensing(load)))
  /\ current_phase' = current_phase + 1

(* read_next_current_phase(current_phase) and the advance of the phase *)
read_next_current_phase(load) ==
  /\ setup_current_phase((current_phase + 1) % NumPhases)
  /\ save_current_values(current_phase, Converted(Sensing(load)))
  /\ current_phase' = (current_phase + 1) % NumPhases

-----------------------------------------------------------------------------
(***************************************************************************)
(* Debouncing.                                                             *)
(***************************************************************************)
(* Slip: a counter is not cleared when its condition goes away. *)
Count_NoReset(cond, counter) == IF cond THEN (counter + 1) % U16 ELSE counter

(* A counter that counts the ticks of a condition and clears when it ends. *)
Count(cond, counter) == IF cond THEN (counter + 1) % U16 ELSE 0

Over(o) == IF o = OUT_5V THEN reg_5v'.success /\ reg_5v'.current > 2000
           ELSE output_current'[o] > current_limit(o)

HoldoffOf(o) == holdoff[IF o = OUT_5V THEN "REG" ELSE "ADC"]

(* Slip: the regulator is counted but not cut. *)
Cut_NoRegulator == {o \in Sensed : Over(o) /\ overcurrent_delay'[o] > HoldoffOf(o)}

(* The outputs that detect_overcurrent passes to set_overcurrent. *)
Cut == {o \in output_t : Over(o) /\ overcurrent_delay'[o] > HoldoffOf(o)}

(* The conditions on the whole board: too much current, also summed over the *)
(* outputs and the regulator, or current into the battery.                   *)
total_current == SumFunction(output_current') + IF reg_5v'.success THEN reg_5v'.current ELSE 0
TotalOver     == total_current > 30000 \/ Overdraw(battery')
(* Slip: the holdoff of the negative current is used for the total current. *)
TotalFault_Paste == TotalOver /\ total_delay' > holdoff["NEG"]

TotalFault    == TotalOver /\ total_delay' > holdoff["BATT"]
NegativeFault == Negative(battery') /\ neg_current_delay' > holdoff["NEG"]

(* Slip: a good or failed reading does not clear the counter. *)
count_uvlo_NoReset ==
  uvlo_delay' = IF Low(battery') THEN (uvlo_delay + UvloStep) % U16 ELSE uvlo_delay

(* Slip: handle_uvlo counts its calls and not the milliseconds between them. *)
count_uvlo_ByOne ==
  uvlo_delay' = IF Low(battery') THEN (uvlo_delay + 1) % U16 ELSE 0

(* handle_uvlo counts in steps and only when the battery has been read. *)
count_uvlo ==
  uvlo_delay' = IF Low(battery') THEN (uvlo_delay + UvloStep) % U16 ELSE 0
FlatFault == Low(battery') /\ uvlo_delay' > holdoff["UVLO"]

-----------------------------------------------------------------------------
(***************************************************************************)
(* History of what really happened, for the properties: saturating counts. *)
(***************************************************************************)
Cap == U16 + SlowPeriod
Streak(cond, n) == IF cond THEN IF n < Cap THEN n + 1 ELSE n ELSE 0

(* The current of an output, by the arithmetic of the shunts and not of the C. *)
Drawn(load, o) == (IF o < NumHigh THEN 2 ELSE 1) * ((210375 * load[o]) \div 28672)

Overloaded(load, o) == IF o = OUT_5V THEN Over(o) ELSE Drawn(load, o) > current_limit(o)

RecordOutputs(load, slow) ==
  /\ samples' = [o \in output_t |->
       IF (IF o = OUT_5V THEN slow ELSE o \in SampledIn(current_phase))
       THEN Streak(Overloaded(load, o), samples[o]) ELSE samples[o]]
  /\ held' = [o \in output_t |->
       Streak(gpio[o] /\ gpio'[o] /\ Overloaded(load, o), held[o])]

RecordBattery ==
  bad' = [BATT |-> Streak(Overdraw(battery'), bad.BATT),
          NEG  |-> Streak(Negative(battery'), bad.NEG),
          UVLO |-> Streak(Low(battery'), bad.UVLO)]

-----------------------------------------------------------------------------
(***************************************************************************)
(* sys_tick_handler.                                                       *)
(***************************************************************************)
SlowTick == systick_slow_tick = SlowPeriod - 1

disable_all_outputs ==
  /\ gpio' = [o \in output_t |-> FALSE]
  /\ output_inhibited' = [o \in output_t |-> TRUE]

(* Every SlowPeriod-th tick reads the INA219s first; a flat battery ends it. *)
ReadSensors ==
  IF SlowTick
  THEN measure_current_sense /\ count_uvlo /\ ~FlatFault /\ RecordBattery
  ELSE UNCHANGED <<battery, reg_5v, uvlo_delay, bad>>

TickFlat ==
  /\ context = "running" /\ SlowTick
  /\ measure_current_sense /\ count_uvlo /\ FlatFault /\ RecordBattery
  /\ systick_slow_tick' = SlowPeriod       \* its reset is never reached
  /\ context' = "flat" /\ disable_all_outputs
  /\ UNCHANGED <<current_phase, csPhase, output_current, overcurrent_delay,
                 total_delay, neg_current_delay, holdoff, samples, held, summed>>

(* The part of a tick that detect_overcurrent and its caller always execute. *)
Sample(load) ==
  /\ context = "running"
  /\ ReadSensors
  /\ systick_slow_tick' = (systick_slow_tick + 1) % SlowPeriod
  /\ read_next_current_phase(load)
  /\ overcurrent_delay' = [o \in output_t |-> Count(Over(o), overcurrent_delay[o])]
  /\ total_delay' = Count(TotalOver, total_delay)
  /\ summed' = (TotalOver /\ (summed \/ total_current > 30000))
  /\ UNCHANGED holdoff

(* detect_overcurrent cuts single outputs, and the interrupt returns. *)
Tick(load) ==
  /\ Sample(load)
  /\ neg_current_delay' = Count(Negative(battery'), neg_current_delay)
  /\ ~TotalFault /\ ~NegativeFault
  /\ gpio' = [o \in output_t |-> gpio[o] /\ o \notin Cut]
  /\ output_inhibited' = [o \in output_t |-> output_inhibited[o] \/ o \in Cut]
  /\ RecordOutputs(load, SlowTick)
  /\ UNCHANGED context

(* set_global_overcurrent, called at the first or the second place. *)
TickShutdown(load) ==
  /\ Sample(load)
  /\ \/ TotalFault /\ UNCHANGED neg_current_delay
     \/ /\ ~TotalFault
        /\ neg_current_delay' = Count(Negative(battery'), neg_current_delay)
        /\ NegativeFault
  /\ context' = "overcurrent" /\ disable_all_outputs
  /\ RecordOutputs(load, SlowTick)

(* One round of the loop of set_global_overcurrent: only the battery is read. *)
FaultLoop ==
  /\ context = "overcurrent"
  /\ battery' \in BatteryReadings \cup {NoBattery}
  /\ count_uvlo /\ RecordBattery
  /\ context' = IF FlatFault THEN "flat" ELSE context
  /\ IF FlatFault THEN disable_all_outputs ELSE UNCHANGED outputs
  /\ UNCHANGED <<schedule, reg_5v, output_current, overcurrent_delay, total_delay,
                 neg_current_delay, holdoff, samples, held, summed>>

-----------------------------------------------------------------------------
(***************************************************************************)
(* The main thread, one store at a time: commands, bus resets and board    *)
(* resets switch outputs and clear inhibit flags.  The flag is no guard of *)
(* the write, since the check in enable_output may be out of date.         *)
(***************************************************************************)
WriteOutput(o, v) ==
  /\ context = "running"
  /\ gpio' = [gpio EXCEPT ![o] = v]
  /\ UNCHANGED <<context, schedule, readings, counters, holdoff, output_inhibited, history>>

ClearInhibit(o) ==
  /\ context = "running"
  /\ output_inhibited' = [output_inhibited EXCEPT ![o] = FALSE]
  /\ UNCHANGED <<context, schedule, readings, counters, holdoff, gpio, history>>

(* One of the five stores of a DELAY_COEFF command. *)
StoreHoldoff(name, value) ==
  /\ context = "running"
  /\ holdoff' = [holdoff EXCEPT ![name] = value]
  /\ UNCHANGED <<context, schedule, readings, counters, outputs, history>>

(* Start-up: outputs_init, after init has cut and inhibited every output. *)
Init ==
  /\ context = "running"
  /\ systick_slow_tick = 0 /\ current_phase = 0 /\ csPhase = 0
  /\ battery = NoBattery /\ reg_5v = NoReg
  /\ output_current = [o \in Sensed |-> 0]
  /\ overcurrent_delay = [o \in output_t |-> 0]
  /\ total_delay = 0 /\ neg_current_delay = 0 /\ uvlo_delay = 0
  /\ holdoff = DefaultHoldoff
  /\ gpio = [o \in output_t |-> FALSE]
  /\ output_inhibited = [o \in output_t |-> TRUE]
  /\ samples = [o \in output_t |-> 0] /\ held = [o \in output_t |-> 0]
  /\ bad = [BATT |-> 0, NEG |-> 0, UVLO |-> 0] /\ summed = FALSE

Host ==
  \/ \E o \in HostOutputs, v \in BOOLEAN : WriteOutput(o, v)
  \/ \E o \in HostOutputs : ClearInhibit(o)
  \/ \E name \in HoldoffNames, value \in HostHoldoffs : StoreHoldoff(name, value)

SysTick ==
  \/ \E load \in LoadVectors : Tick(load) \/ TickShutdown(load)
  \/ TickFlat

(* Power has to be cycled to leave the loop of handle_uvlo. *)
Off == context = "flat" /\ UNCHANGED vars

Next == SysTick \/ FaultLoop \/ Host \/ Off
Spec == Init /\ [][Next]_vars
-----------------------------------------------------------------------------
TypeOK ==
  /\ context \in {"running", "overcurrent", "flat"}
  /\ systick_slow_tick \in 0 .. SlowPeriod
  /\ current_phase \in 0 .. NumPhases - 1 /\ csPhase \in 0 .. NumPhases - 1
  /\ battery \in BatteryReadings \cup {NoBattery} /\ reg_5v \in RegReadings \cup {NoReg}
  /\ output_current \in [Sensed -> 0 .. UINT16_MAX]
  /\ overcurrent_delay \in [output_t -> 0 .. U16 - 1]
  /\ total_delay \in 0 .. U16 - 1 /\ neg_current_delay \in 0 .. U16 - 1
  /\ uvlo_delay \in 0 .. U16 - 1
  /\ holdoff \in [HoldoffNames -> HostHoldoffs]
  /\ gpio \in [output_t -> BOOLEAN] /\ output_inhibited \in [output_t -> BOOLEAN]
  /\ samples \in [output_t -> 0 .. Cap] /\ held \in [output_t -> 0 .. Cap]
  /\ bad \in [{"BATT", "NEG", "UVLO"} -> 0 .. Cap] /\ summed \in BOOLEAN

(* Ticks between two samples of an output. *)
Period(o) == IF o = OUT_5V THEN SlowPeriod ELSE NumPhases

(* No output is cut for a glitch: a holdoff of D ms takes more than D div 4   *)
(* samples over the limit in a row (D div 20 for the regulator), each of that *)
(* output's own current, however the holdoffs are changed on the way.         *)
NoGlitchTrip ==
  [][\A o \in output_t :
       output_inhibited'[o] /\ ~output_inhibited[o] /\ context' = "running"
         => HoldoffOf(o) < Period(o) * samples'[o]]_vars

(* No output carries an overload for longer than its holdoff and one sampling *)
(* period, whatever the host does: counters that wrap around, holdoffs that   *)
(* change and outputs that are switched on again do not prolong it.           *)
NoLastingOverload ==
  [][current_phase' # current_phase =>
       \A o \in output_t : held'[o] < HoldoffOf(o) + Period(o)]_vars

(* The board shuts down for the battery's current only after a streak of bad  *)
(* readings as long as the holdoff, and for its voltage likewise; a failed    *)
(* reading starts the count again.  (Currents of the outputs that add up to   *)
(* more than 30 A count in the same counter; streaks they share are excluded.)*)
NoGlitchShutdown ==
  [][/\ context = "running" /\ context' = "overcurrent" =>
          \/ summed'
          \/ holdoff["BATT"] < SlowPeriod * bad'.BATT
          \/ holdoff["NEG"] < SlowPeriod * bad'.NEG
     /\ context # "flat" /\ context' = "flat" => holdoff["UVLO"] < UvloStep * bad'.UVLO]_vars

(* The board does not keep running while reading after reading is bad: on a   *)
(* slow tick it returns from, the streak is shorter than the holdoffs.        *)
OverdrawStopsBoard ==
  [][SlowTick /\ context' = "running" /\ current_phase' # current_phase =>
       /\ bad'.BATT > 0 => SlowPeriod * (bad'.BATT - 1) < holdoff["BATT"]
       /\ bad'.NEG  > 0 => SlowPeriod * (bad'.NEG - 1) < holdoff["NEG"]]_vars

(* README.md: UVLO_DELAY is the "Holdoff in ms of an undervoltage reading".   *)
FlatBatteryStopsBoard ==
  [][SlowTick /\ context' = "running" /\ current_phase' # current_phase =>
       UvloStep * bad'.UVLO <= holdoff["UVLO"]]_vars
=============================================================================
