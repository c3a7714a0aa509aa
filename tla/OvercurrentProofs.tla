-------------------------- MODULE OvercurrentProofs --------------------------
(***************************************************************************)
(* Proofs, for any number of outputs, any periods, any width of the        *)
(* counters and any currents and voltages, of what module Overcurrent      *)
(* promises: nothing is cut for a glitch, and no overload lasts.           *)
(***************************************************************************)
EXTENDS Overcurrent, TLAPS

------------------------------------------------------------------------------
(****************************************************************************)
(* What the readings of the converters mean: module Conversions.            *)
(****************************************************************************)

(* A number that fits into 16 bits stays as it is.                            *)
LEMMA FitsUnsigned ==
  ASSUME NEW n \in Int, 0 <= n, n < 65536 PROVE uint16_t(n) = n
BY SMT DEF uint16_t

(* What is left of an intermediate division of adc_to_current fits 16 bits.   *)
LEMMA CurrentOf ==
  ASSUME NEW a \in Int, 0 <= a, a < 4096
  PROVE  /\ adc_to_current(a) = (210375 * a) \div 28672
         /\ adc_to_current(a) \in Int /\ 0 <= adc_to_current(a) /\ adc_to_current(a) <= 30046
<1> DEFINE q == (a * 9671) \div 28672
<1>1. q \in Int /\ 0 <= q /\ q <= 1381
  BY SMT
<1>2. (210375 * a) \div 28672 = 7 * a + q
  BY SMT
<1> HIDE DEF q
<1>3. uint16_t(q) = q
  BY <1>1, FitsUnsigned
<1>4. 7 * a + q \in Int /\ 0 <= 7 * a + q /\ 7 * a + q <= 30046
  BY <1>1, SMT
<1>5. uint16_t(7 * a + q) = 7 * a + q
  <2>1. 7 * a + q < 65536
    BY <1>1, SMT
  <2>2. QED
    BY <1>4, <2>1, FitsUnsigned
<1>6. adc_to_current(a) = 7 * a + q
  BY <1>3, <1>5, SMT DEF adc_to_current, q
<1>7. QED
  BY <1>2, <1>4, <1>6, SMT

(* adc_to_current computes the whole milliamperes of 210375/28672 mA to a     *)
(* code, never wraps, and the sum of two of its results does not either: no   *)
(* overload of H0 or H1 folds into a small current.                           *)
THEOREM CurrentsExact ==
  ASSUME NEW a \in AdcValues, NEW b \in AdcValues
  PROVE  /\ adc_to_current(a) = (210375 * a) \div 28672
         /\ SumOfHalves(adc_to_current(a), adc_to_current(b)) = adc_to_current(a) + adc_to_current(b)
<1>1. a \in Int /\ 0 <= a /\ a < 4096 /\ b \in Int /\ 0 <= b /\ b < 4096
  BY SMT DEF AdcValues
<1>2. /\ adc_to_current(a) = (210375 * a) \div 28672
      /\ adc_to_current(a) \in Int /\ 0 <= adc_to_current(a) /\ adc_to_current(a) <= 30046
      /\ adc_to_current(b) \in Int /\ 0 <= adc_to_current(b) /\ adc_to_current(b) <= 30046
  BY <1>1, CurrentOf
<1>3. \A m, n \in Int : 0 <= m /\ m <= 30046 /\ 0 <= n /\ n <= 30046 =>
        m + n \in Int /\ 0 <= m + n /\ m + n < 65536
  BY SMT
<1>4. uint16_t(adc_to_current(a) + adc_to_current(b)) = adc_to_current(a) + adc_to_current(b)
  BY <1>2, <1>3, FitsUnsigned
<1>5. SumOfHalves(adc_to_current(a), adc_to_current(b)) = adc_to_current(a) + adc_to_current(b)
  BY <1>4, SMT DEF SumOfHalves
<1>6. QED
  BY <1>2, <1>5, SMT

(* A larger current never gives a smaller reading, so a limit on readings is  *)
(* a limit on currents: 20 A and 10 A are passed from the code 1364 on.       *)
THEOREM LimitsAreCodes ==
  ASSUME NEW a \in AdcValues
  PROVE  /\ \A b \in AdcValues : a <= b => adc_to_current(a) <= adc_to_current(b)
         /\ adc_to_current(a) > 10000 <=> a >= 1364
         /\ SumOfHalves(adc_to_current(a), adc_to_current(a)) > 20000 <=> a >= 1364
<1>1. a \in Int /\ 0 <= a /\ a < 4096
  BY SMT DEF AdcValues
<1>2. adc_to_current(a) = (210375 * a) \div 28672 /\ adc_to_current(a) \in Int
  BY <1>1, CurrentOf
<1>3. ASSUME NEW b \in AdcValues, a <= b PROVE adc_to_current(a) <= adc_to_current(b)
  <2>1. b \in Int /\ 0 <= b /\ b < 4096
    BY SMT DEF AdcValues
  <2>2. adc_to_current(b) = (210375 * b) \div 28672
    BY <2>1, CurrentOf
  <2>3. (210375 * a) \div 28672 <= (210375 * b) \div 28672
    BY <1>1, <1>3, <2>1, SMT
  <2>4. QED
    BY <1>2, <2>2, <2>3, SMT
<1>4. (210375 * a) \div 28672 > 10000 <=> a >= 1364
  BY <1>1, SMT
<1>5. SumOfHalves(adc_to_current(a), adc_to_current(a)) = adc_to_current(a) + adc_to_current(a)
  BY CurrentsExact
<1>6. SumOfHalves(adc_to_current(a), adc_to_current(a)) > 20000 <=> a >= 1364
  BY <1>2, <1>4, <1>5, SMT
<1>7. adc_to_current(a) > 10000 <=> a >= 1364
  BY <1>2, <1>4, SMT
<1>8. QED
  BY <1>3, <1>6, <1>7

(* The voltage of a battery is read right, in steps of 4 mV, up to 16.38 V,   *)
(* and above it as a negative one.                                            *)
THEOREM VoltageExact ==
  ASSUME NEW reg \in Registers
  PROVE  Voltage(reg) = IF reg < 32768 THEN 4 * (reg \div 8) ELSE 4 * (reg \div 8) - 32768
<1>1. reg \in Int /\ 0 <= reg /\ reg < 65536
  BY SMT DEF Registers, UINT16_MAX
<1> DEFINE q == reg \div 8
<1>2. q \in Int /\ 8 * q <= reg /\ reg < 8 * q + 8 /\ reg - (reg % 8) = 8 * q
  BY <1>1, SMT
<1>3. 0 <= 8 * q /\ 8 * q < 65536 /\ (8 * q < 32768 <=> reg < 32768)
  BY <1>1, <1>2, SMT
<1> HIDE DEF q
<1>4. (8 * q) % 65536 = 8 * q
  BY <1>2, <1>3, SMT
<1>5. int16_t(8 * q) = IF reg < 32768 THEN 8 * q ELSE 8 * q - 65536
  BY <1>3, <1>4, SMT DEF int16_t
<1>6. Voltage(reg) = (IF reg < 32768 THEN 8 * q ELSE 8 * q - 65536) \div 2
  BY <1>2, <1>5 DEF Voltage, q
<1>7. (8 * q) \div 2 = 4 * q /\ (8 * q - 65536) \div 2 = 4 * q - 32768
  BY <1>2, SMT
<1>8. QED
  BY <1>6, <1>7, SMT DEF q

------------------------------------------------------------------------------
(* The phase in which a sensed output is sampled, and the ticks since its     *)
(* last sample; the regulator is sampled on the slow ticks.                   *)
PhaseOf(o) == IF o < NumHigh THEN o ELSE (o + NumHigh) \div 2
Since(o) ==
  IF o = OUT_5V THEN systick_slow_tick
  ELSE IF current_phase > PhaseOf(o) THEN current_phase - PhaseOf(o) - 1
  ELSE current_phase - PhaseOf(o) - 1 + NumPhases

(* What Over(o) finds at the tick, as a predicate of the state after it.      *)
OverNow(o) == IF o = OUT_5V THEN reg_5v.success /\ reg_5v.current > 2000
              ELSE output_current[o] > current_limit(o)

(* The ticks for which a condition that is sampled every period ticks has     *)
(* been seen, n samples in a row and the last of them since ticks ago.        *)
Ticks(period, n, since) == IF n = 0 THEN 0 ELSE period * (n - 1) + since + 1

(***************************************************************************)
(* The parameters, as the proofs need them.                                *)
(***************************************************************************)
LEMMA Parameters ==
  /\ NumHigh \in Nat /\ NumPairs \in Nat
  /\ NumPhases \in Nat /\ NumPhases >= 2 /\ OUT_5V \in Nat
  /\ SlowPeriod \in Nat /\ SlowPeriod >= 2
  /\ UvloStep \in Nat /\ UvloStep >= 1
  /\ U16 \in Nat /\ U16 >= 2 /\ Cap \in Nat /\ Cap = U16 + SlowPeriod
BY OvercurrentAssumption DEF NumPhases, OUT_5V, Cap

(* Every output has a period, and every sensed one a phase.                   *)
LEMMA Geometry ==
  /\ output_t = Sensed \cup {OUT_5V} /\ OUT_5V \notin Sensed
  /\ \A o \in output_t : o \in Nat /\ Period(o) \in Nat /\ Period(o) >= 2
  /\ \A o \in Sensed : /\ o \in Nat /\ PhaseOf(o) \in 0 .. NumPhases - 1
                       /\ \A p \in 0 .. NumPhases - 1 : o \in SampledIn(p) <=> p = PhaseOf(o)
  /\ \A p \in 0 .. NumPhases - 1 : SampledIn(p) \subseteq Sensed
<1>1. output_t = Sensed \cup {OUT_5V} /\ OUT_5V \notin Sensed
  BY Parameters DEF output_t, Sensed
<1>2. ASSUME NEW o \in output_t PROVE o \in Nat /\ Period(o) \in Nat /\ Period(o) >= 2
  BY Parameters DEF output_t, Period
<1>3. ASSUME NEW o \in Sensed
      PROVE /\ o \in Nat /\ PhaseOf(o) \in 0 .. NumPhases - 1
            /\ \A p \in 0 .. NumPhases - 1 : o \in SampledIn(p) <=> p = PhaseOf(o)
  BY Parameters DEF Sensed, NumPhases, OUT_5V, PhaseOf, SampledIn
<1>4. ASSUME NEW p \in 0 .. NumPhases - 1 PROVE SampledIn(p) \subseteq Sensed
  BY Parameters DEF Sensed, NumPhases, OUT_5V, SampledIn
<1>5. QED
  BY <1>1, <1>2, <1>3, <1>4

(* A counter modulo its period.                                               *)
LEMMA Advance ==
  ASSUME NEW n \in Nat, n >= 2, NEW i \in 0 .. n - 1
  PROVE  (i + 1) % n = IF i = n - 1 THEN 0 ELSE i + 1
OBVIOUS

(* The debouncing of one condition over one tick: its counter never runs      *)
(* ahead of the samples, and unless it is full it does not lag behind them.   *)
LEMMA Debounce ==
  ASSUME NEW period \in Nat, period >= 2, NEW n \in 0 .. Cap, NEW since \in 0 .. period - 1,
         NEW d \in 0 .. U16 - 1, NEW n2, NEW since2, NEW d2,
         since2 = IF since = period - 1 THEN 0 ELSE since + 1,
         IF since = period - 1 THEN n2 \in {0, Streak(TRUE, n)} ELSE n2 = n,
         d2 = Count(n2 > 0, d)
  PROVE  /\ d2 \in 0 .. U16 - 1 /\ n2 \in 0 .. Cap /\ since2 \in 0 .. period - 1
         /\ d <= Ticks(period, n, since) => d2 <= Ticks(period, n2, since2)
         /\ Ticks(period, n, since) <= d /\ d <= U16 - 2 => Ticks(period, n2, since2) <= d2
<1> USE Parameters
<1>1. since2 \in 0 .. period - 1
  OBVIOUS
<1>2. n2 \in 0 .. Cap
  BY DEF Streak
<1>3. n2 > 0 => d2 = IF d = U16 - 1 THEN 0 ELSE d + 1
  BY Advance DEF Count
<1>4. n2 = 0 => d2 = 0
  BY DEF Count
<1>5. d2 \in 0 .. U16 - 1
  BY <1>2, <1>3, <1>4
<1> DEFINE before == period * (n - 1)
<1>6. before \in Int /\ (n > 0 => before >= 0 /\ period * n = before + period)
  <2>1. CASE n > 0
    BY <2>1
  <2>2. CASE n = 0
    BY <2>2
  <2>3. QED
    BY <2>1, <2>2
<1> HIDE DEF before
<1>7. /\ n = 0 => Ticks(period, n, since) = 0
      /\ n > 0 => Ticks(period, n, since) = before + since + 1
  BY DEF Ticks, before
<1> HIDE DEF Ticks
<1> DEFINE t == Ticks(period, n, since)
           t2 == Ticks(period, n2, since2)
<1>8. t \in Int
  BY <1>6, <1>7
<1>9. ASSUME n2 > 0 PROVE t2 \in Int /\ t2 <= t + 1 /\ (t2 = t + 1 \/ t2 >= U16)
  <2>1. CASE since = period - 1 /\ n = 0
    <3>1. n2 = 1 /\ since2 = 0
      BY <1>9, <2>1 DEF Streak
    <3>2. t2 = 1
      BY <3>1 DEF Ticks
    <3>3. QED
      BY <1>7, <2>1, <3>2
  <2>2. CASE since = period - 1 /\ n > 0 /\ n < Cap
    <3>1. n2 = n + 1 /\ n2 - 1 = n /\ n2 # 0 /\ since2 = 0
      BY <1>9, <2>2 DEF Streak
    <3>2. t2 = period * n + 1
      BY <3>1 DEF Ticks
    <3>3. QED
      BY <1>6, <1>7, <2>2, <3>2
  <2>3. CASE since = period - 1 /\ n = Cap
    <3>1. n2 = n /\ n2 # 0 /\ since2 = 0
      BY <1>9, <2>3 DEF Streak
    <3>2. t2 = before + 1
      BY <1>6, <3>1 DEF Ticks, before
    <3>3. before >= n - 1
      BY <2>3 DEF before
    <3>4. QED
      BY <1>6, <1>7, <2>3, <3>2, <3>3
  <2>4. CASE since # period - 1
    <3>1. n2 = n /\ n2 # 0 /\ since2 = since + 1
      BY <1>2, <1>9, <2>4
    <3>2. t2 = before + since + 2
      BY <1>6, <3>1 DEF Ticks, before
    <3>3. QED
      BY <1>6, <1>7, <3>1, <3>2
  <2>5. QED
    BY <2>1, <2>2, <2>3, <2>4
<1>10. n2 = 0 => t2 = 0
  BY <1>4 DEF Ticks
<1> HIDE DEF t, t2
<1>11. d <= t => d2 <= t2
  BY <1>2, <1>3, <1>4, <1>5, <1>8, <1>9, <1>10
<1>12. t <= d /\ d <= U16 - 2 => t2 <= d2
  BY <1>2, <1>3, <1>4, <1>8, <1>9, <1>10
<1>13. QED
  BY <1>1, <1>2, <1>5, <1>11, <1>12 DEF t, t2

-----------------------------------------------------------------------------
(***************************************************************************)
(* One reading of the two converters.                                      *)
(***************************************************************************)

(* What an output draws, by the shunts, is what the C computes, in its type.  *)
LEMMA DrawnIsRead ==
  ASSUME NEW load \in LoadVectors, NEW o \in Sensed
  PROVE  /\ load[o] \in AdcValues
         /\ o < NumHigh => SumOfHalves(adc_to_current(load[o]), adc_to_current(load[o])) = Drawn(load, o)
         /\ o >= NumHigh => adc_to_current(load[o]) = Drawn(load, o)
         /\ Drawn(load, o) \in 0 .. UINT16_MAX
<1>1. load[o] \in AdcValues
  BY OvercurrentAssumption
<1> DEFINE a == load[o]
<1>11. a \in AdcValues
  BY <1>1
<1> HIDE DEF a
<1>2. a \in Int /\ 0 <= a /\ a < 4096
  BY <1>11, SMT DEF AdcValues
<1> DEFINE q == (210375 * a) \div 28672
<1>3. /\ adc_to_current(a) = q
      /\ SumOfHalves(adc_to_current(a), adc_to_current(a)) = adc_to_current(a) + adc_to_current(a)
  BY <1>1, CurrentsExact DEF a
<1>4. q \in Int /\ 0 <= q /\ q <= 30046
  BY <1>2, <1>3, CurrentOf
<1> HIDE DEF q
<1>5. UINT16_MAX \in Int /\ UINT16_MAX >= 60092
  BY DEF UINT16_MAX
<1>6. Drawn(load, o) = (IF o < NumHigh THEN 2 ELSE 1) * q
  BY DEF Drawn, q, a
<1>7. o \in Nat /\ NumHigh \in Nat
  BY Parameters, Geometry
<1>8. CASE o < NumHigh
  <2>1. Drawn(load, o) = q + q
    BY <1>4, <1>6, <1>8
  <2>2. q + q \in 0 .. UINT16_MAX
    BY <1>4, <1>5
  <2>3. QED
    BY <1>1, <1>3, <1>7, <1>8, <2>1, <2>2 DEF a
<1>9. CASE o >= NumHigh
  <2>1. Drawn(load, o) = q
    BY <1>4, <1>6, <1>7, <1>9
  <2>2. q \in 0 .. UINT16_MAX
    BY <1>4, <1>5
  <2>3. QED
    BY <1>1, <1>3, <1>7, <1>9, <2>1, <2>2 DEF a
<1>10. QED
  BY <1>7, <1>8, <1>9

(* The reading that a tick takes: the outputs of its phase get the currents   *)
(* that they draw, the others keep theirs, and the next phase is enabled.     *)
LEMMA PhaseReading ==
  ASSUME NEW load \in LoadVectors, current_phase \in 0 .. NumPhases - 1, csPhase = current_phase,
         read_next_current_phase(load)
  PROVE  /\ current_phase' = IF current_phase = NumPhases - 1 THEN 0 ELSE current_phase + 1
         /\ csPhase' = current_phase'
         /\ \A o \in Sensed : output_current'[o] = IF PhaseOf(o) = current_phase THEN Drawn(load, o)
                                                   ELSE output_current[o]
         /\ output_current' = [o \in Sensed |-> output_current'[o]]
<1> DEFINE p == current_phase
<1>1. (p + 1) % NumPhases = IF p = NumPhases - 1 THEN 0 ELSE p + 1
  BY Parameters, Advance
<1>2. current_phase' = (p + 1) % NumPhases /\ csPhase' = (p + 1) % NumPhases
  BY DEF read_next_current_phase, setup_current_phase
<1> DEFINE current == Converted(Sensing(load))
<1>3. output_current' =
        [o \in Sensed |->
           IF o \notin SampledIn(p) THEN output_current[o]
           ELSE IF p < NumHigh THEN SumOfHalves(current[1], current[2])
           ELSE current[o - (2 * p - NumHigh) + 1]]
  BY DEF read_next_current_phase, save_current_values
<1>4. ASSUME NEW o \in Sensed, PhaseOf(o) = p PROVE output_current'[o] = Drawn(load, o)
  <2>1. o \in SampledIn(p) /\ o \in Nat
    BY <1>4, Geometry
  <2>2. CASE p < NumHigh
    <3>1. o = p /\ o < NumHigh
      BY <2>1, <2>2, Parameters DEF SampledIn
    <3>2. Sensing(load) = <<load[o], load[o]>>
      BY <2>2, <3>1 DEF Sensing
    <3>3. current[1] = adc_to_current(load[o]) /\ current[2] = adc_to_current(load[o])
      BY <3>2 DEF Converted
    <3>4. output_current'[o] = SumOfHalves(current[1], current[2])
      BY <1>3, <2>1, <2>2
    <3>5. QED
      BY <3>1, <3>3, <3>4, DrawnIsRead
  <2>3. CASE ~(p < NumHigh)
    <3> DEFINE first == 2 * p - NumHigh
    <3>1. Sensing(load) = <<load[first], load[first + 1]>>
      BY <2>3 DEF Sensing
    <3>2. current[1] = adc_to_current(load[first]) /\ current[2] = adc_to_current(load[first + 1])
      BY <3>1 DEF Converted
    <3>3. first \in Nat /\ first >= NumHigh /\ o \in {first, first + 1}
      BY <2>1, <2>3, Parameters DEF SampledIn
    <3>4. output_current'[o] = current[o - first + 1]
      BY <1>3, <2>1, <2>3
    <3> HIDE DEF first, current
    <3>5. o - first + 1 = (IF o = first THEN 1 ELSE 2) /\ o >= NumHigh
      BY <2>1, <3>3, Parameters
    <3>6. output_current'[o] = adc_to_current(load[o])
      BY <3>2, <3>3, <3>4, <3>5
    <3>7. QED
      BY <3>5, <3>6, DrawnIsRead
  <2>4. QED
    BY <2>2, <2>3
<1>5. ASSUME NEW o \in Sensed, PhaseOf(o) # p PROVE output_current'[o] = output_current[o]
  <2>1. o \notin SampledIn(p)
    BY <1>5, Geometry
  <2>2. QED
    BY <1>3, <2>1
<1>6. output_current' = [o \in Sensed |-> output_current'[o]]
  BY <1>3
<1>7. QED
  BY <1>1, <1>2, <1>4, <1>5, <1>6

-----------------------------------------------------------------------------
(***************************************************************************)
(* The inductive invariant.                                                *)
(***************************************************************************)

(* The converters see the phase that the next tick takes their reading for.   *)
Clocked ==
  /\ csPhase = current_phase
  /\ context = "running" => systick_slow_tick < SlowPeriod

(* A streak of samples is under way for exactly the outputs that are over.    *)
Sampled == \A o \in output_t : samples[o] > 0 <=> OverNow(o)

(* No counter of an output runs ahead of that output's samples.               *)
NotEarly == \A o \in output_t : overcurrent_delay[o] <= Ticks(Period(o), samples[o], Since(o))

(* No counter of an overloaded output that is on lags behind the overload by  *)
(* more than a sampling period, and none of them is about to wrap.            *)
NotLate ==
  \A o \in output_t : held[o] > 0 =>
    IF OverNow(o) THEN held[o] < overcurrent_delay[o] + Period(o) /\ overcurrent_delay[o] <= U16 - 2
    ELSE held[o] <= Since(o)

(* The counters of the whole board, likewise.                                 *)
Streaks ==
  /\ bad.BATT > 0 <=> Overdraw(battery)
  /\ bad.NEG  > 0 <=> Negative(battery)
  /\ bad.UVLO > 0 <=> Low(battery)

BoardNotEarly ==
  /\ ~summed => total_delay <= Ticks(SlowPeriod, bad.BATT, systick_slow_tick)
  /\ neg_current_delay <= Ticks(SlowPeriod, bad.NEG, systick_slow_tick)

BoardNotLate ==
  /\ total_delay <= U16 - 2 /\ neg_current_delay <= U16 - 2
  /\ Ticks(SlowPeriod, bad.BATT, systick_slow_tick) <= total_delay
  /\ Ticks(SlowPeriod, bad.NEG, systick_slow_tick) <= neg_current_delay

FlatNotEarly == uvlo_delay <= UvloStep * bad.UVLO

IInv ==
  /\ TypeOK /\ Clocked /\ Streaks /\ FlatNotEarly
  /\ context = "running" => Sampled /\ NotEarly /\ NotLate /\ BoardNotEarly /\ BoardNotLate

(* With holdoffs that leave room for another step in the counter, a flat      *)
(* battery is never missed.                                                   *)
HoldoffsLeaveStep == \A d \in HostHoldoffs : d + UvloStep < U16
FlatNotLate ==
  context # "flat" => uvlo_delay + UvloStep < U16 /\ UvloStep * bad.UVLO <= uvlo_delay

-----------------------------------------------------------------------------
(***************************************************************************)
(* One tick.                                                               *)
(***************************************************************************)

(* The schedule: the next phase, and the slow ticks, come round in time.      *)
LEMMA ScheduleStep ==
  ASSUME IInv, NEW load \in LoadVectors, Sample(load)
  PROVE  /\ systick_slow_tick \in 0 .. SlowPeriod - 1 /\ systick_slow_tick' \in 0 .. SlowPeriod - 1
         /\ systick_slow_tick' = IF SlowTick THEN 0 ELSE systick_slow_tick + 1
         /\ current_phase' \in 0 .. NumPhases - 1 /\ csPhase' = current_phase'
         /\ \A o \in output_t : Since(o) \in 0 .. Period(o) - 1
         /\ \A o \in output_t : Since(o)' = IF Since(o) = Period(o) - 1 THEN 0 ELSE Since(o) + 1
         /\ \A o \in Sensed : Since(o) = Period(o) - 1 <=> PhaseOf(o) = current_phase
         /\ Since(OUT_5V) = Period(OUT_5V) - 1 <=> SlowTick
<1> USE Parameters
<1>1. /\ systick_slow_tick \in 0 .. SlowPeriod - 1 /\ current_phase \in 0 .. NumPhases - 1
      /\ csPhase = current_phase
  BY DEF IInv, TypeOK, Clocked, Sample
<1>2. systick_slow_tick' = IF SlowTick THEN 0 ELSE systick_slow_tick + 1
  BY <1>1, Advance DEF Sample, SlowTick
<1>3. /\ current_phase' = IF current_phase = NumPhases - 1 THEN 0 ELSE current_phase + 1
      /\ csPhase' = current_phase'
  BY <1>1, PhaseReading DEF Sample
<1>4. ASSUME NEW o \in Sensed
      PROVE /\ Since(o) \in 0 .. Period(o) - 1
            /\ Since(o)' = IF Since(o) = Period(o) - 1 THEN 0 ELSE Since(o) + 1
            /\ Since(o) = Period(o) - 1 <=> PhaseOf(o) = current_phase
  <2>1. o # OUT_5V /\ PhaseOf(o) \in 0 .. NumPhases - 1
    BY Geometry
  <2> HIDE DEF PhaseOf
  <2>2. QED
    BY <1>1, <1>3, <2>1 DEF Since, Period
<1>5. /\ Since(OUT_5V) \in 0 .. Period(OUT_5V) - 1
      /\ Since(OUT_5V)' = IF Since(OUT_5V) = Period(OUT_5V) - 1 THEN 0 ELSE Since(OUT_5V) + 1
      /\ Since(OUT_5V) = Period(OUT_5V) - 1 <=> SlowTick
  BY <1>1, <1>2 DEF Since, Period, SlowTick
<1>6. ASSUME NEW o \in output_t
      PROVE /\ Since(o) \in 0 .. Period(o) - 1
            /\ Since(o)' = IF Since(o) = Period(o) - 1 THEN 0 ELSE Since(o) + 1
  <2>1. CASE o \in Sensed
    BY <1>4, <2>1
  <2>2. CASE o = OUT_5V
    BY <1>5, <2>2
  <2>3. QED
    BY <2>1, <2>2, Geometry
<1>7. current_phase' \in 0 .. NumPhases - 1 /\ systick_slow_tick' \in 0 .. SlowPeriod - 1
  BY <1>1, <1>2, <1>3 DEF SlowTick
<1>8. QED
  BY <1>1, <1>2, <1>3, <1>4, <1>5, <1>6, <1>7

(* What the tick records of an output is what it finds over the limit, and    *)
(* between two samples the finding stays.                                     *)
LEMMA OutputStep ==
  ASSUME IInv, context = "running", NEW load \in LoadVectors, Sample(load), RecordOutputs(load, SlowTick),
         NEW o \in output_t
  PROVE  /\ samples'[o] > 0 <=> OverNow(o)'
         /\ IF Since(o) = Period(o) - 1 THEN samples'[o] \in {0, Streak(TRUE, samples[o])}
            ELSE samples'[o] = samples[o]
         /\ overcurrent_delay'[o] = Count(samples'[o] > 0, overcurrent_delay[o])
         /\ OverNow(o)' <=> Over(o)
         /\ Since(o) = Period(o) - 1 => (Overloaded(load, o) <=> OverNow(o)')
         /\ held'[o] = Streak(gpio[o] /\ gpio'[o] /\ Overloaded(load, o), held[o])
         /\ o = OUT_5V => (Overloaded(load, o) <=> OverNow(o)')
<1> USE Parameters
<1>1. samples[o] \in 0 .. Cap /\ (samples[o] > 0 <=> OverNow(o))
  BY DEF IInv, TypeOK, Sampled
<1>2. OverNow(o)' <=> Over(o)
  BY DEF OverNow, Over
<1>3. /\ overcurrent_delay'[o] = Count(Over(o), overcurrent_delay[o])
      /\ held'[o] = Streak(gpio[o] /\ gpio'[o] /\ Overloaded(load, o), held[o])
  BY DEF Sample, RecordOutputs
<1>4. CASE o \in Sensed
  <2>1. o # OUT_5V /\ (Since(o) = Period(o) - 1 <=> PhaseOf(o) = current_phase)
    BY <1>4, Geometry, ScheduleStep
  <2>2. /\ current_phase \in 0 .. NumPhases - 1
        /\ o \in SampledIn(current_phase) <=> PhaseOf(o) = current_phase
    BY <1>4, Geometry DEF IInv, TypeOK
  <2>3. output_current'[o] = IF PhaseOf(o) = current_phase THEN Drawn(load, o) ELSE output_current[o]
    BY <1>4, <2>2, PhaseReading DEF Sample, IInv, Clocked
  <2>4. Since(o) = Period(o) - 1 => (Overloaded(load, o) <=> OverNow(o)')
    BY <2>1, <2>3 DEF Overloaded, OverNow
  <2>5. Since(o) # Period(o) - 1 => (OverNow(o)' <=> OverNow(o))
    BY <2>1, <2>3 DEF OverNow
  <2>6. samples'[o] = IF Since(o) = Period(o) - 1 THEN Streak(Overloaded(load, o), samples[o]) ELSE samples[o]
    BY <1>4, <2>1, <2>2 DEF RecordOutputs
  <2>7. /\ samples'[o] > 0 <=> OverNow(o)'
        /\ IF Since(o) = Period(o) - 1 THEN samples'[o] \in {0, Streak(TRUE, samples[o])}
           ELSE samples'[o] = samples[o]
    BY <1>1, <2>4, <2>5, <2>6 DEF Streak
  <2>8. QED
    BY <1>2, <1>3, <2>1, <2>4, <2>7 DEF Count
<1>5. CASE o = OUT_5V
  <2>1. Since(o) = Period(o) - 1 <=> SlowTick
    BY <1>5, ScheduleStep
  <2>2. Overloaded(load, o) <=> OverNow(o)'
    BY <1>2, <1>5 DEF Overloaded
  <2>3. ~SlowTick => (OverNow(o)' <=> OverNow(o))
    BY <1>5 DEF Sample, ReadSensors, OverNow
  <2>4. samples'[o] = IF SlowTick THEN Streak(Overloaded(load, o), samples[o]) ELSE samples[o]
    BY <1>5 DEF RecordOutputs
  <2>5. /\ samples'[o] > 0 <=> OverNow(o)'
        /\ IF SlowTick THEN samples'[o] \in {0, Streak(TRUE, samples[o])} ELSE samples'[o] = samples[o]
    BY <1>1, <2>2, <2>3, <2>4 DEF Streak
  <2>6. QED
    BY <1>2, <1>3, <2>1, <2>2, <2>5 DEF Count
<1>6. QED
  BY <1>4, <1>5, Geometry

-----------------------------------------------------------------------------
(***************************************************************************)
(* The inductive invariant is one.                                         *)
(***************************************************************************)

(* A remainder is one.                                                        *)
LEMMA Wrapped == ASSUME NEW n \in Nat PROVE n % U16 \in 0 .. U16 - 1
BY Parameters

(* A reading of the battery, by an interrupt or in the fault loop.            *)
LEMMA BatteryStep ==
  ASSUME TypeOK, FlatNotEarly, count_uvlo, RecordBattery
  PROVE  /\ uvlo_delay' \in 0 .. U16 - 1 /\ bad' \in [{"BATT", "NEG", "UVLO"} -> 0 .. Cap]
         /\ Streaks' /\ FlatNotEarly'
<1> USE Parameters
<1>1. uvlo_delay \in 0 .. U16 - 1 /\ bad \in [{"BATT", "NEG", "UVLO"} -> 0 .. Cap]
  BY DEF TypeOK
<1>2. bad.BATT \in 0 .. Cap /\ bad.NEG \in 0 .. Cap /\ bad.UVLO \in 0 .. Cap
  BY <1>1
<1>3. /\ bad'.BATT = Streak(Overdraw(battery'), bad.BATT)
      /\ bad'.NEG  = Streak(Negative(battery'), bad.NEG)
      /\ bad'.UVLO = Streak(Low(battery'), bad.UVLO)
  BY DEF RecordBattery
<1>4. /\ bad'.BATT \in 0 .. Cap /\ (bad'.BATT > 0 <=> Overdraw(battery'))
      /\ bad'.NEG  \in 0 .. Cap /\ (bad'.NEG > 0 <=> Negative(battery'))
      /\ bad'.UVLO \in 0 .. Cap /\ (bad'.UVLO > 0 <=> Low(battery'))
  BY <1>2, <1>3 DEF Streak
<1>5. bad' \in [{"BATT", "NEG", "UVLO"} -> 0 .. Cap]
  BY <1>3, <1>4 DEF RecordBattery
<1>6. uvlo_delay' \in 0 .. U16 - 1
  BY <1>1, Wrapped DEF count_uvlo
<1>7. FlatNotEarly'
  <2> DEFINE n == bad.UVLO
  <2>1. CASE Low(battery') /\ n < Cap
    <3>1. bad'.UVLO = n + 1 /\ uvlo_delay' = (uvlo_delay + UvloStep) % U16
      BY <1>3, <2>1 DEF Streak, count_uvlo
    <3>2. (uvlo_delay + UvloStep) % U16 <= uvlo_delay + UvloStep
      BY <1>1
    <3>3. uvlo_delay <= UvloStep * n /\ UvloStep * (n + 1) = UvloStep * n + UvloStep
      BY <1>2 DEF FlatNotEarly
    <3>4. UvloStep * n \in Nat
      BY <1>2
    <3> HIDE DEF n
    <3>5. uvlo_delay' <= UvloStep * (n + 1)
      BY <1>1, <1>6, <3>1, <3>2, <3>3, <3>4
    <3>6. QED
      BY <3>1, <3>5 DEF FlatNotEarly
  <2>2. CASE Low(battery') /\ n = Cap
    <3>1. bad'.UVLO = Cap
      BY <1>3, <2>2 DEF Streak
    <3>2. UvloStep * Cap >= Cap
      OBVIOUS
    <3>3. QED
      BY <1>6, <3>1, <3>2 DEF FlatNotEarly
  <2>3. CASE ~Low(battery')
    <3>1. bad'.UVLO = 0 /\ uvlo_delay' = 0
      BY <1>3, <2>3 DEF Streak, count_uvlo
    <3>2. QED
      BY <3>1 DEF FlatNotEarly
  <2>4. QED
    BY <1>2, <2>1, <2>2, <2>3
<1>8. Streaks'
  BY <1>4 DEF Streaks, Overdraw, Negative, Low
<1>9. QED
  BY <1>5, <1>6, <1>7, <1>8

(* The sensors' part of a tick.                                               *)
LEMMA SensorsStep ==
  ASSUME IInv, ReadSensors
  PROVE  /\ battery' \in BatteryReadings \cup {NoBattery} /\ reg_5v' \in RegReadings \cup {NoReg}
         /\ uvlo_delay' \in 0 .. U16 - 1 /\ bad' \in [{"BATT", "NEG", "UVLO"} -> 0 .. Cap]
         /\ Streaks' /\ FlatNotEarly'
<1>1. CASE SlowTick
  <2>1. measure_current_sense /\ count_uvlo /\ RecordBattery
    BY <1>1 DEF ReadSensors
  <2>2. battery' \in BatteryReadings \cup {NoBattery} /\ reg_5v' \in RegReadings \cup {NoReg}
    BY <2>1 DEF measure_current_sense
  <2>3. QED
    BY <2>1, <2>2, BatteryStep DEF IInv
<1>2. CASE ~SlowTick
  <2>1. UNCHANGED <<battery, reg_5v, uvlo_delay, bad>>
    BY <1>2 DEF ReadSensors
  <2>2. Streaks' /\ FlatNotEarly'
    BY <2>1 DEF IInv, Streaks, FlatNotEarly, Overdraw, Negative, Low
  <2>3. QED
    BY <2>1, <2>2 DEF IInv, TypeOK
<1>3. QED
  BY <1>1, <1>2

(* The counters and the history of the outputs keep their types in a tick.    *)
LEMMA TickTypes ==
  ASSUME IInv, NEW load \in LoadVectors, Sample(load), RecordOutputs(load, SlowTick)
  PROVE  /\ output_current' \in [Sensed -> 0 .. UINT16_MAX]
         /\ overcurrent_delay' \in [output_t -> 0 .. U16 - 1]
         /\ total_delay' \in 0 .. U16 - 1
         /\ holdoff' \in [HoldoffNames -> HostHoldoffs]
         /\ samples' \in [output_t -> 0 .. Cap] /\ held' \in [output_t -> 0 .. Cap]
         /\ summed' \in BOOLEAN
<1> USE Parameters
<1>1. /\ current_phase \in 0 .. NumPhases - 1 /\ csPhase = current_phase
      /\ output_current \in [Sensed -> 0 .. UINT16_MAX]
      /\ overcurrent_delay \in [output_t -> 0 .. U16 - 1] /\ total_delay \in 0 .. U16 - 1
      /\ samples \in [output_t -> 0 .. Cap] /\ held \in [output_t -> 0 .. Cap]
      /\ holdoff \in [HoldoffNames -> HostHoldoffs]
  BY DEF IInv, TypeOK, Clocked
<1>2. output_current' \in [Sensed -> 0 .. UINT16_MAX]
  <2>1. /\ output_current' = [o \in Sensed |-> output_current'[o]]
        /\ \A o \in Sensed : output_current'[o] = IF PhaseOf(o) = current_phase THEN Drawn(load, o)
                                                  ELSE output_current[o]
    BY <1>1, PhaseReading DEF Sample
  <2>2. \A o \in Sensed : output_current'[o] \in 0 .. UINT16_MAX
    BY <1>1, <2>1, DrawnIsRead
  <2>3. QED
    BY <2>1, <2>2
<1>3. overcurrent_delay' \in [output_t -> 0 .. U16 - 1]
  <2>1. overcurrent_delay' = [o \in output_t |-> Count(Over(o), overcurrent_delay[o])]
    BY DEF Sample
  <2>2. \A o \in output_t : Count(Over(o), overcurrent_delay[o]) \in 0 .. U16 - 1
    BY <1>1, Wrapped DEF Count
  <2>3. QED
    BY <2>1, <2>2
<1>4. total_delay' \in 0 .. U16 - 1
  BY <1>1, Wrapped DEF Sample, Count
<1>5. samples' \in [output_t -> 0 .. Cap]
  <2>1. ASSUME NEW o \in output_t
        PROVE (IF (IF o = OUT_5V THEN SlowTick ELSE o \in SampledIn(current_phase))
               THEN Streak(Overloaded(load, o), samples[o]) ELSE samples[o]) \in 0 .. Cap
    BY <1>1 DEF Streak
  <2>2. QED
    BY <2>1 DEF RecordOutputs
<1>6. held' \in [output_t -> 0 .. Cap]
  <2>1. ASSUME NEW o \in output_t
        PROVE Streak(gpio[o] /\ gpio'[o] /\ Overloaded(load, o), held[o]) \in 0 .. Cap
    BY <1>1 DEF Streak
  <2>2. QED
    BY <2>1 DEF RecordOutputs
<1>7. holdoff' \in [HoldoffNames -> HostHoldoffs] /\ summed' \in BOOLEAN
  BY <1>1 DEF Sample
<1>8. QED
  BY <1>2, <1>3, <1>4, <1>5, <1>6, <1>7

(* A holdoff leaves the counter a value above it.                             *)
LEMMA HoldoffRoom ==
  ASSUME IInv
  PROVE  /\ \A name \in HoldoffNames : holdoff[name] \in 0 .. U16 - 2
         /\ \A o \in output_t : HoldoffOf(o) \in 0 .. U16 - 2
<1>1. ASSUME NEW name \in HoldoffNames PROVE holdoff[name] \in 0 .. U16 - 2
  BY OvercurrentAssumption DEF IInv, TypeOK
<1>2. "ADC" \in HoldoffNames /\ "REG" \in HoldoffNames
  BY DEF HoldoffNames
<1>3. QED
  BY <1>1, <1>2 DEF HoldoffOf

(* The counter and the history of one output over a tick that returns.        *)
LEMMA OutputTick ==
  ASSUME IInv, NEW load \in LoadVectors, Tick(load), NEW o \in output_t
  PROVE  /\ samples'[o] > 0 <=> OverNow(o)'
         /\ overcurrent_delay'[o] <= Ticks(Period(o), samples'[o], Since(o)')
         /\ held'[o] > 0 =>
              IF OverNow(o)' THEN held'[o] < overcurrent_delay'[o] + Period(o) /\ overcurrent_delay'[o] <= U16 - 2
              ELSE held'[o] <= Since(o)'
<1> DEFINE period == Period(o)
           n == samples[o]
           n2 == samples'[o]
           since == Since(o)
           since2 == Since(o)'
           d == overcurrent_delay[o]
           d2 == overcurrent_delay'[o]
           h == held[o]
           h2 == held'[o]
           over == OverNow(o)
           over2 == OverNow(o)'
<1>1. context = "running" /\ Sample(load) /\ RecordOutputs(load, SlowTick)
  BY DEF Tick, Sample
<1>2. /\ period \in Nat /\ period >= 2 /\ since \in 0 .. period - 1
      /\ since2 = IF since = period - 1 THEN 0 ELSE since + 1
  BY <1>1, Geometry, ScheduleStep
<1>3. /\ n \in 0 .. Cap /\ d \in 0 .. U16 - 1 /\ h \in 0 .. Cap
      /\ n > 0 <=> over
      /\ d <= Ticks(period, n, since)
      /\ h > 0 => IF over THEN h < d + period /\ d <= U16 - 2 ELSE h <= since
  BY <1>1 DEF IInv, TypeOK, Sampled, NotEarly, NotLate
<1>4. /\ n2 > 0 <=> over2
      /\ IF since = period - 1 THEN n2 \in {0, Streak(TRUE, n)} ELSE n2 = n
      /\ d2 = Count(n2 > 0, d)
      /\ over2 <=> Over(o)
      /\ since = period - 1 => (Overloaded(load, o) <=> over2)
      /\ h2 = Streak(gpio[o] /\ gpio'[o] /\ Overloaded(load, o), h)
  BY <1>1, OutputStep
<1>5. over2 /\ gpio'[o] => d2 \in 0 .. U16 - 2
  <2>1. gpio'[o] => o \notin Cut
    BY DEF Tick
  <2>2. o \notin Cut /\ Over(o) => ~(d2 > HoldoffOf(o))
    BY DEF Cut
  <2>3. HoldoffOf(o) \in 0 .. U16 - 2 /\ d2 \in 0 .. U16 - 1
    BY <1>1, HoldoffRoom, TickTypes
  <2>4. QED
    BY <1>4, <2>1, <2>2, <2>3, Parameters
<1> HIDE DEF period, n, n2, since, since2, d, d2, h, h2, over, over2
<1>6. d2 \in 0 .. U16 - 1 /\ n2 \in 0 .. Cap /\ d2 <= Ticks(period, n2, since2)
  <2>1. /\ IF since = period - 1 THEN n2 \in {0, Streak(TRUE, n)} ELSE n2 = n
        /\ d2 = Count(n2 > 0, d)
        /\ since2 = IF since = period - 1 THEN 0 ELSE since + 1
    BY <1>2, <1>4
  <2>2. /\ period \in Nat /\ period >= 2 /\ n \in 0 .. Cap /\ since \in 0 .. period - 1
        /\ d \in 0 .. U16 - 1 /\ d <= Ticks(period, n, since)
    BY <1>2, <1>3
  <2>3. QED
    BY <2>1, <2>2, Debounce DEF Count, Streak
<1>7. h2 > 0 => gpio'[o] /\ Overloaded(load, o) /\ h2 <= h + 1
  BY <1>3, <1>4, Parameters DEF Streak
<1>8. d2 = IF n2 > 0 THEN IF d = U16 - 1 THEN 0 ELSE d + 1 ELSE 0
  BY <1>3, <1>4, Parameters, Advance DEF Count
<1>9. h2 \in Nat
  BY <1>3, <1>4, Parameters DEF Streak
<1>10. ASSUME h2 > 0, over2 PROVE h2 < d2 + period /\ d2 <= U16 - 2
  <2>1. d2 \in 0 .. U16 - 2 /\ h2 <= h + 1 /\ n2 > 0
    BY <1>4, <1>5, <1>7, <1>10
  <2>2. CASE over
    BY <1>2, <1>3, <1>8, <1>9, <2>1, <2>2, Parameters
  <2>3. CASE ~over
    <3>1. n = 0
      BY <1>3, <2>3, Parameters
    <3>2. d = 0
      BY <1>3, <3>1, Parameters DEF Ticks
    <3>3. QED
      BY <1>2, <1>3, <1>8, <1>9, <2>1, <2>3, <3>2, Parameters
  <2>4. QED
    BY <2>2, <2>3
<1>11. ASSUME h2 > 0, ~over2 PROVE h2 <= since2
  <2>1. since # period - 1
    BY <1>4, <1>7, <1>11
  <2>2. n2 = n /\ since2 = since + 1 /\ ~over
    BY <1>2, <1>3, <1>4, <1>11, <2>1
  <2>3. h <= since
    BY <1>2, <1>3, <2>2
  <2>4. QED
    BY <1>2, <1>3, <1>7, <1>9, <1>11, <2>2, <2>3
<1>12. h2 > 0 => IF over2 THEN h2 < d2 + period /\ d2 <= U16 - 2 ELSE h2 <= since2
  BY <1>10, <1>11
<1>13. QED
  BY <1>4, <1>6, <1>12, Zenon DEF period, n2, since2, d2, h2, over2

(* The counters of the whole board over a tick, whatever it ends in.          *)
LEMMA BoardSample ==
  ASSUME IInv, context = "running", NEW load \in LoadVectors, Sample(load)
  PROVE  /\ ~summed' => total_delay' <= Ticks(SlowPeriod, bad'.BATT, systick_slow_tick')
         /\ Ticks(SlowPeriod, bad'.BATT, systick_slow_tick') <= total_delay'
         /\ neg_current_delay' = Count(Negative(battery'), neg_current_delay) =>
              /\ neg_current_delay' \in 0 .. U16 - 1
              /\ neg_current_delay' <= Ticks(SlowPeriod, bad'.NEG, systick_slow_tick')
              /\ Ticks(SlowPeriod, bad'.NEG, systick_slow_tick') <= neg_current_delay'
<1> DEFINE since == systick_slow_tick
           since2 == systick_slow_tick'
<1>1. /\ SlowPeriod \in Nat /\ SlowPeriod >= 2 /\ since \in 0 .. SlowPeriod - 1
      /\ since2 = IF since = SlowPeriod - 1 THEN 0 ELSE since + 1
      /\ SlowTick <=> since = SlowPeriod - 1
  BY Parameters, ScheduleStep DEF SlowTick
<1>2. /\ bad.BATT \in 0 .. Cap /\ bad.NEG \in 0 .. Cap
      /\ total_delay \in 0 .. U16 - 2 /\ neg_current_delay \in 0 .. U16 - 2
      /\ ~summed => total_delay <= Ticks(SlowPeriod, bad.BATT, since)
      /\ neg_current_delay <= Ticks(SlowPeriod, bad.NEG, since)
      /\ Ticks(SlowPeriod, bad.BATT, since) <= total_delay
      /\ Ticks(SlowPeriod, bad.NEG, since) <= neg_current_delay
  BY Parameters DEF IInv, TypeOK, BoardNotEarly, BoardNotLate
<1>3. bad'.BATT \in 0 .. Cap /\ (bad'.BATT > 0 <=> Overdraw(battery'))
  BY SensorsStep DEF Sample, Streaks, Overdraw
<1>4. bad'.NEG \in 0 .. Cap /\ (bad'.NEG > 0 <=> Negative(battery'))
  BY SensorsStep DEF Sample, Streaks, Negative
<1>5. /\ IF since = SlowPeriod - 1 THEN bad'.BATT \in {0, Streak(TRUE, bad.BATT)} ELSE bad'.BATT = bad.BATT
      /\ IF since = SlowPeriod - 1 THEN bad'.NEG \in {0, Streak(TRUE, bad.NEG)} ELSE bad'.NEG = bad.NEG
  BY <1>1 DEF Sample, ReadSensors, RecordBattery, Streak
<1>6. total_delay' = Count(TotalOver, total_delay)
  BY DEF Sample
<1>11. Overdraw(battery') => TotalOver
  BY DEF TotalOver
<1>12. ~summed' /\ TotalOver => Overdraw(battery') /\ ~summed
  <2> DEFINE exceeded == total_current > 30000
  <2>1. summed' = (TotalOver /\ (summed \/ exceeded))
    BY DEF Sample
  <2>2. TotalOver => exceeded \/ Overdraw(battery')
    BY DEF TotalOver
  <2>3. exceeded \in BOOLEAN
    OBVIOUS
  <2> HIDE DEF exceeded
  <2>4. QED
    BY <2>1, <2>2, <2>3
<1> DEFINE t2 == Ticks(SlowPeriod, bad'.BATT, since2)
           u2 == Ticks(SlowPeriod, bad'.NEG, since2)
<1> HIDE DEF since, since2
<1>7. ASSUME bad'.BATT > 0
      PROVE  (~summed' => total_delay' <= t2) /\ t2 <= total_delay'
  <2>1. Overdraw(battery') /\ TotalOver
    BY <1>3, <1>7, <1>11
  <2>2. total_delay' = Count(bad'.BATT > 0, total_delay)
    BY <1>6, <1>7, <2>1 DEF Count
  <2>3. ~summed' => ~summed
    BY <1>12, <2>1
  <2>4. /\ total_delay \in 0 .. U16 - 1 /\ total_delay <= U16 - 2
        /\ bad.BATT \in 0 .. Cap /\ Ticks(SlowPeriod, bad.BATT, since) <= total_delay
        /\ IF since = SlowPeriod - 1 THEN bad'.BATT \in {0, Streak(TRUE, bad.BATT)} ELSE bad'.BATT = bad.BATT
    BY <1>2, <1>5, Parameters DEF Streak
  <2>5. /\ total_delay <= Ticks(SlowPeriod, bad.BATT, since) => total_delay' <= t2
        /\ t2 <= total_delay'
    <3> DEFINE n == bad.BATT
               n2 == bad'.BATT
               d == total_delay
               d2 == total_delay'
    <3>1. /\ SlowPeriod \in Nat /\ SlowPeriod >= 2 /\ since \in 0 .. SlowPeriod - 1
          /\ since2 = IF since = SlowPeriod - 1 THEN 0 ELSE since + 1
          /\ n \in 0 .. Cap /\ d \in 0 .. U16 - 1 /\ d <= U16 - 2 /\ Ticks(SlowPeriod, n, since) <= d
          /\ IF since = SlowPeriod - 1 THEN n2 \in {0, Streak(TRUE, n)} ELSE n2 = n
          /\ d2 = Count(n2 > 0, d)
      BY <1>1, <2>2, <2>4
    <3> HIDE DEF n, n2, d, d2
    <3>2. /\ d <= Ticks(SlowPeriod, n, since) => d2 <= Ticks(SlowPeriod, n2, since2)
          /\ Ticks(SlowPeriod, n2, since2) <= d2
      BY <3>1, Debounce DEF Count, Streak
    <3>3. QED
      BY <3>2, Zenon DEF n, n2, d, d2
  <2>6. QED
    BY <1>2, <2>3, <2>5, Zenon
<1>8. ASSUME ~(bad'.BATT > 0)
      PROVE  (~summed' => total_delay' <= t2) /\ t2 <= total_delay'
  <2>1. t2 = 0
    BY <1>3, <1>8, Parameters DEF Ticks
  <2>2. ~summed' => total_delay' = 0
    BY <1>3, <1>6, <1>8, <1>12 DEF Count
  <2>3. total_delay' >= 0
    BY <1>2, <1>6, Wrapped DEF Count
  <2>4. QED
    BY <2>1, <2>2, <2>3
<1>9. ASSUME neg_current_delay' = Count(Negative(battery'), neg_current_delay)
      PROVE  neg_current_delay' \in 0 .. U16 - 1 /\ neg_current_delay' <= u2 /\ u2 <= neg_current_delay'
  <2>1. neg_current_delay' = Count(bad'.NEG > 0, neg_current_delay)
    BY <1>4, <1>9 DEF Count
  <2>2. /\ neg_current_delay \in 0 .. U16 - 1 /\ neg_current_delay <= U16 - 2
        /\ bad.NEG \in 0 .. Cap
        /\ neg_current_delay <= Ticks(SlowPeriod, bad.NEG, since)
        /\ Ticks(SlowPeriod, bad.NEG, since) <= neg_current_delay
        /\ IF since = SlowPeriod - 1 THEN bad'.NEG \in {0, Streak(TRUE, bad.NEG)} ELSE bad'.NEG = bad.NEG
    BY <1>2, <1>5, Parameters DEF Streak
  <2>3. QED
    BY <1>1, <2>1, <2>2, Debounce DEF Count, Streak
<1>10. QED
  BY <1>7, <1>8, <1>9 DEF since2

(* A tick that returns has no counter of the board above its holdoff.         *)
LEMMA BoardTick ==
  ASSUME IInv, NEW load \in LoadVectors, Tick(load)
  PROVE  neg_current_delay' \in 0 .. U16 - 1 /\ BoardNotEarly' /\ BoardNotLate'
<1>1. /\ context = "running" /\ Sample(load)
      /\ neg_current_delay' = Count(Negative(battery'), neg_current_delay)
      /\ ~TotalFault /\ ~NegativeFault
  BY DEF Tick, Sample
<1>2. /\ ~summed' => total_delay' <= Ticks(SlowPeriod, bad'.BATT, systick_slow_tick')
      /\ Ticks(SlowPeriod, bad'.BATT, systick_slow_tick') <= total_delay'
      /\ neg_current_delay' \in 0 .. U16 - 1
      /\ neg_current_delay' <= Ticks(SlowPeriod, bad'.NEG, systick_slow_tick')
      /\ Ticks(SlowPeriod, bad'.NEG, systick_slow_tick') <= neg_current_delay'
  BY <1>1, BoardSample
<1>3. holdoff["BATT"] \in 0 .. U16 - 2 /\ holdoff["NEG"] \in 0 .. U16 - 2
  BY HoldoffRoom DEF HoldoffNames
<1>4. total_delay' <= U16 - 2
  <2>1. total_delay' \in Int /\ total_delay' = Count(TotalOver, total_delay)
    BY <1>1, TickTypes DEF Sample, Tick
  <2>2. CASE TotalOver
    <3>1. ~(total_delay' > holdoff["BATT"])
      BY <1>1, <2>2, Zenon DEF TotalFault
    <3>2. QED
      BY <1>3, <2>1, <3>1, Parameters
  <2>3. CASE ~TotalOver
    BY <2>1, <2>3, Parameters DEF Count
  <2>4. QED
    BY <2>2, <2>3
<1>5. neg_current_delay' <= U16 - 2
  <2>1. CASE Negative(battery')
    <3>1. ~(neg_current_delay' > holdoff["NEG"])
      BY <1>1, <2>1, Zenon DEF NegativeFault
    <3>2. QED
      BY <1>2, <1>3, <3>1, Parameters
  <2>2. CASE ~Negative(battery')
    BY <1>1, <2>2, Parameters DEF Count
  <2>3. QED
    BY <2>1, <2>2
<1>6. QED
  BY <1>2, <1>4, <1>5 DEF BoardNotEarly, BoardNotLate

(* A tick that returns keeps all of it.                                       *)
LEMMA TickPreserves ==
  ASSUME IInv, NEW load \in LoadVectors, Tick(load)
  PROVE  IInv'
<1> USE Parameters
<1>1. context = "running" /\ context' = "running" /\ Sample(load) /\ RecordOutputs(load, SlowTick)
  BY DEF Tick, Sample
<1>2. /\ systick_slow_tick' \in 0 .. SlowPeriod - 1
      /\ current_phase' \in 0 .. NumPhases - 1 /\ csPhase' = current_phase'
  BY <1>1, ScheduleStep
<1>3. gpio' \in [output_t -> BOOLEAN] /\ output_inhibited' \in [output_t -> BOOLEAN]
  BY DEF Tick
<1>4. /\ battery' \in BatteryReadings \cup {NoBattery} /\ reg_5v' \in RegReadings \cup {NoReg}
      /\ uvlo_delay' \in 0 .. U16 - 1 /\ bad' \in [{"BATT", "NEG", "UVLO"} -> 0 .. Cap]
      /\ Streaks' /\ FlatNotEarly'
  BY <1>1, SensorsStep DEF Sample
<1>5. /\ output_current' \in [Sensed -> 0 .. UINT16_MAX]
      /\ overcurrent_delay' \in [output_t -> 0 .. U16 - 1]
      /\ total_delay' \in 0 .. U16 - 1
      /\ holdoff' \in [HoldoffNames -> HostHoldoffs]
      /\ samples' \in [output_t -> 0 .. Cap] /\ held' \in [output_t -> 0 .. Cap]
      /\ summed' \in BOOLEAN
  BY <1>1, TickTypes
<1>6. neg_current_delay' \in 0 .. U16 - 1 /\ BoardNotEarly' /\ BoardNotLate'
  BY BoardTick
<1>7. TypeOK'
  BY <1>1, <1>2, <1>3, <1>4, <1>5, <1>6 DEF TypeOK
<1>8. Clocked'
  BY <1>2 DEF Clocked
<1>9. Sampled' /\ NotEarly' /\ NotLate'
  <2>1. ASSUME NEW o \in output_t
        PROVE  /\ samples'[o] > 0 <=> OverNow(o)'
               /\ overcurrent_delay'[o] <= Ticks(Period(o), samples'[o], Since(o)')
               /\ held'[o] > 0 =>
                    IF OverNow(o)' THEN held'[o] < overcurrent_delay'[o] + Period(o) /\ overcurrent_delay'[o] <= U16 - 2
                    ELSE held'[o] <= Since(o)'
    BY OutputTick
  <2>2. QED
    BY <2>1, Zenon DEF Sampled, NotEarly, NotLate
<1>10. QED
  BY <1>4, <1>6, <1>7, <1>8, <1>9 DEF IInv

(* Steps of the main thread, and steps that change nothing, leave the         *)
(* readings, the counters and the history alone.                              *)
LEMMA HostPreserves ==
  ASSUME IInv, UNCHANGED <<context, schedule, readings, counters, history>>, TypeOK'
  PROVE  IInv'
<1>1. Clocked' /\ Streaks' /\ FlatNotEarly'
  BY DEF IInv, Clocked, Streaks, FlatNotEarly, Overdraw, Negative, Low, schedule, readings, counters, history
<1>2. /\ \A o \in output_t : OverNow(o)' = OverNow(o) /\ Since(o)' = Since(o)
      /\ samples' = samples /\ held' = held /\ overcurrent_delay' = overcurrent_delay
  BY DEF OverNow, Since, schedule, readings, counters, history
<1>3. context = "running" => Sampled' /\ NotEarly' /\ NotLate'
  BY <1>2 DEF IInv, Sampled, NotEarly, NotLate
<1>4. context = "running" => BoardNotEarly' /\ BoardNotLate'
  BY DEF IInv, BoardNotEarly, BoardNotLate, schedule, counters, history
<1>5. context' = context
  OBVIOUS
<1>6. QED
  BY <1>1, <1>3, <1>4, <1>5 DEF IInv

(* It holds when the board starts.                                            *)
LEMMA InitEstablishes == Init => IInv
<1> SUFFICES ASSUME Init PROVE IInv
  OBVIOUS
<1> USE Parameters
<1>1. TypeOK
  <2>1. 0 \in 0 .. NumPhases - 1 /\ 0 \in 0 .. SlowPeriod /\ 0 \in 0 .. U16 - 1 /\ 0 \in 0 .. Cap
    OBVIOUS
  <2>2. 0 \in 0 .. UINT16_MAX
    BY DEF UINT16_MAX
  <2>3. DefaultHoldoff \in [HoldoffNames -> HostHoldoffs]
    BY OvercurrentAssumption
  <2>4. /\ context \in {"running", "overcurrent", "flat"}
        /\ systick_slow_tick \in 0 .. SlowPeriod
        /\ current_phase \in 0 .. NumPhases - 1 /\ csPhase \in 0 .. NumPhases - 1
        /\ battery \in BatteryReadings \cup {NoBattery} /\ reg_5v \in RegReadings \cup {NoReg}
        /\ total_delay \in 0 .. U16 - 1 /\ neg_current_delay \in 0 .. U16 - 1
        /\ uvlo_delay \in 0 .. U16 - 1
        /\ holdoff \in [HoldoffNames -> HostHoldoffs]
    BY <2>1, <2>3 DEF Init
  <2>5. /\ output_current \in [Sensed -> 0 .. UINT16_MAX]
        /\ overcurrent_delay \in [output_t -> 0 .. U16 - 1]
        /\ samples \in [output_t -> 0 .. Cap] /\ held \in [output_t -> 0 .. Cap]
    BY <2>1, <2>2 DEF Init
  <2>6. gpio \in [output_t -> BOOLEAN] /\ output_inhibited \in [output_t -> BOOLEAN]
    BY DEF Init
  <2>7. bad \in [{"BATT", "NEG", "UVLO"} -> 0 .. Cap] /\ summed \in BOOLEAN
    <3>1. bad = [n \in {"BATT", "NEG", "UVLO"} |-> 0]
      BY DEF Init
    <3>2. QED
      BY <2>1, <3>1 DEF Init
  <2>8. QED
    BY <2>4, <2>5, <2>6, <2>7 DEF TypeOK
<1>2. Clocked /\ Streaks /\ FlatNotEarly
  BY DEF Init, Clocked, Streaks, FlatNotEarly, NoBattery, Overdraw, Negative, Low
<1>3. ASSUME NEW o \in output_t
      PROVE  samples[o] = 0 /\ held[o] = 0 /\ overcurrent_delay[o] = 0 /\ ~OverNow(o)
  <2>1. o = OUT_5V \/ o \in Sensed
    BY Geometry
  <2>2. ~OverNow(o)
    BY <2>1 DEF Init, OverNow, NoReg, current_limit
  <2>3. QED
    BY <2>2 DEF Init
<1>4. Sampled /\ NotEarly /\ NotLate
  BY <1>3 DEF Sampled, NotEarly, NotLate, Ticks
<1>5. BoardNotEarly /\ BoardNotLate
  BY DEF Init, BoardNotEarly, BoardNotLate, Ticks
<1>6. QED
  BY <1>1, <1>2, <1>4, <1>5 DEF IInv

(* A shutdown keeps what does not depend on a running board, and neither does *)
(* the loop that follows it.                                                  *)
LEMMA ShutdownPreserves ==
  ASSUME IInv, \/ \E load \in LoadVectors : TickShutdown(load)
               \/ TickFlat
               \/ FaultLoop
  PROVE  IInv'
<1> USE Parameters
<1>1. TypeOK /\ Clocked /\ Streaks /\ FlatNotEarly
  BY DEF IInv
<1>2. CASE \E load \in LoadVectors : TickShutdown(load)
  <2>1. PICK load \in LoadVectors : TickShutdown(load)
    BY <1>2
  <2>2. context = "running" /\ Sample(load) /\ RecordOutputs(load, SlowTick) /\ context' = "overcurrent"
    BY <2>1 DEF TickShutdown, Sample
  <2>3. /\ systick_slow_tick' \in 0 .. SlowPeriod - 1
        /\ current_phase' \in 0 .. NumPhases - 1 /\ csPhase' = current_phase'
    BY <2>2, ScheduleStep
  <2>4. gpio' \in [output_t -> BOOLEAN] /\ output_inhibited' \in [output_t -> BOOLEAN]
    BY <2>1 DEF TickShutdown, disable_all_outputs
  <2>5. /\ battery' \in BatteryReadings \cup {NoBattery} /\ reg_5v' \in RegReadings \cup {NoReg}
        /\ uvlo_delay' \in 0 .. U16 - 1 /\ bad' \in [{"BATT", "NEG", "UVLO"} -> 0 .. Cap]
        /\ Streaks' /\ FlatNotEarly'
    BY <2>2, SensorsStep DEF Sample
  <2>6. /\ output_current' \in [Sensed -> 0 .. UINT16_MAX]
        /\ overcurrent_delay' \in [output_t -> 0 .. U16 - 1]
        /\ total_delay' \in 0 .. U16 - 1
        /\ holdoff' \in [HoldoffNames -> HostHoldoffs]
        /\ samples' \in [output_t -> 0 .. Cap] /\ held' \in [output_t -> 0 .. Cap]
        /\ summed' \in BOOLEAN
    BY <2>2, TickTypes
  <2>7. neg_current_delay' \in 0 .. U16 - 1
    <3>1. neg_current_delay \in 0 .. U16 - 1
      BY <1>1 DEF TypeOK
    <3>2. \/ neg_current_delay' = neg_current_delay
          \/ neg_current_delay' = 0
          \/ neg_current_delay' = (neg_current_delay + 1) % U16
      BY <2>1 DEF TickShutdown, Count
    <3>3. QED
      BY <3>1, <3>2, Wrapped
  <2>8. TypeOK'
    BY <2>2, <2>3, <2>4, <2>5, <2>6, <2>7 DEF TypeOK
  <2>9. QED
    BY <2>2, <2>3, <2>5, <2>8 DEF IInv, Clocked
<1>3. CASE TickFlat
  <2>1. /\ measure_current_sense /\ count_uvlo /\ RecordBattery /\ disable_all_outputs
        /\ systick_slow_tick' = SlowPeriod /\ context' = "flat"
        /\ UNCHANGED <<current_phase, csPhase, output_current, overcurrent_delay,
                       total_delay, neg_current_delay, holdoff, samples, held, summed>>
    BY <1>3 DEF TickFlat
  <2>2. battery' \in BatteryReadings \cup {NoBattery} /\ reg_5v' \in RegReadings \cup {NoReg}
    BY <2>1 DEF measure_current_sense
  <2>3. /\ uvlo_delay' \in 0 .. U16 - 1 /\ bad' \in [{"BATT", "NEG", "UVLO"} -> 0 .. Cap]
        /\ Streaks' /\ FlatNotEarly'
    BY <1>1, <2>1, BatteryStep
  <2>4. gpio' \in [output_t -> BOOLEAN] /\ output_inhibited' \in [output_t -> BOOLEAN]
    BY <2>1 DEF disable_all_outputs
  <2>5. TypeOK'
    BY <1>1, <2>1, <2>2, <2>3, <2>4 DEF TypeOK
  <2>6. QED
    BY <1>1, <2>1, <2>3, <2>5 DEF IInv, Clocked
<1>4. CASE FaultLoop
  <2>1. /\ context = "overcurrent" /\ context' \in {"overcurrent", "flat"}
        /\ battery' \in BatteryReadings \cup {NoBattery} /\ count_uvlo /\ RecordBattery
        /\ UNCHANGED <<schedule, reg_5v, output_current, overcurrent_delay, total_delay,
                       neg_current_delay, holdoff, samples, held, summed>>
    BY <1>4 DEF FaultLoop
  <2>2. gpio' \in [output_t -> BOOLEAN] /\ output_inhibited' \in [output_t -> BOOLEAN]
    <3>1. CASE disable_all_outputs
      BY <3>1 DEF disable_all_outputs
    <3>2. CASE UNCHANGED outputs
      BY <1>1, <3>2 DEF TypeOK, outputs
    <3>3. QED
      BY <1>4, <3>1, <3>2 DEF FaultLoop
  <2>3. /\ uvlo_delay' \in 0 .. U16 - 1 /\ bad' \in [{"BATT", "NEG", "UVLO"} -> 0 .. Cap]
        /\ Streaks' /\ FlatNotEarly'
    BY <1>1, <2>1, BatteryStep
  <2>4. TypeOK'
    BY <1>1, <2>1, <2>2, <2>3 DEF TypeOK, schedule
  <2>5. QED
    BY <1>1, <2>1, <2>3, <2>4 DEF IInv, Clocked, schedule
<1>5. QED
  BY <1>2, <1>3, <1>4

(* Every step keeps it.                                                       *)
LEMMA NextPreserves == IInv /\ [Next]_vars => IInv'
<1> SUFFICES ASSUME IInv, [Next]_vars PROVE IInv'
  OBVIOUS
<1>1. ASSUME NEW load \in LoadVectors, Tick(load) PROVE IInv'
  BY <1>1, TickPreserves
<1>2. ASSUME NEW load \in LoadVectors, TickShutdown(load) PROVE IInv'
  BY <1>2, ShutdownPreserves
<1>3. ASSUME TickFlat PROVE IInv'
  BY <1>3, ShutdownPreserves
<1>4. ASSUME FaultLoop PROVE IInv'
  BY <1>4, ShutdownPreserves
<1>5. ASSUME NEW o \in HostOutputs, NEW v \in BOOLEAN, WriteOutput(o, v) PROVE IInv'
  <2>1. gpio' \in [output_t -> BOOLEAN]
    BY <1>5 DEF WriteOutput, IInv, TypeOK
  <2>2. TypeOK'
    BY <1>5, <2>1 DEF WriteOutput, IInv, TypeOK, schedule, readings, counters, history
  <2>3. QED
    BY <1>5, <2>2, HostPreserves DEF WriteOutput
<1>6. ASSUME NEW o \in HostOutputs, ClearInhibit(o) PROVE IInv'
  <2>1. output_inhibited' \in [output_t -> BOOLEAN]
    BY <1>6 DEF ClearInhibit, IInv, TypeOK
  <2>2. TypeOK'
    BY <1>6, <2>1 DEF ClearInhibit, IInv, TypeOK, schedule, readings, counters, history
  <2>3. QED
    BY <1>6, <2>2, HostPreserves DEF ClearInhibit
<1>7. ASSUME NEW name \in HoldoffNames, NEW value \in HostHoldoffs, StoreHoldoff(name, value) PROVE IInv'
  <2>1. holdoff' \in [HoldoffNames -> HostHoldoffs]
    BY <1>7 DEF StoreHoldoff, IInv, TypeOK
  <2>2. TypeOK'
    BY <1>7, <2>1 DEF StoreHoldoff, IInv, TypeOK, schedule, readings, counters, outputs, history
  <2>3. QED
    BY <1>7, <2>2, HostPreserves DEF StoreHoldoff
<1>8. ASSUME UNCHANGED vars PROVE IInv'
  <2>1. TypeOK'
    BY <1>8 DEF IInv, TypeOK, vars, schedule, readings, counters, outputs, history
  <2>2. QED
    BY <1>8, <2>1, HostPreserves DEF vars
<1>9. QED
  BY <1>1, <1>2, <1>3, <1>4, <1>5, <1>6, <1>7, <1>8 DEF Next, SysTick, Host, Off

(* The inductive invariant holds in every state the board can reach.          *)
LEMMA Invariance == Spec => []IInv
BY InitEstablishes, NextPreserves, PTL DEF Spec

-----------------------------------------------------------------------------
(***************************************************************************)
(* What the protection of the board promises.                              *)
(***************************************************************************)

(* Every variable of the protection keeps its type: no counter leaves the     *)
(* uint16_t, and no current of an output is cut off to its 16 bits.           *)
THEOREM TypeCorrectness == Spec => []TypeOK
<1>1. IInv => TypeOK
  BY DEF IInv
<1>2. QED
  BY <1>1, Invariance, PTL

(* The ticks of a streak are fewer than its samples times the period.         *)
LEMMA TicksBound ==
  ASSUME NEW period \in Nat, NEW n \in 0 .. Cap, NEW since \in 0 .. period - 1
  PROVE  Ticks(period, n, since) \in Int /\ Ticks(period, n, since) <= period * n
<1> USE Parameters
<1>1. CASE n = 0
  BY <1>1 DEF Ticks
<1>2. CASE n > 0
  <2> DEFINE before == period * (n - 1)
  <2>1. before \in Int /\ period * n = before + period
    BY <1>2
  <2>2. Ticks(period, n, since) = before + since + 1
    BY <1>2 DEF Ticks
  <2> HIDE DEF before, Ticks
  <2>3. period * n \in Int
    BY <1>2
  <2>4. QED
    BY <2>1, <2>2, <2>3
<1>3. QED
  BY <1>1, <1>2

(* An output is cut only after a streak of its own samples over the limit     *)
(* that makes up the holdoff, at whatever value the host has set it.          *)
THEOREM NoOutputTripsOnAGlitch == Spec => NoGlitchTrip
<1> DEFINE Glitchless == \A o \in output_t :
             output_inhibited'[o] /\ ~output_inhibited[o] /\ context' = "running"
               => HoldoffOf(o) < Period(o) * samples'[o]
<1>1. ASSUME IInv, [Next]_vars PROVE [Glitchless]_vars
  <2> SUFFICES ASSUME ~UNCHANGED vars, NEW o \in output_t,
                      output_inhibited'[o], ~output_inhibited[o], context' = "running"
               PROVE  HoldoffOf(o) < Period(o) * samples'[o]
    OBVIOUS
  <2>1. ASSUME NEW load \in LoadVectors, Tick(load) PROVE HoldoffOf(o) < Period(o) * samples'[o]
    <3>1. context = "running" /\ Sample(load) /\ RecordOutputs(load, SlowTick)
      BY <2>1 DEF Tick, Sample
    <3>2. overcurrent_delay'[o] > HoldoffOf(o)
      <4>1. output_inhibited'[o] = (output_inhibited[o] \/ o \in Cut)
        BY <2>1 DEF Tick
      <4>2. o \in Cut
        BY <4>1
      <4>3. QED
        BY <4>2, Zenon DEF Cut
    <3>3. overcurrent_delay'[o] <= Ticks(Period(o), samples'[o], Since(o)')
      BY <1>1, <2>1, OutputTick
    <3>4. /\ samples'[o] \in 0 .. Cap /\ overcurrent_delay'[o] \in 0 .. U16 - 1
          /\ HoldoffOf(o) \in 0 .. U16 - 2
      BY <1>1, <3>1, TickTypes, HoldoffRoom
    <3>5. Period(o) \in Nat /\ Since(o)' \in 0 .. Period(o) - 1
      BY <1>1, <3>1, Geometry, ScheduleStep
    <3> DEFINE bound == Period(o) * samples'[o]
               ticks == Ticks(Period(o), samples'[o], Since(o)')
    <3>6. ticks \in Int /\ ticks <= bound
      BY <3>4, <3>5, TicksBound
    <3>7. bound \in Int
      BY <3>4, <3>5, Parameters
    <3>8. overcurrent_delay'[o] <= ticks
      BY <3>3
    <3> HIDE DEF bound, ticks
    <3>9. HoldoffOf(o) < bound
      BY <3>2, <3>4, <3>6, <3>7, <3>8, Parameters
    <3>10. QED
      BY <3>9 DEF bound
  <2>2. ASSUME NEW load \in LoadVectors, TickShutdown(load) PROVE FALSE
    BY <2>2 DEF TickShutdown
  <2>3. ASSUME TickFlat PROVE FALSE
    BY <2>3 DEF TickFlat
  <2>4. ASSUME FaultLoop PROVE FALSE
    BY <2>4 DEF FaultLoop
  <2>5. ASSUME NEW q \in HostOutputs, NEW v \in BOOLEAN, WriteOutput(q, v) PROVE FALSE
    BY <2>5 DEF WriteOutput
  <2>6. ASSUME NEW q \in HostOutputs, ClearInhibit(q) PROVE FALSE
    BY <1>1, <2>6 DEF ClearInhibit, IInv, TypeOK
  <2>7. ASSUME NEW name \in HoldoffNames, NEW value \in HostHoldoffs, StoreHoldoff(name, value) PROVE FALSE
    BY <2>7 DEF StoreHoldoff, outputs
  <2>8. QED
    BY <1>1, <2>1, <2>2, <2>3, <2>4, <2>5, <2>6, <2>7 DEF Next, SysTick, Host, Off
<1>2. QED
  BY <1>1, Invariance, PTL DEF Spec, NoGlitchTrip

(* The phase only moves on in a tick, and it does so in every one.            *)
LEMMA PhaseMovesInTicks ==
  ASSUME IInv, [Next]_vars, current_phase' # current_phase
  PROVE  \E load \in LoadVectors : Tick(load) \/ TickShutdown(load)
<1>1. ~UNCHANGED vars
  BY DEF vars, schedule
<1>2. ~TickFlat /\ ~FaultLoop
  BY DEF TickFlat, FaultLoop, schedule
<1>3. ~Host /\ ~Off
  BY <1>1 DEF Host, WriteOutput, ClearInhibit, StoreHoldoff, Off, schedule
<1>4. QED
  BY <1>1, <1>2, <1>3 DEF Next, SysTick

(* An overload that an output carries lasts for less than its holdoff and one *)
(* sampling period, whatever the host does meanwhile.                         *)
THEOREM OverloadsEnd == Spec => NoLastingOverload
<1> DEFINE Ended == current_phase' # current_phase =>
             \A o \in output_t : held'[o] < HoldoffOf(o) + Period(o)
<1>1. ASSUME IInv, [Next]_vars PROVE [Ended]_vars
  <2> SUFFICES ASSUME current_phase' # current_phase, NEW o \in output_t
               PROVE  held'[o] < HoldoffOf(o) + Period(o)
    OBVIOUS
  <2>1. HoldoffOf(o) \in 0 .. U16 - 2 /\ Period(o) \in Nat /\ Period(o) >= 2
    BY <1>1, HoldoffRoom, Geometry
  <2>2. ASSUME NEW load \in LoadVectors, Tick(load) PROVE held'[o] < HoldoffOf(o) + Period(o)
    <3>1. context = "running" /\ Sample(load) /\ RecordOutputs(load, SlowTick)
      BY <2>2 DEF Tick, Sample
    <3>2. held'[o] \in 0 .. Cap /\ overcurrent_delay'[o] \in 0 .. U16 - 1
      BY <1>1, <3>1, TickTypes
    <3>3. Since(o)' \in 0 .. Period(o) - 1
      BY <1>1, <3>1, <2>1, ScheduleStep
    <3>4. held'[o] > 0 => gpio'[o]
      BY <1>1, <3>1, OutputStep DEF Streak
    <3>5. OverNow(o)' /\ gpio'[o] => overcurrent_delay'[o] <= HoldoffOf(o)
      <4>1. gpio'[o] => o \notin Cut
        BY <2>2 DEF Tick
      <4>2. OverNow(o)' => Over(o)
        BY <1>1, <3>1, OutputStep
      <4>3. Over(o) /\ o \notin Cut => ~(overcurrent_delay'[o] > HoldoffOf(o))
        BY Zenon DEF Cut
      <4>4. QED
        BY <2>1, <3>2, <4>1, <4>2, <4>3, Parameters
    <3>6. held'[o] > 0 =>
            IF OverNow(o)' THEN held'[o] < overcurrent_delay'[o] + Period(o) /\ overcurrent_delay'[o] <= U16 - 2
            ELSE held'[o] <= Since(o)'
      BY <1>1, <2>2, OutputTick
    <3>7. CASE held'[o] > 0 /\ OverNow(o)'
      BY <2>1, <3>2, <3>4, <3>5, <3>6, <3>7, Parameters
    <3>8. CASE held'[o] > 0 /\ ~OverNow(o)'
      BY <2>1, <3>2, <3>3, <3>6, <3>8, Parameters
    <3>9. CASE ~(held'[o] > 0)
      BY <2>1, <3>2, <3>9, Parameters
    <3>10. QED
      BY <3>7, <3>8, <3>9
  <2>3. ASSUME NEW load \in LoadVectors, TickShutdown(load) PROVE held'[o] < HoldoffOf(o) + Period(o)
    <3>1. ~gpio'[o]
      BY <2>3 DEF TickShutdown, disable_all_outputs
    <3>2. held'[o] = 0
      BY <2>3, <3>1 DEF TickShutdown, RecordOutputs, Streak
    <3>3. QED
      BY <2>1, <3>2, Parameters
  <2>4. QED
    BY <1>1, <2>2, <2>3, PhaseMovesInTicks
<1>2. QED
  BY <1>1, Invariance, PTL DEF Spec, NoLastingOverload

(* The whole board is cut for a streak of bad readings as long as the         *)
(* holdoff, and for nothing less: a failed or a good reading starts again.    *)
THEOREM BoardNeverTripsOnAGlitch == Spec => NoGlitchShutdown
<1> DEFINE Cause == \/ summed'
                    \/ holdoff["BATT"] < SlowPeriod * bad'.BATT
                    \/ holdoff["NEG"] < SlowPeriod * bad'.NEG
           FlatCause == holdoff["UVLO"] < UvloStep * bad'.UVLO
           Glitchless == /\ context = "running" /\ context' = "overcurrent" => Cause
                         /\ context # "flat" /\ context' = "flat" => FlatCause
<1>1. ASSUME IInv, [Next]_vars, context = "running", context' = "overcurrent" PROVE Cause
  <2>1. PICK load \in LoadVectors : TickShutdown(load)
    BY <1>1 DEF Next, SysTick, Host, Off, Tick, TickFlat, FaultLoop, WriteOutput, ClearInhibit, StoreHoldoff, vars
  <2>2. Sample(load) /\ RecordOutputs(load, SlowTick)
    BY <2>1 DEF TickShutdown
  <2>3. holdoff["BATT"] \in 0 .. U16 - 2 /\ holdoff["NEG"] \in 0 .. U16 - 2
    BY <1>1, HoldoffRoom DEF HoldoffNames
  <2>4. systick_slow_tick' \in 0 .. SlowPeriod - 1 /\ bad' \in [{"BATT", "NEG", "UVLO"} -> 0 .. Cap]
    BY <1>1, <2>2, ScheduleStep, SensorsStep DEF Sample
  <2>5. CASE TotalFault /\ ~summed'
    <3> DEFINE bound == SlowPeriod * bad'.BATT
               ticks == Ticks(SlowPeriod, bad'.BATT, systick_slow_tick')
    <3>1. total_delay' > holdoff["BATT"]
      BY <2>5, Zenon DEF TotalFault
    <3>2. total_delay' \in 0 .. U16 - 1 /\ total_delay' <= ticks
      BY <1>1, <2>2, <2>5, TickTypes, BoardSample
    <3>3. ticks \in Int /\ ticks <= bound /\ bound \in Int
      BY <2>4, TicksBound, Parameters
    <3> HIDE DEF bound, ticks
    <3>4. holdoff["BATT"] < bound
      BY <2>3, <3>1, <3>2, <3>3, Parameters
    <3>5. QED
      BY <3>4 DEF bound
  <2>6. CASE ~TotalFault
    <3> DEFINE bound == SlowPeriod * bad'.NEG
               ticks == Ticks(SlowPeriod, bad'.NEG, systick_slow_tick')
    <3>1. neg_current_delay' = Count(Negative(battery'), neg_current_delay) /\ NegativeFault
      BY <2>1, <2>6, Zenon DEF TickShutdown
    <3>2. neg_current_delay' > holdoff["NEG"]
      BY <3>1, Zenon DEF NegativeFault
    <3>3. neg_current_delay' \in 0 .. U16 - 1 /\ neg_current_delay' <= ticks
      BY <1>1, <2>2, <3>1, BoardSample
    <3>4. ticks \in Int /\ ticks <= bound /\ bound \in Int
      BY <2>4, TicksBound, Parameters
    <3> HIDE DEF bound, ticks
    <3>5. holdoff["NEG"] < bound
      BY <2>3, <3>2, <3>3, <3>4, Parameters
    <3>6. QED
      BY <3>5 DEF bound
  <2>7. QED
    BY <2>5, <2>6
<1>2. ASSUME IInv, [Next]_vars, context # "flat", context' = "flat" PROVE FlatCause
  <2>1. /\ count_uvlo /\ RecordBattery /\ uvlo_delay' > holdoff["UVLO"]
    <3>1. CASE TickFlat
      BY <3>1 DEF TickFlat, FlatFault
    <3>2. CASE FaultLoop
      BY <1>2, <3>2 DEF FaultLoop, FlatFault
    <3>3. QED
      BY <1>2, <3>1, <3>2
         DEF Next, SysTick, Host, Off, Tick, TickShutdown, WriteOutput, ClearInhibit, StoreHoldoff, vars
  <2>2. /\ uvlo_delay' \in 0 .. U16 - 1 /\ bad' \in [{"BATT", "NEG", "UVLO"} -> 0 .. Cap]
        /\ uvlo_delay' <= UvloStep * bad'.UVLO
    BY <1>2, <2>1, BatteryStep DEF IInv, FlatNotEarly
  <2>3. holdoff["UVLO"] \in 0 .. U16 - 2
    BY <1>2, HoldoffRoom DEF HoldoffNames
  <2> DEFINE bound == UvloStep * bad'.UVLO
  <2>4. bound \in Int /\ uvlo_delay' <= bound
    BY <2>2, Parameters
  <2> HIDE DEF bound
  <2>5. holdoff["UVLO"] < bound
    BY <2>1, <2>2, <2>3, <2>4, Parameters
  <2>6. QED
    BY <2>5 DEF bound
<1>3. IInv /\ [Next]_vars => [Glitchless]_vars
  BY <1>1, <1>2
<1>4. QED
  BY <1>3, Invariance, PTL DEF Spec, NoGlitchShutdown

(* A battery that delivers too much current, or takes some in, reading after  *)
(* reading stops the board before the holdoff has passed.                     *)
THEOREM OverdrawIsNoticed == Spec => OverdrawStopsBoard
<1> DEFINE Noticed == SlowTick /\ context' = "running" /\ current_phase' # current_phase =>
             /\ bad'.BATT > 0 => SlowPeriod * (bad'.BATT - 1) < holdoff["BATT"]
             /\ bad'.NEG  > 0 => SlowPeriod * (bad'.NEG - 1) < holdoff["NEG"]
<1>1. ASSUME IInv, [Next]_vars PROVE [Noticed]_vars
  <2> SUFFICES ASSUME SlowTick, context' = "running", current_phase' # current_phase
               PROVE  /\ bad'.BATT > 0 => SlowPeriod * (bad'.BATT - 1) < holdoff["BATT"]
                      /\ bad'.NEG  > 0 => SlowPeriod * (bad'.NEG - 1) < holdoff["NEG"]
    OBVIOUS
  <2>1. PICK load \in LoadVectors : Tick(load)
    BY <1>1, PhaseMovesInTicks DEF TickShutdown
  <2>2. Sample(load) /\ RecordOutputs(load, SlowTick) /\ ~TotalFault /\ ~NegativeFault
    BY <2>1, Zenon DEF Tick
  <2>3. holdoff["BATT"] \in 0 .. U16 - 2 /\ holdoff["NEG"] \in 0 .. U16 - 2
    BY <1>1, HoldoffRoom DEF HoldoffNames
  <2>4. systick_slow_tick' = 0 /\ bad' \in [{"BATT", "NEG", "UVLO"} -> 0 .. Cap] /\ Streaks'
    BY <1>1, <2>2, ScheduleStep, SensorsStep DEF Sample
  <2>5. /\ Ticks(SlowPeriod, bad'.BATT, 0) <= total_delay'
        /\ Ticks(SlowPeriod, bad'.NEG, 0) <= neg_current_delay'
        /\ neg_current_delay' \in 0 .. U16 - 1
    BY <1>1, <2>1, <2>4, BoardTick DEF BoardNotLate
  <2>6. total_delay' \in 0 .. U16 - 1
    BY <1>1, <2>2, TickTypes
  <2>7. ASSUME bad'.BATT > 0 PROVE SlowPeriod * (bad'.BATT - 1) < holdoff["BATT"]
    <3> DEFINE before == SlowPeriod * (bad'.BATT - 1)
    <3>1. Overdraw(battery')
      BY <2>4, <2>7 DEF Streaks, Overdraw
    <3>2. TotalOver
      BY <3>1 DEF TotalOver
    <3>3. ~(total_delay' > holdoff["BATT"])
      BY <2>2, <3>2, Zenon DEF TotalFault
    <3>4. before \in Int /\ before + 1 <= total_delay'
      <4>1. bad'.BATT \in 0 .. Cap /\ bad'.BATT # 0 /\ total_delay' \in Int
        BY <2>4, <2>6, <2>7, Parameters
      <4>2. before \in Int
        BY <4>1, Parameters
      <4>3. Ticks(SlowPeriod, bad'.BATT, 0) = before + 0 + 1
        BY <4>1 DEF Ticks
      <4> HIDE DEF before
      <4>4. QED
        BY <2>5, <4>1, <4>2, <4>3
    <3> HIDE DEF before
    <3>5. before < holdoff["BATT"]
      BY <2>3, <2>6, <3>3, <3>4, Parameters
    <3>6. QED
      BY <3>5 DEF before
  <2>8. ASSUME bad'.NEG > 0 PROVE SlowPeriod * (bad'.NEG - 1) < holdoff["NEG"]
    <3> DEFINE before == SlowPeriod * (bad'.NEG - 1)
    <3>1. Negative(battery')
      BY <2>4, <2>8 DEF Streaks, Negative
    <3>2. ~(neg_current_delay' > holdoff["NEG"])
      BY <2>2, <3>1, Zenon DEF NegativeFault
    <3>3. before \in Int /\ before + 1 <= neg_current_delay'
      BY <2>4, <2>5, <2>8, Parameters DEF Ticks
    <3> HIDE DEF before
    <3>4. before < holdoff["NEG"]
      BY <2>3, <2>5, <3>2, <3>3, Parameters
    <3>5. QED
      BY <3>4 DEF before
  <2>9. QED
    BY <2>7, <2>8
<1>2. QED
  BY <1>1, Invariance, PTL DEF Spec, OverdrawStopsBoard

-----------------------------------------------------------------------------
(***************************************************************************)
(* The flat battery.  With the holdoffs that DELAY_COEFF accepts the       *)
(* counter of handle_uvlo may wrap around (see the README); with holdoffs  *)
(* that leave it room for one more step it does not.                       *)
(***************************************************************************)

(* A holdoff and one more step fit into the counter.                          *)
LEMMA RoomForStep ==
  ASSUME HoldoffsLeaveStep, NEW d \in HostHoldoffs PROVE d \in Nat /\ d + UvloStep < U16
<1>1. HostHoldoffs \subseteq 0 .. U16 - 2
  BY OvercurrentAssumption
<1>2. d \in 0 .. U16 - 2
  BY <1>1
<1>3. d + UvloStep < U16
  BY Zenon DEF HoldoffsLeaveStep
<1>4. QED
  BY <1>2, <1>3, Parameters

(* One reading of the battery that does not end in handle_uvlo's loop.        *)
LEMMA FlatStep ==
  ASSUME HoldoffsLeaveStep, TypeOK, FlatNotLate, context # "flat",
         count_uvlo, RecordBattery, ~FlatFault
  PROVE  /\ uvlo_delay' + UvloStep < U16 /\ UvloStep * bad'.UVLO <= uvlo_delay'
         /\ UvloStep * bad'.UVLO <= holdoff["UVLO"]
<1> USE Parameters
<1>1. /\ uvlo_delay \in 0 .. U16 - 1 /\ bad.UVLO \in 0 .. Cap
      /\ uvlo_delay + UvloStep < U16 /\ UvloStep * bad.UVLO <= uvlo_delay
  BY DEF TypeOK, FlatNotLate
<1>2. holdoff["UVLO"] \in HostHoldoffs
  BY DEF TypeOK, HoldoffNames
<1>3. holdoff["UVLO"] \in Nat /\ holdoff["UVLO"] + UvloStep < U16
  BY <1>2, RoomForStep
<1>4. bad'.UVLO = Streak(Low(battery'), bad.UVLO)
  BY DEF RecordBattery
<1>5. CASE Low(battery')
  <2> DEFINE n == bad.UVLO
             before == UvloStep * n
  <2>1. ~(uvlo_delay' > holdoff["UVLO"])
    BY <1>5, Zenon DEF FlatFault
  <2>2. uvlo_delay' = uvlo_delay + UvloStep
    BY <1>1, <1>5 DEF count_uvlo
  <2>3. before \in Int /\ before >= n /\ UvloStep * (n + 1) = before + UvloStep
    BY <1>1
  <2>4. n < Cap
    BY <1>1, <2>3
  <2>5. bad'.UVLO = n + 1
    BY <1>4, <1>5, <2>4 DEF Streak
  <2>6. UvloStep * bad'.UVLO = before + UvloStep
    BY <2>3, <2>5
  <2> HIDE DEF before
  <2>7. UvloStep * bad'.UVLO <= uvlo_delay' /\ uvlo_delay' <= holdoff["UVLO"]
    BY <1>1, <1>3, <2>1, <2>2, <2>3, <2>6 DEF before
  <2>8. QED
    BY <1>1, <1>3, <2>2, <2>3, <2>6, <2>7
<1>6. CASE ~Low(battery')
  <2>1. uvlo_delay' = 0 /\ bad'.UVLO = 0 /\ UvloStep * 0 = 0
    BY <1>4, <1>6 DEF count_uvlo, Streak
  <2>2. QED
    BY <1>3, <2>1
<1>7. QED
  BY <1>5, <1>6

(* The counter of handle_uvlo neither wraps nor lags behind the readings.     *)
LEMMA FlatInvariance == ASSUME HoldoffsLeaveStep PROVE Spec => []FlatNotLate
<1> USE Parameters
<1>1. Init => FlatNotLate
  <2>1. "UVLO" \in HoldoffNames
    BY DEF HoldoffNames
  <2>2. DefaultHoldoff["UVLO"] \in HostHoldoffs
    BY <2>1, OvercurrentAssumption
  <2>3. DefaultHoldoff["UVLO"] \in Nat /\ DefaultHoldoff["UVLO"] + UvloStep < U16
    BY <2>2, RoomForStep
  <2>4. UvloStep < U16
    BY <2>3
  <2>5. UvloStep * 0 = 0 /\ 0 + UvloStep = UvloStep
    OBVIOUS
  <2>6. QED
    BY <2>4, <2>5 DEF Init, FlatNotLate
<1>2. IInv /\ FlatNotLate /\ [Next]_vars => FlatNotLate'
  <2> SUFFICES ASSUME IInv, FlatNotLate, [Next]_vars, context' # "flat" PROVE FlatNotLate'
    BY DEF FlatNotLate
  <2>1. context # "flat"
    BY DEF Next, SysTick, Host, Off, Tick, TickShutdown, TickFlat, FaultLoop, Sample,
           WriteOutput, ClearInhibit, StoreHoldoff, vars
  <2>2. CASE count_uvlo /\ RecordBattery /\ ~FlatFault
    BY <2>1, <2>2, FlatStep DEF IInv, FlatNotLate
  <2>3. CASE UNCHANGED <<uvlo_delay, bad>>
    BY <2>1, <2>3 DEF FlatNotLate
  <2>4. ASSUME NEW load \in LoadVectors, Sample(load) PROVE FlatNotLate'
    BY <2>2, <2>3, <2>4 DEF Sample, ReadSensors
  <2>5. ~TickFlat
    BY DEF TickFlat
  <2>6. FaultLoop => FlatNotLate'
    BY <2>2 DEF FaultLoop
  <2>7. Host \/ UNCHANGED vars => FlatNotLate'
    BY <2>3 DEF Host, WriteOutput, ClearInhibit, StoreHoldoff, vars, counters, history
  <2>8. QED
    BY <2>4, <2>5, <2>6, <2>7 DEF Next, SysTick, Tick, TickShutdown, Off
<1>3. QED
  BY <1>1, <1>2, Invariance, PTL DEF Spec

(* A flat battery never feeds the board for longer than UVLO_DELAY, provided  *)
(* that no DELAY_COEFF command sets a holdoff in the last UvloStep values     *)
(* below U16, for which the code counts past the end of its counter.          *)
THEOREM FlatBatteryIsNoticed == ASSUME HoldoffsLeaveStep PROVE Spec => FlatBatteryStopsBoard
<1> DEFINE Noticed == SlowTick /\ context' = "running" /\ current_phase' # current_phase =>
             UvloStep * bad'.UVLO <= holdoff["UVLO"]
<1>1. ASSUME IInv, FlatNotLate, [Next]_vars PROVE [Noticed]_vars
  <2> SUFFICES ASSUME SlowTick, context' = "running", current_phase' # current_phase
               PROVE  UvloStep * bad'.UVLO <= holdoff["UVLO"]
    OBVIOUS
  <2>1. PICK load \in LoadVectors : Tick(load)
    BY <1>1, PhaseMovesInTicks DEF TickShutdown
  <2>2. Sample(load) /\ context = "running"
    BY <2>1 DEF Tick, Sample
  <2>3. count_uvlo /\ ~FlatFault /\ RecordBattery
    BY <2>2 DEF Sample, ReadSensors
  <2>4. QED
    BY <1>1, <2>2, <2>3, FlatStep DEF IInv
<1>2. QED
  BY <1>1, Invariance, FlatInvariance, PTL DEF Spec, FlatBatteryStopsBoard
=============================================================================
