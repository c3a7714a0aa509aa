----------------------------- MODULE CurrentSense -----------------------------
(***************************************************************************)
(* The two INA219 current sensors and the I2C driver of src/src/i2c.c, as  *)
(* start-up, the SysTick interrupt and the loop of set_global_overcurrent  *)
(* use them.  One step is one transfer on the bus: registers of a sensor   *)
(* are written or selected, or two bytes are read from it.  A sensor that  *)
(* does not acknowledge sets i2c_timed_out, and every transfer after it    *)
(* returns at once until the next round has reset the bus.                 *)
(*                                                                         *)
(* Values are modelled by where they come from.  The busy waits of the     *)
(* driver end: a sensor that holds the bus for good is a reset by the      *)
(* watchdog, after which everything starts again from Init.                *)
(***************************************************************************)
EXTENDS Integers, Sequences

Sensors == {"BATTERY", "REG"}     \* BATTERY_SENSE_ADDR and REG_SENSE_ADDR

VARIABLES
  answers,        \* the sensors that acknowledge at the moment
  calibration, configuration,  \* sensors whose registers have been written
  pointer,        \* the register each sensor has selected
  i2c_timed_out,
  ina219_offsets,
  program,        \* transfers still to be done
  res,            \* the result of the measure_current_sense under way
  reading,        \* battery and reg_5v
  context,        \* "boot", "running", "overcurrent" or "flat"
  lost            \* history: registers lost, and no transfer refused since

sensors == <<answers, calibration, configuration, pointer>>
vars == <<sensors, i2c_timed_out, ina219_offsets, program, res, reading, context, lost>>

-----------------------------------------------------------------------------
(***************************************************************************)
(* Transfers, and the sequences of them that the driver's functions make.  *)
(***************************************************************************)
Transfer(do, s) == [do |-> do, sensor |-> s]

Kinds == {"calibrate", "configure", "select_current", "select_voltage",
          "read_offset", "read_current", "read_voltage"}

init_current_sense(s, calc_offset) ==
  <<Transfer("calibrate", s), Transfer("configure", s)>>
    \o IF calc_offset THEN <<Transfer("select_current", s), Transfer("read_offset", s)>> ELSE <<>>

init_i2c_sensors(calc_offset) ==
  init_current_sense("BATTERY", calc_offset) \o init_current_sense("REG", calc_offset)

(* Slip: the pointer is believed to be where the last round has left it. *)
measure_current_sense_OneSelect(s) ==
  <<Transfer("read_current", s), Transfer("select_voltage", s), Transfer("read_voltage", s)>>

measure_current_sense(s) ==
  <<Transfer("select_current", s), Transfer("read_current", s),
    Transfer("select_voltage", s), Transfer("read_voltage", s)>>

(* A value read: of which register of which sensor, where a sensor that has   *)
(* not been calibrated and configured has no current to read.  Garbage is an  *)
(* uninitialised value.                                                       *)
Registers == {"configuration", "calibration", "current", "voltage"}
Value(s, reg) ==
  [of |-> s, reg |-> IF reg = "current" /\ s \notin calibration \cap configuration
                     THEN "uncalibrated" ELSE reg]
Garbage   == [of |-> "none", reg |-> "none"]
Values    == [of : Sensors, reg : Registers \cup {"uncalibrated"}] \cup {Garbage}

(* The offset of a sensor is 0 until it has been read from some sensor. *)
NoReading == [current |-> Garbage, offset |-> "zero", voltage |-> Garbage, success |-> FALSE,
              suspect |-> FALSE]    \* history: success in spite of a silent loss

(* init: all outputs are off, and the sensors are set up and nulled out. *)
Init ==
  /\ answers \in SUBSET Sensors
  /\ calibration = {} /\ configuration = {}
  /\ pointer = [s \in Sensors |-> "configuration"]
  /\ i2c_timed_out = FALSE
  /\ ina219_offsets = [s \in Sensors |-> "zero"]
  /\ program = init_i2c_sensors(TRUE)
  /\ res = NoReading /\ reading = [s \in Sensors |-> NoReading]
  /\ context = "boot" /\ lost = {}

-----------------------------------------------------------------------------
(***************************************************************************)
(* One transfer.                                                           *)
(***************************************************************************)

(* What a transfer t that is acknowledged does to its sensor. *)
Write(t) ==
  /\ calibration'   = IF t.do = "calibrate" THEN calibration \cup {t.sensor} ELSE calibration
  /\ configuration' = IF t.do = "configure" THEN configuration \cup {t.sensor} ELSE configuration
  /\ pointer' = [pointer EXCEPT ![t.sensor] =
       CASE t.do = "calibrate"      -> "calibration"
         [] t.do = "configure"      -> "configuration"
         [] t.do = "select_current" -> "current"
         [] t.do = "select_voltage" -> "voltage"
         [] OTHER -> @]

(* The result of measure_current_sense; val is what the buffer holds: after a *)
(* read that has failed, what it held before.                                 *)
StoreCurrent(s, val) ==
  res' = [NoReading EXCEPT !.current = val, !.offset = ina219_offsets[s]]

(* A reading with a failed transfer before its last has none after it either. *)
StoreVoltage(s, val, received) ==
  /\ reading' = [reading EXCEPT ![s] =
                   [res EXCEPT !.voltage = val, !.success = received, !.suspect = s \in lost]]
  /\ res' = NoReading

(* Slip: the offset is taken without a look at the result of the transfer. *)
StoreOffset_Unchecked(s, val, received) == ina219_offsets' = [ina219_offsets EXCEPT ![s] = val.of]

StoreOffset(s, val, received) ==
  ina219_offsets' = IF received THEN [ina219_offsets EXCEPT ![s] = val.of] ELSE ina219_offsets

(* What the program does with the two bytes, if it has received them. *)
Read(t, val, received) ==
  CASE t.do = "read_current" -> StoreCurrent(t.sensor, val) /\ UNCHANGED <<reading, ina219_offsets>>
    [] t.do = "read_voltage" -> StoreVoltage(t.sensor, val, received) /\ UNCHANGED ina219_offsets
    [] t.do = "read_offset"  -> StoreOffset(t.sensor, val, received) /\ UNCHANGED <<res, reading>>
    [] OTHER -> UNCHANGED <<res, reading, ina219_offsets>>

NextTransfer ==
  /\ program # <<>> /\ program' = Tail(program)
  /\ context' = IF context = "boot" /\ Tail(program) = <<>> THEN "running" ELSE context
  /\ UNCHANGED answers

(* What is in the buffer if the transfer does not fill it. *)
OldBytes(t) == IF t.do = "read_voltage" THEN res.current ELSE Garbage

Acknowledged ==
  /\ NextTransfer /\ ~i2c_timed_out
  /\ LET t == Head(program) IN
       /\ t.sensor \in answers
       /\ Write(t)
       /\ Read(t, Value(t.sensor, pointer[t.sensor]), TRUE)
  /\ UNCHANGED <<i2c_timed_out, lost>>

(* Slip: a refused transfer is not remembered. *)
Fail_Forgotten == UNCHANGED i2c_timed_out

Fail == i2c_timed_out' = TRUE

(* I2C_FAIL_AND_RETURN_ON_NACK *)
Refused ==
  /\ NextTransfer /\ ~i2c_timed_out
  /\ LET t == Head(program) IN
       /\ t.sensor \notin answers
       /\ Read(t, OldBytes(t), FALSE)
       /\ lost' = lost \ {t.sensor}
  /\ Fail
  /\ UNCHANGED <<calibration, configuration, pointer>>

(* I2C_RETURN_IF_FAILED *)
Skipped ==
  /\ NextTransfer /\ i2c_timed_out
  /\ Read(Head(program), OldBytes(Head(program)), FALSE)
  /\ UNCHANGED <<i2c_timed_out, lost, calibration, configuration, pointer>>

BusStep == Acknowledged \/ Refused \/ Skipped

-----------------------------------------------------------------------------
(***************************************************************************)
(* The rounds: every 20 ms by the interrupt, every 1.5 s in the fault loop. *)
(***************************************************************************)

(* Slip: the bus is reset and the sensors are not set up again. *)
Recover_NoInit == <<>>

(* reset_i2c_watchdog and init_i2c_sensors(false) if the last round failed *)
Recover == IF i2c_timed_out THEN init_i2c_sensors(FALSE) ELSE <<>>

(* Slip: the flag is never cleared. *)
reset_i2c_watchdog_Missing == UNCHANGED i2c_timed_out

reset_i2c_watchdog == i2c_timed_out' = FALSE

Round(measurements) ==
  /\ program = <<>> /\ program' = Recover \o measurements
  /\ reset_i2c_watchdog
  /\ UNCHANGED <<sensors, ina219_offsets, res, reading, context, lost>>

SlowTick == context = "running" /\ Round(measure_current_sense("BATTERY") \o measure_current_sense("REG"))
FaultRound == context = "overcurrent" /\ Round(measure_current_sense("BATTERY"))

(* handle_uvlo and detect_overcurrent act on a reading when it is complete. *)
Shutdown(c) ==
  /\ program = <<>> /\ context' = c
  /\ UNCHANGED <<sensors, i2c_timed_out, ina219_offsets, program, res, reading, lost>>
set_global_overcurrent == context = "running" /\ Shutdown("overcurrent")
handle_uvlo == context \in {"running", "overcurrent"} /\ reading["BATTERY"].success /\ Shutdown("flat")
Off == context = "flat" /\ UNCHANGED vars

(***************************************************************************)
(* The sensors: one stops or starts acknowledging, or loses its registers  *)
(* with its supply.                                                        *)
(***************************************************************************)
Sulk(s) ==
  /\ answers' = IF s \in answers THEN answers \ {s} ELSE answers \cup {s}
  /\ UNCHANGED <<calibration, configuration, pointer, i2c_timed_out, ina219_offsets,
                 program, res, reading, context, lost>>

LoseRegisters(s) ==
  /\ calibration' = calibration \ {s} /\ configuration' = configuration \ {s}
  /\ pointer' = [pointer EXCEPT ![s] = "configuration"]
  /\ lost' = lost \cup {s}
  /\ UNCHANGED <<answers, i2c_timed_out, ina219_offsets, program, res, reading, context>>

Next ==
  \/ BusStep \/ SlowTick \/ FaultRound \/ set_global_overcurrent \/ handle_uvlo \/ Off
  \/ \E s \in Sensors : Sulk(s) \/ LoseRegisters(s)

(* SysTick keeps ticking, the fault loop keeps looping, and transfers end. *)
Spec == Init /\ [][Next]_vars /\ WF_vars(BusStep) /\ WF_vars(SlowTick) /\ WF_vars(FaultRound)
-----------------------------------------------------------------------------
Readings == [current : Values, offset : Sensors \cup {"zero"}, voltage : Values,
             success : BOOLEAN, suspect : BOOLEAN]

TypeOK ==
  /\ answers \subseteq Sensors /\ calibration \subseteq Sensors /\ configuration \subseteq Sensors
  /\ pointer \in [Sensors -> Registers]
  /\ i2c_timed_out \in BOOLEAN /\ ina219_offsets \in [Sensors -> Sensors \cup {"zero"}]
  /\ \A i \in DOMAIN program : program[i] \in [do : Kinds, sensor : Sensors]
  /\ res \in Readings /\ reading \in [Sensors -> Readings]
  /\ context \in {"boot", "running", "overcurrent", "flat"} /\ lost \subseteq Sensors

(* A reading that counts as a success is the current and the voltage of its   *)
(* own sensor, nulled with that sensor's offset, unless it has silently lost   *)
(* its registers in the middle of the measurement.                            *)
SuccessIsMeasured ==
  \A s \in Sensors : reading[s].success /\ ~reading[s].suspect =>
    /\ reading[s].current.of = s /\ reading[s].current.reg \in {"current", "uncalibrated"}
    /\ reading[s].voltage.of = s /\ reading[s].voltage.reg = "voltage"
    /\ reading[s].offset \in {"zero", s}

(* Currents that trip the outputs come from calibrated sensors: only a loss of *)
(* the registers that no refused transfer has betrayed goes unnoticed, and     *)
(* every other one, also at start-up, has been made good before the reading.   *)
SuccessIsCalibrated ==
  \A s \in Sensors :
    reading[s].success /\ ~reading[s].suspect => reading[s].current.reg # "uncalibrated"

(* The regulator's reading of a round is good only if the battery's is: what   *)
(* module Overcurrent assumes of the pairs of readings it chooses from.        *)
RegulatorAfterBattery ==
  context = "running" /\ program = <<>> /\ reading["REG"].success => reading["BATTERY"].success

(* Sensors that answer again are read again: one failed transfer silences the  *)
(* driver for the rest of its round, and not for longer.                       *)
ReadingsRecover ==
  <>[](answers = Sensors) =>
    <>[](program = <<>> /\ context # "flat" =>
           \A s \in Sensors : (s = "BATTERY" \/ context = "running") => reading[s].success)
=============================================================================
