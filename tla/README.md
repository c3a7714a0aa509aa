# A specification of the power board firmware

TLA+ modules for the firmware in `src/src/` (Student Robotics power board v4, an
STM32F103 with seven switched outputs, two INA219 current sensors, a buzzer, a fan,
two buttons and a USB serial port), the TLC runs that check them on small
instances, and proofs for TLAPS, for every value of the constants, of every safety
invariant and every action property that the runs check and of both refinements.

* [1 The system](#1-the-system): parts, state, interactions, what is hard
* [2 The modules](#2-the-modules): what models what
* [3 The runs](#3-the-runs): what is checked, on which bounds
* [4 Fairness](#4-fairness)
* [5 The proofs](#5-the-proofs)
* [6 Where the code and its documentation differ](#6-where-the-code-and-its-documentation-differ)
* [7 What is not modelled](#7-what-is-not-modelled)
* [8 Plan](#8-plan)

## 1 The system

### Two threads, one of them never interrupted

`main` (`main.c`) sets the board up, beeps, and then polls the USB stack for ever.
Everything the host asks for happens inside that poll: the receive callback
`cdcacm_data_rx_cb` puts packets together to lines and calls `handle_msg` for each,
and a bus reset calls `usb_reset_callback`. `sys_tick_handler` (`systick.c`) runs
every millisecond, between any two instructions of the main thread, and is never
interrupted itself. There are no locks and interrupts are never masked: the two
threads share the pins, the inhibit flags, the LEDs, the buzzer's count-down, the
button flags, the holdoffs and the fan override, each protected by nothing but the
order of its accesses.

A fault of the whole board (overcurrent in total, current into the battery, flat
battery) ends this regime. `set_global_overcurrent` and `handle_uvlo` (`output.c`)
stop SysTick, switch everything off, call `usb_deinit` and stay in an endless loop
*inside the interrupt*: whatever the main thread was in the middle of is abandoned
for good. But `usb_deinit` provokes a bus reset and polls the USB stack four times,
so the same callbacks run once more, on the state the abandoned ones left behind.
The third way out of the main loop is `jump_to_bootloader`, from a DFU request.

### The parts

| Part | State it keeps | Operations | Correct means |
|---|---|---|---|
| Switched outputs (`output.c`, `main.c`) | pins, `output_inhibited`, channel LEDs | `enable_output`, `set_overcurrent`, `reset_board`, `usb_reset_callback`, `disable_all_outputs` | an output that tripped stays off until the host resets the board; a reset sweeps every output; the brain keeps its supply; no output is switched by a command for another |
| Overcurrent and undervoltage protection (`output.c`, `systick.c`, `adc.c`) | phase counters, last samples, debounce counters, holdoffs | `read_next_current_phase`, `save_current_values`, `detect_overcurrent`, `handle_uvlo`, `set_global_overcurrent` | an overload that lasts is cut in time, a glitch never is, and each current is charged to its own output |
| Current sensors (`i2c.c`) | registers of two sensors, `i2c_timed_out`, offsets | set-up, nulling, measurement, recovery | readings that count come from the right, calibrated register; failures heal |
| Buzzer (`buzzer.c`) | timer on/off, frequency, remaining ticks | `buzzer_note`, `buzzer_stop`, `buzzer_tick`, query | every note ends, and no tone lives on without a count-down |
| LEDs (`led.c`) | pins, flashing flags | set, clear, toggle, flash, the interrupt's blinking | an LED shows the last thing asked of it |
| Fan, temperature, buttons (`fan.c`, `button.c`, `systick.c`) | one-second counter, last temperature, fan pin, override, two latched presses | tick, query, board reset | the fan follows the temperature without chattering; no press is reported twice or lost unreported |
| Line assembly (`cdcacm.c`) | static buffer, its length, length of the replies | the receive callback | lines reach the interpreter in order, whole and once |
| Command interpreter (`msg_handler.c`) | none of its own: it works on the rest | one function of a line | a refused line changes nothing; GET? returns what SET stored |
| Number conversions (`adc.c`, `i2c.c`, `itoa`) | none | `adc_to_current`, `adc_to_temp`, the INA219's registers | no overflow, and the error that rounding makes is bounded |
| Main loop and start-up (`main.c`, `systick.c`) | what the program is doing, the beep, the watchdog | `init`, `main`, `jump_to_bootloader`, the fault loops | a healthy board is never restarted by its watchdog, a hung one always; it starts with every output off |
| Bootloader stub (`bootloader/`) | the 5 V output | `smps_on_boot` | in part, see section 7 |
| Scripts, build files, libopencm3 | - | - | not modelled, see section 7 |

How they interact:

```
 host --packets--> cdcacm_data_rx_cb --lines--> handle_msg --+--> outputs, LEDs, buzzer,
                        (UsbLines)              (Commands)   |    buttons, fan, holdoffs
 bus reset -----------------------> usb_reset_callback ------+       (shared state)
                                                                          ^
 SysTick: i2c readings -> save_current_values -> detect_overcurrent ------+
          (CurrentSense)         (Overcurrent)   handle_uvlo
                                 \-> fan, buttons, LEDs, buzzer  (Housekeeping, Leds, Buzzer)
          fault: disable_all_outputs -> usb_deinit -> the callbacks again -> endless loop

 bootloader --5 V on--> init -> reset_board -> beep -> main loop <--feeds--> watchdog
     ^   (MainLoop)                                      |
     +---------------- jump_to_bootloader <--------------+
```

### What is hard here

* *Check, then act, against the interrupt.* `enable_output`, the button query, the
  buzzer's note and query, `reset_board` and the flashing LEDs all read and write
  in separate steps what the interrupt writes too. No test can place a tick between
  two given instructions.
* *A callback abandoned and entered again* on the same static buffer during a shutdown.
* *Counters on stale samples.* An output is sampled every fourth tick and its counter
  runs every tick; the host may change the holdoffs underneath.
* *16-bit counters* compared with limits the host chooses.
* *A silent I2C driver*: after one refused transfer all later ones return at once, and
  results are still computed from whatever the buffers held.
* *A watchdog of 50 ms* above delays of 20 ms that interrupts lengthen, and busy waits
  on the I2C bus that have no bound: during start-up, before the watchdog runs, nothing
  ends them.
* *Sums and products of readings* in 16-bit types, and voltages that pass through a sign.
* *A stream cut in packets*, in a buffer that is moved, tokenised and only partly cleared.

`PROJECT.json` lists these as hazards, each at its line with the properties that
cover it, or a note where none does.

## 2 The modules

| Module | Code | Grain of a step |
|---|---|---|
| `Outputs` | `output.c` 90-165, 290-325, the parts of `main.c` and `systick.c` around them | one statement of the main thread that touches shared state; one whole interrupt |
| `OutputContract` | what `Outputs` promises | one switch, cut or release of an output |
| `Conversions` | the arithmetic of `adc.c`, `i2c.c` 259-270, `output.c` 67 | operators, no state |
| `Overcurrent`, `MCOvercurrent` | `output.c` 149-275, `systick.c`, `adc.c` | one whole SysTick interrupt; one access of the host |
| `Buzzer` | `buzzer.c` and its callers | one statement |
| `Leds` | `led.c` and its callers | one statement |
| `Housekeeping` | `systick.c` 57-75, `button.c`, `fan.c`, the BTN query | one tick; one access of the main thread |
| `CurrentSense` | `i2c.c` and its three callers | one bus transfer |
| `LineStream` | the promise of the serial port | one packet, one line |
| `UsbLines`, `MCUsbLines` | `cdcacm_data_rx_cb` | the loop's body, split around `handle_msg` |
| `Commands`, `MCCommands` | `handle_msg` and what it calls | one line |
| `MainLoop` | `main.c`, the times of `systick.c`, `output.c`, `cdcacm.c` | one millisecond, or one statement of `init` |
| `OutputsProofs`, `MainLoopProofs`, `OvercurrentProofs`, `HousekeepingProofs`, `BuzzerProofs`, `LedsProofs`, `CurrentSenseProofs` | - | proofs about the module of the same name, and with `Overcurrent` and `Housekeeping` about the conversions each of them uses |
| `HostProofs` | - | proofs about `UsbLines` and `Commands` |

`PROJECT.json` maps every definition to its lines. Conventions all modules share:

* Names are the code's where the code has one (`output_inhibited`, `uvlo_delay`,
  `usb_msg_len`). A property's history variables are commented *history*; they
  observe and no guard reads them, except to keep a history finite.
* `context` says which code has the processor: `running`, the deinit contexts, and the
  loops `overcurrent` and `flat`. `routine` and `pc`, or a `program` of statements still
  to execute, say where the main thread is. An interrupt during `running` leaves
  these alone; a shutdown drops them.
* Definitions commented *Slip* are not part of the model. Each is a plausible mistake
  in the definition next to it, and replacing one by the other must break the
  property that `PROJECT.json` pairs it with. They keep the properties honest.

### Outputs

Pins, flags and channel LEDs are functions on the outputs. `enable_output` is two
steps, `EnableCheck` and `EnableWrite`; `reset_board` is `ClearInhibit`, `ClearLed`
and those two per output; `usb_reset_callback` the two per output but the brain.
`command` says which call site of `handle_msg` the routine is called from, that of
`OUT:<n>:SET` or that of `*SYS:BRAIN:SET`: the two share `enable_output`, and only the first
must not reach the brain.
`Trip(S)` is the interrupt that finds the set `S` overloaded and may come at any
moment; which set that is, is `Overcurrent`'s business, and here it is any. The two
shutdowns run `disable_all_outputs` and `usb_deinit`'s polls, in which a bus reset
and up to `MaxBurst` commands from the pending packet may run. `Restart` is a
watchdog or power-on reset. `Init` is the beginning of `reset_board` in `main`, with
every output off and inhibited, as `init` leaves it.

`OutputContract` says what that amounts to for someone outside: an output is off, on,
barred by a fault until a board reset, or, and this is the gap, *defeated*: on although a
fault has barred it, because a command was late. Only while the board serves can a
bar be defeated, and a defeated output stays on until a fault bars it again or a board
reset releases it. The refinement (`KeepsContract`) maps the pin and the flag of an output
to its status and `context` to `serving`.

### Overcurrent

One `SysTick` is a whole handler: the slow part every `SlowPeriod` ticks (battery and
regulator readings, `handle_uvlo`), the current phase with the *two* phase counters
of the code (the phase that is converted and the outputs the multiplexer has
selected), then `detect_overcurrent` with its counters and its order of tests. Loads
and readings are chosen anew every tick. `Host` stores one holdoff at a time
or switches an output. The counters are `U16` wide and wrap. Loads are codes of
the ADC and readings are registers of the INA219s; they pass through `Conversions` on
their way to the limits, which are the code's. The properties compute the current that
is drawn by the shunt's arithmetic instead (`Drawn`), so a conversion that loses bits
lets an overload through.

### Conversions

`adc_to_current`, `adc_to_temp`, the sum of a current's two halves, and current and
voltage of a register, with the C types' widths (`uint16_t`, `int16_t`) and C's division
towards zero (`Quotient`). `Overcurrent` and `Housekeeping` use them; what they compute
for every input is proved. `itoa` is in `Commands`, where `NOTE:GET?` prints an unsigned
count with it: by the number it writes, which is negative from 2^31 on.

### MainLoop

The other modules take the program's phases as given; this one is about their order and
their times. `stage` goes from the bootloader through the statements of `init` and `main`
that matter (outputs off, sensors nulled, interrupt on, watchdog on, outputs reset) to
beep, main loop, `usb_deinit` and the two fault loops. `left` counts down the milliseconds
of a delay or a poll, `fed` counts them up since the watchdog was last fed. The
interrupt is the passing of time while it is enabled; every 20th one reads the
sensors, which takes as long as one of them holds the bus. A reset goes back to the
bootloader, which has the 5 V output on. The outputs are only the brain and the rest,
and a round of readings is one step: what is inside is in the other modules.

### CurrentSense

A transfer is a record of what it does to which sensor, and a `program` is the
sequence of transfers a function still has to make. Values are modelled by their
provenance (which register of which sensor, calibrated or not, or an uninitialised
buffer). Sensors stop and start to acknowledge, or lose their registers, between any
two transfers. Set-up with nulling at start-up, rounds in the interrupt, and rounds
in the fault loop are three programs over the same transfers.
The pairs of readings that `Overcurrent` assumes (a good regulator reading only after
a good battery reading) are what `RegulatorAfterBattery` establishes here.

### UsbLines and LineStream

`LineStream` is the promise: the received bytes are a stream, cut at newlines, and
handed over in order, whole and once, with the two documented limits (a packet that
does not fit is cut, a full buffer without newline dropped). `UsbLines` is the code:
`usb_msg_buffer` with the bytes memmove leaves behind, NULs written by `strtok` at any
subset of the colons, the length that is counted separately, and replies of any of
the given lengths. The refinement mapping takes as `stream` the bytes of the buffer
not yet handed over. The promise is `open` until the board shuts down or the host
puts two newlines into one packet; what happens then is in section 6.

### Commands

A line is the sequence of words `strtok` yields, and each command an operator of the
line, with every test in the order of the code. Lines are whole steps here because
their interleaving with the interrupt is the subject of the modules above; between
two lines the interrupt may trip an output, latch a press or end a note. The parts of
this specification are named `CommandsInit`, `CommandsNext` and so on, so that
`HostProofs` can extend it together with `UsbLines`.

### Buzzer, Leds, Housekeeping

Each follows the statements of its source file in order, with the interrupt between
any two. `Leds` has the calls of all of `main.c`, `cdcacm.c` and `output.c` that
light the run, error and flat LEDs. `Housekeeping` samples a button on every tick
but lets buttons and temperature change freely between ticks.

## 3 The runs

### Runs that must pass

| Run | Checks | Instance | Distinct states |
|---|---|---|---|
| `outputs` | `TypeOK`, `ResetSweeps`, `StatLedMeansInhibited`, `KeepsContract`, `OnlyStaleCheckDefeatsInhibit`, `OutputsSwitchForCause`, `ResetDelivers` | 4 outputs, brain in the middle, 2 commands pending | 26 thousand |
| `overcurrent` | `TypeOK`, `NoGlitchTrip`, `NoLastingOverload`, `NoGlitchShutdown`, `OverdrawStopsBoard`, `FlatBatteryStopsBoard` | 1 high-current output, 1 pair, the regulator; 3 ticks to a slow tick; 3-bit counters | 147 thousand |
| `buzzer` | `TypeOK`, `NoStuckTone`, `EventuallyQuiet` | notes of 0 to 2 ticks, 4 commands | 1,400 |
| `leds` | `TypeOK`, `LedsFollowCommands` | all three LEDs | 990 |
| `housekeeping` | `TypeOK`, `NoPressReportedTwice`, `PressLostOnlyInGapOrByReset`, `FanKeepsUp`, `FanSwitchesForCause` | 3 ticks to a temperature; codes of the ADC on both sides of each edge of the threshold, and 0 | 927 thousand |
| `current_sense` | `TypeOK`, `SuccessIsMeasured`, `SuccessIsCalibrated`, `RegulatorAfterBattery`, `ReadingsRecover` | the two sensors of the board: no bound | 2.0 million |
| `usb_lines` | `TypeOK`, `LinesAreTheStream`, `InterruptedLineHidesRest`, `LoopEnds` | buffer of 5 bytes, replies of 1 or 4 into 4 bytes, every packet of up to 3 bytes over {letter, colon, CR, LF} with at most one newline, every packet of up to 4 over {letter, LF} with more | 62 thousand |
| `commands` | `CommandsTypeOK`, `OnlyAcknowledgedLinesAct`, `HoldoffsReadBack` | 2 outputs, 40-odd lines and every beginning of each | 243 thousand |
| `main_loop` | `TypeOK`, `HealthyBoardIsFed`, `StartUpIsDark`, `HeldBusEndsInReset`, `StartUpEnds` | the code's own times: no bound but 1 ms to a poll's callbacks and 2 ms of interrupts to a delay | 659 thousand |

What they show, part by part:

* **Outputs.** An output that `reset_board` has passed is off, and the brain on unless cut
  since, though the interrupt may trip any of them at any point of the loop and a race
  may have left one on and inhibited before (`ResetSweeps`). A lit
  channel LED means a tripped output, thanks to the order flag-then-LED in
  `reset_board` (`StatLedMeansInhibited`). Through all the statements, interrupts,
  shutdowns and restarts the outputs keep their contract (`KeepsContract`): in
  particular, with SysTick stopped an output that is inhibited cannot come on. There *is*
  a way to an output that is on and inhibited, and exactly one: the write of
  `enable_output` behind a check that an interrupt has overtaken
  (`OnlyStaleCheckDefeatsInhibit`, and run `outputs_stale_check`). Every output
  is switched only for a reason of its own (`OutputsSwitchForCause`): the brain goes down by
  a cut, a shutdown, a restart or `*SYS:BRAIN:SET:0`, and not by `OUT` with its number, a reset of bus or
  board or the jump to the bootloader; any other output comes on only by an
  `OUT` that names it, in the polls of `usb_deinit` too. An
  accepted `*RESET` arrives (`ResetDelivers`).
* **Protection.** An output is cut only after enough samples in a row of its own current were
  over the limit, whatever its neighbours draw (`NoGlitchTrip`), and carries an
  overload, by the current drawn and not by the number read, no longer than its holdoff and one sampling period, although the host may
  change the holdoffs, switch it and clear its flag meanwhile (`NoLastingOverload`). The
  board stops for the battery's current or voltage only after a streak of bad readings
  as long as the holdoff (`NoGlitchShutdown`) and does stop after it
  (`OverdrawStopsBoard`, `FlatBatteryStopsBoard`). A current that the outputs sum up to
  shares the counter with the battery's, and such mixed streaks are excepted.
* **Sensors.** A reading marked as a success comes from the current and voltage registers of
  its own sensor, with its own offset (`SuccessIsMeasured`), calibrated unless the sensor
  lost its registers unnoticed (`SuccessIsCalibrated`). Failures heal in the next
  round (`ReadingsRecover`).
* **Buzzer and LEDs.** Tones end and LEDs show what was last asked, with the interrupt
  between any two statements.
* **Housekeeping.** A press is lost only in the gap between reading and clearing its flag, or
  by `*RESET`, which clears the flags unread (`PressLostOnlyInGapOrByReset`),
  and never reported twice (`NoPressReportedTwice`); the fan follows a
  change that lasts within one period, and obeys the fault loops (`FanKeepsUp`). A
  temperature that moves about the threshold by less than the degree of hysteresis never switches it
  (`FanSwitchesForCause`). Hot and cold are degrees
  by the sensor's formula, not the C's.
* **Serial port.** The receive callback implements `LineStream` and stays in its buffer; its
  loop ends with any packets.
* **Commands.** A line that is refused, at whatever word, has changed nothing
  (`OnlyAcknowledgedLinesAct`), and `*SYS:DELAY_COEFF:GET?` answers what the last `SET` was
  acknowledged for (`HoldoffsReadBack`).
* **Main loop.** The watchdog restarts no board whose sensors let the bus go, through the
  longest way from one feed to the next: main loop, first poll, fault, `usb_deinit`, first
  delay of the fault loop (`HealthyBoardIsFed`). A sensor that holds the bus does not keep
  the board in a busy wait once it has started (`HeldBusEndsInReset`); during
  start-up it may, and every output is off then (`StartUpIsDark`), as it is when the zero
  of the sensors is taken. With a bus that is free at last and a bootloader that does not
  stay, every start comes to the main loop or a fault loop (`StartUpEnds`).

### Why the bounds are enough

Every invariant and action property of these runs is also proved for all values of the
constants (section 5), so that for safety the bounds only have to be wide enough for TLC
to refute a wrong property early, and for every mutant to be caught. For liveness they
are all there is.

* *Outputs*: the loops treat all outputs alike except the brain and the last one (no
  LED); four outputs give one before the brain, the brain, one between and the last.
* *Overcurrent*: one high-current output is a phase of its own, a pair shares one and so
  can be mixed up, and the regulator is read on slow ticks only: each way an output is
  sampled occurs. Three-bit counters with holdoffs 2 and 5 let counters reach their
  limits, be reset and wrap; `UvloStep` 3 with a period of 3 keeps the code's ratio of
  one step per slow period. `HostHoldoffs` excludes the values near the limit of the
  counter, where `FlatBatteryStopsBoard` fails (run `overcurrent_uvlo`, at full width).
  `MCOvercurrent` strains one kind of fault per behaviour (the outputs, the regulator or
  the battery). The kinds share no counter; they do share the tick, the holdoffs and
  `detect_overcurrent`'s early return, which all three scenarios keep. Two kinds of fault
  developing at once are not explored by TLC; the proofs are about module `Overcurrent`
  itself, which has no scenarios, and cover them.
* *UsbLines*: in a buffer of 4 usable bytes lines are complete, cut by a packet's end,
  cut by the buffer's end, empty, with leftovers behind them, and dropped.
* *Commands*: numbers are representatives of the classes the comparisons tell apart
  (zero, in range, at each limit, one beyond). `UINT32_MAX` is scaled to 2^17 - 1, so that
  it still exceeds 65535 and has a sign bit for `itoa`.
* *MainLoop*: the times are the code's. `Slack` and `PollMs` are not in it: how far
  interrupts stretch a delay of 20 ms (`delay` counts loops of 36 clocks) and how long
  the callbacks of a poll take. 2 ms and 1 ms leave `Budget` = 46 of 50 ms; the
  proof of `HealthyBoardIsFed` holds for any times with `Budget < Period`.
* *Conversions in the runs*: codes and registers on both sides of every limit (1363 and
  1364 for 10 and 20 A, 1464 to 1489 around the fan's threshold, 20392 and 20400 for
  10.2 V); theorems say that nothing lies between them.
* *Buzzer*: durations of up to two ticks separate the last tick of a note from the others;
  four commands are enough for a note over a note, a stop and a query; without
  a bound on commands `EventuallyQuiet` would say nothing.

### Runs that must find a violation

Each states what a comment or the documentation says, and TLC shows the code do otherwise.

| Run | Statement | What happens |
|---|---|---|
| `outputs_stale_check` | an inhibited output is off (`output.c:95`) | trip between check and write of `enable_output` |
| `outputs_shutdown` | a shutdown prevents outputs from being re-enabled (`output.c:277`) | a `*RESET` waiting in the endpoint is executed by `usb_deinit`; the brain output comes on and stays on |
| `overcurrent_uvlo` | the undervoltage holdoff may be any number accepted (README.md:68) | with 65532 to 65534 ms the counter, which grows by 20, wraps before it exceeds the holdoff |

## 4 Fairness

* `Outputs`, `Buzzer`: weak fairness of the main thread's next statement. A tick
  lasts a fraction of its millisecond, so the main thread runs between two of them. In a
  shutdown `usb_deinit` executes its four polls and returns.
* `Buzzer`, `CurrentSense`: weak fairness of the tick: SysTick is periodic until
  stopped, and the tick's guard says that it has not been stopped.
* `CurrentSense`: weak fairness of bus steps. The driver's busy waits have no bound of
  their own; a bus that is held is the subject of `MainLoop`.
* `MainLoop`: weak fairness of the program as a whole (the processor executes, and time
  passes while it waits) and of the watchdog's reset once it has not been fed for its
  period. The bus need never become free and the bootloader need never start the
  program: where a property needs that, it says so.
* `UsbLines`: weak fairness of the loop's steps, which are the main thread's.
* Nothing is assumed of the host, the loads, the buttons or the sensors.
  `EventuallyQuiet` and `ReadingsRecover` have their conditions (`<>[](answers = Sensors)`)
  in the formula or, for the buzzer, in the bound on commands.
* `Overcurrent`, `Housekeeping`, `Leds` and `Commands` have no liveness: their timing properties
  count ticks and are safety properties.

## 5 The proofs

Eight modules hold theorems. Each proves about its component for every value of the
constants that the component's named assumption admits; those assumptions are evaluated
by every run. Every proof has the same shape: an inductive invariant that contains the
invariants to be shown, a lemma that `Init` establishes it, a lemma per
action or group of actions that the step preserves it, and short theorems that
draw the consequences. TLC has checked each inductive invariant, as an invariant of
the component's run, beside the proof that it is one.

### OutputsProofs: any number of outputs, any brain output but the last, any burst of commands

| Theorem | Statement |
|---|---|
| `TypeCorrectness` | `Spec => []TypeOK` |
| `Safety` | `Spec => [](ResetSweeps /\ UsbResetSweeps /\ InhibitHoldsWhenMasked)` |
| `StatLeds` | `Spec => []StatLedMeansInhibited` |
| `StaleCheck` | `Spec => OnlyStaleCheckDefeatsInhibit` |
| `SwitchedForCause` | `Spec => OutputsSwitchForCause` |
| `Refinement` | `Spec => KeepsContract` |

Five facts strengthen the safety invariants:

* `RoutineMatchesPc`: a routine is under way exactly when `pc` points into one, and the
  statements of `reset_board` belong to `reset_board`; without it nothing is known of
  `out` at a given `pc`.
* `RetripIsOff`: while `reset_board` is at an output whose flag it has just cleared, a
  flag that is up again was raised by a trip, and then the output is off. It is why a
  reset may skip that output and still have swept it.
* `MaskedWriteIsChecked`: once SysTick is stopped, no interrupt can invalidate the check
  before the write, so the write finds the output not inhibited.
* `CommandNamesOutput`: while `enable_output` runs for a command, the call site is the one
  that may switch that output. It carries the refusal of `msg_handler.c:57` from the
  call to the write, which `SwitchedForCause` looks at.
* `TypeOK`, which bounds `out`.

The action properties follow from `IInv` by looking at each action once: the
proof of `StaleCheck` is the statement that the race of run `outputs_stale_check` is
the *only* one. `UsbResetSweeps` and `InhibitHoldsWhenMasked` have no run of their own: a
bus reset has switched off what it has passed, inhibited outputs excepted, and with SysTick
stopped no inhibited output comes on. `Refinement` takes the steps one by one
(`StepRefines`): most switch, bar or release one output or stutter, and the only one that
needs the invariant is the write of `enable_output`, which in an output that is inhibited
meanwhile is a late write of the contract while the board serves (lemma `LateWrites`), and
cannot happen otherwise because of `MaskedWriteIsChecked`.

### OvercurrentProofs: any outputs, pairs, periods, counter widths, holdoffs, loads and readings

| Theorem | Statement |
|---|---|
| `TypeCorrectness` | `Spec => []TypeOK` |
| `NoOutputTripsOnAGlitch` | `Spec => NoGlitchTrip` |
| `OverloadsEnd` | `Spec => NoLastingOverload` |
| `BoardNeverTripsOnAGlitch` | `Spec => NoGlitchShutdown` |
| `OverdrawIsNoticed` | `Spec => OverdrawStopsBoard` |
| `FlatBatteryIsNoticed` | `HoldoffsLeaveStep` implies `Spec => FlatBatteryStopsBoard` |
| `CurrentsExact` | for every code, `adc_to_current` is the whole milliamperes of 210375/28672 to a code; neither it nor the sum of two overflows |
| `LimitsAreCodes` | it is monotonic; 10 A and, for both halves together, 20 A are exceeded from the code 1364 on |
| `VoltageExact` | the voltage is the register's in steps of 4 mV, and negative from 16.384 V on |

A counter runs every tick on samples that are taken every `Period(o)` ticks, so the
invariant compares both with time. `Since(o)` is the age of the last sample, computed from
the phase, and `Ticks` the length of a streak of samples in ticks. `NotEarly` says that
no counter exceeds the ticks its output has been over; `NotLate` that the counter of an
overloaded output lags behind the overload by less than one period, and that it
is not about to wrap. `BoardNotEarly`, `BoardNotLate` and `FlatNotEarly` say the same of the
battery's three counters. `Clocked` (the two phase counters agree) and `Sampled` (a
streak is under way exactly for the outputs whose last sample is over) tie them to
the readings. The arithmetic of one counter over one tick is one lemma, `Debounce`, used for
every counter.

`HoldoffsLeaveStep` says that no holdoff is within `UvloStep` of the counter's range. Without
it the statement is false: that is run `overcurrent_uvlo`.

### HousekeepingProofs: any period, any threshold above 0 degrees, any codes of the sensor

| Theorem | Statement |
|---|---|
| `TypeCorrectness` | `Spec => []TypeOK` |
| `FanFollowsTemperature` | `Spec => []FanKeepsUp` |
| `PressesReportedOnce` | `Spec => []NoPressReportedTwice` |
| `FanNeverChatters` | `Spec => FanSwitchesForCause` |
| `PressesSurvive` | `Spec => PressLostOnlyInGapOrByReset` |
| `TemperatureWithinADegree` | `adc_to_temp` is off by less than a degree, below zero too |
| `FanBand` | above 40 degrees from the code 1489 on, below them up to 1464 |

`FanFollows` relates how long it has been hot or cool to the ticks since the last reading
(a streak older than the reading has moved the fan), and `FanLeftSet` says how the fault
loops find the fan. `DegreesAreRead` is where the C division comes in: what is a full degree above
the threshold reads as above it, and nothing else does. For a threshold of 0 or below that is false, because the
division rounds towards zero there, hence the assumption; the code's is 40.

### BuzzerProofs: any notes, any start beep, any number of commands

| Theorem | Statement |
|---|---|
| `TypeCorrectness` | `Spec => []TypeOK` |
| `NoToneIsStuck` | `Spec => []NoStuckTone` |

`NoStuckTone` is not inductive: `ClearTicks` zeroes the count and leaves the timer alone.
`StoppedFirst` says that the timer is off at that statement, and `LoopsAbandonMain` that
the fault loops leave no statement behind that could start it.

### LedsProofs

| Theorem | Statement |
|---|---|
| `TypeCorrectness` | `Spec => []TypeOK` |
| `LedsShowTheLastCall` | `Spec => []LedsFollowCommands` |

The module has no constants; what the proof adds is the reason. `Follows(l)` is a statement
about the rest of the program: the last pending write to the flag and the last pending
write to the pin of LED `l` are those of the last call for it, no flag is written
after the pin it would let the interrupt change, and an LED without pending writes
already shows what was asked.

### CurrentSenseProofs

| Theorem | Statement |
|---|---|
| `TypeCorrectness` | `Spec => []TypeOK` |
| `SuccessHasItsOwnValues` | `Spec => []SuccessIsMeasured` |
| `SuccessHasCalibration` | `Spec => []SuccessIsCalibrated` |
| `RegulatorNeedsBattery` | `Spec => []RegulatorAfterBattery` |

This module has no constants either, and two million states. `InOrder` says that what is left
of the program is the end of a round: each transfer is followed by the one that the code
makes next. From it follow, for the transfer at the head, what has been written
(`Prepared`), which register the sensor shows and what the result under way contains
(`Selected`), whose the offsets are (`Nulled`), and whose the stored readings
(`Measured`). `BatteryFirst` says between which two transfers the regulator's reading may
be successful without the battery's.

### HostProofs: any buffer, packets and replies; any lines, words and numbers

| Theorem | Statement |
|---|---|
| `TypeCorrectness` | `Spec => []TypeOK` |
| `InterruptionHidesRest` | `Spec => []InterruptedLineHidesRest` |
| `Refinement` | `Spec => LinesAreTheStream` |
| `CommandsTypeCorrectness` | `CommandsSpec => []CommandsTypeOK` |
| `GetAnswersSet` | `CommandsSpec => []HoldoffsReadBack` |
| `RefusedLinesDoNothing` | `CommandsSpec => OnlyAcknowledgedLinesAct` |

For `UsbLines`, `Ended` says that a NUL follows the received bytes, `Found` that
`handle_msg` runs on a line, and `OneLine` what the buffer holds at each point of the loop
while the host sends one line at a time: no newline but the one that has been found. `Abandoned` is what a shutdown leaves to the polls of
`usb_deinit`: `Shielded`, a NUL before any newline. `Refinement` is again one step at a
time (`StepRefines`): a packet appends to the stream (`ReceiveExtends`), finding a newline hands over
its first line (`StartDelivers`), and `memmove` keeps the rest as it is
(`FinishKeepsStream`). It assumes that packets are bytes of text, that is without NUL.

For `Commands` the invariant only adds that the five variables are those of the last
`SET` that was acknowledged (`Stored`). No property of the words is used but that those
beginning with a digit stand for natural numbers.

### MainLoopProofs: all times with `Budget < Period` (`BudgetAssumption`)

| Theorem | Statement |
|---|---|
| `TypeCorrectness` | `Spec => []TypeOK` |
| `WatchdogSparesHealthy` | `Spec => []HealthyBoardIsFed` |
| `DarkStartUp` | `Spec => []StartUpIsDark` |

Its `IInv` adds three facts to the types. `WithinBudget` is the argument: in every
stage, the milliseconds since the last feed that no bus wait accounts for, together
with those `left`, do not exceed what the stage may take (`Beat`), so the sum over the
longest path is `Budget`. `ArmedFromStart` says in which stages the watchdog runs, and
`DarkUntilArmed` that every output is off from `disable_all_outputs` until it does.

### What the proofs changed in the model

* `HoldoffsReadBack` was about every reply to a line whose second word is `DELAY_COEFF`.
  That is false for the line `ECHO:DELAY_COEFF`, which TLC's lines did not include; the
  property now names `*SYS`, and the run has that line.
* `Housekeeping` assumes a threshold above 0 degrees, see above.
* `UsbLines` names the `Bytes` that packets are made of. The types of its buffer and line
  are stated, as are those of `note` and `holdoff` in `Commands`.
* `FlatBatteryStopsBoard` needs `HoldoffsLeaveStep`, now a named hypothesis; the
  configuration of run `overcurrent` satisfies it, that of `overcurrent_uvlo` does not.

### Only model-checked

Liveness: `ResetDelivers`, `HeldBusEndsInReset`, `StartUpEnds`, `LoopEnds`,
`EventuallyQuiet`, `ReadingsRecover`. The prover handles neither fairness
(`ENABLED`) nor the well-founded arguments these need, so they hold on the instances of
section 3. Everything else that a passing run checks is proved.


## 6 Where the code and its documentation differ

Beside the three of section 3, modelling the code showed these. All are in the
modules as the code has them, and the properties that they touch say where they
stop (`PressLostOnlyInGapOrByReset` at a cleared flag, `UsbResetSweeps` at an inhibited output, `LinesAreTheStream` at a second
newline); they have no run of their own.

* `BTN:START:GET?` reads a button's flag and clears it some statements later; a press in
  between is lost (`msg_handler.c:179`; README.md:54 "Detect if the internal and external
  start button has been pressed since this command was last invoked").
* `*RESET` clears both flags, and a press that no query has reported yet is forgotten
  (`output.c:322`; README.md:54, as above, and README.md:53 does not name the buttons among
  what is reset). `PressLostOnlyInGapOrByReset` shows that these two are the only ways to lose a press
  that a tick has latched.
* The fan's hysteresis is one degree, 24 codes of the ADC (theorem `FanBand`); the comment
  at `systick.c:64` says "2 degree hysteresis".
* `NOTE:GET?` prints a duration of 2^31 ms or more as a negative number
  (`msg_handler.c:205`; README.md:65 gives the reply as an int32, and README.md:64 the
  duration too, but the code accepts up to 2^32 - 1).
* A bus reset goes through `enable_output`, which returns early for an inhibited output.
  An output that is on *and* inhibited (by the race above) survives it, although
  `output.c:293` says "Switch off all outputs except brain" (`output.c:296`).
* A `NOTE` waiting in the endpoint when `handle_uvlo` shuts the board down is executed by
  `usb_deinit`, after the buzzer has been stopped and SysTick too: the loop for a flat
  battery never touches the buzzer, and the tone does not end (`output.c:199`).
* The bus reset that `usb_deinit` provokes lights the run LED again after
  `disable_all_outputs` has cleared it ("Disable run LED", `output.c:284`).
* `buzzer_note` enables the timer before it stores the duration. If the last tick of the
  previous note comes in between, the new note is counted down in silence
  (`buzzer.c:46`; README.md:64 "Overwrites previous note"). `EventuallyQuiet` covers
  this path.
* `NOTE:GET?` reads frequency and remaining time at two moments and may report a frequency
  with a time of 0 (`msg_handler.c:203`; README.md:65 "Both values are 0 if the buzzer is
  not running").
* With several lines in one packet, bytes of old lines stay behind the last one without a
  NUL before them, and the search for the next newline may take them for a command
  (`cdcacm.c:299-303`; README.md:43 "each command is its own line"). `LoopEnds` shows
  that this ends. The replies to all lines of a packet share one buffer of 64 bytes,
  and once they are longer than that `max_len` is negative, which bounds nothing.
* After a failed transfer `measure_current_sense` computes a voltage from what the buffer
  held, and `BATT:V?` reports it without a look at `success` (`i2c.c:268`,
  `msg_handler.c:160`). The protection does look.
* `OUT:<n>:SET:1` on an inhibited output is acknowledged and switches nothing
  (`msg_handler.c:66`).
* The bounds check of a note's duration compares `strtoul`'s result with the number it
  saturates at and so is never true (`msg_handler.c:220`).
* `*RESET` keeps the holdoffs and the fan override (`output.c:307`).
* For LED_FLAT `handle_led_flash` would toggle the port of the other LEDs (`led.c:177`);
  LED_FLAT is never flashed that way.

## 7 What is not modelled

* **Time below a millisecond**: duration of a handler and of a bus transfer. A handler is
  assumed to end before the next tick unless a bus is held.
* **The watchdog's oscillator**: its period is exact in `MainLoop`; the hardware's may
  be off by a good part of it, which the margin of the budget does not cover.
* **The timer's period** of a tone (`buzzer.c:42`): below 8 Hz it does not fit into the
  timer's register. The pitch is no state of the program.
* **Optimisation of the compiler**: shared variables are taken to be accessed in program
  order, once per access in the source. They are not all `volatile`, so a build may
  do otherwise within a function; across the calls that matter here it does not.
* **Pins and clocks**: RCC, AFIO, GPIO modes, the ADC's set-up: register writes without
  a state of the program.
* **libopencm3**: a submodule that is not in the tree; the stack appears as the polls
  that call the callbacks and the endpoint that holds one packet.
* **USB descriptors and control requests** other than DFU_DETACH: constant tables.
* **bootloader/**: of the stub, `MainLoop` has the 5 V output and the choice to stay or to
  start the program; the bootloader around it is another repository's. That it ends in a
  reset when entered with the watchdog running is an assumption (it is not known to feed it).
* **scripts/** and build files: sequential tools on the host.
* **Wording of replies**, *IDN?'s text and ECHO's copy.

## 8 Plan

1. *Composition* of the shutdown across modules: one `usb_deinit` whose pending line is
   interpreted by `Commands` and arrives through `UsbLines`, for the outputs, the buzzer
   and the LEDs at once. `HostProofs` extends both already; what is missing is the
   tokenising between the bytes of the one and the words of the other.
2. *Proofs*: that what `CurrentSense` establishes (`RegulatorAfterBattery`) is what
   `Overcurrent` takes for granted of its readings.
