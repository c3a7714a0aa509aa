--------------------------------- MODULE Leds ---------------------------------
(***************************************************************************)
(* The run, error and battery-flat LEDs of src/src/led.c.  The main thread *)
(* sets, clears and toggles them by commands and on USB events; once a     *)
(* second the SysTick interrupt toggles those that flash; a shutdown takes *)
(* them over.  (The error LEDs of the channels are in module Outputs.)     *)
(***************************************************************************)
EXTENDS Integers, Sequences

LEDs     == {"RUN", "ERROR", "FLAT"}
Commanded == {"RUN", "ERROR"}      \* the LEDs that commands can name

VARIABLES
  lit,        \* the LED's pin; the level is inverted in hardware
  flashing,   \* led_..._flashing
  program,    \* statements the main thread has still to execute
  context,    \* which code has the processor
  listening,  \* usb_poll may find a command, see module Buzzer
  wanted      \* history: what the last call for each LED asked for

vars == <<lit, flashing, program, context, listening, wanted>>

Deinit   == {"overcurrent_deinit", "flat_deinit", "bootloader_deinit"}
Contexts == {"running", "overcurrent", "flat", "bootloader"} \cup Deinit
After(c) == CASE c = "overcurrent_deinit" -> "overcurrent"
              [] c = "flat_deinit"        -> "flat"
              [] OTHER                    -> "bootloader"

-----------------------------------------------------------------------------
(***************************************************************************)
(* The statements of set_led, clear_led, toggle_led and set_led_flash that *)
(* write to memory or to a port, in their order.                           *)
(***************************************************************************)
Stmt(do, led) == [do |-> do, led |-> led]
Actions == {"on", "off", "flash"}

(* Slip: the pin is written before the flashing flag is cleared. *)
Statements_PinFirst(action, led) ==
  CASE action = "on"    -> <<Stmt("light", led), Stmt("unflash", led)>>
    [] action = "off"   -> <<Stmt("dark", led), Stmt("unflash", led)>>
    [] action = "flash" -> <<Stmt("toggle", led), Stmt("flash", led)>>

Statements(action, led) ==
  CASE action = "on"    -> <<Stmt("unflash", led), Stmt("light", led)>>
    [] action = "off"   -> <<Stmt("unflash", led), Stmt("dark", led)>>
    [] action = "flash" -> <<Stmt("unflash", led), Stmt("toggle", led), Stmt("flash", led)>>

Both(action) == Statements(action, "RUN") \o Statements(action, "ERROR")

Do(s) ==
  /\ lit' = [lit EXCEPT ![s.led] =
               CASE s.do = "light" -> TRUE [] s.do = "dark" -> FALSE
                 [] s.do = "toggle" -> ~@  [] OTHER -> @]
  /\ flashing' = [flashing EXCEPT ![s.led] =
               CASE s.do = "unflash" -> FALSE [] s.do = "flash" -> TRUE [] OTHER -> @]

(* led_init has put every LED out, init has lit the error LED with            *)
(* disable_all_outputs, and main sets both after reset_board has cleared them. *)
Init ==
  /\ lit = [l \in LEDs |-> l = "ERROR"] /\ flashing = [l \in LEDs |-> FALSE]
  /\ program = Both("off") \o Both("on")
  /\ context = "running" /\ listening = FALSE
  /\ wanted = [l \in LEDs |-> IF l = "FLAT" THEN "off" ELSE "on"]

-----------------------------------------------------------------------------
(***************************************************************************)
(* Calls by the main thread, from usb_poll.                                *)
(***************************************************************************)

(* Slip: a callback is entered while another one is under way. *)
Call_Nested(statements, requests) ==
  /\ program' = statements \o program /\ wanted' = requests
  /\ UNCHANGED <<lit, flashing, context>>

Call(statements, requests) ==
  /\ program = <<>>
  /\ program' = statements /\ wanted' = requests
  /\ UNCHANGED <<lit, flashing, context>>

(* LED:<l>:SET:<0, 1 or F> *)
LedSet(action, led) ==
  /\ listening /\ context \in {"running"} \cup Deinit
  /\ Call(Statements(action, led), [wanted EXCEPT ![led] = action])
  /\ UNCHANGED listening

(* The RESET command puts both LEDs out, usb_reset_callback lights both, and  *)
(* cdcacm_set_config puts out the error LED.                                  *)
BoardReset ==
  /\ listening /\ context \in {"running"} \cup Deinit
  /\ Call(Both("off"), [wanted EXCEPT !["RUN"] = "off", !["ERROR"] = "off"])
  /\ UNCHANGED listening

BusReset ==
  /\ context = "running" => listening
  /\ context \in {"running"} \cup Deinit
  /\ Call(Both("on"), [wanted EXCEPT !["RUN"] = "on", !["ERROR"] = "on"])
  /\ UNCHANGED listening

Enumerated ==
  /\ listening /\ context = "running"
  /\ Call(Statements("off", "ERROR"), [wanted EXCEPT !["ERROR"] = "off"])
  /\ UNCHANGED listening

MainStep ==
  /\ program # <<>>
  /\ Do(Head(program)) /\ program' = Tail(program)
  /\ listening' = (listening \/ (context = "running" /\ Tail(program) = <<>>))
  /\ UNCHANGED <<context, wanted>>

-----------------------------------------------------------------------------
(* The SysTick interrupt, once a second.  It would toggle the flat LED on the *)
(* wrong port, but nothing ever sets that LED's flag.                         *)
handle_led_flash ==
  /\ context = "running"
  /\ lit' = [l \in LEDs |-> IF flashing[l] /\ l # "FLAT" THEN ~lit[l] ELSE lit[l]]
  /\ UNCHANGED <<flashing, program, context, listening, wanted>>

(* disable_all_outputs, from the interrupt or on the way to the bootloader;   *)
(* whatever the main thread was executing is abandoned.                       *)
Shutdown(c, flat) ==
  /\ lit' = [lit EXCEPT !["RUN"] = FALSE, !["ERROR"] = TRUE, !["FLAT"] = flat]
  /\ flashing' = [flashing EXCEPT !["RUN"] = FALSE, !["ERROR"] = FALSE]
  /\ wanted' = [wanted EXCEPT !["RUN"] = "off", !["ERROR"] = "on", !["FLAT"] = IF flat THEN "on" ELSE "off"]
  /\ program' = <<>> /\ context' = c
  /\ UNCHANGED listening

set_global_overcurrent == context = "running" /\ Shutdown("overcurrent_deinit", FALSE)
handle_uvlo            == context \in {"running", "overcurrent"} /\ Shutdown("flat_deinit", TRUE)
jump_to_bootloader     ==
  context = "running" /\ listening /\ program = <<>> /\ Shutdown("bootloader_deinit", FALSE)

usb_deinit_return ==
  /\ context \in Deinit /\ program = <<>> /\ context' = After(context)
  /\ UNCHANGED <<lit, flashing, program, listening, wanted>>

(* The loop of handle_uvlo, every half second; the other loops leave the LEDs. *)
FlatLoop ==
  /\ context = "flat" /\ lit' = [lit EXCEPT !["FLAT"] = ~@]
  /\ wanted' = [wanted EXCEPT !["FLAT"] = IF lit["FLAT"] THEN "off" ELSE "on"]
  /\ UNCHANGED <<flashing, program, context, listening>>

OtherLoop == context \in {"overcurrent", "bootloader"} /\ UNCHANGED vars

Host ==
  \/ \E action \in Actions, led \in Commanded : LedSet(action, led)
  \/ BoardReset \/ BusReset \/ Enumerated \/ jump_to_bootloader
Next ==
  \/ Host \/ MainStep \/ handle_led_flash \/ set_global_overcurrent \/ handle_uvlo
  \/ usb_deinit_return \/ FlatLoop \/ OtherLoop

Spec == Init /\ [][Next]_vars
-----------------------------------------------------------------------------
TypeOK ==
  /\ lit \in [LEDs -> BOOLEAN] /\ flashing \in [LEDs -> BOOLEAN]
  /\ Len(program) <= 8 /\ context \in Contexts /\ listening \in BOOLEAN
  /\ \A i \in 1 .. Len(program) : program[i].led \in LEDs
  /\ wanted \in [LEDs -> Actions]

Busy(led) == \E i \in 1 .. Len(program) : program[i].led = led

(* An LED shows what the last call for it asked for, and LED:...:GET? answers *)
(* F exactly for those that flash: the interrupt that toggles an LED never    *)
(* gets between clearing its flag and writing its pin.                        *)
LedsFollowCommands ==
  \A l \in LEDs : ~Busy(l) =>
    /\ flashing[l] <=> wanted[l] = "flash"
    /\ wanted[l] # "flash" => (lit[l] <=> wanted[l] = "on")
=============================================================================
