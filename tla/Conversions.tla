----------------------------- MODULE Conversions -----------------------------
(***************************************************************************)
(* The numbers of the program: what src/src/adc.c and src/src/i2c.c make   *)
(* of the readings of their converters, at the width of the C types.       *)
(***************************************************************************)
EXTENDS Integers

UINT16_MAX == 65535

AdcValues == 0 .. 4095         \* right-aligned conversions of 12 bits
Registers == 0 .. UINT16_MAX   \* two bytes received from an INA219

uint16_t(n) == n % 65536
int16_t(n)  == IF n % 65536 < 32768 THEN n % 65536 ELSE (n % 65536) - 65536

(* The division of C truncates towards zero, that of TLA+ downwards. *)
Quotient(a, b) == IF a >= 0 THEN a \div b ELSE -((-a) \div b)

(* Degrees: 24.2 codes each, from 496 at 0 degrees *)
adc_to_temp(adc_val) == int16_t(Quotient((adc_val - 496) * 275, 6656))

(* Milliamperes: 7 + 9671/28672 to a code *)
adc_to_current(adc_val) == uint16_t(7 * adc_val + uint16_t((adc_val * 9671) \div 28672))

(* save_current_values: the two converters of a phase share one output. *)
SumOfHalves(current1, current2) == uint16_t(current1 + current2)

(* measure_current_sense: the current register less the offset, as an int32_t *)
Current(reg, offset) == int16_t(reg) - offset

(* ... of which the battery's counts in steps of 10 mA ... *)
BatteryCurrent(reg, offset) == 10 * Current(reg, offset)

(* ... and the voltage register less its three status bits, shifted right as  *)
(* a signed number.                                                           *)
Voltage(reg) == int16_t(reg - (reg % 8)) \div 2
=============================================================================
