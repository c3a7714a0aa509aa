------------------------------- MODULE Commands -------------------------------
(***************************************************************************)
(* The command interpreter of src/src/msg_handler.c: which lines it        *)
(* accepts, what a line does to the board and how it is answered.  A line  *)
(* is the sequence of its words, that is, of the non-empty pieces between  *)
(* its colons, as strtok finds them.                                       *)
(*                                                                         *)
(* One line is one step.  What the SysTick interrupt may do in the middle  *)
(* of one is the subject of modules Outputs, Buzzer, Leds and Housekeeping;*)
(* here it acts between two lines.  The wording of replies is left out.    *)
(* The parts of the specification are named after the module, so that      *)
(* another can extend it together with UsbLines, where the lines come from.*)
(***************************************************************************)
EXTENDS Integers, Sequences

CONSTANTS
  NumOutputs, BRAIN_OUTPUT,
  Lines,          \* the lines the host may send, as sequences of words
  NumberOf,       \* the number each word that begins with a digit stands for
  Ones, Zeros,    \* words that begin with the character 1, or 0
  UINT32_MAX,     \* also ULONG_MAX, the most that strtoul returns
  DefaultHoldoff, \* the holdoffs at start-up, in the order of the commands
  NoLine          \* stands for the line while the interrupt acts

UINT16_MAX == 65535
INT32_MAX  == UINT32_MAX \div 2
OUT_5V     == NumOutputs - 1
output_t   == 0 .. OUT_5V
MaxFrequency == 10000   \* of buzzer_note

ASSUME CommandsAssumption ==
  /\ NumOutputs \in Nat /\ BRAIN_OUTPUT \in 0 .. OUT_5V - 1
  /\ \A word \in DOMAIN NumberOf : NumberOf[word] \in Nat
  /\ Ones \cup Zeros \subseteq DOMAIN NumberOf /\ Ones \cap Zeros = {}
  /\ UINT32_MAX \in Nat /\ UINT32_MAX > UINT16_MAX
  /\ DefaultHoldoff \in [1 .. 5 -> 0 .. UINT16_MAX - 1]

VARIABLES
  gpio, output_inhibited,
  led,             \* what get_led_state returns: 0, 1, or 2 for flashing
  pressed,         \* int_button_pressed and ext_button_pressed
  note,            \* buzzer_frequency and buzzer_ticks_remaining
  holdoff,         \* the five ..._DELAY variables
  fan_override,
  reply,           \* the last line and the answer to it
  coefficients     \* history: arguments of the last DELAY_COEFF:SET acknowledged

board == <<gpio, output_inhibited, led, pressed, note, holdoff, fan_override>>
commandsVars  == <<board, reply, coefficients>>

Bit(b) == IF b THEN 1 ELSE 0

(* The five ..._DELAY variables, with values in the order of the commands. *)
Holdoffs(c) == [ADC |-> c[1], BATT |-> c[2], REG |-> c[3], UVLO |-> c[4], NEG |-> c[5]]

CommandsInit ==
  /\ gpio = [o \in output_t |-> o = BRAIN_OUTPUT]
  /\ output_inhibited = [o \in output_t |-> FALSE]
  /\ led = [RUN |-> 1, ERR |-> 1] /\ pressed = [int |-> FALSE, ext |-> FALSE]
  /\ note = [freq |-> 523, remaining |-> 0]
  /\ holdoff = Holdoffs(DefaultHoldoff)
  /\ fan_override = FALSE
  /\ reply = [to |-> NoLine, kind |-> "none", values |-> <<>>]
  /\ coefficients = DefaultHoldoff

-----------------------------------------------------------------------------
(***************************************************************************)
(* Words.  A word that is missing is equal to none that the code compares  *)
(* with: get_next_arg refuses it, and for an empty line and for ECHO,      *)
(* which pass on a NULL, the program compares with and copies what it      *)
(* finds at address 0, where no command and no string of any length is.    *)
(***************************************************************************)
Missing == ""
Word(msg, i) == IF i <= Len(msg) THEN msg[i] ELSE Missing

isdigit(word) == word \in DOMAIN NumberOf
strtoul(word) == IF NumberOf[word] <= UINT32_MAX THEN NumberOf[word] ELSE UINT32_MAX

Respond(msg, kind, values) == reply' = [to |-> msg, kind |-> kind, values |-> values]
Ack(msg)          == Respond(msg, "ACK", <<>>)
Nack(msg)         == Respond(msg, "NACK", <<>>) /\ UNCHANGED <<board, coefficients>>
Value(msg, values) == Respond(msg, "value", values) /\ UNCHANGED coefficients

(* itoa prints an int: of a uint32_t, the upper half comes out negative. *)
itoa(n) == IF n > INT32_MAX THEN n - (UINT32_MAX + 1) ELSE n

enable_output(o, enable) ==
  gpio' = IF output_inhibited[o] THEN gpio ELSE [gpio EXCEPT ![o] = enable]

IsSwitch(word) == word \in Ones \cup Zeros

MaySet(o, word) == o # BRAIN_OUTPUT /\ IsSwitch(word)

OutCommand(msg) ==
  LET n == IF isdigit(Word(msg, 2)) THEN strtoul(Word(msg, 2)) ELSE NumOutputs
  IN
  CASE n > OUT_5V -> Nack(msg)
    [] n <= OUT_5V /\ Word(msg, 3) = "SET" ->
         IF MaySet(n, Word(msg, 4))
         THEN /\ enable_output(n, Word(msg, 4) \in Ones) /\ Ack(msg)
              /\ UNCHANGED <<output_inhibited, led, pressed, note, holdoff, fan_override, coefficients>>
         ELSE Nack(msg)
    [] n <= OUT_5V /\ Word(msg, 3) = "GET?" -> Value(msg, <<Bit(gpio[n])>>) /\ UNCHANGED board
    [] n <= OUT_5V /\ Word(msg, 3) = "I?" -> Value(msg, <<>>) /\ UNCHANGED board
    [] OTHER -> Nack(msg)

LedCommand(msg) ==
  LET l == Word(msg, 2)
      s == CASE Word(msg, 4) = "0" -> 0 [] Word(msg, 4) = "1" -> 1
             [] Word(msg, 4) = "F" -> 2 [] OTHER -> 3
  IN
  CASE l \notin {"RUN", "ERR"} -> Nack(msg)
    [] l \in {"RUN", "ERR"} /\ Word(msg, 3) = "SET" /\ s # 3 ->
         /\ led' = [led EXCEPT ![l] = s] /\ Ack(msg)
         /\ UNCHANGED <<gpio, output_inhibited, pressed, note, holdoff, fan_override, coefficients>>
    [] l \in {"RUN", "ERR"} /\ Word(msg, 3) = "GET?" -> Value(msg, <<led[l]>>) /\ UNCHANGED board
    [] OTHER -> Nack(msg)

BattCommand(msg) ==
  IF Word(msg, 2) \in {"I?", "V?"} THEN Value(msg, <<>>) /\ UNCHANGED board ELSE Nack(msg)

(* Slip: the presses are forgotten before the command is known to be GET?. *)
BtnCommand_ClearFirst(msg) ==
  IF Word(msg, 2) = "START"
  THEN /\ Respond(msg, IF Word(msg, 3) = "GET?" THEN "value" ELSE "NACK",
                  <<Bit(pressed.int), Bit(pressed.ext)>>)
       /\ pressed' = [int |-> FALSE, ext |-> FALSE]
       /\ UNCHANGED <<gpio, output_inhibited, led, note, holdoff, fan_override, coefficients>>
  ELSE Nack(msg)

BtnCommand(msg) ==
  IF Word(msg, 2) = "START" /\ Word(msg, 3) = "GET?"
  THEN /\ Value(msg, <<Bit(pressed.int), Bit(pressed.ext)>>)
       /\ pressed' = [int |-> FALSE, ext |-> FALSE]
       /\ UNCHANGED <<gpio, output_inhibited, led, note, holdoff, fan_override>>
  ELSE Nack(msg)

buzzer_note(freq, dur) ==
  note' = IF freq = 0 \/ dur = 0 THEN [note EXCEPT !.remaining = 0]
          ELSE [freq |-> IF freq > MaxFrequency THEN MaxFrequency ELSE freq, remaining |-> dur]

NoteCommand(msg) ==
  CASE Word(msg, 2) = "GET?" ->
         /\ Value(msg, IF note.remaining = 0 THEN <<0, 0>> ELSE <<itoa(note.freq), itoa(note.remaining)>>)
         /\ UNCHANGED board
    [] /\ isdigit(Word(msg, 2)) /\ isdigit(Word(msg, 3))
       /\ strtoul(Word(msg, 2)) <= UINT16_MAX /\ ~(strtoul(Word(msg, 3)) > UINT32_MAX) ->
         /\ buzzer_note(strtoul(Word(msg, 2)), strtoul(Word(msg, 3))) /\ Ack(msg)
         /\ UNCHANGED <<gpio, output_inhibited, led, pressed, holdoff, fan_override, coefficients>>
    [] OTHER -> Nack(msg)

StatusCommand(msg) ==
  /\ Value(msg, [i \in 1 .. NumOutputs |-> Bit(output_inhibited[i - 1])])
  /\ UNCHANGED board

(* reset_board *)
ResetCommand(msg) ==
  /\ output_inhibited' = [o \in output_t |-> FALSE]
  /\ gpio' = [o \in output_t |-> o = BRAIN_OUTPUT]
  /\ led' = [RUN |-> 0, ERR |-> 0]
  /\ note' = [note EXCEPT !.remaining = 0]
  /\ pressed' = [int |-> FALSE, ext |-> FALSE]
  /\ Ack(msg)
  /\ UNCHANGED <<holdoff, fan_override, coefficients>>

-----------------------------------------------------------------------------
(***************************************************************************)
(* The commands for internal use.                                          *)
(***************************************************************************)
(* Slip: the bound of the type, as buzzer_note's check has it. *)
IsCoefficient_TooBig(word) == isdigit(word) /\ strtoul(word) <= UINT16_MAX

IsCoefficient(word) == isdigit(word) /\ strtoul(word) <= UINT16_MAX - 1

(* Arguments are checked one after the other before any of them is stored. *)
Coefficients(msg) == [i \in 1 .. 5 |-> strtoul(Word(msg, 3 + i))]

(* Slip: the holdoffs are stored in the order of their declarations. *)
StoreHoldoffs_Declared(c) ==
  holdoff' = [ADC |-> c[1], BATT |-> c[2], REG |-> c[3], NEG |-> c[4], UVLO |-> c[5]]

StoreHoldoffs(c) == holdoff' = Holdoffs(c)

(* Slip: an argument is stored as soon as it has been checked. *)
DelayCommand_StoreAsChecked(msg) ==
  LET Good(i) == \A j \in 1 .. i : IsCoefficient(Word(msg, 3 + j))
      old == <<holdoff.ADC, holdoff.BATT, holdoff.REG, holdoff.UVLO, holdoff.NEG>>
  IN
  CASE Word(msg, 3) = "SET" ->
         /\ StoreHoldoffs([i \in 1 .. 5 |-> IF Good(i) THEN strtoul(Word(msg, 3 + i)) ELSE old[i]])
         /\ Respond(msg, IF Good(5) THEN "ACK" ELSE "NACK", <<>>)
         /\ coefficients' = IF Good(5) THEN Coefficients(msg) ELSE coefficients
         /\ UNCHANGED <<gpio, output_inhibited, led, pressed, note, fan_override>>
    [] Word(msg, 3) = "GET?" -> Value(msg, old) /\ UNCHANGED board
    [] OTHER -> Nack(msg)

DelayCommand(msg) ==
  CASE Word(msg, 3) = "SET" /\ \A i \in 1 .. 5 : IsCoefficient(Word(msg, 3 + i)) ->
         /\ StoreHoldoffs(Coefficients(msg)) /\ Ack(msg)
         /\ coefficients' = Coefficients(msg)
         /\ UNCHANGED <<gpio, output_inhibited, led, pressed, note, fan_override>>
    [] Word(msg, 3) = "GET?" ->
         /\ Value(msg, <<holdoff.ADC, holdoff.BATT, holdoff.REG, holdoff.UVLO, holdoff.NEG>>)
         /\ UNCHANGED board
    [] OTHER -> Nack(msg)

BrainCommand(msg) ==
  IF Word(msg, 3) = "SET" /\ IsSwitch(Word(msg, 4))
  THEN /\ enable_output(BRAIN_OUTPUT, Word(msg, 4) \in Ones) /\ Ack(msg)
       /\ UNCHANGED <<output_inhibited, led, pressed, note, holdoff, fan_override, coefficients>>
  ELSE Nack(msg)

FanCommand(msg) ==
  IF Word(msg, 3) = "SET" /\ IsSwitch(Word(msg, 4))
  THEN /\ fan_override' = (Word(msg, 4) \in Ones) /\ Ack(msg)
       /\ UNCHANGED <<gpio, output_inhibited, led, pressed, note, holdoff, coefficients>>
  ELSE Nack(msg)

SysCommand(msg) ==
  CASE Word(msg, 2) = "DELAY_COEFF" -> DelayCommand(msg)
    [] Word(msg, 2) = "BRAIN"       -> BrainCommand(msg)
    [] Word(msg, 2) = "FAN"         -> FanCommand(msg)
    [] OTHER                         -> Nack(msg)

(* Answers without a value that matters here: *IDN? and ECHO. *)
TextCommand(msg) == Value(msg, <<>>) /\ UNCHANGED board

handle_msg(msg) ==
  CASE Word(msg, 1) = "OUT"      -> OutCommand(msg)
    [] Word(msg, 1) = "LED"      -> LedCommand(msg)
    [] Word(msg, 1) = "BATT"     -> BattCommand(msg)
    [] Word(msg, 1) = "BTN"      -> BtnCommand(msg)
    [] Word(msg, 1) = "NOTE"     -> NoteCommand(msg)
    [] Word(msg, 1) \in {"*IDN?", "ECHO"} -> TextCommand(msg)
    [] Word(msg, 1) = "*STATUS?" -> StatusCommand(msg)
    [] Word(msg, 1) = "*RESET"   -> ResetCommand(msg)
    [] Word(msg, 1) = "*SYS"     -> SysCommand(msg)
    [] OTHER                      -> Nack(msg)

-----------------------------------------------------------------------------
(***************************************************************************)
(* The SysTick interrupt, between two lines.                               *)
(***************************************************************************)
Interrupt == reply' = [to |-> NoLine, kind |-> "none", values |-> <<>>] /\ UNCHANGED coefficients

set_overcurrent(o) ==
  /\ gpio' = [gpio EXCEPT ![o] = FALSE]
  /\ output_inhibited' = [output_inhibited EXCEPT ![o] = TRUE]
  /\ Interrupt /\ UNCHANGED <<led, pressed, note, holdoff, fan_override>>

sample_buttons ==
  /\ pressed' \in {[int |-> TRUE, ext |-> pressed.ext], [int |-> pressed.int, ext |-> TRUE]}
  /\ Interrupt /\ UNCHANGED <<gpio, output_inhibited, led, note, holdoff, fan_override>>

(* Durations are long: here a note sounds on or ends. *)
NoteEnds ==
  /\ note.remaining > 0 /\ note' = [note EXCEPT !.remaining = 0]
  /\ Interrupt /\ UNCHANGED <<gpio, output_inhibited, led, pressed, holdoff, fan_override>>

CommandsNext ==
  \/ \E msg \in Lines : handle_msg(msg)
  \/ \E o \in output_t : set_overcurrent(o)
  \/ sample_buttons \/ NoteEnds

CommandsSpec == CommandsInit /\ [][CommandsNext]_commandsVars
-----------------------------------------------------------------------------
CommandsTypeOK ==
  /\ gpio \in [output_t -> BOOLEAN] /\ output_inhibited \in [output_t -> BOOLEAN]
  /\ led \in [{"RUN", "ERR"} -> 0 .. 2] /\ pressed \in [{"int", "ext"} -> BOOLEAN]
  /\ note \in [freq : 1 .. MaxFrequency, remaining : 0 .. UINT32_MAX]
  /\ holdoff \in [{"ADC", "BATT", "REG", "UVLO", "NEG"} -> 0 .. UINT16_MAX - 1]
  /\ fan_override \in BOOLEAN
  /\ reply.kind \in {"none", "ACK", "NACK", "value"}

(* A line that is refused, and a query, leave the board as it is, however far  *)
(* the interpreter has got before it refuses; only the query of the buttons    *)
(* clears the presses that it reports.                                         *)
OnlyAcknowledgedLinesAct ==
  [][reply'.kind \in {"NACK", "value"} =>
       /\ UNCHANGED <<gpio, output_inhibited, led, note, holdoff, fan_override>>
       /\ pressed' # pressed => reply'.values = <<Bit(pressed.int), Bit(pressed.ext)>>
                                /\ reply'.kind = "value"]_commandsVars

(* GET? answers the holdoffs as they were last acknowledged, in that order.    *)
HoldoffsReadBack ==
  reply.kind = "value" /\ Word(reply.to, 1) = "*SYS" /\ Word(reply.to, 2) = "DELAY_COEFF"
    => reply.values = coefficients
=============================================================================
