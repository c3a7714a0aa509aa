------------------------------ MODULE MCCommands ------------------------------
(* Lines for Commands: every command in its forms, complete and cut short at  *)
(* every word, with good and bad arguments.                                   *)
EXTENDS Commands

Numbers == [word \in {"0", "1", "12", "2", "7", "440", "65534", "65535", "65536", "100001", "131072"} |->
  CASE word = "0" -> 0 [] word = "1" -> 1 [] word = "12" -> 12 [] word = "2" -> 2
    [] word = "7" -> 7 [] word = "440" -> 440 [] word = "65534" -> 65534
    [] word = "65535" -> 65535 [] word = "65536" -> 65536 [] word = "100001" -> 100001 [] OTHER -> 131072]

(* Commands that switch outputs. *)
Switches ==
  { <<"OUT", n, "SET", v>> : n \in {"0", "1", "7", "x"}, v \in {"0", "1", "12", "x"} } \cup
  { <<"OUT", n, q>> : n \in {"0", "1"}, q \in {"GET?", "I?", "x"} } \cup
  { <<"*SYS", "BRAIN", "SET", v>> : v \in {"0", "1", "x"} } \cup
  { <<"*STATUS?">>, <<"*RESET">> }

(* Commands that set, keep or report something else. *)
Reports ==
  { <<"LED", "RUN", "SET", v>> : v \in {"F", "12"} } \cup
  { <<"LED", "ERR", "GET?">>, <<"LED", "x", "SET", "0">> } \cup
  { <<"BATT", q>> : q \in {"I?", "V?", "x"} } \cup
  { <<"BTN", b, q>> : b \in {"START", "x"}, q \in {"GET?", "x"} } \cup
  { <<"NOTE", "440", d>> : d \in {"0", "7", "100001", "131072", "x"} } \cup
  { <<"NOTE", "65536", "7">>, <<"NOTE", "GET?">> } \cup
  { <<"*IDN?">>, <<"ECHO", "DELAY_COEFF">>, <<"x">>, <<>> } \cup
  { <<"*SYS", "DELAY_COEFF", "SET", "1", "2", "7", "12", last>> :
      last \in {"65534", "65535"} } \cup
  { <<"*SYS", "DELAY_COEFF", "GET?">>, <<"*SYS", "DELAY_COEFF", "x">>, <<"*SYS", "x">> } \cup
  { <<"*SYS", "FAN", "SET", v>> : v \in {"0", "1", "x"} }

(* Each command, and every beginning of one. *)
Beginnings(lines) == UNION { { SubSeq(l, 1, n) : n \in 0 .. Len(l) } : l \in lines }
MCLines == Beginnings(Switches \cup Reports)

MCNoLine  == <<"no", "line">>
MCHoldoff == <<100, 100, 20, 40, 2000>>
=============================================================================
