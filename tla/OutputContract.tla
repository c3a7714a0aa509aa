--------------------------- MODULE OutputContract ---------------------------
(***************************************************************************)
(* What the switched outputs promise, without the statements that keep     *)
(* the promise.  An output is off or on, as commands and resets ask, until *)
(* a fault bars it; barred, it stays off until a board reset releases it.  *)
(* One gap is part of the promise: while the interrupt runs, a command     *)
(* that was late may defeat the bar and leave the output on behind it.     *)
(* Nothing defeats a bar once the board has stopped serving.               *)
(***************************************************************************)
CONSTANTS Output, Brain

VARIABLES
  status,   \* of each output: "off", "on", "barred" or "defeated"
  serving   \* faults are watched for and commands awaited

vars == <<status, serving>>

Init == status = [o \in Output |-> "barred"] /\ serving = TRUE

Becomes(S, s) == status' = [o \in Output |-> IF o \in S THEN s ELSE status[o]]

(* A command or a reset of bus or board switches one output. *)
Switch(o) ==
  /\ status[o] \in {"off", "on"}
  /\ Becomes({o}, "off") \/ Becomes({o}, "on")
  /\ UNCHANGED serving

(* Commands that overtake a fault ... *)
LateWrite(o) == serving /\ status[o] = "barred" /\ Becomes({o}, "defeated") /\ UNCHANGED serving

(* ... leave an output on, which nothing but a fault or a reset bars again.    *)
Release(o) ==
  /\ \/ status[o] = "barred"   /\ Becomes({o}, "off")
     \/ status[o] = "defeated" /\ Becomes({o}, "on")
  /\ UNCHANGED serving

(* Faults of single outputs *)
Cut(S) == serving /\ Becomes(S, "barred") /\ UNCHANGED serving

(* A fault of the whole board: it stops serving for good. *)
Stop == Becomes(Output, "barred") /\ serving' = FALSE

(* The bootloader takes over, with the brain's supply as it was. *)
HandOver == serving /\ Becomes(Output \ {Brain}, "barred") /\ serving' = FALSE

Restart == Becomes(Output, "barred") /\ serving' = TRUE

Next ==
  \/ \E o \in Output : Switch(o) \/ LateWrite(o) \/ Release(o)
  \/ \E S \in SUBSET Output : Cut(S)
  \/ Stop \/ HandOver \/ Restart

Spec == Init /\ [][Next]_vars
=============================================================================
