------------------------------ MODULE LineStream ------------------------------
(***************************************************************************)
(* What the host may expect of the serial port ("each command is its own   *)
(* line", README.md): the bytes it sends form one stream, the stream is    *)
(* cut at the newlines, and the lines are handed to handle_msg in order,   *)
(* whole and once.  Two limits are part of the contract: of a packet only  *)
(* what fits into the buffer is taken, and a buffer full of bytes without  *)
(* a newline is dropped.                                                   *)
(***************************************************************************)
EXTENDS Integers, SequencesExt

CONSTANTS
  Capacity,      \* bytes the buffer holds beside the terminating NUL
  LF, CR,        \* newline and carriage return
  Packets        \* the packets the host may send

VARIABLES
  stream,        \* bytes received and not yet handed over or dropped
  line,          \* the line that handle_msg is given, or was given last
  open           \* the contract is in force

lineStreamVars == <<stream, line, open>>

Fitting(p) ==
  SubSeq(p, 1, IF Len(p) <= Capacity - Len(stream) THEN Len(p) ELSE Capacity - Len(stream))

(* The text of a line ends at its first carriage return, if it has any. *)
UpTo(s, byte) == IF Contains(s, byte)
                 THEN SubSeq(s, 1, SelectInSeq(s, LAMBDA b : b = byte) - 1) ELSE s
Rest(s, byte) == SubSeq(s, SelectInSeq(s, LAMBDA b : b = byte) + 1, Len(s))

Init == stream = <<>> /\ line = <<>> /\ open = TRUE

(* Nothing is received while lines wait to be handed over. *)
Receive ==
  /\ ~Contains(stream, LF)
  /\ \E p \in Packets : stream' = stream \o Fitting(p)
  /\ UNCHANGED <<line, open>>

Deliver ==
  /\ Contains(stream, LF)
  /\ line' = UpTo(UpTo(stream, LF), CR)
  /\ stream' = Rest(stream, LF)
  /\ UNCHANGED open

Drop ==
  /\ Len(stream) = Capacity /\ ~Contains(stream, LF)
  /\ stream' = <<>>
  /\ UNCHANGED <<line, open>>

(* The contract ends for good when the board shuts down, or when the host no  *)
(* longer keeps to one command at a time.                                     *)
Close == ~open'

Next == (open /\ (Receive \/ Deliver \/ Drop)) \/ Close
Spec == Init /\ [][Next]_lineStreamVars
=============================================================================
