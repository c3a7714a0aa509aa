------------------------------- MODULE UsbLines -------------------------------
(***************************************************************************)
(* cdcacm_data_rx_cb of src/src/cdcacm.c: how the packets of the host are  *)
(* put together in usb_msg_buffer, cut into lines and handed to handle_msg.*)
(* The callback is one loop over the lines of the buffer; a step is one    *)
(* part of it, split where handle_msg runs, because that is where the      *)
(* SysTick interrupt may find a fault, abandon the callback for good and   *)
(* enter it once more from the polls of usb_deinit.                        *)
(*                                                                         *)
(* The buffer is a sequence, so its indices are one more than in the code, *)
(* and 0 stands for a NULL result of strchr.                               *)
(***************************************************************************)
EXTENDS Integers, SequencesExt

CONSTANTS
  USB_MSG_MAXLEN,   \* 64 in the code
  USB_BUFFER_SIZE,  \* 64: the buffer of the replies to one packet
  Bytes,            \* what a command may be made of, among them ...
  LF, CR, COLON,    \* ... the bytes that have a meaning here
  NUL,              \* the byte that ends a string
  Packets,          \* the packets the host sends
  ReplyLengths      \* lengths of the replies that handle_msg has to give

ASSUME UsbLinesAssumption ==
  /\ USB_MSG_MAXLEN \in Nat /\ USB_MSG_MAXLEN >= 2
  /\ USB_BUFFER_SIZE \in Nat \ {0}
  /\ {LF, CR, COLON} \subseteq Bytes
  /\ NUL \notin Bytes                                      \* commands are text
  /\ \A p \in Packets : p \in Seq(Bytes) /\ p # <<>>
  /\ ReplyLengths \subseteq Nat

VARIABLES
  usb_msg_buffer, usb_msg_len,
  end_of_msg,         \* the newline found in the buffer, or 0
  full_response_len,  \* of the replies to the packet so far, counted up to
                      \* USB_BUFFER_SIZE: beyond it only max_len < 0 matters
  pc,                 \* "idle"; in the loop; or in handle_msg
  context,            \* "running"; in usb_deinit, "deinit" before and "last"
                      \* after the last packet; "off"
  interrupted,        \* history: a shutdown has come in the middle of handle_msg
  line,               \* history: the last string given to handle_msg
  pipelined           \* history: a packet with two newlines has been received

vars == <<usb_msg_buffer, usb_msg_len, end_of_msg, full_response_len, pc,
          context, interrupted, line, pipelined>>

Limit == USB_MSG_MAXLEN - 1

(* strchr stops at the NUL that ends the string. *)
strchr(buffer, byte) ==
  LET i == SelectInSeq(buffer, LAMBDA b : b \in {byte, NUL})
  IN  IF i > 0 /\ buffer[i] = byte THEN i ELSE 0

String(buffer) == SubSeq(buffer, 1, SelectInSeq(buffer, LAMBDA b : b = NUL) - 1)

Newlines(p) == Cardinality({i \in DOMAIN p : p[i] = LF})

Put(buffer, i, byte) == IF i = 0 THEN buffer ELSE [buffer EXCEPT ![i] = byte]

(* The buffer is static, and so full of zeros. *)
Init ==
  /\ usb_msg_buffer = [i \in 1 .. USB_MSG_MAXLEN |-> NUL] /\ usb_msg_len = 0
  /\ end_of_msg = 0 /\ full_response_len = 0 /\ pc = "idle"
  /\ context = "running" /\ interrupted = FALSE /\ line = <<>>
  /\ pipelined = FALSE

-----------------------------------------------------------------------------
(***************************************************************************)
(* The callback.                                                           *)
(***************************************************************************)

(* Slip: the room for the terminating NUL is forgotten. *)
Accepted_NoRoomForNul(p) ==
  LET remaining_len == USB_MSG_MAXLEN - usb_msg_len
  IN  IF Len(p) < remaining_len THEN Len(p) ELSE remaining_len

(* usbd_ep_read_packet takes what fits; the rest of the packet is lost. *)
Accepted(p) ==
  LET remaining_len == Limit - usb_msg_len
  IN  IF Len(p) < remaining_len THEN Len(p) ELSE remaining_len

(* The packet is appended to what is left of a line, and ended by a NUL. *)
Received(p) ==
  [i \in 1 .. USB_MSG_MAXLEN |->
     IF i \in usb_msg_len + 1 .. usb_msg_len + Accepted(p) THEN p[i - usb_msg_len]
     ELSE IF i = usb_msg_len + Accepted(p) + 1 THEN NUL
     ELSE usb_msg_buffer[i]]

Receive(p) ==
  /\ pc = "idle" /\ context \in {"running", "deinit"} /\ Accepted(p) > 0
  /\ usb_msg_buffer' = Received(p)
  /\ usb_msg_len' = usb_msg_len + Accepted(p)
  /\ end_of_msg' = strchr(usb_msg_buffer', LF)
  /\ full_response_len' = 0
  /\ pc' = "loop"
  /\ context' = IF context = "deinit" THEN "last" ELSE context
  /\ pipelined' = (pipelined \/ Newlines(p) > 1)
  /\ UNCHANGED <<interrupted, line>>

(* Slip: the newline is left in the buffer. *)
StartLine_NewlineLeft ==
  LET ended == Put(usb_msg_buffer, end_of_msg, NUL) IN
  /\ pc = "loop" /\ end_of_msg # 0
  /\ usb_msg_buffer' = Put(usb_msg_buffer, strchr(ended, CR), NUL)
  /\ line' = String(Put(ended, strchr(ended, CR), NUL))
  /\ pc' = "handle_msg"
  /\ UNCHANGED <<usb_msg_len, end_of_msg, full_response_len, context, interrupted, pipelined>>

(* while (end_of_msg != NULL): newline and carriage return become NULs. *)
StartLine ==
  LET ended == Put(usb_msg_buffer, end_of_msg, NUL) IN
  /\ pc = "loop" /\ end_of_msg # 0
  /\ usb_msg_buffer' = Put(ended, strchr(ended, CR), NUL)
  /\ line' = String(usb_msg_buffer')
  /\ pc' = "handle_msg"
  /\ UNCHANGED <<usb_msg_len, end_of_msg, full_response_len, context, interrupted, pipelined>>

(* handle_msg: strtok turns colons of the line into NULs, which ones depends *)
(* on the command.  Its reply has at most max_len bytes; a negative max_len, *)
(* which strncat would take for a very large one, bounds nothing.            *)
Tokenized(S) == [i \in DOMAIN usb_msg_buffer |-> IF i \in S THEN NUL ELSE usb_msg_buffer[i]]
Colons == {i \in 1 .. Len(line) : usb_msg_buffer[i] = COLON}
max_len == (USB_BUFFER_SIZE - 1) - full_response_len
Appended(r) == IF max_len < 0 \/ r <= max_len THEN r ELSE max_len
Lengthened(r) == Min({full_response_len + 1 + Appended(r), USB_BUFFER_SIZE})

(* memmove of the remaining bytes to the start; what lies behind them stays. *)
Moved(buffer, len) ==
  [i \in DOMAIN buffer |-> IF i <= len THEN buffer[end_of_msg + i] ELSE buffer[i]]

(* Slip: the newline is not counted as a byte of the message. *)
FinishLine_NewlineNotCounted(r, S) ==
  LET left == usb_msg_len - (end_of_msg - 1)
      len  == IF left < 0 THEN 0 ELSE left
  IN
  /\ pc = "handle_msg" /\ pc' = "loop"
  /\ full_response_len' = Lengthened(r)
  /\ usb_msg_len' = len
  /\ usb_msg_buffer' = [i \in DOMAIN usb_msg_buffer |->
       IF i <= len /\ end_of_msg + i <= USB_MSG_MAXLEN THEN Tokenized(S)[end_of_msg + i]
       ELSE Tokenized(S)[i]]
  /\ end_of_msg' = strchr(usb_msg_buffer', LF)
  /\ UNCHANGED <<context, interrupted, line, pipelined>>

FinishLine(r, S) ==
  LET left == usb_msg_len - end_of_msg
      len  == IF left < 0 THEN 0 ELSE left
  IN
  /\ pc = "handle_msg" /\ pc' = "loop"
  /\ full_response_len' = Lengthened(r)
  /\ usb_msg_len' = len
  /\ usb_msg_buffer' = Moved(Tokenized(S), len)
  /\ end_of_msg' = strchr(usb_msg_buffer', LF)
  /\ UNCHANGED <<context, interrupted, line, pipelined>>

(* drop a full buffer without newlines *)
Kept == IF usb_msg_len = Limit THEN 0 ELSE usb_msg_len

Leave ==
  /\ pc = "loop" /\ end_of_msg = 0
  /\ usb_msg_len' = Kept /\ pc' = "idle"
  /\ context' = IF context = "last" THEN "off" ELSE context
  /\ UNCHANGED <<usb_msg_buffer, end_of_msg, full_response_len, interrupted, line, pipelined>>

(* Slip: the buffer is emptied before the board shuts down. *)
Shutdown_EmptyBuffer ==
  /\ context = "running" /\ context' = "deinit" /\ pc' = "idle"
  /\ interrupted' = (pc = "handle_msg")
  /\ usb_msg_len' = 0
  /\ UNCHANGED <<usb_msg_buffer, end_of_msg, full_response_len, line, pipelined>>

(* The SysTick interrupt finds a fault.  SysTick is stopped, and usb_deinit   *)
(* polls; with the bus disconnected, the one packet that the endpoint holds   *)
(* is the last.                                                               *)
Shutdown ==
  /\ context = "running" /\ context' = "deinit" /\ pc' = "idle"
  /\ interrupted' = (pc = "handle_msg")
  /\ UNCHANGED <<usb_msg_buffer, usb_msg_len, end_of_msg, full_response_len, line, pipelined>>

(* Or it holds none, or finds no room in the buffer. *)
NoPacket == context = "deinit" /\ pc = "idle" /\ context' = "off"
            /\ UNCHANGED <<usb_msg_buffer, usb_msg_len, end_of_msg, full_response_len,
                           pc, interrupted, line, pipelined>>
Off == context = "off" /\ UNCHANGED vars

Next ==
  \/ \E p \in Packets : Receive(p)
  \/ StartLine
  \/ \E r \in ReplyLengths, S \in SUBSET Colons : FinishLine(r, S)
  \/ Leave \/ Shutdown \/ NoPacket \/ Off

(* The callback is part of the main loop, which does not stop. *)
Spec == Init /\ [][Next]_vars
             /\ WF_vars(StartLine) /\ WF_vars(Leave)
             /\ WF_vars(\E r \in ReplyLengths, S \in SUBSET Colons : FinishLine(r, S))
-----------------------------------------------------------------------------
(* Type invariant: the string functions find an end within the buffer, and   *)
(* there is room for another byte between two packets.                       *)
TypeOK ==
  /\ usb_msg_buffer \in [1 .. USB_MSG_MAXLEN -> Bytes \cup {NUL}] /\ Contains(usb_msg_buffer, NUL)
  /\ usb_msg_len \in 0 .. Limit /\ (pc = "idle" /\ context = "running" => usb_msg_len < Limit)
  /\ end_of_msg \in 0 .. USB_MSG_MAXLEN
  /\ full_response_len \in 0 .. USB_BUFFER_SIZE /\ pc \in {"idle", "loop", "handle_msg"}
  /\ context \in {"running", "deinit", "last", "off"} /\ line \in Seq(Bytes)
  /\ interrupted \in BOOLEAN /\ pipelined \in BOOLEAN

(* The callback implements the stream of lines: whatever the boundaries of   *)
(* the packets, and whatever handle_msg does to the text of a line, lines    *)
(* reach handle_msg in order, whole and once, until the board shuts down or  *)
(* the host sends two lines in one packet.  (Then memmove leaves bytes of    *)
(* old lines behind the last one, with no NUL between, and the next search   *)
(* for a newline may find one there.)                                        *)
Stream == INSTANCE LineStream WITH
  Capacity <- Limit,
  open     <- context = "running" /\ ~pipelined,
  stream   <- SubSeq(usb_msg_buffer, (IF pc = "handle_msg" THEN end_of_msg ELSE 0) + 1, usb_msg_len)
LinesAreTheStream == Stream!Spec

(* A shutdown in the middle of a command ends all commands of such a host:   *)
(* the NUL that ends the line hides what the last packet adds behind it.     *)
InterruptedLineHidesRest == interrupted /\ ~pipelined => pc # "handle_msg"

(* The loop over the lines ends, with any packets: a newline that has been   *)
(* handled is never found again.                                             *)
LoopEnds == pc # "idle" ~> pc = "idle"
=============================================================================
