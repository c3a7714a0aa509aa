------------------------------ MODULE MCUsbLines ------------------------------
(* Packets for UsbLines, of a few bytes. *)
EXTENDS UsbLines

MCBytes == {"a", COLON, CR, LF}

(* A host that sends one command at a time: at most one newline in a packet. *)
OneLinePackets == { p \in BoundedSeq(MCBytes, 3) : Len(p) > 0 /\ Newlines(p) <= 1 }

(* A host that sends commands without waiting for the replies. *)
PipelinedPackets == { p \in BoundedSeq({"a", LF}, 4) : Newlines(p) > 1 }

MCPackets == OneLinePackets \cup PipelinedPackets
=============================================================================
