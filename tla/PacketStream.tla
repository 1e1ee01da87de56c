----------------------------- MODULE PacketStream -----------------------------
(***************************************************************************)
(* What a stream of packets promises its reader: the packets that were     *)
(* written, whole and in order, then the end.  Only a connection that was  *)
(* cut may lose packets, and only the last ones.                           *)
(***************************************************************************)
EXTENDS Sequences, SequencesExt, Naturals

VARIABLES
    sent, delivered,    \* the packets written at one end and read at the other
    over,               \* the writer: "up", "closed" or "cut"
    reader              \* "open", "ended" once it was told, "gone" if it gave up

streamVars == <<sent, delivered, over, reader>>

StreamInit == sent = <<>> /\ delivered = <<>> /\ over = "up" /\ reader = "open"

\* sent' says which packet it is.
Send ==
    /\ over = "up" /\ sent' # <<>> /\ sent' = Append(sent, Last(sent'))
    /\ UNCHANGED <<delivered, over, reader>>

Stop == over = "up" /\ over' \in {"closed", "cut"} /\ UNCHANGED <<sent, delivered, reader>>

Deliver ==
    /\ reader = "open" /\ Len(delivered) < Len(sent)
    /\ delivered' = Append(delivered, sent[Len(delivered) + 1])
    /\ UNCHANGED <<sent, over, reader>>

End ==
    /\ reader = "open" /\ reader' = "ended"
    /\ over = "cut" \/ (over = "closed" /\ delivered = sent)
    /\ UNCHANGED <<sent, delivered, over>>

LeaveStream == reader = "open" /\ reader' = "gone" /\ UNCHANGED <<sent, delivered, over>>

StreamNext == Send \/ Stop \/ Deliver \/ End \/ LeaveStream

StreamSpec == StreamInit /\ [][StreamNext]_streamVars
===============================================================================
