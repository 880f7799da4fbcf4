----------------------------- MODULE ByteChannel -----------------------------
(***************************************************************************)
(* What a text channel promises: the client holds the raw bytes received   *)
(* on it.  A CONTENT frame appends its data, whatever the frame boundaries *)
(* cut; a REWIND frame truncates the buffer to its ByteOffset.             *)
(***************************************************************************)
EXTENDS Gateway

VARIABLE buffer

byteVars == <<gatewayVars, buffer>>

Applied(bytes, frame) ==
    IF frame.op = "CONTENT" THEN bytes \o frame.data
                            ELSE SubSeq(bytes, 1, frame.offset)

ByteInit == GatewayInit /\ buffer = <<>>

ByteReceive == /\ wire # <<>>
               /\ wire' = Tail(wire)
               /\ buffer' = Applied(buffer, Head(wire))
               /\ UNCHANGED <<doc, sent, rewinds>>

ByteNext == \/ GatewayNext /\ UNCHANGED buffer
            \/ ByteReceive

ByteSpec == ByteInit /\ [][ByteNext]_byteVars

==============================================================================
