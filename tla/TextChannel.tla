----------------------------- MODULE TextChannel -----------------------------
(***************************************************************************)
(* The CONTENT channel of the TypeScript client: LMStreamSession runs each *)
(* payload through its Utf8BoundaryAssembler and appends the decoded text  *)
(* to contentAccumulator; on REWIND it slices that string.  The module     *)
(* composes the client with the gateway and says that it implements        *)
(* ByteChannel: the text shown and the bytes kept back are together the    *)
(* raw bytes of the channel.                                               *)
(***************************************************************************)
EXTENDS Gateway

VARIABLES
    contentAccumulator,     \* the text shown so far
    pendingBytes            \* contentAssembler.pendingBytes

vars == <<gatewayVars, contentAccumulator, pendingBytes>>

TypeOK == /\ GatewayTypeOK
          /\ contentAccumulator \in Seq(Byte)
          /\ pendingBytes \in Seq(Byte)

Init == /\ GatewayInit
        /\ contentAccumulator = <<>>
        /\ pendingBytes = <<>>

------------------------------------------------------------------------------

\* case Opcode.CONTENT
HandleContent(frame) ==
    /\ frame.op = "CONTENT"
    /\ contentAccumulator' = contentAccumulator
           \o Decode(Rendered(pendingBytes, frame.boundary, frame.data))
    /\ pendingBytes' = Kept(pendingBytes, frame.boundary, frame.data)

\* (mutant) the text taken back stays on display
RewindIgnored(frame) ==
    /\ frame.op = "REWIND"
    /\ UNCHANGED <<contentAccumulator, pendingBytes>>

\* case Opcode.REWIND with targetOpcode CONTENT: the assembler is not told.
HandleRewind(frame) ==
    /\ frame.op = "REWIND"
    /\ contentAccumulator' = Slice(contentAccumulator, frame.offset)
    /\ UNCHANGED pendingBytes

Receive ==
    /\ wire # <<>>
    /\ wire' = Tail(wire)
    /\ HandleContent(Head(wire)) \/ HandleRewind(Head(wire))
    /\ UNCHANGED <<doc, sent, rewinds>>

GatewayStep == GatewayNext /\ UNCHANGED <<contentAccumulator, pendingBytes>>

Next == GatewayStep \/ Receive

\* The event loop hands every message that arrived to onmessage.
Spec == Init /\ [][Next]_vars /\ WF_vars(Receive)

------------------------------------------------------------------------------
(* Properties *)

Received == contentAccumulator \o pendingBytes

Before(i) == IF i = 1 THEN Received ELSE wire[i - 1].after

\* Nothing is lost, invented or reordered between the gateway and the client:
\* frame by frame, applying what is in flight to the bytes the client holds
\* gives what the gateway meant, and after the last frame what it has sent.
NothingLost ==
    /\ \A i \in 1..Len(wire) :
          wire[i].after = IF wire[i].op = "CONTENT"
                          THEN Before(i) \o wire[i].data
                          ELSE SubSeq(Before(i), 1, wire[i].offset)
    /\ IF wire = <<>> THEN Received = Sent ELSE wire[Len(wire)].after = Sent

\* The user never sees half a character, and no whole character is kept from
\* the user: what is kept is the beginning of one that has not fully arrived.
RenderedPromptly ==
    /\ WellFormed(contentAccumulator)
    /\ Partial(pendingBytes)
    /\ pendingBytes # <<>> => Len(pendingBytes) <= Need(pendingBytes[1])

\* The text shown and the bytes kept implement the raw buffer of the channel.
Abstract == INSTANCE ByteChannel WITH buffer <- Received

ImplementsByteChannel == Abstract!ByteSpec

\* A text sent to its end is eventually shown to its end, unless the gateway
\* rewinds it.
ShownInTheEnd ==
    (sent = Len(doc)) ~> (contentAccumulator = doc \/ sent < Len(doc))

\* A REWIND leaves exactly the first ByteOffset bytes of the channel.
RewindTruncates ==
    [][wire # <<>> /\ wire' = Tail(wire) /\ Head(wire).op = "REWIND"
         => Received' = SubSeq(Received, 1, Head(wire).offset)]_vars

\* Once all frames are in, the text shown is a prefix of the text sent: bytes
\* that were rewound do not come back.
ShownWasSent ==
    wire = <<>> => /\ Len(contentAccumulator) <= sent
                   /\ contentAccumulator
                        = SubSeq(Sent, 1, Len(contentAccumulator))

==============================================================================
