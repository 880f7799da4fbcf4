------------------------------- MODULE Gateway -------------------------------
(***************************************************************************)
(* The sender of a text channel and the transport under it.  A gateway     *)
(* holds the UTF-8 bytes of the text it streams and cuts them into CONTENT *)
(* frames wherever its upstream did, in the middle of a character too; the *)
(* BOUNDARY flag never lies, but it may be left out.  A failover emits     *)
(* REWIND and goes on with another text that agrees up to the offset.      *)
(* WebSocket and gRPC deliver the frames of a session in order: the wire   *)
(* is a queue.  The gateway itself is not part of the repository; what it  *)
(* may send is what the frames the client reads can say.                   *)
(***************************************************************************)
EXTENDS Utf8Assembler

CONSTANTS
    Texts,              \* the texts a gateway may stream on the channel
    MaxWire,            \* bound: frames in flight
    MaxRewinds,         \* bound: REWIND frames in a session
    MultibyteRewinds,   \* may text before the offset be other than ASCII?
    UnsettledRewinds    \* may REWIND come while a character is cut in two?

ASSUME TextsAssumption ==
    \A t \in Texts : /\ t \in Seq(Byte)
                     /\ WellFormed(t)
                     /\ NoBom(t)

ASSUME BoundsAssumption == /\ MaxWire \in Nat
                           /\ MaxRewinds \in Nat
                           /\ MultibyteRewinds \in BOOLEAN
                           /\ UnsettledRewinds \in BOOLEAN

VARIABLES
    doc,        \* the text being streamed
    sent,       \* how many of its bytes have been sent
    wire,       \* the frames in flight, oldest first
    rewinds     \* how many REWIND frames have been sent

gatewayVars == <<doc, sent, wire, rewinds>>

\* "after" is history: the channel as the gateway means it to be once the frame
\* has been applied.  The client never reads it.
Frame == [op : {"CONTENT", "REWIND"}, boundary : BOOLEAN, data : Seq(Byte),
          offset : Nat, after : Seq(Byte)]

Content(boundary, data, after) ==
    [op |-> "CONTENT", boundary |-> boundary, data |-> data,
     offset |-> 0, after |-> after]

RewindTo(offset, after) ==
    [op |-> "REWIND", boundary |-> FALSE, data |-> <<>>,
     offset |-> offset, after |-> after]

Sent == SubSeq(doc, 1, sent)

GatewayTypeOK == /\ doc \in Texts
                 /\ sent \in 0..Len(doc)
                 /\ wire \in Seq(Frame)
                 /\ rewinds \in 0..MaxRewinds

GatewayInit == /\ doc \in Texts
               /\ sent = 0
               /\ wire = <<>>
               /\ rewinds = 0

\* The next n bytes, possibly none (a provider's empty delta).
Send(n, boundary) ==
    LET after == SubSeq(doc, 1, sent + n) IN
    /\ Len(wire) < MaxWire
    /\ boundary => WellFormed(after)
    /\ wire' = Append(wire,
                      Content(boundary, SubSeq(doc, sent + 1, sent + n), after))
    /\ sent' = sent + n
    /\ UNCHANGED <<doc, rewinds>>

\* Fail over at byte k to the text t.
Rewind(k, t) ==
    LET after == SubSeq(doc, 1, k) IN
    /\ Len(wire) < MaxWire
    /\ rewinds < MaxRewinds
    /\ k <= Len(t) /\ SubSeq(t, 1, k) = after
    /\ WellFormed(after)
    /\ MultibyteRewinds \/ AllAscii(after, k)
    /\ UnsettledRewinds \/ WellFormed(Sent)
    /\ doc' = t
    /\ sent' = k
    /\ rewinds' = rewinds + 1
    /\ wire' = Append(wire, RewindTo(k, after))

GatewayNext ==
    \/ \E n \in 0..(Len(doc) - sent), boundary \in BOOLEAN : Send(n, boundary)
    \/ \E k \in 0..sent, t \in Texts : Rewind(k, t)

==============================================================================
