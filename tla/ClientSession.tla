---------------------------- MODULE ClientSession ----------------------------
(***************************************************************************)
(* A session at the TypeScript client: LMStreamSession.handleFrame hands   *)
(* every frame to one of two text channels, to the tool-call assembler or  *)
(* to a field of the session, and the caller (demo.ts) waits for the end.  *)
(* The gateway interleaves the channels as it likes, then accounts for the *)
(* session (USAGE, METRICS) and ends it, or fails it at any time (ERROR).  *)
(* What a channel does with its frames is said by Utf8Assembler and        *)
(* ToolAssembler; this module is about their sharing one stream: each text *)
(* channel of the session is to behave as a TextChannel by itself.         *)
(***************************************************************************)
EXTENDS Utf8Assembler, ToolAssembler

CONSTANTS
    Text,           \* for each text channel, what the gateway streams on it
    Key, Id, Args,  \* the one tool call of the session
    Cuts,           \* where its frames end in its arguments, from START to END
    Rewindable,     \* the channels the gateway rewinds
    MaxWire,        \* bound: frames in flight
    MaxRewinds      \* bound: REWIND frames in a session

TextChannels == {"CONTENT", "REASONING"}

ASSUME SessionAssumption ==
    /\ \A ch \in TextChannels : /\ Text[ch] \in Seq(Byte)
                                /\ WellFormed(Text[ch]) /\ NoBom(Text[ch])
    /\ Key \in Nat \X Nat /\ Id \in Nat
    /\ Args \in Seq(STRING) /\ Parses(Args)
    /\ Cuts \in Seq(0..Len(Args)) /\ Cuts # <<>> /\ Cuts[Len(Cuts)] = Len(Args)
    /\ \A i \in 1..Len(Cuts) : i > 1 => Cuts[i - 1] <= Cuts[i]
    /\ Rewindable \subseteq TextChannels \cup {"TOOL_CALL"}
    /\ MaxWire \in Nat /\ MaxRewinds \in Nat

\* How much of the arguments n frames carry.
Carried(n) == IF n = 0 THEN 0 ELSE Cuts[n]

ToolFrame(n) ==
    [op |-> "TOOL_CALL", key |-> Key, start |-> n = 1, end |-> n = Len(Cuts),
     id |-> Id, delta |-> SubSeq(Args, Carried(n - 1) + 1, Carried(n))]

VARIABLES
    sent,           \* gateway: bytes sent on each text channel
    toolsSent,      \* gateway: frames of the tool call sent
    told,           \* gateway: the other frames of the session it has sent
    rewinds,        \* gateway: REWIND frames sent on each channel
    wire,           \* the frames in flight, oldest first
    accumulated,    \* contentAccumulator, reasoningAccumulator
    pending,        \* the pendingBytes of contentAssembler, reasoningAssembler
    active,         \* toolAssembler.active
    completedTools,
    seen,           \* which of usage, metrics, end and error have been set
    waiting         \* has the caller's promise not been resolved?

gatewayVars == <<sent, toolsSent, told, rewinds>>
clientVars == <<accumulated, pending, active, completedTools, seen, waiting>>
vars == <<gatewayVars, wire, clientVars>>

SessionFields == {"USAGE", "METRICS", "END", "ERROR"}

\* A frame belongs to a channel, for REWIND the one of its targetOpcode; the
\* body is a frame of the channel as Gateway and ToolCalls have them.
Frame == [channel : TextChannels \cup {"TOOL_CALL", "SESSION"},
          body : [op : {"CONTENT", "REWIND"}, boundary : BOOLEAN,
                  data : Seq(Byte), offset : Nat, after : Seq(Byte)]
                 \cup {ToolFrame(n) : n \in 1..Len(Cuts)}
                 \cup [op : {"REWIND"}, key : {Key}, offset : Nat]
                 \cup [op : SessionFields]]

TypeOK == /\ \A ch \in TextChannels : sent[ch] \in 0..Len(Text[ch])
          /\ toolsSent \in 0..Len(Cuts)
          /\ told \subseteq SessionFields
          /\ rewinds \in [TextChannels \cup {"TOOL_CALL"} -> 0..MaxRewinds]
          /\ wire \in Seq(Frame)
          /\ accumulated \in [TextChannels -> Seq(Byte)]
          /\ pending \in [TextChannels -> Seq(Byte)]
          /\ DOMAIN active \subseteq {Key}
          /\ active \in [DOMAIN active -> [id : Nat, args : Seq(STRING)]]
          /\ seen \subseteq SessionFields
          /\ waiting \in BOOLEAN

Init == /\ sent = [ch \in TextChannels |-> 0]
        /\ toolsSent = 0
        /\ told = {}
        /\ rewinds = [ch \in TextChannels \cup {"TOOL_CALL"} |-> 0]
        /\ wire = <<>>
        /\ accumulated = [ch \in TextChannels |-> <<>>]
        /\ pending = [ch \in TextChannels |-> <<>>]
        /\ active = [key \in {} |-> <<>>]
        /\ completedTools = <<>>
        /\ seen = {}
        /\ waiting = TRUE

------------------------------------------------------------------------------
(* The gateway *)

Terminated == "END" \in told \/ "ERROR" \in told

Push(channel, body) ==
    /\ Len(wire) < MaxWire
    /\ wire' = Append(wire, [channel |-> channel, body |-> body])
    /\ UNCHANGED clientVars

\* While it generates: told = {}.
SendText(ch, n, boundary) ==
    LET after == SubSeq(Text[ch], 1, sent[ch] + n) IN
    /\ told = {}
    /\ boundary => WellFormed(after)
    /\ sent' = [sent EXCEPT ![ch] = @ + n]
    /\ Push(ch, [op |-> "CONTENT", boundary |-> boundary,
                 data |-> SubSeq(Text[ch], sent[ch] + 1, sent[ch] + n),
                 offset |-> 0, after |-> after])
    /\ UNCHANGED <<toolsSent, told, rewinds>>

SendTool ==
    /\ told = {}
    /\ toolsSent < Len(Cuts)
    /\ toolsSent' = toolsSent + 1
    /\ Push("TOOL_CALL", ToolFrame(toolsSent + 1))
    /\ UNCHANGED <<sent, told, rewinds>>

CountRewind(ch) ==
    /\ told = {}
    /\ ch \in Rewindable
    /\ rewinds[ch] < MaxRewinds
    /\ rewinds' = [rewinds EXCEPT ![ch] = @ + 1]

\* Over ASCII and between characters, as the theorems of TextChannel have it.
RewindText(ch, k) ==
    LET after == SubSeq(Text[ch], 1, k) IN
    /\ CountRewind(ch)
    /\ AllAscii(after, k) /\ WellFormed(SubSeq(Text[ch], 1, sent[ch]))
    /\ sent' = [sent EXCEPT ![ch] = k]
    /\ Push(ch, [op |-> "REWIND", boundary |-> FALSE, data |-> <<>>,
                 offset |-> k, after |-> after])
    /\ UNCHANGED <<toolsSent, told>>

\* Only a call still being sent can be taken back.
RewindTool ==
    /\ CountRewind("TOOL_CALL")
    /\ toolsSent < Len(Cuts)
    /\ toolsSent' = 0
    /\ Push("TOOL_CALL", [op |-> "REWIND", key |-> Key, offset |-> 0])
    /\ UNCHANGED <<sent, told>>

\* USAGE and METRICS at most once each, END or ERROR last.
SendSession(field) ==
    /\ field \notin told
    /\ ~Terminated
    /\ told' = told \cup {field}
    /\ Push("SESSION", [op |-> field])
    /\ UNCHANGED <<sent, toolsSent, rewinds>>

GatewayNext ==
    \/ \E ch \in TextChannels :
          \/ \E n \in 1..(Len(Text[ch]) - sent[ch]), boundary \in BOOLEAN :
                SendText(ch, n, boundary)
          \/ \E k \in 0..sent[ch] : RewindText(ch, k)
    \/ SendTool
    \/ RewindTool
    \/ \E field \in SessionFields : SendSession(field)

------------------------------------------------------------------------------
(* The client *)

\* (mutant) the channels share one assembler
SharedAssembler(ch) == "CONTENT"

\* Each text channel has an assembler of its own.
AssemblerOf(ch) == ch

\* case Opcode.CONTENT, case Opcode.REASONING
HandleText(ch, frame) ==
    LET a == AssemblerOf(ch) IN
    /\ ch \in TextChannels
    /\ frame.op = "CONTENT"
    /\ accumulated' = [accumulated EXCEPT ![ch] =
           @ \o Decode(Rendered(pending[a], frame.boundary, frame.data))]
    /\ pending' = [pending EXCEPT ![a] =
           Kept(pending[a], frame.boundary, frame.data)]
    /\ UNCHANGED <<active, completedTools, seen>>

\* case Opcode.TOOL_CALL
HandleToolCall(ch, frame) ==
    /\ ch = "TOOL_CALL"
    /\ frame.op = "TOOL_CALL"
    /\ active' = ActiveTS(active, frame)
    /\ completedTools' = completedTools \o CompletedBy(active, frame)
    /\ UNCHANGED <<accumulated, pending, seen>>

\* (mutant) a REWIND of CONTENT takes the reasoning back as well
RewindOfBoth(ch, frame) ==
    /\ frame.op = "REWIND"
    /\ accumulated' = IF ch = "CONTENT"
                      THEN [c \in TextChannels |->
                               Slice(accumulated[c], frame.offset)]
                      ELSE accumulated
    /\ active' = IF ch = "TOOL_CALL" /\ frame.offset = 0
                 THEN Discarded(active, frame.key[1])
                 ELSE active
    /\ UNCHANGED <<pending, completedTools, seen>>

\* case Opcode.REWIND: CONTENT is sliced, a choice's calls are discarded at
\* offset 0, and a REWIND of REASONING goes unheard.
HandleRewind(ch, frame) ==
    /\ frame.op = "REWIND"
    /\ accumulated' = IF ch = "CONTENT"
                      THEN [accumulated EXCEPT ![ch] = Slice(@, frame.offset)]
                      ELSE accumulated
    /\ active' = IF ch = "TOOL_CALL" /\ frame.offset = 0
                 THEN Discarded(active, frame.key[1])
                 ELSE active
    /\ UNCHANGED <<pending, completedTools, seen>>

\* (mutant) the session remembers the last of these frames only
LastFrameOnly(ch, frame) ==
    /\ ch = "SESSION"
    /\ seen' = {frame.op}
    /\ UNCHANGED <<accumulated, pending, active, completedTools>>

\* case Opcode.USAGE, METRICS, END, ERROR
HandleSession(ch, frame) ==
    /\ ch = "SESSION"
    /\ seen' = seen \cup {frame.op}
    /\ UNCHANGED <<accumulated, pending, active, completedTools>>

\* (mutant) the accounts are taken for the end
WaitsForAccounts(frame) == frame.op \notin {"METRICS", "END"}

\* onmessage: the frame goes to handleFrame, and END closes the connection and
\* resolves the promise; no message is delivered on a closed connection.
StillWaiting(frame) == frame.op # "END"

Receive ==
    LET ch == Head(wire).channel
        frame == Head(wire).body
    IN  /\ wire # <<>>
        /\ waiting
        /\ wire' = Tail(wire)
        /\ \/ HandleText(ch, frame)
           \/ HandleToolCall(ch, frame)
           \/ HandleRewind(ch, frame)
           \/ HandleSession(ch, frame)
        /\ waiting' = StillWaiting(frame)
        /\ UNCHANGED gatewayVars

Next == GatewayNext \/ Receive

\* The event loop hands every message that arrived to onmessage.
Spec == Init /\ [][Next]_vars /\ WF_vars(Receive)

------------------------------------------------------------------------------
(* Properties *)

Said(ch) == SubSeq(Text[ch], 1, sent[ch])

\* The caller of a session whose promise is resolved may rely on all of it: each
\* text is what was sent on its channel and on no other, whole if it was whole;
\* the call is complete, once, unless it was never finished; and the accounts
\* are there if they were sent.  The assertions of the demo presuppose this.
EndMeansComplete ==
    ~waiting =>
        /\ \A ch \in TextChannels :
              /\ accumulated[ch] \o pending[ch] = Said(ch)
              /\ WellFormed(Said(ch)) => accumulated[ch] = Said(ch)
        /\ Len(completedTools) = toolsSent \div Len(Cuts)
        /\ completedTools # <<>> => active = [key \in {} |-> <<>>]
        /\ seen = told

\* The frames of one channel among all, as a TextChannel has them.
Own(ch, m) == IF m.channel = ch THEN <<m.body>> ELSE <<>>

WireOf(ch, frames) ==
    LET own[n \in 0..Len(frames)] ==
            IF n = 0 THEN <<>> ELSE own[n - 1] \o Own(ch, frames[n])
    IN  own[Len(frames)]

Content == INSTANCE TextChannel WITH
    Texts <- {Text["CONTENT"]}, MultibyteRewinds <- FALSE,
    UnsettledRewinds <- FALSE, doc <- Text["CONTENT"],
    sent <- sent["CONTENT"], wire <- WireOf("CONTENT", wire),
    rewinds <- rewinds["CONTENT"],
    contentAccumulator <- accumulated["CONTENT"],
    pendingBytes <- pending["CONTENT"]

Reasoning == INSTANCE TextChannel WITH
    Texts <- {Text["REASONING"]}, MultibyteRewinds <- FALSE,
    UnsettledRewinds <- FALSE, doc <- Text["REASONING"],
    sent <- sent["REASONING"], wire <- WireOf("REASONING", wire),
    rewinds <- rewinds["REASONING"],
    contentAccumulator <- accumulated["REASONING"],
    pendingBytes <- pending["REASONING"]

\* Whatever else the session carries, each of its text channels takes the steps
\* of a TextChannel and no others, so that what holds of one holds of both.
ContentIsTextChannel == Content!Init /\ [][Content!Next]_(Content!vars)

ReasoningIsTextChannel == Reasoning!Init /\ [][Reasoning!Next]_(Reasoning!vars)

\* END is always followed by the resolution of the caller's promise, and ERROR
\* by the session's record of it.
TerminalFrameLands == /\ "END" \in told ~> ~waiting
                      /\ "ERROR" \in told ~> "ERROR" \in seen

\* A REWIND leaves exactly the first ByteOffset bytes of its text channel.
RewindTruncates ==
    [][wire # <<>> /\ wire' = Tail(wire)
         => LET ch == Head(wire).channel
                frame == Head(wire).body
            IN  ch \in TextChannels /\ frame.op = "REWIND"
                => accumulated'[ch] \o pending'[ch] = frame.after]_vars

==============================================================================
