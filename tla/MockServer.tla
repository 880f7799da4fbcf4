----------------------------- MODULE MockServer -----------------------------
(***************************************************************************)
(* One WebSocket connection of the mock server (startWsServer) and the TCP *)
(* streams under it.  The server answers the upgrade with 101 and writes   *)
(* SETTINGS at once; every chunk that arrives goes into rxBuf, out of      *)
(* which a loop takes the complete frames and answers them.  JavaScript    *)
(* runs a handler to its end, so the server does nothing else meanwhile.   *)
(*                                                                         *)
(* Streams only grow; what has arrived and what has been read of them are  *)
(* positions.  The process may be killed at any time, and then bytes it    *)
(* has written but which have not arrived may be lost.                     *)
(***************************************************************************)
EXTENDS WsFraming

CONSTANTS Scripts,      \* the transcripts a server may answer OPEN with
          CutWrites,    \* TCP may cut the server's writes, and join parts
          MayClose      \* the server may be killed

ASSUME EnvironmentAssumption == CutWrites \in BOOLEAN /\ MayClose \in BOOLEAN

Opcode == {"OPEN", "OPEN_ACK", "CONTENT", "REASONING", "TOOL_CALL", "USAGE",
           "METRICS", "END", "ERROR", "CANCEL", "PAUSE", "RESUME", "STEER",
           "REWIND", "SETTINGS", "PING", "PONG"}

\* The frames a transcript consists of; each has a header at least.
Frame == [op : Opcode, stream : Nat, boundary : BOOLEAN, data : Seq(0..255),
          key : Nat \X Nat, start : BOOLEAN, end : BOOLEAN, id : Nat,
          delta : Seq(0..255), size : Nat \ {0}]

\* They are written for stream 1; 0 is that of the connection.
ASSUME ScriptsAssumption ==
    /\ Scripts \subseteq Seq(Frame)
    /\ \A s \in Scripts : \A i \in 1..Len(s) : s[i].stream \in {0, 1}

VARIABLES script,       \* getScenarioTranscript, for this connection
          up,           \* the cells written by the client
          requests,     \* the frames in them
          chunked,      \* how many of up the server has been given
          parsed,       \* how many of these have left rxBuf
          upgraded,
          busy,         \* the loop of the data handler is running
          served,       \* the requests taken out of rxBuf
          down,         \* the cells written by the server
          sent,         \* the frames in them
          arrived,      \* how many of down the client may read
          closed

serverVars == <<script, up, requests, chunked, parsed, upgraded, busy, served,
                down, sent, arrived, closed>>

\* A frame as the models need it.  size is its length on the wire; boundary
\* and data are those of text, the others those of a tool call; data also
\* stands for the values of USAGE, METRICS and END.
LMFrame(op, stream, boundary, data, size) ==
    [op |-> op, stream |-> stream, boundary |-> boundary, data |-> data,
     key |-> <<0, 0>>, start |-> FALSE, end |-> FALSE, id |-> 0,
     delta |-> <<>>, size |-> size]

SettingsFrame == LMFrame("SETTINGS", 0, FALSE, <<>>, 2)

rxBuf == SubSeq(up, parsed + 1, chunked)

ServerInit ==
    /\ script \in Scripts
    /\ up = <<>> /\ requests = <<>> /\ chunked = 0 /\ parsed = 0
    /\ upgraded = FALSE /\ busy = FALSE /\ served = <<>>
    /\ down = <<>> /\ sent = <<>> /\ arrived = 0 /\ closed = FALSE

------------------------------------------------------------------------------
(* Writing *)

\* (mutant) frames are put in front of those already in the buffer
WrittenBackwards(frames) ==
    LET cells[i \in 0..Len(frames)] ==
            IF i = 0 THEN <<>>
            ELSE Framed(frames[i].size, FALSE, Len(sent) + i) \o cells[i - 1]
    IN  cells[Len(frames)]

\* The cells of frames, numbered from the messages already sent.
Written(frames) ==
    LET cells[i \in 0..Len(frames)] ==
            IF i = 0 THEN <<>>
            ELSE cells[i - 1] \o Framed(frames[i].size, FALSE, Len(sent) + i)
    IN  cells[Len(frames)]

ServerWrites(before, frames) ==
    /\ down' = down \o before \o Written(frames)
    /\ sent' = sent \o frames

------------------------------------------------------------------------------
(* Handlers *)

\* server.on("upgrade"): Node has parsed the request.  What follows it in the
\* same chunk (head) is dropped.
Upgrade ==
    /\ ~upgraded /\ ~closed
    /\ up # <<>>
    /\ upgraded' = TRUE
    /\ chunked' = Len(up)
    /\ parsed' = Len(up)
    /\ ServerWrites(HttpCells(2), <<SettingsFrame>>)
    /\ UNCHANGED <<script, up, requests, busy, served, arrived, closed>>

\* socket.on("data"), until the loop
Data ==
    /\ upgraded /\ ~busy /\ ~closed
    /\ chunked' \in (chunked + 1)..Len(up)
    /\ busy' = TRUE
    /\ UNCHANGED <<script, up, requests, parsed, upgraded, served, down, sent,
                   arrived, closed>>

\* Where the data of the frame at the front of buf begins, and its length.
IsExtended(buf) == buf[2].n = Short
MaskLen(buf) == IF buf[2].masked THEN 4 ELSE 0
Offset(buf) == (IF IsExtended(buf) THEN 4 ELSE 2) + MaskLen(buf)
PayloadLen(buf) ==
    IF IsExtended(buf) THEN BigEndian(buf[3].n, buf[4].n) ELSE buf[2].n

\* (mutant) the mask is forgotten where the length is checked
HasFrameUnmasked(buf) ==
    /\ Len(buf) >= 2
    /\ IsExtended(buf) => Len(buf) >= 4
    /\ Len(buf) >= Offset(buf) - MaskLen(buf) + PayloadLen(buf)

\* (mutant) the last byte of a frame is only taken with the next one
HasFrameAndMore(buf) ==
    /\ Len(buf) >= 2
    /\ IsExtended(buf) => Len(buf) >= 4
    /\ Len(buf) > Offset(buf) + PayloadLen(buf)

\* None of the breaks of the loop is taken.
HasFrame(buf) ==
    /\ Len(buf) >= 2
    /\ IsExtended(buf) => Len(buf) >= 4
    /\ Len(buf) >= Offset(buf) + PayloadLen(buf)

\* buf.subarray(from, to): the end of the buffer is the limit.
Subarray(buf, from, to) ==
    SubSeq(buf, from + 1, IF to < Len(buf) THEN to ELSE Len(buf))

\* The frame in these cells, if they are the whole of one; otherwise
\* decodeFrame throws, which is logged and forgotten.
Request(cells) ==
    IF \E m \in 1..Len(requests) : IsMessage(cells, requests[m].size, m)
    THEN <<requests[CHOOSE m \in 1..Len(requests) :
                      IsMessage(cells, requests[m].size, m)]>>
    ELSE <<>>

\* getScenarioTranscript(stream)
ScriptOn(stream) ==
    [i \in 1..Len(script) |->
        IF script[i].stream = 0 THEN script[i]
        ELSE [script[i] EXCEPT !.stream = stream]]

\* (mutant) whatever is not understood is echoed
ReplyEchoes(frame) ==
    IF frame.op = "OPEN" THEN ScriptOn(frame.stream)
    ELSE IF frame.op = "PING" THEN <<[frame EXCEPT !.op = "PONG", !.stream = 0]>>
    ELSE <<frame>>

\* What a frame is answered with.  One of no known opcode is refused by
\* decodeFrame, which throws: that is logged and forgotten.
Reply(frame) ==
    IF frame.op = "OPEN" THEN ScriptOn(frame.stream)
    ELSE IF frame.op = "PING" THEN <<[frame EXCEPT !.op = "PONG", !.stream = 0]>>
    ELSE <<>>

\* (mutant) the try is around the loop: a frame refused ends it
TakeFrameUntilRefused ==
    /\ busy /\ ~closed
    /\ HasFrame(rxBuf)
    /\ LET from == Offset(rxBuf)
           to == from + PayloadLen(rxBuf)
           frame == Request(Subarray(rxBuf, from, to))
       IN  /\ parsed' = chunked - Len(Subarray(rxBuf, to, Len(rxBuf)))
           /\ served' = served \o frame
           /\ ServerWrites(<<>>, IF frame = <<>> THEN <<>> ELSE Reply(frame[1]))
           /\ busy' = (frame # <<>> /\ frame[1].op \in Opcode)
    /\ UNCHANGED <<script, up, requests, chunked, upgraded, arrived, closed>>

\* One round of the loop: a frame leaves rxBuf and is answered.
TakeFrame ==
    /\ busy /\ ~closed
    /\ HasFrame(rxBuf)
    /\ LET from == Offset(rxBuf)
           to == from + PayloadLen(rxBuf)
           frame == Request(Subarray(rxBuf, from, to))
       IN  /\ parsed' = chunked - Len(Subarray(rxBuf, to, Len(rxBuf)))
           /\ served' = served \o frame
           /\ ServerWrites(<<>>, IF frame = <<>> THEN <<>> ELSE Reply(frame[1]))
    /\ UNCHANGED <<script, up, requests, chunked, upgraded, busy, arrived, closed>>

LeaveLoop ==
    /\ busy /\ ~closed
    /\ ~HasFrame(rxBuf)
    /\ busy' = FALSE
    /\ UNCHANGED <<script, up, requests, chunked, parsed, upgraded, served,
                   down, sent, arrived, closed>>

Serve == Upgrade \/ Data \/ TakeFrame \/ LeaveLoop

------------------------------------------------------------------------------
(* The network, and the end of the server *)

\* Bytes arrive in order, as many at once as TCP likes.
Arrive ==
    /\ arrived' \in {p \in (arrived + 1)..Len(down) : CutWrites \/ down[p].last}
    /\ UNCHANGED <<script, up, requests, chunked, parsed, upgraded, busy, served,
                   down, sent, closed>>

Close ==
    /\ MayClose /\ ~closed
    /\ closed' = TRUE
    /\ \E kept \in arrived..Len(down) : down' = SubSeq(down, 1, kept)
    /\ UNCHANGED <<script, up, requests, chunked, parsed, upgraded, busy, served,
                   sent, arrived>>

==============================================================================
