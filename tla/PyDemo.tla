------------------------------- MODULE PyDemo -------------------------------
(***************************************************************************)
(* The Python demo client (demo.py) against the mock server.  It reads its *)
(* socket with blocking calls of recv, each of which returns what is there *)
(* up to a limit, and nothing once the stream has ended.  pc is the call   *)
(* it is about to make.                                                    *)
(*                                                                         *)
(* The demo starts once it is connected.  Server frames are never masked,  *)
(* so that the branches for masked ones are left out.                      *)
(***************************************************************************)
EXTENDS MockServer, ToolAssembler, Utf8Assembler

CONSTANTS Expected,     \* the transcript that run_demo asserts
          OpenSize      \* the length of its OPEN frame

VARIABLES pc,           \* "connect", "handshake", "head", "ext", "body"; how it
                        \* came out, "passed", "raised"; or that it goes round
                        \* for ever, "spinning", or has lost its place, "misread"
          error,        \* what was raised
          established,  \* SETTINGS has been read, OPEN sent
          taken,        \* how many of down have been read
          bodyFrom,     \* where the data of the frame being read begin
          need,         \* the length read for it
          session,      \* the variables of run_demo
          handled,      \* the frames decoded
          overread,     \* the handshake has read more than the response
          short         \* a recv(2) has returned one byte

clientVars == <<pc, error, established, taken, bodyFrom, need, session, handled,
                overread, short>>

vars == <<serverVars, clientVars>>

NoneYet == <<-1>>       \* usage, metrics and end before their frames

\* The frame behind which the loop of run_demo is left.
EndsLoop(frame) == frame.op = "END" /\ frame.stream # 0

\* A transcript has one END, its last frame; the END that is asserted is one.
ASSUME DemoAssumption ==
    /\ OpenSize \in Nat \ {0}
    /\ Expected.end # NoneYet
    /\ \A s \in Scripts : \A i \in 1..Len(s) : EndsLoop(s[i]) => i = Len(s)

\* The variables of run_demo before its loop.
NewSession == [reasoning |-> <<>>, reasoningPending |-> <<>>,
               content |-> <<>>, contentPending |-> <<>>,
               active |-> <<>>, completed |-> <<>>,
               usage |-> NoneYet, metrics |-> NoneYet, end |-> NoneYet]

ClientInit ==
    /\ pc = "connect" /\ error = "none" /\ established = FALSE
    /\ taken = 0 /\ bodyFrom = 0 /\ need = 0 /\ handled = <<>>
    /\ overread = FALSE /\ short = FALSE
    /\ session = NewSession

Init == ServerInit /\ ClientInit

------------------------------------------------------------------------------
(* The socket *)

Available == arrived - taken

\* The server is gone and nothing is left to read: recv returns no bytes.
AtEnd == closed /\ arrived = Len(down) /\ Available = 0

\* sendall
ClientSends(cells, frames) ==
    /\ up' = up \o cells
    /\ requests' = requests \o frames
    /\ UNCHANGED <<script, chunked, parsed, upgraded, busy, served, down, sent,
                   arrived, closed>>

Raised(exception) == pc' = "raised" /\ error' = exception

------------------------------------------------------------------------------
(* make_ws_handshake *)

SendUpgrade ==
    /\ pc = "connect"
    /\ pc' = "handshake"
    /\ ClientSends(HttpCells(1), <<>>)
    /\ UNCHANGED <<error, established, taken, bodyFrom, need, session, handled,
                   overread, short>>

\* The blank line is among the bytes read.
ResponseRead == \E p \in 1..arrived : down[p].kind = "http" /\ down[p].last

\* recv(1024) takes all there is.  At the end of the stream the loop goes on
\* for ever, adding nothing to resp.
RecvResponse ==
    /\ pc = "handshake"
    /\ \/ /\ Available > 0
          /\ taken' = arrived
          /\ pc' = IF ResponseRead THEN "head" ELSE "handshake"
          /\ overread' = \E p \in (taken + 1)..arrived : down[p].kind # "http"
       \/ /\ AtEnd
          /\ pc' = "spinning"
          /\ UNCHANGED <<taken, overread>>
    /\ UNCHANGED <<error, established, bodyFrom, need, session, handled, short>>
    /\ UNCHANGED serverVars

------------------------------------------------------------------------------
(* What run_demo does with a frame *)

\* Utf8BoundaryAssembler.process_frame, on a channel given by the fields text
\* and pending: the decoder is strict and raises where TextDecoder replaces.
TextStep(s, text, pending, frame) ==
    LET shown == Rendered(s[pending], frame.boundary, frame.data)
        kept == Kept(s[pending], frame.boundary, frame.data)
    IN  IF WellFormed(shown)
        THEN [raised |-> "none",
              session |-> [s EXCEPT ![text] = @ \o shown, ![pending] = kept]]
        ELSE [raised |-> "UnicodeDecodeError", session |-> s]

\* decode_tool_call decodes the arguments of each frame by themselves;
\* process_payload raises for a call it does not know and for arguments that
\* do not parse.
ToolStep(s, frame) ==
    IF ~WellFormed(frame.delta)
    THEN [raised |-> "UnicodeDecodeError", session |-> s]
    ELSE IF Unknown(s.active, frame)
    THEN [raised |-> "ValueError", session |-> s]
    ELSE LET call == CompletedBy(s.active, frame)
         IN  IF frame.end /\ call = <<>>
             THEN [raised |-> "JSONDecodeError", session |-> s]
             ELSE [raised |-> "none",
                   session |-> [s EXCEPT !.active = ActivePy(s.active, frame),
                                         !.completed = @ \o call]]

Set(s, field, frame) ==
    [raised |-> "none", session |-> [s EXCEPT ![field] = frame.data]]

\* The body of the loop.  Other opcodes, ERROR and REWIND among them, and the
\* connection's own frames are passed over.
Dispatch(s, frame) ==
    CASE frame.stream = 0        -> [raised |-> "none", session |-> s]
      [] frame.stream # 0 /\ frame.op = "REASONING" ->
             TextStep(s, "reasoning", "reasoningPending", frame)
      [] frame.stream # 0 /\ frame.op = "CONTENT" ->
             TextStep(s, "content", "contentPending", frame)
      [] frame.stream # 0 /\ frame.op = "TOOL_CALL" -> ToolStep(s, frame)
      [] frame.stream # 0 /\ frame.op = "USAGE"   -> Set(s, "usage", frame)
      [] frame.stream # 0 /\ frame.op = "METRICS" -> Set(s, "metrics", frame)
      [] frame.stream # 0 /\ frame.op = "END"     -> Set(s, "end", frame)
      [] OTHER                   -> [raised |-> "none", session |-> s]

\* (mutant) what the session ended with is not asserted
TranscriptOfText(s) ==
    /\ s.reasoning = Expected.reasoning
    /\ s.completed = Expected.completed
    /\ s.content = Expected.content

\* The assertions behind the loop.
Transcript(s) ==
    /\ s.reasoning = Expected.reasoning
    /\ s.completed = Expected.completed
    /\ s.content = Expected.content
    /\ s.usage = Expected.usage
    /\ s.metrics = Expected.metrics
    /\ s.end = Expected.end

\* The loop is left with these variables.
Verdict(s) == IF Transcript(s) THEN pc' = "passed" /\ UNCHANGED error
              ELSE Raised("AssertionError")

OpenFrame == LMFrame("OPEN", 1, FALSE, <<>>, OpenSize)

\* The first frame has to be SETTINGS; it is answered with OPEN.  To write to a
\* server that is gone may raise.
HandleSettings(frame) ==
    /\ UNCHANGED session
    /\ IF frame.op # "SETTINGS"
       THEN /\ Raised("AssertionError")
            /\ UNCHANGED <<established, serverVars>>
       ELSE \/ /\ pc' = "head"
               /\ established' = TRUE
               /\ ClientSends(Framed(OpenSize, TRUE, Len(requests) + 1),
                              <<OpenFrame>>)
               /\ UNCHANGED error
            \/ /\ closed
               /\ Raised("ConnectionError")
               /\ UNCHANGED <<established, serverVars>>

\* (mutant) the assemblers are created in the loop, one for each frame
HandleFrameAnew(frame) ==
    /\ UNCHANGED <<established, serverVars>>
    /\ LET done == Dispatch([session EXCEPT !.reasoningPending = <<>>,
                                            !.contentPending = <<>>], frame)
       IN  /\ session' = done.session
           /\ IF done.raised # "none" THEN Raised(done.raised)
              ELSE IF EndsLoop(frame)
              THEN Verdict(done.session)
              ELSE pc' = "head" /\ UNCHANGED error

HandleFrame(frame) ==
    /\ UNCHANGED <<established, serverVars>>
    /\ LET done == Dispatch(session, frame)
       IN  /\ session' = done.session
           /\ IF done.raised # "none" THEN Raised(done.raised)
              ELSE IF EndsLoop(frame)
              THEN Verdict(done.session)
              ELSE pc' = "head" /\ UNCHANGED error

------------------------------------------------------------------------------
(* recv_ws_binary *)

\* b1, b2 = sock.recv(2): two bytes, or the unpacking raises.  A reader that
\* has lost its place takes other bytes for a header, and is not followed.
RecvHead ==
    /\ pc = "head"
    /\ Available > 0 \/ AtEnd
    /\ short' = (short \/ Available = 1)
    /\ IF Available < 2
       THEN /\ Raised("ValueError")
            /\ taken' = taken + Available
            /\ UNCHANGED <<bodyFrom, need>>
       ELSE /\ taken' = taken + 2
            /\ bodyFrom' = taken + 2
            /\ need' = down[taken + 2].n
            /\ pc' = IF down[taken + 1].kind # "op" THEN "misread"
                     ELSE IF down[taken + 2].n = Short THEN "ext" ELSE "body"
            /\ UNCHANGED error
    /\ UNCHANGED <<established, session, handled, overread, serverVars>>

\* int.from_bytes(sock.recv(2), "big"): one byte alone, or none, is a number too.
RecvExtended ==
    /\ pc = "ext"
    /\ Available > 0 \/ AtEnd
    /\ short' = (short \/ Available = 1)
    /\ LET n == IF Available < 2 THEN Available ELSE 2
       IN  /\ taken' = taken + n
           /\ bodyFrom' = taken + n
           /\ need' = CASE n = 0 -> 0
                        [] n = 1 -> down[taken + 1].n
                        [] n = 2 -> BigEndian(down[taken + 1].n, down[taken + 2].n)
    /\ pc' = "body"
    /\ UNCHANGED <<error, established, session, handled, overread, serverVars>>

\* (mutant) one call of recv is taken to return all that was asked for
LimitedToAll(wanted) == wanted

\* recv(limit) returns at most limit bytes.
Limited(limit) == IF Available < limit THEN Available ELSE limit

\* data has grown to its length: a frame, or what a wrong length cut out.
RecvAll ==
    /\ pc = "body"
    /\ taken - bodyFrom = need
    /\ LET cells == SubSeq(down, bodyFrom + 1, taken)
       IN  IF need = 0 THEN
              /\ IF established THEN Verdict(session) ELSE Raised("LMStreamError")
              /\ UNCHANGED <<established, session, handled, serverVars>>
           ELSE IF IsMessage(cells, sent[cells[1].msg].size, cells[1].msg) THEN
              LET frame == sent[cells[1].msg]
              IN  /\ handled' = Append(handled, frame)
                  /\ IF established THEN HandleFrame(frame)
                                    ELSE HandleSettings(frame)
           ELSE /\ pc' = "misread"
                /\ UNCHANGED <<error, established, session, handled, serverVars>>
    /\ UNCHANGED <<taken, bodyFrom, need, overread, short>>

\* One round of the loop.  At the end of the stream it breaks, and a frame cut
\* short does not decode; one without a byte ends the loop of run_demo.
RecvSome ==
    /\ pc = "body"
    /\ taken - bodyFrom < need
    /\ \/ /\ Available > 0
          /\ taken' = taken + Limited(need - (taken - bodyFrom))
          /\ UNCHANGED <<pc, error>>
       \/ /\ AtEnd
          /\ IF taken = bodyFrom /\ established THEN Verdict(session)
             ELSE Raised("LMStreamError")
          /\ UNCHANGED taken
    /\ UNCHANGED <<established, bodyFrom, need, session, handled, overread,
                   short, serverVars>>

Demo == SendUpgrade \/ RecvResponse \/ RecvHead \/ RecvExtended \/ RecvAll
        \/ RecvSome

\* Nothing is written to a client that has come to an end, nor answered by it.
Next == \/ Demo
        \/ Serve /\ UNCHANGED clientVars
        \/ Arrive /\ UNCHANGED clientVars
        \/ Close /\ UNCHANGED clientVars

\* The demo goes on when a call returns, the server when a chunk is there, and
\* bytes written arrive.  Nothing obliges the server to be killed.
Spec == /\ Init
        /\ [][Next]_vars
        /\ WF_vars(Demo)
        /\ WF_vars(Serve /\ UNCHANGED clientVars)
        /\ WF_vars(Arrive /\ UNCHANGED clientVars)

------------------------------------------------------------------------------
(* Transcripts *)

\* The variables of run_demo behind the first i frames of script s.
After(s) ==
    LET after[i \in 0..Len(s)] ==
            IF i = 0 THEN NewSession ELSE Dispatch(after[i - 1], s[i]).session
    IN  after

\* run_demo raises nothing at its frames, and they are the expected transcript.
Accepted(s) == /\ \A i \in 1..Len(s) : Dispatch(After(s)[i - 1], s[i]).raised = "none"
               /\ Transcript(After(s)[Len(s)])

\* The bytes of a channel in a frame, and in the first i frames of script s.
TextOf(frame, op) ==
    IF frame.stream # 0 /\ frame.op = op THEN frame.data ELSE <<>>

Said(s, op) ==
    LET said[i \in 0..Len(s)] ==
            IF i = 0 THEN <<>> ELSE said[i - 1] \o TextOf(s[i], op)
    IN  said

\* Its channels are texts, cut anywhere but behind a frame that promises a whole
\* character, and the arguments of a call are cut between characters.
Truthful(s) ==
    \A i \in 1..Len(s) : s[i].stream # 0 =>
        /\ s[i].op \in {"REASONING", "CONTENT"} =>
               /\ Partial(Said(s, s[i].op)[i])
               /\ s[i].boundary => Closed(Said(s, s[i].op)[i])
        /\ s[i].op = "TOOL_CALL" => WellFormed(s[i].delta)

------------------------------------------------------------------------------
(* Properties *)

\* The demo has ended: run_demo has returned, or it has raised.
Outcomes == {"passed", "raised"}

\* Positions stay within their streams, the client's text is bytes, and only a
\* demo that raised has an error.
TypeOK ==
    /\ pc \in {"connect", "handshake", "head", "ext", "body"} \cup Outcomes
              \cup {"spinning", "misread"}
    /\ (pc = "raised") <=> (error # "none")
    /\ 0 <= parsed /\ parsed <= chunked /\ chunked <= Len(up)
    /\ 0 <= bodyFrom /\ bodyFrom <= taken /\ taken <= arrived
    /\ arrived <= Len(down)
    /\ need \in Nat
    /\ \A field \in {"reasoning", "reasoningPending", "content", "contentPending"} :
           session[field] \in Seq(Byte)

\* s is the beginning of t.
Begins(s, t) == Len(s) <= Len(t) /\ s = SubSeq(t, 1, Len(s))

\* However the bytes are cut on their way, and whenever the server dies, the
\* frames the demo decodes are the first of those the server sent, in order.
FramesInOrder == Begins(handled, sent)

\* The demo reports success only when it has seen the whole transcript: one cut
\* off by the death of the server at any byte never passes.
PassesOnWhole == pc = "passed" => handled = <<SettingsFrame>> \o script

\* Text may be cut in the middle of characters: no frame with text raises, since
\* the assembler keeps the rest, and no arguments do that are cut between them.
NeverUndecodable == error # "UnicodeDecodeError"

\* With a transcript it expects, the demo fails only by the way it reads: recv(2)
\* returned one byte, the handshake took too much, or the server died.
FailsOnlyByReading ==
    pc \in {"raised", "spinning", "misread"} => overread \/ short \/ closed

\* The server was killed before the response was on its way to its end.
Unanswered == closed /\ ~\E p \in 1..Len(down) : down[p].kind = "http" /\ down[p].last

\* The demo ends, in a verdict or an exception, whatever is cut and whenever the
\* server dies, but for three cases: the handshake has taken bytes behind the
\* response, the reader has lost its place, or there was no response to read.
EndsIfAnswered == <>(pc \in Outcomes \/ pc = "misread" \/ overread \/ Unanswered)

\* The demo connects, exchanges frames and ends with a verdict.
DemoSettles == <>(pc \in Outcomes)

==============================================================================
