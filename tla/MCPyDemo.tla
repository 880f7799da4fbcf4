------------------------------ MODULE MCPyDemo ------------------------------
(* The demo for TLC.  Of the transcript's texts a few characters are kept,   *)
(* the degree sign of its content among them; frames are one to six bytes    *)
(* long, so that some take an extended length whose high byte is not zero.   *)
EXTENDS PyDemo

F(op, data, size) == LMFrame(op, 1, TRUE, data, size)

Reasoning == F("REASONING", <<67>>, 2)
Content(data, boundary) == LMFrame("CONTENT", 1, boundary, data, 1)
Call(start, end, delta) ==
    [LMFrame("TOOL_CALL", 1, FALSE, <<>>, 1)
       EXCEPT !.start = start, !.end = end, !.id = IF start THEN 1 ELSE 0,
              !.delta = delta]

Opening == <<F("OPEN_ACK", <<>>, 1), Reasoning>>
Ending == <<F("USAGE", <<39>>, 2), F("METRICS", <<92>>, 1), F("END", <<0>>, 1)>>

Calls == <<Call(TRUE, FALSE, <<123>>), Call(FALSE, TRUE, <<195, 169, 125>>)>>
CutCalls == <<Call(TRUE, FALSE, <<123, 195>>), Call(FALSE, TRUE, <<169, 125>>)>>

\* "8", degree sign, "C"
Answer == <<56, 194, 176, 67>>

Whole == <<[F("CONTENT", Answer, 6) EXCEPT !.boundary = TRUE]>>

\* The answer in two frames, in the middle of its character too.
Cut(n) == <<Content(SubSeq(Answer, 1, n), n # 2),
            Content(SubSeq(Answer, n + 1, 4), TRUE)>>

\* Frames of the connection, and an error the demo passes over.
Between == <<LMFrame("PING", 0, FALSE, <<>>, 1), F("ERROR", <<>>, 1)>>

MCScripts == {Opening \o Calls \o Whole \o Ending,
              Opening \o Between \o Whole \o Calls \o Ending}
             \cup {Opening \o Calls \o Cut(n) \o Ending : n \in 1..3}

CutArgs == {Opening \o CutCalls \o Whole \o Ending}

MCExpected == [reasoning |-> <<67>>, content |-> Answer,
               completed |-> <<[key |-> <<0, 0>>, id |-> 1,
                                args |-> <<123, 195, 169, 125>>]>>,
               usage |-> <<39>>, metrics |-> <<92>>, end |-> <<0>>]

MCJson == {<<123, 195, 169, 125>>}

\* What the theorems suppose of the transcripts.
ASSUME TranscriptsAssumption == \A s \in MCScripts : Accepted(s) /\ Truthful(s)

==============================================================================
