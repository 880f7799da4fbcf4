---------------------------- MODULE VectorSuite ----------------------------
(***************************************************************************)
(* The vector runner of the Python library (run_vectors.py) over the four  *)
(* manifests.  It decodes and re-encodes frames, but looks at the payloads *)
(* of a few invalid vectors only, and takes a scenario step that is        *)
(* refused for an intended one.  The properties ask of the vectors, and of *)
(* frames close to them, what the runner does not.                         *)
(***************************************************************************)
EXTENDS Vectors, Payloads

CONSTANTS Probes,       \* pairs of a position in a frame and a byte put there
          MaxProbed     \* the longest frame that is cut and changed

ASSUME ProbesAssumption ==
    /\ \A probe \in Probes : probe[1] \in Nat \ {0} /\ probe[2] \in Byte
    /\ MaxProbed \in Nat

\* The vectors and steps are bytes.
ASSUME VectorsAssumption ==
    /\ Golden \in Seq(Seq(Byte))
    /\ Invalid \in Seq(Seq(Byte))
    /\ Edge \in Seq(Seq(Byte))
    /\ ScenarioSteps \in Seq([to : {"server", "client"}, raw : Seq(Byte)])

\* There are 145 of them, and none has bytes behind its payload.
Raws == {Golden[i] : i \in DOMAIN Golden} \cup {Invalid[i] : i \in DOMAIN Invalid}
        \cup {Edge[i] : i \in DOMAIN Edge}
        \cup {ScenarioSteps[i].raw : i \in DOMAIN ScenarioSteps}

ASSUME SizesAssumption ==
    Len(Golden) + Len(Invalid) + Len(Edge) + Len(ScenarioSteps) = 145

ASSUME NothingBehindAssumption ==
    \A raw \in Raws :
        LET call == decode_header(raw)
        IN  Returns(call) => Len(raw) <= HEADER_SIZE + call.value.length

VARIABLES phase,        \* the manifest gone through
          vec,          \* the position in it
          total_tested,
          verdict       \* "running"; "validated"; "failed" by an assertion;
                        \* "crashed" by an exception nobody expects

vars == <<phase, vec, total_tested, verdict>>

------------------------------------------------------------------------------

Init == /\ phase = "golden"
        /\ vec = 1
        /\ total_tested = 0
        /\ verdict = "running"

\* A golden or an edge vector.
Reencoded(raw) ==
    LET frame == decode_frame(raw) IN
    IF ~Returns(frame) THEN "crashed"
    ELSE IF encode_frame(frame.value) = Ok(raw) THEN "running" ELSE "failed"

\* The payloads of three opcodes are decoded, of the others none.
PayloadCheck(frame) ==
    CASE frame.header.opcode = Opcode.USAGE  -> decode_usage(frame.payload)
      [] frame.header.opcode = Opcode.ERROR  -> decode_error(frame.payload)
      [] frame.header.opcode = Opcode.REWIND -> decode_rewind(frame.payload)
      [] OTHER -> Ok(<<>>)

\* An invalid vector.  Only LMStreamError is expected, and it always has the
\* code that all invalid vectors expect.
RefusedAsExpected(raw) ==
    LET frame == decode_frame(raw)
        call == IF Returns(frame) THEN PayloadCheck(frame.value) ELSE frame
    IN  CASE Returns(call)   -> "failed"
          [] call = Violation -> "running"
          [] OTHER           -> "crashed"

\* (mutant) every vector is counted where it is tried and where it passes
TestedTwice(manifest, outcome) ==
    /\ phase = manifest
    /\ verdict = "running"
    /\ verdict' = outcome
    /\ IF outcome = "running"
       THEN total_tested' = total_tested + 2 /\ vec' = vec + 1
       ELSE total_tested' = total_tested + 1 /\ UNCHANGED vec
    /\ UNCHANGED phase

\* The step from the vector at vec with this outcome.
Tested(manifest, outcome) ==
    /\ phase = manifest
    /\ verdict = "running"
    /\ verdict' = outcome
    /\ IF outcome = "running"
       THEN total_tested' = total_tested + 1 /\ vec' = vec + 1
       ELSE UNCHANGED <<total_tested, vec>>
    /\ UNCHANGED phase

TestGolden == /\ vec <= Len(Golden)
              /\ Tested("golden", Reencoded(Golden[vec]))

TestInvalid == /\ vec <= Len(Invalid)
               /\ Tested("invalid", RefusedAsExpected(Invalid[vec]))

TestEdge == /\ vec <= Len(Edge)
            /\ Tested("edge", Reencoded(Edge[vec]))

\* A step of a scenario: LMStreamError is passed over.
TestStep == /\ vec <= Len(ScenarioSteps)
            /\ LET frame == decode_frame(ScenarioSteps[vec].raw)
               IN  Tested("scenarios", IF Returns(frame) \/ frame = Violation
                                       THEN "running" ELSE "crashed")

Opened(manifest, size, next) ==
    /\ phase = manifest
    /\ verdict = "running"
    /\ vec > size
    /\ phase' = next
    /\ vec' = 1
    /\ UNCHANGED total_tested

OpenManifest ==
    \/ Opened("golden", Len(Golden), "invalid") /\ UNCHANGED verdict
    \/ Opened("invalid", Len(Invalid), "edge") /\ UNCHANGED verdict
    \/ Opened("edge", Len(Edge), "scenarios") /\ UNCHANGED verdict
    \/ Opened("scenarios", Len(ScenarioSteps), "done") /\ verdict' = "validated"

Next == TestGolden \/ TestInvalid \/ TestEdge \/ TestStep \/ OpenManifest

Spec == Init /\ [][Next]_vars /\ WF_vars(Next)

------------------------------------------------------------------------------
(* The vector at hand, and payloads by opcode *)

Current == CASE phase = "golden" /\ vec <= Len(Golden)   -> <<Golden[vec]>>
             [] phase = "invalid" /\ vec <= Len(Invalid) -> <<Invalid[vec]>>
             [] phase = "edge" /\ vec <= Len(Edge)       -> <<Edge[vec]>>
             [] phase = "scenarios" /\ vec <= Len(ScenarioSteps) ->
                    <<ScenarioSteps[vec].raw>>
             [] OTHER -> <<>>

\* OPEN is JSON, which the library has no codec for; so is an empty payload.
Decoded(op, b) ==
    CASE op = Opcode.SETTINGS  -> decode_settings(b)
      [] op \in {Opcode.PING, Opcode.PONG} -> decode_ping_pong(b)
      [] op = Opcode.OPEN_ACK  -> decode_open_ack(b)
      [] op \in {Opcode.CONTENT, Opcode.REASONING} -> decode_content(b)
      [] op = Opcode.TOOL_CALL -> decode_tool_call(b)
      [] op = Opcode.USAGE     -> decode_usage(b)
      [] op = Opcode.METRICS   -> decode_metrics(b)
      [] op = Opcode.END       -> decode_end(b)
      [] op = Opcode.ERROR     -> decode_error(b)
      [] op = Opcode.STEER     -> decode_steer(b)
      [] op = Opcode.REWIND    -> decode_rewind(b)
      [] OTHER                 -> Ok(b)

Encoded(op, p) ==
    CASE op = Opcode.SETTINGS  -> encode_settings(p)
      [] op \in {Opcode.PING, Opcode.PONG} -> encode_ping_pong(p)
      [] op = Opcode.OPEN_ACK  -> encode_open_ack(p)
      [] op \in {Opcode.CONTENT, Opcode.REASONING} -> encode_content(p)
      [] op = Opcode.TOOL_CALL -> encode_tool_call(p)
      [] op = Opcode.USAGE     -> encode_usage(p)
      [] op = Opcode.METRICS   -> encode_metrics(p)
      [] op = Opcode.END       -> encode_end(p)
      [] op = Opcode.ERROR     -> encode_error(p)
      [] op = Opcode.STEER     -> encode_steer(p)
      [] op = Opcode.REWIND    -> encode_rewind(p)
      [] OTHER                 -> Ok(p)

\* The frame with one byte changed, in every probed way, or one byte longer.
Variants(raw) ==
    IF Len(raw) > MaxProbed THEN {raw}
    ELSE {[raw EXCEPT ![probe[1]] = probe[2]] :
             probe \in {p \in Probes : p[1] <= Len(raw)}}
         \cup {Append(raw, 0)}

------------------------------------------------------------------------------
(* Properties *)

\* The number of vectors or steps of a manifest.
Size(manifest) == CASE manifest = "golden"    -> Len(Golden)
                    [] manifest = "invalid"   -> Len(Invalid)
                    [] manifest = "edge"      -> Len(Edge)
                    [] manifest = "scenarios" -> Len(ScenarioSteps)
                    [] manifest = "done"      -> 0

\* The runner's counters and its verdict keep their ranges: it stops behind the
\* last vector of each manifest, and counts no vector twice.
TypeOK ==
    /\ phase \in {"golden", "invalid", "edge", "scenarios", "done"}
    /\ vec \in 1..(Size(phase) + 1)
    /\ total_tested \in 0..145
    /\ verdict \in {"running", "validated", "failed", "crashed"}

\* All 145 vectors and steps of the four manifests are gone through with no
\* assertion and no exception, with codes and lengths of the codec as they are.
SuiteValidates == <>(verdict = "validated" /\ total_tested = 145)

\* A frame cut off anywhere, within its header or its payload, is refused with
\* PROTOCOL_VIOLATION; no part of a frame passes for a shorter frame.
CutFramesRefused ==
    \A raw \in {Current[i] : i \in DOMAIN Current} :
        Len(raw) <= MaxProbed =>
            \A n \in 0..(Len(raw) - 1) :
                decode_frame(SubSeq(raw, 1, n)) = Violation

\* Whatever bytes decode_frame accepts, vectors with a byte changed or added
\* among them, are those encode_frame makes of the frame they decode to.
AcceptedIsCanonical ==
    \A raw \in {Current[i] : i \in DOMAIN Current} :
        \A b \in Variants(raw) :
            LET frame == decode_frame(b) IN
            Returns(frame) =>
                encode_frame(frame.value) =
                    Ok(SubSeq(b, 1, HEADER_SIZE + frame.value.header.length))

\* The payload of a golden vector, edge vector or accepted scenario step is
\* what encoding its decoded form gives.  Only text cut within a character does
\* not decode: either BOUNDARY is clear or it goes on a cut character.
PayloadsSurvive ==
    (phase # "invalid") =>
    \A raw \in {Current[i] : i \in DOMAIN Current} :
        LET frame == decode_frame(raw)
            op == frame.value.header.opcode
            payload == Decoded(op, frame.value.payload)
        IN  Returns(frame) =>
                IF Returns(payload)
                THEN Encoded(op, payload.value) = Ok(frame.value.payload)
                ELSE /\ op \in {Opcode.CONTENT, Opcode.REASONING}
                     /\ \/ frame.value.header.flags = 0
                        \/ IsCont(frame.value.payload[2])

\* A payload that decodes, of a vector or of a frame close to one, loses
\* nothing when it is encoded and decoded again.
DecodedSurvives ==
    \A raw \in {Current[i] : i \in DOMAIN Current} :
        \A b \in Variants(raw) :
            LET frame == decode_frame(b)
                op == frame.value.header.opcode
                payload == Decoded(op, frame.value.payload)
            IN  Returns(frame) /\ Returns(payload) =>
                    /\ Returns(Encoded(op, payload.value))
                    /\ Decoded(op, Encoded(op, payload.value).value) = payload

\* The runner passes over every scenario step that is refused.  The ones that
\* are refused are answered in the next step by an ERROR of the connection with
\* PROTOCOL_VIOLATION, and no frame to the client is.
RefusedStepAnswered ==
    (phase = "scenarios" /\ vec <= Len(ScenarioSteps)) =>
        LET step == ScenarioSteps[vec]
        IN  ~Returns(decode_frame(step.raw)) =>
                /\ step.to = "server"
                /\ vec < Len(ScenarioSteps)
                /\ LET answer == decode_frame(ScenarioSteps[vec + 1].raw)
                   IN  /\ ScenarioSteps[vec + 1].to = "client"
                       /\ Returns(answer)
                       /\ answer.value.header.opcode = Opcode.ERROR
                       /\ answer.value.header.stream_id = 0
                       /\ decode_error(answer.value.payload).value.code =
                              PROTOCOL_VIOLATION

==============================================================================
