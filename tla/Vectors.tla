------------------------------ MODULE Vectors ------------------------------
(***************************************************************************)
(* The test vectors as scripts/build_manifests.py makes them: valid frames *)
(* ("golden"), frames to be refused ("invalid"), frames at the limits      *)
(* ("edge") and exchanges of frames ("scenarios").  Headers, numbers and   *)
(* characters of several bytes are the bytes of the script; of ASCII text  *)
(* only the length is kept.                                                *)
(***************************************************************************)
EXTENDS FrameCodec

Text(n) == [i \in 1..n |-> 97]

Zeros(n) == [i \in 1..n |-> 0]

\* struct.pack("<IBBH", ...), and the payload behind it
make_header(stream_id, opcode, flags, length) ==
    LE4(stream_id) \o <<opcode, flags>> \o LE2(length)

make_frame(stream_id, opcode, flags, payload) ==
    make_header(stream_id, opcode, flags, Len(payload)) \o payload

\* One frame for each payload.
Each(stream_id, opcode, flags, payloads) ==
    [i \in DOMAIN payloads |-> make_frame(stream_id, opcode, flags, payloads[i])]

------------------------------------------------------------------------------
(* The calls of struct.pack that make payloads *)

SettingsBytes(frame_size, cap, heartbeat, sessions) ==
    <<1>> \o LE4(frame_size) \o LE4(cap) \o LE4(heartbeat) \o LE2(sessions)
    \o <<0, 0, 0>>

DefaultSettings == SettingsBytes(65535, 1048576, 15000, 100)

AckBytes(session, n) == LE4(session) \o LE2(n) \o Text(n)

Choice0(text) == <<0>> \o text

\* choice 0: a first fragment, with the lengths of id and name, and a later one
ToolStart(call, flags, id, name, args) ==
    <<0>> \o LE2(call) \o <<flags, id>> \o LE2(name) \o Text(id + name + args)
ToolMore(flags, args) == <<0, 0, 0, flags>> \o Text(args)

UsageBytes(prompt, completion, cached, attempts, reserved) ==
    LE4(prompt) \o LE4(completion) \o LE4(prompt + completion) \o LE4(cached)
    \o <<attempts, reserved, 0, 0>>

MetricsBytes(ttft, duration, rate, key) ==
    LE4(ttft) \o LE4(duration) \o LE4(rate) \o key

ErrorBytes(code, status, scope, length, given) ==
    LE2(code) \o LE2(status) \o <<0, scope>> \o LE2(length) \o Text(given)

RewindBytes(target, reserved, offset) ==
    <<target, 0>> \o LE2(reserved) \o LE4(offset)

------------------------------------------------------------------------------
(* build_golden_vectors: the payloads of an opcode, or frames of several *)

SettingsPayloads == <<DefaultSettings, SettingsBytes(32768, 524288, 30000, 250)>>

PingPayloads == <<Zeros(8), <<0, 104, 229, 207, 139, 1, 0, 0>>, [i \in 1..8 |-> 255]>>
PongPayloads == <<<<0, 104, 229, 207, 139, 1, 0, 0>>, <<42>> \o Zeros(7)>>

GoldenOpens ==
    <<make_frame(1, 1, 0, Text(19)), make_frame(3, 1, 0, Text(102)),
      make_frame(5, 1, 0, Text(59)),
      make_frame(1, 2, 0, AckBytes(1, 6)), make_frame(3, 2, 0, AckBytes(3, 26))>>

ContentPayloads ==
    <<Choice0(<<>>), Choice0(Text(1)), Choice0(Text(5)), Choice0(Text(9)),
      Choice0(Text(3) \o <<195, 169>>),
      Choice0(<<226, 130, 172>> \o Text(3)),
      Choice0(<<240, 159, 154, 128, 240, 159, 148, 165>>),
      Choice0(Text(6) \o <<228, 184, 150, 231, 149, 140>> \o Text(1)
              \o <<240, 159, 140, 141>>),
      <<1>> \o Text(11)>>
CutPayloads == <<Choice0(Text(7) \o <<226, 130>>)>>
ReasoningPayloads == <<Choice0(Text(26)), Choice0(Text(19)), Choice0(Text(26))>>

ToolPayloads == <<ToolStart(0, 5, 11, 11, 32), ToolStart(1, 5, 7, 8, 0),
                  ToolStart(0, 1, 8, 6, 10), ToolMore(2, 17), ToolMore(4, 2)>>

UsagePayloads == <<UsageBytes(0, 0, 0, 1, 0), UsageBytes(150, 42, 32, 1, 0),
                   UsageBytes(128000, 4096, 64000, 1, 0),
                   UsageBytes(500, 100, 0, 3, 0)>>
MetricsPayloads ==
    <<MetricsBytes(45, 230, 8550, <<239, 205, 171, 144, 120, 86, 52, 18>>),
      MetricsBytes(1200, 9500, 2430, <<239, 190, 173, 222, 190, 186, 254, 202>>),
      MetricsBytes(0, 10, 0, Zeros(8))>>

EndPayloads == <<<<0, 0>>, <<1, 0>>, <<2, 0>>, <<3, 0>>, <<4, 0>>, <<0, 1>>>>

ErrorPayloads ==
    <<ErrorBytes(1001, 400, 0, 22, 22), ErrorBytes(1002, 401, 1, 29, 29),
      ErrorBytes(1003, 429, 0, 36, 36), ErrorBytes(1004, 503, 0, 21, 21),
      ErrorBytes(1005, 500, 0, 35, 35), ErrorBytes(1006, 0, 0, 30, 30),
      ErrorBytes(1007, 0, 0, 34, 34), ErrorBytes(1008, 0, 1, 28, 28),
      ErrorBytes(1009, 0, 0, 38, 38)>>

GoldenSignals ==
    <<make_frame(1, 10, 0, <<>>), make_frame(3, 10, 0, <<>>),
      make_frame(1, 11, 0, <<>>), make_frame(5, 11, 0, <<>>),
      make_frame(1, 12, 0, <<>>), make_frame(5, 12, 0, <<>>)>>
GoldenSteers ==
    <<make_frame(1, 13, 0, LE2(10) \o Text(10)),
      make_frame(1, 13, 0, LE2(21) \o (Text(1) \o <<195, 169>> \o Text(13)
                                       \o <<195, 167>> \o Text(3))),
      make_frame(3, 13, 0, LE2(51) \o Text(51))>>
RewindPayloads == <<RewindBytes(3, 0, 0), RewindBytes(3, 0, 48),
                    RewindBytes(4, 0, 120), RewindBytes(5, 0, 0)>>

LongPayloads == <<Choice0(Text(25)), Choice0(Text(20)), Choice0(Text(1023)),
                  Choice0(Text(65526))>>

Golden ==
    Each(0, 15, 0, SettingsPayloads) \o Each(0, 16, 0, PingPayloads)
    \o Each(0, 17, 0, PongPayloads) \o GoldenOpens \o Each(1, 3, 1, ContentPayloads)
    \o Each(1, 3, 0, CutPayloads) \o Each(1, 4, 1, ReasoningPayloads)
    \o Each(1, 5, 0, ToolPayloads) \o Each(1, 6, 0, UsagePayloads)
    \o Each(1, 7, 0, MetricsPayloads) \o Each(1, 8, 0, EndPayloads)
    \o Each(1, 9, 0, ErrorPayloads) \o GoldenSignals \o GoldenSteers
    \o Each(1, 14, 0, RewindPayloads) \o Each(1, 3, 1, LongPayloads)

------------------------------------------------------------------------------
(* build_invalid_vectors: every one is expected to raise code 1008 *)

Invalid ==
    <<make_header(1, 3, 1, 65528) \o Zeros(10),
      make_frame(1, 3, 2, Choice0(Text(4))),
      make_frame(1, 3, 4, Choice0(Text(4))),
      make_frame(1, 3, 128, Choice0(Text(4))),
      make_frame(1, 0, 0, <<>>),
      make_frame(1, 32, 0, Text(4)),
      make_frame(1, 47, 0, Text(4)),
      make_frame(0, 3, 1, Choice0(Text(4))),
      make_frame(1, 15, 0, DefaultSettings),
      make_frame(0, 15, 0, [i \in 1..17 |-> 1]),
      make_frame(1, 6, 0, Zeros(19)),
      make_frame(1, 7, 0, Zeros(19)),
      make_frame(1, 10, 0, Text(13)),
      make_frame(1, 11, 0, Text(9)),
      make_frame(1, 12, 0, Text(10)),
      make_frame(1, 9, 0, ErrorBytes(1001, 400, 0, 20, 5)),
      make_frame(1, 6, 0, UsageBytes(10, 10, 0, 1, 255)),
      make_frame(1, 14, 0, RewindBytes(3, 65535, 10))>>

------------------------------------------------------------------------------
(* build_edge_vectors *)

\* Characters of several bytes, cut; the frame goes on or ends with the character.
SplitCharacters ==
    <<make_frame(1, 3, 0, Choice0(Text(3) \o <<195>>)),
      make_frame(1, 3, 1, Choice0(<<169>> \o Text(6))),
      make_frame(1, 3, 0, Choice0(Text(6) \o <<226>>)),
      make_frame(1, 3, 1, Choice0(<<130, 172>> \o Text(2))),
      make_frame(1, 3, 0, Choice0(<<226>>)),
      make_frame(1, 3, 0, Choice0(<<130>>)),
      make_frame(1, 3, 1, Choice0(<<172>>)),
      make_frame(1, 3, 0, Choice0(<<240>>)),
      make_frame(1, 3, 0, Choice0(<<159>>)),
      make_frame(1, 3, 1, Choice0(<<153, 128>>))>>

SplitTools == <<ToolMore(2, 13), ToolMore(4, 4), ToolMore(2, 6), ToolMore(4, 12),
                ToolStart(0, 5, 0, 0, 2)>>

EdgeLimits ==
    <<make_frame(1, 3, 1, Choice0(<<>>)),
      make_frame(1, 3, 0, Choice0(Text(1000) \o <<240, 159>>)),
      make_frame(1, 5, 0, ToolStart(65535, 5, 2, 4, 2)),
      make_frame(1, 3, 1, <<255>> \o Text(15)),
      make_frame(1, 5, 0, ToolMore(2, 16)),
      make_frame(1, 5, 0, ToolMore(4, 8)),
      make_frame(1, 4, 1, Choice0(<<>>))>>

Edge == SplitCharacters \o Each(1, 5, 0, SplitTools) \o EdgeLimits

------------------------------------------------------------------------------
(* build_scenario_vectors: the frames with their direction.  The state the *)
(* client is expected to be in after each is left out: no runner reads it. *)

ToClient(raw) == [to |-> "client", raw |-> raw]
ToServer(raw) == [to |-> "server", raw |-> raw]

ContentOf(stream, n) == make_frame(stream, 3, 1, Choice0(Text(n)))
EndOf(stream) == make_frame(stream, 8, 0, <<0, 0>>)

Happy == <<
    ToClient(make_frame(0, 15, 0, DefaultSettings)),
    ToServer(make_frame(1, 1, 0, Text(18))),
    ToClient(make_frame(1, 2, 0, AckBytes(1, 6))),
    ToClient(make_frame(1, 4, 1, Choice0(Text(19)))),
    ToClient(make_frame(1, 5, 0, ToolStart(0, 1, 6, 11, 8))),
    ToClient(make_frame(1, 5, 0, ToolMore(4, 8))),
    ToClient(make_frame(1, 6, 0, UsageBytes(25, 14, 0, 1, 0))),
    ToClient(make_frame(1, 7, 0, MetricsBytes(95, 340, 9200,
                                <<136, 119, 102, 85, 68, 51, 34, 17>>))),
    ToClient(EndOf(1))>>

PauseResume == <<
    ToClient(ContentOf(1, 7)),
    ToServer(make_frame(1, 11, 0, <<>>)),
    ToServer(make_frame(1, 12, 0, <<>>)),
    ToClient(ContentOf(1, 7)),
    ToClient(EndOf(1))>>

\* Scenarios 3 and 4: a pause that ends in an error of the session.
PauseError(code, n) == <<
    ToServer(make_frame(1, 11, 0, <<>>)),
    ToClient(make_frame(1, 9, 0, ErrorBytes(code, 0, 0, n, n)))>>

Steering == <<
    ToClient(ContentOf(1, 27)),
    ToServer(make_frame(1, 13, 0, LE2(10) \o Text(10))),
    ToClient(ContentOf(1, 35)),
    ToClient(EndOf(1))>>

Failover == <<
    ToClient(make_frame(1, 5, 0, ToolStart(0, 1, 6, 8, 5))),
    ToClient(make_frame(1, 14, 0, RewindBytes(5, 0, 0))),
    ToClient(ContentOf(1, 17)),
    ToClient(EndOf(1))>>

Interleaved == <<
    ToServer(make_frame(1, 1, 0, Text(18))),
    ToServer(make_frame(3, 1, 0, Text(18))),
    ToClient(make_frame(1, 2, 0, AckBytes(1, 6))),
    ToClient(make_frame(3, 2, 0, AckBytes(3, 6))),
    ToClient(ContentOf(1, 14)),
    ToClient(ContentOf(3, 14)),
    ToClient(EndOf(1)),
    ToClient(EndOf(3))>>

Teardown == <<
    ToServer(make_frame(1, 3, 8, Choice0(Text(8)))),
    ToClient(make_frame(0, 9, 0, ErrorBytes(1008, 0, 1, 18, 18)))>>

\* The steps of the eight scenarios, in the order in which the runners go through
\* them.
ScenarioSteps ==
    Happy \o PauseResume \o PauseError(1006, 8) \o PauseError(1009, 15)
    \o Steering \o Failover \o Interleaved \o Teardown

==============================================================================
