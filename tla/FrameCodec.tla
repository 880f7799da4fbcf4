----------------------------- MODULE FrameCodec -----------------------------
(***************************************************************************)
(* The frame codec of the Python library (frame.py, enums.py): the eight   *)
(* bytes of a header, what decode_header refuses, and the frame around a   *)
(* payload.  Bytes are numbers, little end first.  A call that returns is  *)
(* Ok(value); one that raises is the name of its exception, where          *)
(* "LMStreamError" always stands for code 1008, PROTOCOL_VIOLATION.        *)
(***************************************************************************)
EXTENDS Integers, Sequences

CONSTANT U32Max         \* the largest number of four bytes, 2^32 - 1

\* The largest number of two bytes.
U16Max == 65535

ASSUME U32Assumption == U32Max \in Nat /\ U32Max >= U16Max

Opcode == [OPEN |-> 1, OPEN_ACK |-> 2, CONTENT |-> 3, REASONING |-> 4,
           TOOL_CALL |-> 5, USAGE |-> 6, METRICS |-> 7, END |-> 8, ERROR |-> 9,
           CANCEL |-> 10, PAUSE |-> 11, RESUME |-> 12, STEER |-> 13,
           REWIND |-> 14, SETTINGS |-> 15, PING |-> 16, PONG |-> 17]

Opcodes == 1..17

\* HeaderFlags
BOUNDARY == 1
ReservedFlags(flags) == flags \div 2 # 0

HEADER_SIZE == 8
MAX_PAYLOAD_SIZE == 65527

------------------------------------------------------------------------------
(* Calls that return or raise, and struct.pack and struct.unpack *)

Ok(value) == [raised |-> "no", value |-> value]
Raise(exception) == [raised |-> exception, value |-> <<>>]
Violation == Raise("LMStreamError")

Returns(call) == call.raised = "no"

LE2(n) == <<n % 256, n \div 256>>
LE4(n) == <<n % 256, (n \div 256) % 256, (n \div 65536) % 256, n \div 16777216>>

\* The number at index i of b, counting from one.
U16(b, i) == b[i] + 256 * b[i + 1]
U32(b, i) == U16(b, i) + 65536 * b[i + 2] + 16777216 * b[i + 3]

------------------------------------------------------------------------------
(* encode_header, encode_frame *)

Header(stream_id, opcode, flags, length) ==
    [stream_id |-> stream_id, opcode |-> opcode, flags |-> flags,
     length |-> length]

\* struct.pack("<IBBH", ...) raises when a field does not fit its width.
Packable(h) == /\ h.stream_id \in 0..U32Max
               /\ h.opcode \in 0..255
               /\ h.flags \in 0..255
               /\ h.length \in 0..U16Max

HeaderBytes(h) == LE4(h.stream_id) \o <<h.opcode, h.flags>> \o LE2(h.length)

encode_header(h) ==
    IF h.length > MAX_PAYLOAD_SIZE THEN Violation
    ELSE IF ~Packable(h) THEN Raise("struct.error")
    ELSE Ok(HeaderBytes(h))

Frame(header, payload) == [header |-> header, payload |-> payload]

\* The length in the header is overwritten, whatever it was.
encode_frame(f) ==
    LET call == encode_header([f.header EXCEPT !.length = Len(f.payload)])
    IN  IF Returns(call) THEN Ok(call.value \o f.payload) ELSE call

------------------------------------------------------------------------------
(* decode_header, decode_frame *)

ConnectionOnly == {Opcode.SETTINGS, Opcode.PING, Opcode.PONG}

\* The payload lengths of the opcodes that allow just one.
FixedLength(opcode) ==
    CASE opcode = Opcode.SETTINGS                          -> {18}
      [] opcode \in {Opcode.PING, Opcode.PONG}             -> {8}
      [] opcode \in {Opcode.USAGE, Opcode.METRICS}         -> {20}
      [] opcode = Opcode.END                               -> {2}
      [] opcode \in {Opcode.CANCEL, Opcode.PAUSE, Opcode.RESUME} -> {0}
      [] opcode = Opcode.REWIND                            -> {8}
      [] OTHER                                             -> 0..U16Max

\* (mutant) opcodes of the core range that nobody assigned are let through
RefusedIfAssigned(h) ==
    \/ h.length > MAX_PAYLOAD_SIZE
    \/ ReservedFlags(h.flags)
    \/ h.stream_id = 0 /\ h.opcode \notin ConnectionOnly \cup {Opcode.ERROR}
    \/ h.stream_id # 0 /\ h.opcode \in ConnectionOnly
    \/ h.length \notin FixedLength(h.opcode)

\* (mutant) ERROR is taken for an opcode of sessions only
RefusedErrorOnZero(h) ==
    \/ h.length > MAX_PAYLOAD_SIZE
    \/ ReservedFlags(h.flags)
    \/ h.opcode \notin Opcodes /\ h.opcode <= 47
    \/ h.stream_id = 0 /\ h.opcode \notin ConnectionOnly
    \/ h.stream_id # 0 /\ h.opcode \in ConnectionOnly
    \/ h.length \notin FixedLength(h.opcode)

\* All of these raise the same error, so that their order does not matter.
\* Opcodes from 0x30 on are extensions; they are passed on as numbers.
Refused(h) ==
    \/ h.length > MAX_PAYLOAD_SIZE
    \/ ReservedFlags(h.flags)
    \/ h.opcode \notin Opcodes /\ h.opcode <= 47
    \/ h.stream_id = 0 /\ h.opcode \notin ConnectionOnly \cup {Opcode.ERROR}
    \/ h.stream_id # 0 /\ h.opcode \in ConnectionOnly
    \/ h.length \notin FixedLength(h.opcode)

decode_header(b) ==
    IF Len(b) < HEADER_SIZE THEN Violation
    ELSE LET h == Header(U32(b, 1), b[5], b[6], U16(b, 7))
         IN  IF Refused(h) THEN Violation ELSE Ok(h)

\* (mutant) all bytes behind the header are taken for the payload
decode_frame_to_end(b) ==
    LET call == decode_header(b) IN
    IF ~Returns(call) THEN call
    ELSE IF Len(b) < HEADER_SIZE + call.value.length THEN Violation
    ELSE Ok(Frame(call.value, SubSeq(b, HEADER_SIZE + 1, Len(b))))

\* (mutant) the payload is taken as far as it goes
decode_frame_short(b) ==
    LET call == decode_header(b)
        total == HEADER_SIZE + call.value.length
    IN  IF ~Returns(call) THEN call
        ELSE Ok(Frame(call.value,
                      SubSeq(b, HEADER_SIZE + 1,
                             IF Len(b) < total THEN Len(b) ELSE total)))

\* Bytes behind the payload are dropped.
decode_frame(b) ==
    LET call == decode_header(b)
        total == HEADER_SIZE + call.value.length
    IN  IF ~Returns(call) THEN call
        ELSE IF Len(b) < total THEN Violation
        ELSE Ok(Frame(call.value, SubSeq(b, HEADER_SIZE + 1, total)))

==============================================================================
