------------------------------ MODULE Payloads ------------------------------
(***************************************************************************)
(* The payload codecs of the Python library (payloads.py).  A string is    *)
(* represented by the bytes of its UTF-8 encoding, so that encoding it is  *)
(* the identity and decoding it a check; a number of eight bytes by those  *)
(* bytes.  An encoder is given numbers that fit their fields, except for   *)
(* the lengths it computes itself.                                         *)
(***************************************************************************)
EXTENDS FrameCodec, Utf8Assembler

NoString == <<-1>>      \* None in place of a string

\* b[from:].decode("utf-8"); UnicodeDecodeError is a ValueError.
From(b, from) == SubSeq(b, from, Len(b))
Strict(strings, value) ==
    IF \A s \in strings : WellFormed(s) THEN Ok(value) ELSE Raise("ValueError")

\* A string behind the bytes that give its length in w bytes.
Prefixed(w, s, before) ==
    IF Len(s) > (IF w = 1 THEN 255 ELSE 65535) THEN Raise("struct.error")
    ELSE Ok(before \o (IF w = 1 THEN <<Len(s)>> ELSE LE2(Len(s))) \o s)

------------------------------------------------------------------------------
(* Payloads of fixed size *)

\* "<BIIIHBH"
encode_settings(p) ==
    Ok(<<p.version>> \o LE4(p.max_frame_size) \o LE4(p.pause_buffer_cap)
       \o LE4(p.heartbeat_ms) \o LE2(p.max_concurrent_sessions) \o <<0, 0, 0>>)

\* The reserved bytes are read and not looked at.
decode_settings(b) ==
    IF Len(b) # 18 THEN Violation
    ELSE Ok([version |-> b[1], max_frame_size |-> U32(b, 2),
             pause_buffer_cap |-> U32(b, 6), heartbeat_ms |-> U32(b, 10),
             max_concurrent_sessions |-> U16(b, 14)])

encode_ping_pong(p) == Ok(p.timestamp_ms)

decode_ping_pong(b) ==
    IF Len(b) # 8 THEN Violation ELSE Ok([timestamp_ms |-> b])

\* "<IIIIBBH"
encode_usage(p) ==
    Ok(LE4(p.prompt_tokens) \o LE4(p.completion_tokens) \o LE4(p.total_tokens)
       \o LE4(p.cached_tokens) \o <<p.attempt_count, 0, 0, 0>>)

decode_usage(b) ==
    IF Len(b) # 20 THEN Violation
    ELSE IF b[18] # 0 \/ U16(b, 19) # 0 THEN Violation
    ELSE Ok([prompt_tokens |-> U32(b, 1), completion_tokens |-> U32(b, 5),
             total_tokens |-> U32(b, 9), cached_tokens |-> U32(b, 13),
             attempt_count |-> b[17]])

\* "<IIIQ"
encode_metrics(p) ==
    Ok(LE4(p.ttft_ms) \o LE4(p.total_duration_ms) \o LE4(p.tokens_per_sec)
       \o p.obfuscated_key_id)

decode_metrics(b) ==
    IF Len(b) # 20 THEN Violation
    ELSE Ok([ttft_ms |-> U32(b, 1), total_duration_ms |-> U32(b, 5),
             tokens_per_sec |-> U32(b, 9), obfuscated_key_id |-> From(b, 13)])

FinishReasons == 0..4           \* STOP .. CANCELLED

encode_end(p) == Ok(<<p.finish_reason, p.choice_index>>)

\* The enumerations raise ValueError, not LMStreamError.
decode_end(b) ==
    IF Len(b) # 2 THEN Violation
    ELSE IF b[1] \notin FinishReasons THEN Raise("ValueError")
    ELSE Ok([finish_reason |-> b[1], choice_index |-> b[2]])

\* "<BBHI"
encode_rewind(p) ==
    Ok(<<p.target_opcode, p.choice_index, 0, 0>> \o LE4(p.byte_offset))

\* Any opcode is a target, and any offset goes with it.
decode_rewind(b) ==
    IF Len(b) # 8 THEN Violation
    ELSE IF U16(b, 3) # 0 THEN Violation
    ELSE IF b[1] \notin Opcodes THEN Raise("ValueError")
    ELSE Ok([target_opcode |-> b[1], choice_index |-> b[2],
             byte_offset |-> U32(b, 5)])

------------------------------------------------------------------------------
(* Payloads that end in text *)

encode_open_ack(p) == Prefixed(2, p.model, LE4(p.session_id))

decode_open_ack(b) ==
    IF Len(b) < 6 THEN Violation
    ELSE IF Len(b) < 6 + U16(b, 5) THEN Violation
    ELSE LET model == SubSeq(b, 7, 6 + U16(b, 5))
         IN  Strict({model}, [session_id |-> U32(b, 1), model |-> model])

encode_content(p) == Ok(<<p.choice_index>> \o p.text)

decode_content(b) ==
    IF Len(b) < 1 THEN Violation
    ELSE Strict({From(b, 2)}, [choice_index |-> b[1], text |-> From(b, 2)])

ErrorCodes == 1001..1009        \* BAD_REQUEST .. SESSION_EXPIRED
PROTOCOL_VIOLATION == 1008
ErrorScopes == 0..1             \* SESSION, CONNECTION

\* "<HHBBH"
encode_error(p) ==
    Prefixed(2, p.message, LE2(p.code) \o LE2(p.upstream_status)
                           \o <<p.choice_index, p.scope>>)

decode_error(b) ==
    IF Len(b) < 8 THEN Violation
    ELSE IF Len(b) < 8 + U16(b, 7) THEN Violation
    ELSE IF U16(b, 1) \notin ErrorCodes \/ b[6] \notin ErrorScopes
         THEN Raise("ValueError")
    ELSE LET message == SubSeq(b, 9, 8 + U16(b, 7))
         IN  Strict({message},
                 [code |-> U16(b, 1), upstream_status |-> U16(b, 3),
                  choice_index |-> b[5], scope |-> b[6], message |-> message])

\* (mutant) the length is that of the string, in characters
encode_steer_chars(p) ==
    Ok(LE2(Cardinality({i \in 1..Len(p.text) : ~IsCont(p.text[i])})) \o p.text)

encode_steer(p) == Prefixed(2, p.text, <<>>)

decode_steer(b) ==
    IF Len(b) < 2 THEN Violation
    ELSE IF Len(b) < 2 + U16(b, 1) THEN Violation
    ELSE LET text == SubSeq(b, 3, 2 + U16(b, 1))
         IN  Strict({text}, [text |-> text])

------------------------------------------------------------------------------
(* TOOL_CALL *)

\* ToolFlags.START, and the bits of its reserved mask
IsStart(flags) == flags % 2 = 1
ReservedToolFlags(flags) == flags \div 8 # 0

ToolCallPayload(choice_index, call_index, flags, id, name, args_delta) ==
    [choice_index |-> choice_index, call_index |-> call_index, flags |-> flags,
     id |-> id, name |-> name, args_delta |-> args_delta]

OrEmpty(s) == IF s = NoString THEN <<>> ELSE s

\* The lengths of id and name travel in one byte and in two.
encode_tool_call(p) ==
    LET before == <<p.choice_index>> \o LE2(p.call_index) \o <<p.flags>>
        id == OrEmpty(p.id)
        name == OrEmpty(p.name)
    IN  IF ~IsStart(p.flags) THEN Ok(before \o p.args_delta)
        ELSE IF Len(id) > 255 \/ Len(name) > 65535 THEN Raise("struct.error")
        ELSE Ok(before \o <<Len(id)>> \o LE2(Len(name)) \o id \o name
                \o p.args_delta)

\* (mutant) the length of the id is forgotten where the name begins
decode_tool_call_id(b) ==
    IF Len(b) < 4 THEN Violation
    ELSE IF ReservedToolFlags(b[4]) THEN Violation
    ELSE IF ~IsStart(b[4])
         THEN Strict({From(b, 5)}, ToolCallPayload(b[1], U16(b, 2), b[4],
                                       NoString, NoString, From(b, 5)))
    ELSE IF Len(b) < 7 THEN Violation
    ELSE LET id_end == 7 + b[5]
             name_end == 7 + U16(b, 6)
             id == SubSeq(b, 8, id_end)
             name == SubSeq(b, 8, name_end)
             args == From(b, name_end + 1)
         IN  IF Len(b) < name_end THEN Violation
             ELSE Strict({id, name, args}, ToolCallPayload(b[1], U16(b, 2),
                                               b[4], id, name, args))

\* Each fragment is decoded by itself: arguments cut within a character raise.
decode_tool_call(b) ==
    IF Len(b) < 4 THEN Violation
    ELSE IF ReservedToolFlags(b[4]) THEN Violation
    ELSE IF ~IsStart(b[4])
         THEN Strict({From(b, 5)}, ToolCallPayload(b[1], U16(b, 2), b[4],
                                       NoString, NoString, From(b, 5)))
    ELSE IF Len(b) < 7 THEN Violation
    ELSE LET id_end == 7 + b[5]
             name_end == id_end + U16(b, 6)
             id == SubSeq(b, 8, id_end)
             name == SubSeq(b, id_end + 1, name_end)
             args == From(b, name_end + 1)
         IN  IF Len(b) < name_end THEN Violation
             ELSE Strict({id, name, args}, ToolCallPayload(b[1], U16(b, 2),
                                               b[4], id, name, args))

==============================================================================
