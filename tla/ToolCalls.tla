------------------------------ MODULE ToolCalls ------------------------------
(***************************************************************************)
(* Tool calls from a gateway to a client of each language.  The gateway    *)
(* interleaves the fragments of parallel calls, starts a call anew, rewinds*)
(* a choice to offset 0 on a failover, lets a fragment of a call it has    *)
(* taken back slip through, and may have to end a call whose arguments its *)
(* model never finished (finish reason "length").  Both clients are handed *)
(* the same frames at the same time: they never interact.                  *)
(*                                                                         *)
(* An assembler throws for a fragment it cannot place and for arguments    *)
(* that do not parse.  The demos do not catch that, and it ends them; a    *)
(* caller of the library that catches takes the next frame (catching).     *)
(***************************************************************************)
EXTENDS ToolAssembler, SequencesExt

CONSTANTS
    Keys,           \* pairs <<choice, call>>: where a call may be open
    Arguments,      \* the texts a call's arguments may have
    MaxStarts,      \* bound: calls started in a session
    MaxRewinds,     \* bound: REWIND frames in a session
    MaxWire,        \* bound: frames in flight
    Truncation      \* may a call end before its arguments do?

ASSUME ToolAssumption ==
    /\ Arguments \subseteq Json
    /\ \A args \in Arguments : args \in Seq(STRING)
    /\ \A key \in Keys : key = <<key[1], key[2]>>
    /\ MaxStarts \in Nat /\ MaxRewinds \in Nat /\ MaxWire \in Nat
    /\ Truncation \in BOOLEAN

VARIABLES
    open,           \* gateway: the calls being sent, by key
    finished,       \* gateway: the calls ended with arguments that parse
    starts,         \* gateway: how many calls it has started
    rewinds,        \* gateway: how many REWIND frames it has sent
    takenBack,      \* gateway: keys of calls rewound and not started since
    provoked,       \* gateway: it has sent what no assembler can take
    wire,           \* the frames in flight, oldest first
    activeTS,       \* TypeScript: ToolCallAssembler.active
    completedTS,    \* TypeScript: completedTools
    activePy,       \* Python: active_calls
    completedPy,    \* Python: the calls process_payload has returned
    catching,       \* the callers catch what an assembler throws
    ended           \* or have ended by it

gatewayVars == <<open, finished, starts, rewinds, takenBack, provoked>>
clientVars == <<activeTS, completedTS, activePy, completedPy, catching, ended>>
vars == <<gatewayVars, wire, clientVars>>

Call == [key : Keys, id : 1..MaxStarts, args : Seq(STRING)]

Entry == [id : 1..MaxStarts, args : Seq(STRING)]

Opened == [id : 1..MaxStarts, args : Arguments, sent : Nat]

MapTo(map, S) == DOMAIN map \subseteq Keys /\ map \in [DOMAIN map -> S]

NoCalls == [key \in {} |-> <<>>]

\* The choice of a REWIND is the first half of its key; the second half is not
\* on the wire.  Calls are rewound to their beginning only.
Frame == [op : {"TOOL_CALL", "REWIND"}, key : Keys, start : BOOLEAN,
          end : BOOLEAN, id : 0..MaxStarts, delta : Seq(STRING),
          offset : {0}]

TypeOK == /\ MapTo(open, Opened)
          /\ finished \in Seq(Call)
          /\ starts \in 0..MaxStarts
          /\ rewinds \in 0..MaxRewinds
          /\ takenBack \subseteq Keys \ DOMAIN open
          /\ {provoked, catching, ended} \subseteq BOOLEAN
          /\ wire \in Seq(Frame)
          /\ MapTo(activeTS, Entry) /\ MapTo(activePy, Entry)
          /\ completedTS \in Seq(Call) /\ completedPy \in Seq(Call)

Init == /\ open = NoCalls /\ finished = <<>>
        /\ starts = 0 /\ rewinds = 0 /\ takenBack = {} /\ provoked = FALSE
        /\ wire = <<>>
        /\ activeTS = NoCalls /\ activePy = NoCalls
        /\ completedTS = <<>> /\ completedPy = <<>>
        /\ catching \in BOOLEAN /\ ended = FALSE

------------------------------------------------------------------------------
(* The gateway *)

ToolFrame(key, start, end, id, delta) ==
    [op |-> "TOOL_CALL", key |-> key, start |-> start, end |-> end,
     id |-> id, delta |-> delta, offset |-> 0]

\* The next n tokens of a call, under START if it is its first frame and under
\* END if the gateway has no more to say about it; either may come without any.
Emit(key, call, n, start, end) ==
    LET upTo == call.sent + n IN
    /\ Len(wire) < MaxWire
    /\ upTo <= Len(call.args)
    /\ end => Truncation \/ upTo = Len(call.args)
    /\ open' = IF end THEN Without(open, key)
                      ELSE Put(open, key, [call EXCEPT !.sent = upTo])
    /\ finished' = IF end /\ Parses(SubSeq(call.args, 1, upTo))
                   THEN Append(finished,
                               [key |-> key, id |-> call.id,
                                args |-> SubSeq(call.args, 1, upTo)])
                   ELSE finished
    /\ provoked' = (provoked \/ (end /\ ~Parses(SubSeq(call.args, 1, upTo))))
    /\ wire' = Append(wire, ToolFrame(key, start, end, call.id,
                                SubSeq(call.args, call.sent + 1, upTo)))
    /\ UNCHANGED <<rewinds, clientVars>>

\* A new call, or another attempt at one still open under its key.
Start(key, args, n, end) ==
    /\ starts < MaxStarts
    /\ starts' = starts + 1
    /\ takenBack' = takenBack \ {key}
    /\ Emit(key, [id |-> starts + 1, args |-> args, sent |-> 0], n, TRUE, end)

Continue(key, n, end) ==
    /\ key \in DOMAIN open
    /\ n > 0 \/ end
    /\ UNCHANGED <<starts, takenBack>>
    /\ Emit(key, open[key], n, FALSE, end)

\* REWIND with targetOpcode TOOL_CALL and byteOffset 0: the choice starts over.
RewindTools(key) ==
    /\ Len(wire) < MaxWire
    /\ rewinds < MaxRewinds
    /\ rewinds' = rewinds + 1
    /\ open' = Discarded(open, key[1])
    /\ takenBack' = takenBack \cup (DOMAIN open \ DOMAIN open')
    /\ wire' = Append(wire, [op |-> "REWIND", key |-> key, start |-> FALSE,
                             end |-> FALSE, id |-> 0, delta |-> <<>>,
                             offset |-> 0])
    /\ UNCHANGED <<finished, starts, provoked, clientVars>>

\* A fragment of a call taken back, on its way from the upstream when the
\* gateway gave up on it.
Straggle(key, delta, end) ==
    /\ Len(wire) < MaxWire
    /\ key \in takenBack
    /\ wire' = Append(wire, ToolFrame(key, FALSE, end, 0, delta))
    /\ provoked' = TRUE
    /\ UNCHANGED <<open, finished, starts, rewinds, takenBack, clientVars>>

GatewayNext ==
    \E key \in Keys, end \in BOOLEAN :
        \/ \E args \in Arguments : \E n \in 0..Len(args) :
              Start(key, args, n, end)
        \/ key \in DOMAIN open /\ \E n \in 0..Len(open[key].args) :
              Continue(key, n, end)
        \/ RewindTools(key)
        \/ \E args \in Arguments : Straggle(key, SubSeq(args, 2, Len(args)), end)

------------------------------------------------------------------------------
(* The clients *)

\* case Opcode.TOOL_CALL, and process_payload
HandleToolCall(frame) ==
    /\ frame.op = "TOOL_CALL"
    /\ activeTS' = ActiveTS(activeTS, frame)
    /\ completedTS' = completedTS \o CompletedBy(activeTS, frame)
    /\ activePy' = ActivePy(activePy, frame)
    /\ completedPy' = completedPy \o CompletedBy(activePy, frame)
    /\ ended' = (~catching /\ (Throws(activeTS, frame) \/ Throws(activePy, frame)))

\* (mutant) the choices of a REWIND are discarded in one client only
HandleRewindInPython(frame) ==
    /\ frame.op = "REWIND"
    /\ activePy' = Discarded(activePy, frame.key[1])
    /\ UNCHANGED <<activeTS, completedTS, completedPy, ended>>

\* case Opcode.REWIND, and discard_for_choice as a dispatcher would call it.
HandleRewind(frame) ==
    /\ frame.op = "REWIND"
    /\ activeTS' = IF frame.offset = 0 THEN Discarded(activeTS, frame.key[1])
                                        ELSE activeTS
    /\ activePy' = Discarded(activePy, frame.key[1])
    /\ UNCHANGED <<completedTS, completedPy, ended>>

\* What a handler throws reaches no catch: a rejection of onmessage and an
\* exception in run_demo end the process, and with it the reading of frames.
Receive ==
    /\ wire # <<>> /\ ~ended
    /\ wire' = Tail(wire)
    /\ HandleToolCall(Head(wire)) \/ HandleRewind(Head(wire))
    /\ UNCHANGED <<gatewayVars, catching>>

Next == GatewayNext \/ Receive

\* The event loop hands every message that arrived to a client that runs.
Spec == Init /\ [][Next]_vars /\ WF_vars(Receive)

------------------------------------------------------------------------------
(* Properties *)

Fragment(call) == [id |-> call.id, args |-> SubSeq(call.args, 1, call.sent)]

\* However calls interleave, restart and rewind: the calls a TypeScript client
\* completes are the calls the gateway finished, in that order, each once and
\* with its own arguments; and with nothing in flight the client is assembling
\* exactly what the gateway is sending.
AssembledAsSent ==
    /\ IsPrefix(completedTS, finished)
    /\ wire = <<>> => /\ completedTS = finished
                      /\ activeTS = [key \in DOMAIN open |-> Fragment(open[key])]

\* A parse error costs a Python client nothing but the entry it leaves behind:
\* both clients complete the same calls, Python assembles every call TypeScript
\* does, and what it holds on top are calls that could not be parsed.
PythonKeepsOnlyFailures ==
    /\ completedPy = completedTS
    /\ \A key \in DOMAIN activeTS :
          key \in DOMAIN activePy /\ activePy[key] = activeTS[key]
    /\ \A key \in DOMAIN activePy \ DOMAIN activeTS :
          ~Parses(activePy[key].args)

\* A call the gateway has finished is eventually completed by the client: time
\* and again it has completed all that are finished by then, whatever is rewound
\* and started over, unless it ends first.
FinishedCallsComplete == []<>(completedTS = finished \/ ended)

\* A program ends early only when the gateway has sent a fragment of a call it
\* had taken back, or the END of a call whose arguments do not parse: no way of
\* interleaving, restarting and rewinding calls makes an assembler throw.
EndsOnlyProvoked == ended => provoked

\* Both clients hold the same calls.
ClientsAgree == activePy = activeTS /\ completedPy = completedTS

\* The languages differ in nothing but what a throw leaves behind: two programs
\* that are still running have the same calls open and completed, and so it is
\* the same frame that ends both.
ProgramsAgree == ~catching /\ ~ended => ClientsAgree

==============================================================================
