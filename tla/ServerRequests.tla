--------------------------- MODULE ServerRequests ---------------------------
(***************************************************************************)
(* The mock server and a client that sends what it likes: frames of any    *)
(* kind, several before the first is answered, the same stream opened      *)
(* twice, and frames that do not decode (the close frame of the WebSocket  *)
(* itself is one: the server passes whatever comes to decodeFrame).        *)
(* Chunks may end anywhere, in a header, a length or a mask.               *)
(***************************************************************************)
EXTENDS MockServer, SequencesExt, FiniteSets

CONSTANTS Requests,     \* the frames the client may send
          MaxRequests   \* bound: how many it sends

\* A frame of no known opcode does not decode; OPEN is never of the connection.
ASSUME RequestsAssumption ==
    /\ MaxRequests \in Nat
    /\ \A f \in Requests : /\ f.size \in Nat \ {0}
                           /\ f.op \in Opcode => f \in Frame
                           /\ f.op = "OPEN" => f.stream # 0

ClientWrites(cells, frames) ==
    /\ up' = up \o cells
    /\ requests' = requests \o frames
    /\ UNCHANGED <<script, chunked, parsed, upgraded, busy, served, down, sent,
                   arrived, closed>>

Connect ==
    /\ up = <<>>
    /\ ClientWrites(HttpCells(1), <<>>)

\* Clients mask what they send; the loop takes frames without a mask as well.
SendRequest(frame, masked) ==
    /\ upgraded
    /\ Len(requests) < MaxRequests
    /\ ClientWrites(Framed(frame.size, masked, Len(requests) + 1), <<frame>>)

ServerNext ==
    \/ Connect
    \/ \E frame \in Requests, masked \in BOOLEAN : SendRequest(frame, masked)
    \/ Serve

\* Node calls the handler for every chunk, and the loop runs to its end.
ServerSpec == ServerInit /\ [][ServerNext]_serverVars /\ WF_serverVars(Serve)

------------------------------------------------------------------------------
(* Properties *)

\* Positions stay within the stream, and what is written are frames.
ServerTypeOK ==
    /\ 0 <= parsed /\ parsed <= chunked /\ chunked <= Len(up)
    /\ served \in Seq(Requests) /\ requests \in Seq(Requests)
    /\ sent \in Seq(Frame)

\* However the frames of the client are cut into chunks and joined: the receive
\* loop takes them out whole, each once and in order, those behind one that does
\* not decode too, and leaves none that has arrived.
RequestsInOrder ==
    /\ IsPrefix(served, requests)
    /\ upgraded /\ ~busy /\ chunked = Len(up) => served = requests

Count(op, frames) == Cardinality({i \in 1..Len(frames) : frames[i].op = op})

\* Every OPEN is answered to the END of its transcript and every PING by a PONG:
\* time and again all that were sent by then are, no matter how many come in a
\* chunk, and what does not decode between them.
RequestsAnswered ==
    []<>(/\ Count("END", sent) >= Count("OPEN", requests)
         /\ Count("PONG", sent) >= Count("PING", requests))

==============================================================================
