----------------------------- MODULE WsFraming -----------------------------
(***************************************************************************)
(* WebSocket frames on a TCP stream, as mock-server.ts and demo.py write   *)
(* them.  A stream is a sequence of cells, each for one byte; of what a    *)
(* frame carries every cell names the message and the place in it.  The    *)
(* threshold of the extended length and the base of its two bytes, 126 and *)
(* 256 in the code, are constants, so that frames may be short.  A frame   *)
(* of LMStream has at most 65535 bytes: the eight-byte form of the length  *)
(* is never written.                                                       *)
(***************************************************************************)
EXTENDS Integers, Sequences

CONSTANTS Short,    \* lengths from here on take an extended length
          Base      \* the values of a byte of the extended length

ASSUME FramingAssumption == /\ Short \in Nat \ {0, 1}
                            /\ Base \in Nat \ {0, 1}

Cell(kind, n, masked, msg, last) ==
    [kind |-> kind, n |-> n, masked |-> masked, msg |-> msg, last |-> last]

\* HTTP bytes: count of them, the last of which ends the header section.
HttpCells(count) ==
    [i \in 1..count |-> Cell("http", i, FALSE, 0, i = count)]

\* The data cells of message msg, n of them, the last of which ends a write.
DataCells(n, msg) == [i \in 1..n |-> Cell("data", i, FALSE, msg, i = n)]

Extended(n, msg) ==
    IF n < Short THEN <<>>
    ELSE <<Cell("ext", n \div Base, FALSE, msg, FALSE),
           Cell("ext", n % Base, FALSE, msg, FALSE)>>

MaskKey(masked, msg) ==
    IF masked THEN [i \in 1..4 |-> Cell("mask", i, FALSE, msg, FALSE)] ELSE <<>>

\* sendWsBinary, send_ws_binary
Framed(n, masked, msg) ==
    <<Cell("op", 0, FALSE, msg, FALSE),
      Cell("len", IF n < Short THEN n ELSE Short, masked, msg, FALSE)>>
    \o Extended(n, msg) \o MaskKey(masked, msg) \o DataCells(n, msg)

\* (mutant) the bytes of the extended length are swapped
LittleEndian(first, second) == second * Base + first

\* readUInt16BE, int.from_bytes(..., "big")
BigEndian(first, second) == first * Base + second

\* The cells are all the data of one message of n bytes, and nothing else.
IsMessage(cells, n, msg) == cells = DataCells(n, msg)

==============================================================================
