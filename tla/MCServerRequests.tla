-------------------------- MODULE MCServerRequests --------------------------
(* Requests for TLC: OPEN with a length of one byte and with an extended     *)
(* one whose high byte is not zero, on two streams, PING, and a frame that   *)
(* does not decode.                                                          *)
EXTENDS ServerRequests

MCScripts == {<<LMFrame("CONTENT", 1, TRUE, <<67>>, 1),
                LMFrame("END", 1, FALSE, <<0>>, 1)>>}

Ping == LMFrame("PING", 0, FALSE, <<1>>, 2)
Refused == LMFrame("0x2F", 0, FALSE, <<>>, 2)

MCRequests == {LMFrame("OPEN", 1, FALSE, <<>>, 5),
               LMFrame("OPEN", 2, FALSE, <<>>, 1), Ping, Refused}

==============================================================================
