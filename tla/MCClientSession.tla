--------------------------- MODULE MCClientSession ---------------------------
(* A session for TLC: the content has an ASCII prefix to rewind to and a   *)
(* character of two bytes, the reasoning one of two bytes before ASCII, and*)
(* the call comes in two fragments.                                        *)
EXTENDS ClientSession

MCText == [ch \in TextChannels |->
             IF ch = "CONTENT" THEN <<97, 195, 169>>    \* "a", e with acute
                               ELSE <<194, 176, 67>>]   \* degree sign, "C"

MCJson == {<<"{", "}">>}

MCArgs == <<"{", "}">>

MCKey == <<0, 0>>

MCCuts == <<1, 2>>

==============================================================================
