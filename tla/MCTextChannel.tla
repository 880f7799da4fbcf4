---------------------------- MODULE MCTextChannel ----------------------------
(* Texts for TLC: characters of one to four bytes, and texts that agree on *)
(* a prefix, so that a failover from one to another is possible.           *)
EXTENDS TextChannel

AEuroB   == <<97, 226, 130, 172, 98>>       \* "a", the euro sign, "b"
AEAcute  == <<97, 195, 169>>                \* "a", e with acute
ASmiling == <<97, 98, 240, 159, 152, 128>>  \* "ab", a character of four bytes
Letters  == <<97, 98, 99>>
EuroA    == <<226, 130, 172, 97>>

MCTexts == {AEuroB, AEAcute, ASmiling, Letters, EuroA}

==============================================================================
