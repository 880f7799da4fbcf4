---------------------------- MODULE Utf8Assembler ----------------------------
(***************************************************************************)
(* The byte-level operators of a text channel: the boundary assembler      *)
(* (Utf8BoundaryAssembler.process), the decoder it calls (TextDecoder) and *)
(* the slicing of JavaScript strings (String.prototype.slice).             *)
(*                                                                         *)
(* A byte is its value.  A JavaScript string is represented by the UTF-8   *)
(* bytes of its characters; a lone surrogate, which only Slice can leave   *)
(* behind, is one half of the four bytes of its character.                 *)
(***************************************************************************)
EXTENDS Integers, Sequences, FiniteSets

Byte == 0..255

\* The classes the scan tells apart by masks: 10xxxxxx, and the number of
\* continuation bytes a leading byte announces (none for ASCII and for the
\* bytes 0xF8-0xFF, on which the scan just stops).
IsCont(b) == b \in 128..191

Need(b) == IF b \in 192..223 THEN 1
           ELSE IF b \in 224..239 THEN 2
           ELSE IF b \in 240..247 THEN 3
           ELSE 0

------------------------------------------------------------------------------
(* What the bytes of a text look like. *)

\* s is a sequence of characters of which the last may be incomplete: every
\* leading byte is followed by its continuation bytes as far as s goes, and
\* every continuation byte has its leading byte.
Partial(s) ==
    \A i \in 1..Len(s) :
        /\ s[i] \in 0..247
        /\ \A j \in 1..Need(s[i]) : i + j <= Len(s) => IsCont(s[i + j])
        /\ IsCont(s[i]) =>
              \E j \in 1..3 : /\ j < i
                              /\ j <= Need(s[i - j])
                              /\ \A k \in 1..(j - 1) : IsCont(s[i - k])

\* No character is cut off at the end.
Closed(s) == \A i \in 1..Len(s) : i + Need(s[i]) <= Len(s)

WellFormed(s) == Partial(s) /\ Closed(s)

\* The character U+FEFF occurs at position i.
BomAt(s, i) == /\ i + 2 <= Len(s)
               /\ s[i] = 239 /\ s[i + 1] = 187 /\ s[i + 2] = 191

NoBom(s) == \A i \in 1..Len(s) : ~BomAt(s, i)

AllAscii(s, n) == \A i \in 1..n : s[i] < 128

------------------------------------------------------------------------------
(* new TextDecoder().decode(buf): replacement mode, leading BOM dropped. *)

Replacement == <<239, 191, 189>>

\* The byte at i is a leading byte whose sequence is complete.
LeadsWhole(s, i) == /\ i + Need(s[i]) <= Len(s)
                    /\ \A j \in 1..Need(s[i]) : IsCont(s[i + j])

\* The byte at i belongs to the (perhaps incomplete) sequence led at i - j.
FollowsBy(s, i, j) == /\ j < i
                      /\ j <= Need(s[i - j])
                      /\ \A k \in 0..(j - 1) : IsCont(s[i - k])

\* What the decoder puts out for the byte at i: the byte itself within a whole
\* sequence, one U+FFFD for each incomplete sequence and each stray byte.
DecodedAt(s, i) ==
    IF \E j \in 1..3 : FollowsBy(s, i, j)
    THEN LET j == CHOOSE j \in 1..3 : FollowsBy(s, i, j)
         IN  IF LeadsWhole(s, i - j) THEN <<s[i]>> ELSE <<>>
    ELSE IF LeadsWhole(s, i) /\ ~IsCont(s[i]) /\ s[i] < 248
         THEN <<s[i]>>
         ELSE Replacement

Replaced(s) ==
    LET out[n \in 0..Len(s)] == IF n = 0 THEN <<>>
                                          ELSE out[n - 1] \o DecodedAt(s, n)
    IN  out[Len(s)]

WithoutBom(s) == IF BomAt(s, 1) THEN SubSeq(s, 4, Len(s)) ELSE s

\* (mutant) bytes are read as signed numbers
DecodeSigned(buf) == [i \in 1..Len(buf) |-> IF buf[i] < 128 THEN buf[i]
                                                            ELSE buf[i] - 256]

Decode(buf) == WithoutBom(IF WellFormed(buf) THEN buf ELSE Replaced(buf))

------------------------------------------------------------------------------
(* Utf8BoundaryAssembler.process *)

\* The backward scan stops t bytes before the last one, on a byte that is not a
\* continuation byte, having counted t of these (trailingCount = t < 3).
ScanStops(buf, t) == /\ t < Len(buf)
                     /\ ~IsCont(buf[Len(buf) - t])
                     /\ \A u \in 0..(t - 1) : IsCont(buf[Len(buf) - u])

\* (mutant) the scan takes a character that has just become whole for cut
CutShortOrWhole(buf, t) == ScanStops(buf, t) /\ t <= Need(buf[Len(buf) - t])

\* ... and that byte announces more continuation bytes than it counted.
CutShort(buf, t) == ScanStops(buf, t) /\ t < Need(buf[Len(buf) - t])

\* (mutant) the last byte is always held back
ValidLenButOne(buf) == IF buf = <<>> THEN 0 ELSE Len(buf) - 1

ValidLen(buf) ==
    IF \E t \in 0..2 : CutShort(buf, t)
    THEN Len(buf) - 1 - (CHOOSE t \in 0..2 : CutShort(buf, t))
    ELSE Len(buf)

\* (mutant) BOUNDARY = 1 decodes the new data without what was pending
RenderedOfData(pending, boundary, data) ==
    LET buf == pending \o data
    IN  IF boundary THEN data ELSE SubSeq(buf, 1, ValidLen(buf))

\* process(flags, payloadData) as a function of pendingBytes: the bytes it
\* decodes and the ones it keeps.
Rendered(pending, boundary, data) ==
    LET buf == pending \o data
    IN  IF boundary THEN buf ELSE SubSeq(buf, 1, ValidLen(buf))

\* (mutant) only the new data is looked at; what was pending is forgotten
KeptOfData(pending, boundary, data) ==
    IF boundary THEN <<>> ELSE SubSeq(data, ValidLen(data) + 1, Len(data))

Kept(pending, boundary, data) ==
    LET buf == pending \o data
    IN  IF boundary THEN <<>> ELSE SubSeq(buf, ValidLen(buf) + 1, Len(buf))

------------------------------------------------------------------------------
(* String.prototype.slice(0, n): n counts UTF-16 code units. *)

\* A code unit starts at the first byte of every character, and at the third
\* of the four bytes of a character outside the basic plane.
UnitStarts(s) == {i \in 1..Len(s) : \/ ~IsCont(s[i])
                                    \/ i > 2 /\ Need(s[i - 2]) = 3}

UnitsUpTo(s, i) == Cardinality({j \in UnitStarts(s) : j <= i})

\* (mutant) the unit at n is kept as well
SliceInclusive(s, n) ==
    SubSeq(s, 1, Cardinality({i \in 1..Len(s) : UnitsUpTo(s, i) <= n + 1}))

Slice(s, n) ==
    SubSeq(s, 1, Cardinality({i \in 1..Len(s) : UnitsUpTo(s, i) <= n}))
==============================================================================
