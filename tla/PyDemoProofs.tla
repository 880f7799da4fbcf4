---------------------------- MODULE PyDemoProofs ----------------------------
(***************************************************************************)
(* Theorems about the Python demo client: the frames it decodes are the    *)
(* first of those the server sent, and a run that passes has seen the      *)
(* whole transcript.  With texts cut as the protocol allows no frame is    *)
(* undecodable, and with the transcript it expects it fails only by the    *)
(* way it reads.                                                           *)
(*                                                                         *)
(* The inductive invariant places the frames in the stream of the server   *)
(* and says where among them the reader stands.  What the recursion of     *)
(* Written computes, and what has become of the frames handled, is shown   *)
(* by induction over the numbers, which a theorem about finite sets        *)
(* provides.  What is common to the frames of both sides, the lemmas of    *)
(* ServerRequestsProofs say.                                               *)
(***************************************************************************)
EXTENDS PyDemo, ServerRequestsProofs, Utf8AssemblerProofs

------------------------------------------------------------------------------
(* The cells of frames *)

\* What the reader tells cell k of a frame of n bytes apart by.
Apart(x, n, m, k) ==
    /\ x \in CellType /\ x.msg = m /\ x.kind # "http"
    /\ k > 1 => x.kind # "op"
    /\ k <= HeadLen(n) => x.kind # "data"

\* By this every cell of a frame is told apart.
LEMMA FramedKinds ==
    ASSUME NEW n \in Nat, NEW m \in Nat, NEW k \in 1..Span(n),
           NEW x, x = Plain(n, m)[k]
    PROVE  Apart(x, n, m, k)
<1>1. /\ Span(n) \in Nat /\ HeadLen(n) \in {2, 4} /\ Span(n) = HeadLen(n) + n
      /\ HeadLen(n) = 4 => Short <= n
    BY FramingAssumption DEF Span, HeadLen
<1>2. PICK c \in Seq(CellType) : c = Plain(n, m) /\ Len(c) = Span(n)
    BY FramedAt, Zenon
<1>3. x = c[k] /\ x \in CellType
  <2>1. k \in 1..Len(c)
      BY <1>2
  <2> QED BY <1>2, <2>1
<1>4. CASE k = 1
  <2>1. c[1] = Cell("op", 0, FALSE, m, FALSE)
      BY <1>2, FramedAt, Zenon
  <2> QED BY <1>3, <1>4, <2>1 DEF Cell, Apart
<1>5. CASE k = 2
  <2>1. PICK l : c[2] = Cell("len", l, FALSE, m, FALSE)
      BY <1>2, FramedAt, Zenon
  <2> QED BY <1>3, <1>5, <2>1 DEF Cell, Apart
<1>6. CASE k \in 3..4 /\ HeadLen(n) = 4
  <2>1. /\ c[3] = Cell("ext", n \div Base, FALSE, m, FALSE)
        /\ c[4] = Cell("ext", n % Base, FALSE, m, FALSE)
      BY <1>1, <1>2, <1>6, FramedAt, Zenon
  <2>2. k = 3 \/ k = 4
      BY <1>6
  <2>3. PICK l : x = Cell("ext", l, FALSE, m, FALSE)
      BY <1>3, <2>1, <2>2, Zenon
  <2> QED BY <1>3, <2>3 DEF Cell, Apart
<1>7. CASE k > HeadLen(n)
  <2>1. PICK j \in 1..n : k = HeadLen(n) + j
    <3>1. k - HeadLen(n) \in 1..n /\ k = HeadLen(n) + (k - HeadLen(n))
        BY <1>1, <1>7
    <3> QED BY <3>1
  <2>2. DataCells(n, m)[j] = DataCell(j, n, m)
      BY DataAt
  <2>3. PICK last : x = Cell("data", j, FALSE, m, last)
      BY <1>2, <1>3, <2>1, <2>2, FramedAt, ZenonT(60) DEF DataCell
  <2>4. ~(k <= HeadLen(n))
      BY <1>1, <1>7
  <2> QED BY <1>3, <2>3, <2>4 DEF Cell, Apart
<1>8. k = 1 \/ k = 2 \/ (k \in 3..4 /\ HeadLen(n) = 4) \/ k > HeadLen(n)
    BY <1>1
<1> QED BY <1>4, <1>5, <1>6, <1>7, <1>8

\* The sizes of frames.
LEMMA FrameSize ==
    ASSUME NEW frames \in Seq(Frame), NEW i \in 1..Len(frames)
    PROVE  frames[i] \in Frame /\ frames[i].size \in Nat \ {0}
<1>1. frames[i] \in Frame
    OBVIOUS
<1> QED BY <1>1 DEF Frame

\* What a frame takes on the stream.
LEMMA FrameSpan ==
    ASSUME NEW frames \in Seq(Frame), NEW i \in 1..Len(frames)
    PROVE  /\ Span(frames[i].size) \in Nat
           /\ Span(frames[i].size) = HeadLen(frames[i].size) + frames[i].size
           /\ HeadLen(frames[i].size) \in {2, 4}
           /\ HeadLen(frames[i].size) = 4 <=> Short <= frames[i].size
<1>1. PICK z \in Nat : z = frames[i].size
    BY FrameSize
<1>2. /\ Span(z) \in Nat /\ Span(z) = HeadLen(z) + z
      /\ HeadLen(z) \in {2, 4} /\ (HeadLen(z) = 4 <=> Short <= z)
    BY FramingAssumption DEF Span, HeadLen
<1> QED BY <1>1, <1>2, Zenon

\* The frames, numbered from base, lie in w one behind the other: the i-th of
\* them ends at ends[i].
Lies(w, ends, frames, base) ==
    /\ ends \in [0..Len(frames) -> Nat]
    /\ ends[0] = 0 /\ ends[Len(frames)] = Len(w)
    /\ \A i \in 1..Len(frames) :
           /\ ends[i] = ends[i - 1] + Span(frames[i].size)
           /\ ends[i] <= Len(w)
           /\ \A k \in 1..Span(frames[i].size) :
                  w[ends[i - 1] + k] = Plain(frames[i].size, base + i)[k]
    /\ \A p \in 1..Len(w) :
           w[p].kind # "http" /\ w[p].msg \in (base + 1)..(base + Len(frames))

\* That is what Written makes of frames.
LEMMA WrittenAt ==
    ASSUME NEW frames \in Seq(Frame), NEW base \in Nat, base = Len(sent)
    PROVE  /\ Written(frames) \in Seq(CellType)
           /\ \E ends : Lies(Written(frames), ends, frames, base)
<1> DEFINE n == Len(frames)
           part == [i \in 1..n |-> Plain(frames[i].size, base + i)]
           c == CHOOSE cells : cells = [i \in 0..n |->
                    IF i = 0 THEN <<>>
                    ELSE cells[i - 1] \o Plain(frames[i].size, base + i)]
           T == {x \in CellType : x.kind # "http" /\ x.msg \in (base + 1)..(base + n)}
<1>1. n \in Nat
    OBVIOUS
<1>2. Written(frames) = c[n]
    BY DEF Written, Plain
<1>3. ASSUME NEW g
      PROVE  [i \in 0..n |-> IF i = 0 THEN <<>> ELSE g[i - 1] \o part[i]]
             = [i \in 0..n |-> IF i = 0 THEN <<>>
                    ELSE g[i - 1] \o Plain(frames[i].size, base + i)]
  <2>1. ASSUME NEW i \in 0..n, i # 0
        PROVE  part[i] = Plain(frames[i].size, base + i)
    <3>1. i \in 1..n
        BY <1>1, <2>1
    <3> QED BY <3>1, Zenon
  <2> HIDE DEF part
  <2> QED BY <2>1
<1>4. Chained(c, n, part)
  <2>1. PICK g : Chained(g, n, part)
    <3> HIDE DEF part, n
    <3> QED BY <1>1, ChainExists
  <2>2. \E cells : cells = [i \in 0..n |-> IF i = 0 THEN <<>>
                    ELSE cells[i - 1] \o Plain(frames[i].size, base + i)]
      BY <2>1, <1>3 DEF Chained
  <2>3. c = [i \in 0..n |-> IF i = 0 THEN <<>>
                    ELSE c[i - 1] \o Plain(frames[i].size, base + i)]
      BY <2>2
  <2> HIDE DEF c
  <2> QED BY <2>3, <1>3 DEF Chained
<1>5. ASSUME NEW i \in 1..n
      PROVE  /\ frames[i].size \in Nat /\ base + i \in Nat
             /\ part[i] = Plain(frames[i].size, base + i)
             /\ part[i] \in Seq(T) /\ Len(part[i]) = Span(frames[i].size)
  <2>1. frames[i].size \in Nat
      BY FrameSize
  <2>2. PICK z \in Nat : z = frames[i].size
      BY <2>1
  <2>3. PICK m \in Nat : m = base + i
      OBVIOUS
  <2>4. PICK f \in Seq(CellType) : f = Plain(z, m) /\ Len(f) = Span(z)
      BY FramedAt, Zenon
  <2>5. ASSUME NEW k \in 1..Span(z)
        PROVE  f[k].msg = m /\ f[k].kind # "http"
    <3>1. PICK y : y = Plain(z, m)[k]
        OBVIOUS
    <3>2. y.msg = m /\ y.kind # "http"
        BY <3>1, FramedKinds DEF Apart
    <3> QED BY <2>4, <3>1, <3>2
  <2>7. Span(z) = Len(f) /\ \A k \in 1..Len(f) : f[k] \in CellType
      BY <2>4
  <2>6. f \in Seq(T)
    <3>1. \A k \in 1..Len(f) : f[k] \in CellType /\ f[k].msg = base + i
                               /\ f[k].kind # "http"
        BY <2>3, <2>5, <2>7
    <3>2. \A k \in 1..Len(f) : f[k] \in T
        BY <3>1
    <3> HIDE DEF T
    <3> QED BY <3>2
  <2> QED BY <2>1, <2>2, <2>3, <2>4, <2>6
<1>6. part \in [1..n -> Seq(T)]
    BY <1>5
<1> HIDE DEF c, part
<1>7. \A j \in 0..n : Joins(c, part, T, j)
  <2> HIDE DEF T, n
  <2> QED BY <1>1, <1>4, <1>6, ChainAt
<1> USE DEF Joins
<1> DEFINE ends == [i \in 0..n |-> Len(c[i])]
<1>8. ends \in [0..n -> Nat]
    BY <1>7
<1>9. ends[0] = 0 /\ ends[n] = Len(c[n])
  <2>1. 0 \in 0..n /\ n \in 0..n
      BY <1>1
  <2>2. Len(c[0]) = 0
      BY <2>1, <1>7, Zenon
  <2> QED BY <2>1, <2>2, Zenon
<1>10. ASSUME NEW i \in 1..n
       PROVE  /\ ends[i] = ends[i - 1] + Span(frames[i].size)
              /\ ends[i] <= Len(c[n])
              /\ \A k \in 1..Span(frames[i].size) :
                    c[n][ends[i - 1] + k] = Plain(frames[i].size, base + i)[k]
  <2>1. i \in 0..n /\ i - 1 \in 0..n /\ n \in 0..n
      OBVIOUS
  <2>2. ends[i] = Len(c[i]) /\ ends[i - 1] = Len(c[i - 1])
      BY <2>1
  <2>3. Len(c[i]) = Len(c[i - 1]) + Len(part[i])
    <3>1. i > 0
        OBVIOUS
    <3> QED BY <2>1, <3>1, <1>7, Zenon
  <2>4. /\ Len(c[i - 1]) + Len(part[i]) <= Len(c[n])
        /\ \A k \in 1..Len(part[i]) : c[n][Len(c[i - 1]) + k] = part[i][k]
      BY <2>1, <1>7
  <2> HIDE DEF ends
  <2> QED BY <2>2, <2>3, <2>4, <1>5
<1>11. c[n] \in Seq(T)
  <2>1. n \in 0..n
      BY <1>1
  <2> QED BY <2>1, <1>7, Zenon
<1>12. c[n] \in Seq(CellType)
    BY <1>11
<1>13. \A p \in 1..Len(c[n]) : c[n][p].kind # "http"
                             /\ c[n][p].msg \in (base + 1)..(base + n)
    BY <1>11
<1> HIDE DEF ends
<1>14. Lies(c[n], ends, frames, base)
    BY <1>8, <1>9, <1>10, <1>13 DEF Lies
<1> QED BY <1>2, <1>12, <1>14

------------------------------------------------------------------------------
(* The inductive invariant *)

\* Frame i ends at pos[i]; the response comes before the first.
Placed(pos, frames) ==
    /\ pos \in [0..Len(frames) -> Nat]
    /\ pos[0] = 2
    /\ \A i \in 1..Len(frames) : pos[i] = pos[i - 1] + Span(frames[i].size)

\* The response and then these frames make up the cells, which may end before.
Laid(pos, cells, frames) ==
    /\ Placed(pos, frames)
    /\ cells \in Seq(CellType)
    /\ Len(cells) <= pos[Len(frames)]
    /\ \A k \in 1..2 : k <= Len(cells) => cells[k] = HttpCells(2)[k]
    /\ \A i \in 1..Len(frames) : \A k \in 1..Span(frames[i].size) :
           pos[i - 1] + k <= Len(cells) =>
               cells[pos[i - 1] + k] = Plain(frames[i].size, i)[k]
    /\ \A p \in 3..Len(cells) :
           cells[p].kind # "http" /\ cells[p].msg \in 1..Len(frames)

\* The stream of the server holds what it sent, as far as it was not lost when
\* the server died.
Wire(pos) ==
    /\ Laid(pos, down, sent)
    /\ (upgraded /\ ~closed) => Len(down) = pos[Len(sent)]
    /\ ~upgraded => down = <<>>

\* The requests of the client and the answers of the server: the upgrade and
\* OPEN are all there are.
Server ==
    /\ script \in Scripts
    /\ requests \in {<<>>, <<OpenFrame>>}
    /\ up = IF requests # <<>> THEN HttpCells(1) \o Framed(OpenSize, TRUE, 1)
            ELSE IF pc = "connect" THEN <<>> ELSE HttpCells(1)
    /\ established <=> requests # <<>>
    /\ pc = "connect" => requests = <<>> /\ ~upgraded
    /\ ~upgraded => /\ sent = <<>> /\ served = <<>> /\ requests = <<>>
                    /\ parsed = 0 /\ chunked = 0 /\ ~busy
    /\ upgraded =>
           /\ parsed = IF served = <<>> THEN 1 ELSE Len(up)
           /\ served # <<>> => served = requests
           /\ sent = <<SettingsFrame>> \o (IF served = <<>> THEN <<>> ELSE script)
           /\ chunked \in parsed..Len(up)
           /\ (~busy /\ chunked = Len(up)) => served = requests

Running == {"connect", "handshake", "head", "ext", "body"}
Halted == Outcomes \cup {"spinning", "misread"}

\* What goes with each call the demo is about to make.
Phase ==
    /\ pc \in Running \cup Halted
    /\ bodyFrom \in 0..taken /\ need \in Nat
    /\ pc \in {"connect", "handshake"} =>
           handled = <<>> /\ ~overread /\ bodyFrom = 0 /\ taken <= 1
    /\ pc = "spinning" => handled = <<>> /\ ~overread
    /\ pc \in {"head", "ext", "body"} => taken >= 2
    /\ pc \in Running => (established <=> handled # <<>>)
    /\ overread => /\ pc \in {"head", "raised", "misread"}
                   /\ handled = <<>> /\ taken >= 3 /\ ~established

\* Where it stands in the stream of these frames, h of which it has handled.
Place(pos, frames, h) ==
    /\ (pc = "head" /\ ~overread) => taken = pos[h]
    /\ pc = "ext" => /\ h < Len(frames) /\ Short <= frames[h + 1].size
                     /\ taken = pos[h] + 2 /\ bodyFrom = taken
    /\ pc = "body" =>
           /\ h < Len(frames)
           /\ bodyFrom \in (pos[h] + 2)..(pos[h] + HeadLen(frames[h + 1].size))
           /\ bodyFrom = pos[h] + HeadLen(frames[h + 1].size)
                  => need = frames[h + 1].size

Reader(pos) ==
    /\ arrived \in 0..Len(down) /\ taken \in 0..arrived
    /\ Len(handled) \in 0..Len(sent) /\ handled = SubSeq(sent, 1, Len(handled))
    /\ Phase
    /\ Place(pos, sent, Len(handled))

\* What has been made of the frames.
Fields == {"reasoning", "reasoningPending", "content", "contentPending",
           "active", "completed", "usage", "metrics", "end"}

Texts == {"reasoning", "reasoningPending", "content", "contentPending"}

SessionOK(s) == /\ s = [f \in Fields |-> s[f]]
                /\ \A f \in Texts : s[f] \in Seq(Byte)

Told ==
    /\ SessionOK(session)
    /\ (pc = "raised") <=> (error # "none")
    /\ pc \in Running => session.end = NoneYet
    /\ pc = "passed" => handled = <<SettingsFrame>> \o script

IInv == Server /\ Told /\ \E pos : Wire(pos) /\ Reader(pos)

------------------------------------------------------------------------------
(* The server *)

\* The request of the demo: OPEN, masked.
OpenCells == Framed(OpenSize, TRUE, 1)

\* OPEN, cell by cell.
LEMMA OpenAt ==
    /\ OpenCells \in Seq(CellType)
    /\ Len(OpenCells) = HeadLen(OpenSize) + 4 + OpenSize
    /\ OpenCells[2].masked
    /\ OpenSize < Short => OpenCells[2].n = OpenSize
    /\ Short <= OpenSize => /\ OpenCells[2].n = Short
                            /\ OpenCells[3].n = OpenSize \div Base
                            /\ OpenCells[4].n = OpenSize % Base
    /\ SubSeq(OpenCells, HeadLen(OpenSize) + 5, Len(OpenCells))
           = DataCells(OpenSize, 1)
<1>1. PICK n \in Nat : n = OpenSize
    BY DemoAssumption
<1>2. Readable(Framed(n, TRUE, 1), n, TRUE, 1)
  <2>1. PICK masked \in BOOLEAN : masked = TRUE
      OBVIOUS
  <2>2. PICK m \in Nat : m = 1
      OBVIOUS
  <2> QED BY <2>1, <2>2, RequestAt, Zenon
<1>3. PICK c : c = OpenCells /\ Readable(c, n, TRUE, 1)
    BY <1>1, <1>2, Zenon DEF OpenCells
<1>4. KeyLen(TRUE) = 4 /\ HeadLen(n) + 4 + 1 = HeadLen(n) + 5
    BY DEF KeyLen, HeadLen
<1>5. Len(c) = HeadLen(n) + 4 + n
    BY <1>3, <1>4, Zenon DEF Readable, WireLen
<1>6. SubSeq(c, HeadLen(n) + 5, Len(c)) = DataCells(n, 1)
    BY <1>3, <1>4, Zenon DEF Readable
<1>7. c[2].masked = TRUE
    BY <1>3, Zenon DEF Readable
<1>8. /\ c \in Seq(CellType)
      /\ n < Short => c[2].n = n
      /\ Short <= n => c[2].n = Short /\ c[3].n = n \div Base /\ c[4].n = n % Base
    BY <1>3, Zenon DEF Readable
<1> QED BY <1>1, <1>3, <1>5, <1>6, <1>7, <1>8, Zenon

\* What the loop of the server reads off the header of OPEN.
LEMMA OpenHeader ==
    ASSUME NEW buf \in Seq(CellType), NEW l \in Nat, l = Len(buf), l >= 2,
           \A i \in 1..l : buf[i] = OpenCells[i], l <= Len(OpenCells)
    PROVE  /\ IsExtended(buf) <=> Short <= OpenSize
           /\ (Short <= OpenSize => l >= 4) =>
                 /\ Offset(buf) = HeadLen(OpenSize) + 4
                 /\ PayloadLen(buf) = OpenSize
<1>1. PICK n \in Nat : n = OpenSize
    BY DemoAssumption
<1>2. Fronted(buf, l, n, TRUE, 1)
    BY <1>1 DEF Fronted, OpenCells
<1>3. HeaderOf(buf, l, n, TRUE)
  <2>1. TRUE \in BOOLEAN /\ 1 \in Nat
      OBVIOUS
  <2> QED BY <1>2, <2>1, HeaderRead, Zenon
<1>4. KeyLen(TRUE) = 4
    BY DEF KeyLen
<1> QED BY <1>1, <1>3, <1>4, Zenon DEF HeaderOf

\* A piece of OPEN is a frame for the loop only when it is the whole.
LEMMA OpenComplete ==
    ASSUME NEW buf \in Seq(CellType), NEW l \in Nat, l = Len(buf),
           \A i \in 1..l : buf[i] = OpenCells[i], l <= Len(OpenCells)
    PROVE  HasFrame(buf) <=> l = Len(OpenCells)
<1>1. PICK n \in Nat : n = OpenSize
    BY DemoAssumption
<1>2. Fronted(buf, l, n, TRUE, 1)
    BY <1>1 DEF Fronted, OpenCells
<1>3. HasFrame(buf) <=> l >= WireLen(n, TRUE)
  <2>1. TRUE \in BOOLEAN /\ 1 \in Nat
      OBVIOUS
  <2> QED BY <1>2, <2>1, FrameComplete, Zenon
<1>4. PICK w \in Nat : w = WireLen(n, TRUE)
    BY FramingAssumption DEF WireLen, HeadLen, KeyLen
<1>5. w = Len(OpenCells)
    BY <1>1, <1>4, OpenAt, Zenon DEF WireLen, KeyLen
<1> HIDE <1>4
<1>6. l >= w <=> l = Len(OpenCells)
    BY <1>5
<1> QED BY <1>3, <1>4, <1>6, Zenon

\* What has come of OPEN behind the upgrade.
LEMMA OpenArrives ==
    ASSUME NEW c \in 1..(1 + Len(OpenCells)),
           NEW buf, buf = SubSeq(HttpCells(1) \o OpenCells, 2, c)
    PROVE  /\ buf \in Seq(CellType) /\ Len(buf) = c - 1
           /\ \A i \in 1..(c - 1) : buf[i] = OpenCells[i]
<1>1. PICK h \in Seq(CellType) : h = HttpCells(1) /\ Len(h) = 1
    BY HttpAt
<1>2. PICK o \in Seq(CellType) : o = OpenCells
    BY OpenAt, Zenon
<1>3. PICK u \in Seq(CellType) : u = h \o o /\ Behind(u, h, o)
    BY BehindAt, Zenon
<1>4. Len(u) = 1 + Len(o) /\ \A i \in 1..Len(o) : u[1 + i] = o[i]
    BY <1>1, <1>3, Zenon DEF Behind
<1>5. c \in 1..(1 + Len(o))
    BY <1>2
<1>6. /\ SubSeq(u, 2, c) \in Seq(CellType) /\ Len(SubSeq(u, 2, c)) = c - 1
      /\ \A i \in 1..(c - 1) : SubSeq(u, 2, c)[i] = o[i]
    BY <1>4, <1>5
<1> QED BY <1>1, <1>2, <1>3, <1>6, Zenon

\* What the client has written, and how long it is.
LEMMA UpAt ==
    ASSUME Server, upgraded
    PROVE  /\ up \in Seq(CellType) /\ Len(OpenCells) >= 6 /\ Len(OpenCells) \in Nat
           /\ requests = <<>> => Len(up) = 1
           /\ requests # <<>> => /\ up = HttpCells(1) \o OpenCells
                                 /\ Len(up) = 1 + Len(OpenCells)
<1> USE DEF Server
<1>1. Len(OpenCells) \in Nat /\ Len(OpenCells) >= 6
  <2>1. Len(OpenCells) = HeadLen(OpenSize) + 4 + OpenSize
      BY OpenAt, Zenon
  <2> QED BY <2>1, DemoAssumption DEF HeadLen
<1>2. requests = <<>> => up = HttpCells(1)
    BY Zenon
<1>3. requests # <<>> => up = HttpCells(1) \o OpenCells
    BY Zenon DEF OpenCells
<1>4. PICK h \in Seq(CellType) : h = HttpCells(1) /\ Len(h) = 1
    BY HttpAt
<1>5. PICK o \in Seq(CellType) : o = OpenCells
    BY OpenAt, Zenon
<1>6. PICK u \in Seq(CellType) : u = h \o o /\ Behind(u, h, o)
    BY BehindAt, Zenon
<1>7. Len(u) = 1 + Len(o)
    BY <1>4, <1>6, Zenon DEF Behind
<1> HIDE DEF Server
<1> QED BY <1>1, <1>2, <1>3, <1>4, <1>5, <1>6, <1>7, Zenon

\* Where the server stands: before OPEN, within it, or behind it.
LEMMA ServerBuffer ==
    ASSUME Server, upgraded
    PROVE  /\ HasFrame(rxBuf) => /\ served = <<>> /\ requests # <<>>
                                 /\ chunked = Len(up) /\ rxBuf = OpenCells
           /\ chunked = Len(up) /\ ~HasFrame(rxBuf) => served = requests
<1>1. CASE served # <<>> \/ requests = <<>>
  <2>1. /\ up \in Seq(CellType) /\ parsed = Len(up) /\ chunked = Len(up)
        /\ served = requests
    <3>1. up \in Seq(CellType) /\ (requests = <<>> => Len(up) = 1)
        BY UpAt, Zenon
    <3>2. /\ parsed = IF served = <<>> THEN 1 ELSE Len(up)
          /\ served # <<>> => served = requests
          /\ chunked \in parsed..Len(up)
        BY Zenon DEF Server
    <3>3. parsed = Len(up) /\ served = requests
        BY <1>1, <3>1, <3>2, Zenon
    <3>4. PICK l \in Nat : l = Len(up)
        BY <3>1
    <3>5. chunked = l
        BY <3>2, <3>3, <3>4
    <3> QED BY <3>1, <3>3, <3>4, <3>5, Zenon
  <2>2. Len(rxBuf) = 0
      BY <2>1 DEF rxBuf
  <2>3. ~HasFrame(rxBuf)
      BY <2>2 DEF HasFrame
  <2> QED BY <2>1, <2>3
<1>2. CASE served = <<>> /\ requests # <<>>
  <2>1. /\ up = HttpCells(1) \o OpenCells /\ Len(up) = 1 + Len(OpenCells)
        /\ Len(OpenCells) \in Nat
      BY <1>2, UpAt, Zenon
  <2>2. parsed = 1 /\ chunked \in parsed..Len(up)
      BY <1>2, Zenon DEF Server
  <2>3. chunked \in 1..(1 + Len(OpenCells))
      BY <2>1, <2>2
  <2>4. PICK buf : buf = SubSeq(HttpCells(1) \o OpenCells, 2, chunked)
      OBVIOUS
  <2>5. rxBuf = buf
      BY <2>1, <2>2, <2>4 DEF rxBuf
  <2>6. /\ buf \in Seq(CellType) /\ Len(buf) = chunked - 1
        /\ \A i \in 1..(chunked - 1) : buf[i] = OpenCells[i]
      BY <2>3, <2>4, OpenArrives, Zenon
  <2>7. PICK l \in Nat : l = chunked - 1
      BY <2>3
  <2>8. HasFrame(buf) <=> l = Len(OpenCells)
    <3>1. l <= Len(OpenCells)
        BY <2>1, <2>3, <2>7
    <3> QED BY <2>6, <2>7, <3>1, OpenComplete, Zenon
  <2>9. l = Len(OpenCells) => buf = OpenCells
    <3>1. PICK o \in Seq(CellType) : o = OpenCells
        BY OpenAt, Zenon
    <3>2. ASSUME l = Len(o) PROVE buf = o
      <4>1. Len(buf) = Len(o) /\ \A i \in 1..Len(o) : buf[i] = o[i]
          BY <2>6, <2>7, <3>1, <3>2
      <4>2. buf \in Seq(CellType)
          BY <2>6
      <4> QED BY <4>1, <4>2, SeqEqual
    <3> QED BY <3>1, <3>2
  <2>10. l = Len(OpenCells) <=> chunked = Len(up)
      BY <2>1, <2>3, <2>7
  <2> QED BY <1>2, <2>5, <2>8, <2>9, <2>10, Zenon
<1> QED BY <1>1, <1>2

\* The transcripts are written for the stream the demo opens.
LEMMA ScriptOnOne ==
    ASSUME script \in Scripts
    PROVE  ScriptOn(1) = script
<1>1. script \in Seq(Frame) /\ \A i \in 1..Len(script) : script[i].stream \in {0, 1}
    BY ScriptsAssumption
<1>2. ASSUME NEW f \in Frame, f.stream = 1
      PROVE  [f EXCEPT !.stream = 1] = f
    BY <1>2 DEF Frame
<1>3. ASSUME NEW i \in 1..Len(script)
      PROVE  (IF script[i].stream = 0 THEN script[i]
              ELSE [script[i] EXCEPT !.stream = 1]) = script[i]
  <2>1. script[i] \in Frame /\ script[i].stream \in {0, 1}
      BY <1>1
  <2>2. CASE script[i].stream = 0
      BY <2>2
  <2>3. CASE script[i].stream = 1
    <3>1. [script[i] EXCEPT !.stream = 1] = script[i]
        BY <1>2, <2>1, <2>3, Zenon
    <3> QED BY <2>3, <3>1
  <2> QED BY <2>1, <2>2, <2>3
<1>4. ScriptOn(1) = [i \in 1..Len(script) |-> script[i]]
    BY <1>3, Zenon DEF ScriptOn
<1>5. script = [i \in 1..Len(script) |-> script[i]]
    BY <1>1
<1> QED BY <1>4, <1>5, Zenon

\* The loop takes OPEN and answers it with the transcript.
LEMMA TakesOpen ==
    ASSUME Server, upgraded, TakeFrame
    PROVE  /\ served = <<>> /\ requests = <<OpenFrame>>
           /\ parsed' = Len(up) /\ served' = requests /\ chunked = Len(up)
           /\ ServerWrites(<<>>, script)
<1>1. HasFrame(rxBuf)
    BY DEF TakeFrame
<1>2. served = <<>> /\ requests # <<>> /\ chunked = Len(up) /\ rxBuf = OpenCells
    BY <1>1, ServerBuffer, Zenon
<1>3. requests = <<OpenFrame>>
    BY <1>2 DEF Server
<1>4. PICK o \in Seq(CellType) : o = OpenCells
    BY OpenAt, Zenon
<1>5. PICK from \in Nat : from = HeadLen(OpenSize) + 4
    BY DemoAssumption DEF HeadLen
<1>6. Len(o) = from + OpenSize /\ OpenSize \in Nat
  <2>1. Len(o) = HeadLen(OpenSize) + 4 + OpenSize
      BY <1>4, OpenAt, Zenon
  <2> QED BY <2>1, <1>5, DemoAssumption
<1>7. Offset(o) = from /\ PayloadLen(o) = OpenSize
  <2>1. PICK l \in Nat : l = Len(o) /\ l >= 2 /\ (Short <= OpenSize => l >= 4)
      BY <1>5, <1>6 DEF HeadLen
  <2>2. l <= Len(OpenCells)
      BY <2>1, <1>4
  <2>3. \A i \in 1..l : o[i] = OpenCells[i]
      BY <1>4, Zenon
  <2> QED BY <1>5, <2>1, <2>2, <2>3, OpenHeader, Zenon
<1>8. Subarray(o, from, from + OpenSize) = DataCells(OpenSize, 1)
  <2>1. SubSeq(o, HeadLen(OpenSize) + 5, Len(o)) = DataCells(OpenSize, 1)
      BY <1>4, OpenAt, Zenon
  <2>2. HeadLen(OpenSize) + 5 = from + 1
      BY <1>5 DEF HeadLen
  <2>3. Subarray(o, from, from + OpenSize) = SubSeq(o, from + 1, Len(o))
      BY <1>6 DEF Subarray
  <2> QED BY <2>1, <2>2, <2>3, Zenon
<1>9. Request(DataCells(OpenSize, 1)) = <<OpenFrame>>
  <2>1. Len(requests) = 1 /\ requests[1] = OpenFrame
      BY <1>3
  <2>2. OpenFrame.size = OpenSize
      BY DEF OpenFrame, LMFrame
  <2>3. IsMessage(DataCells(OpenSize, 1), requests[1].size, 1)
      BY <2>1, <2>2, Zenon DEF IsMessage
  <2>4. \A m \in 1..Len(requests) : m = 1
      BY <2>1
  <2>5. 1 \in 1..Len(requests)
      BY <2>1
  <2>6. (CHOOSE m \in 1..Len(requests) :
             IsMessage(DataCells(OpenSize, 1), requests[m].size, m)) = 1
      BY <2>3, <2>4, <2>5, Zenon
  <2>7. Request(DataCells(OpenSize, 1)) = <<requests[1]>>
      BY <2>3, <2>5, <2>6, Zenon DEF Request
  <2> QED BY <2>1, <2>7
<1>10. Len(Subarray(o, from + OpenSize, Len(o))) = 0
    BY <1>6 DEF Subarray
<1>11. Reply(OpenFrame) = script
  <2>1. OpenFrame.op = "OPEN" /\ OpenFrame.stream = 1
      BY DEF OpenFrame, LMFrame
  <2>2. ScriptOn(1) = script
      BY ScriptOnOne, Zenon DEF Server
  <2> QED BY <2>1, <2>2, Zenon DEF Reply
<1>12. /\ parsed' = chunked - Len(Subarray(o, from + OpenSize, Len(o)))
       /\ served' = served \o <<OpenFrame>>
       /\ ServerWrites(<<>>, IF <<OpenFrame>> = <<>> THEN <<>> ELSE Reply(<<OpenFrame>>[1]))
    BY <1>2, <1>4, <1>7, <1>8, <1>9, Zenon DEF TakeFrame
<1>13. parsed' = Len(up)
  <2>1. Len(up) \in Nat
      BY UpAt
  <2> QED BY <1>2, <1>10, <1>12, <2>1
<1>14. served' = <<OpenFrame>>
    BY <1>2, <1>12
<1>15. <<OpenFrame>> # <<>> /\ <<OpenFrame>>[1] = OpenFrame
    OBVIOUS
<1>16. ServerWrites(<<>>, script)
    BY <1>11, <1>12, <1>15, Zenon
<1> QED BY <1>2, <1>3, <1>13, <1>14, <1>16, Zenon

------------------------------------------------------------------------------
(* The stream *)

\* Ends of frames come in their order.
LEMMA PlacedBehind ==
    ASSUME NEW frames \in Seq(Frame), NEW pos, Placed(pos, frames)
    PROVE  /\ \A i \in 0..Len(frames) : pos[i] >= 2
           /\ \A i \in 1..Len(frames) : \A j \in i..Len(frames) : pos[i] <= pos[j]
<1> DEFINE n == Len(frames)
<1>1. n \in Nat
    OBVIOUS
<1>2. /\ pos \in [0..n -> Nat] /\ pos[0] = 2
      /\ \A i \in 1..n : pos[i] = pos[i - 1] + Span(frames[i].size)
    BY DEF Placed
<1>3. ASSUME NEW i \in 1..n PROVE pos[i] >= pos[i - 1] /\ pos[i - 1] \in Nat
                                  /\ pos[i] \in Nat
  <2>1. PICK z \in Nat : z = Span(frames[i].size)
      BY FrameSpan, Zenon
  <2>2. i - 1 \in 0..n /\ i \in 0..n
      OBVIOUS
  <2>3. PICK x \in Nat : x = pos[i - 1]
      BY <2>2, <1>2
  <2>4. pos[i] = x + z
      BY <2>1, <2>3, <1>2
  <2> QED BY <2>1, <2>3, <2>4
<1> HIDE DEF n
<1>4. \A i \in 0..n : pos[i] >= 2
  <2> DEFINE Good == {i \in Nat : i <= n => pos[i] >= 2}
  <2>1. 0 \in Good
      BY <1>2
  <2>2. ASSUME NEW i \in Nat, i \in Good PROVE i + 1 \in Good
    <3> SUFFICES ASSUME i + 1 <= n PROVE pos[i + 1] >= 2
        OBVIOUS
    <3>1. i + 1 \in 1..n /\ (i + 1) - 1 = i /\ pos[i] >= 2
        BY <2>2, <1>1
    <3>2. pos[i + 1] >= pos[i] /\ pos[i] \in Nat /\ pos[i + 1] \in Nat
        BY <3>1, <1>3
    <3> QED BY <3>1, <3>2
  <2>3. \A i \in Nat : i \in Good
    <3> HIDE DEF Good
    <3> QED BY <2>1, <2>2, Inductive
  <2> QED BY <2>3
<1>5. ASSUME NEW i \in 1..n PROVE \A j \in i..n : pos[i] <= pos[j]
  <2> DEFINE Good == {d \in Nat : i + d <= n => pos[i] <= pos[i + d]}
  <2>1. 0 \in Good
    <3>1. pos[i] \in Nat /\ i + 0 = i
        BY <1>1, <1>3
    <3> QED BY <3>1
  <2>2. ASSUME NEW d \in Nat, d \in Good PROVE d + 1 \in Good
    <3> SUFFICES ASSUME i + (d + 1) <= n PROVE pos[i] <= pos[i + (d + 1)]
        OBVIOUS
    <3>1. i + (d + 1) \in 1..n /\ (i + (d + 1)) - 1 = i + d /\ pos[i] <= pos[i + d]
        BY <2>2, <1>1
    <3>2. /\ pos[i + (d + 1)] >= pos[i + d] /\ pos[i + d] \in Nat
          /\ pos[i + (d + 1)] \in Nat /\ pos[i] \in Nat
        BY <3>1, <1>3
    <3> QED BY <3>1, <3>2
  <2>3. \A d \in Nat : d \in Good
    <3> HIDE DEF Good
    <3> QED BY <2>1, <2>2, Inductive
  <2>4. ASSUME NEW j \in i..n PROVE pos[i] <= pos[j]
    <3>1. j - i \in Nat /\ i + (j - i) = j /\ j <= n
        BY <1>1
    <3>2. j - i \in Good
        BY <3>1, <2>3
    <3> QED BY <3>1, <3>2
  <2> QED BY <2>4
<1> QED BY <1>4, <1>5 DEF n

\* These cells hold these frames to the end, the first n where pos has them.
GoesOn(q, pos, n, cells, frames) ==
    /\ Laid(q, cells, frames)
    /\ Len(cells) = q[Len(frames)]
    /\ \A i \in 0..n : q[i] = pos[i]

\* Written behind the stream, further frames lie there as well, and those
\* already in it stay where they are.
LEMMA LaidGrows ==
    ASSUME NEW frames \in Seq(Frame), NEW more \in Seq(Frame), NEW pos, NEW cells,
           Laid(pos, cells, frames), Len(cells) = pos[Len(frames)],
           NEW w \in Seq(CellType), NEW ends, Lies(w, ends, more, Len(frames))
    PROVE  \E q : GoesOn(q, pos, Len(frames), cells \o w, frames \o more)
<1> DEFINE n == Len(frames)
           m == Len(more)
           q == [i \in 0..(n + m) |-> IF i <= n THEN pos[i] ELSE pos[n] + ends[i - n]]
<1>1. n \in Nat /\ m \in Nat
    OBVIOUS
<1>2. PICK all \in Seq(Frame) : all = frames \o more /\ Behind(all, frames, more)
    BY BehindAt, Zenon
<1>3. Len(all) = n + m /\ (\A i \in 1..n : all[i] = frames[i])
      /\ \A i \in 1..m : all[n + i] = more[i]
    BY <1>2 DEF Behind
<1>4. cells \in Seq(CellType)
    BY DEF Laid
<1>5. PICK long \in Seq(CellType) : long = cells \o w /\ Behind(long, cells, w)
    BY <1>4, BehindAt, Zenon
<1>6. PICK l \in Nat : l = Len(cells) /\ l = pos[n]
    BY <1>4
<1>7. Len(long) = l + Len(w) /\ (\A p \in 1..l : long[p] = cells[p])
      /\ \A p \in 1..Len(w) : long[l + p] = w[p]
    BY <1>5, <1>6 DEF Behind
<1>8. /\ pos \in [0..n -> Nat] /\ pos[0] = 2
      /\ \A i \in 1..n : pos[i] = pos[i - 1] + Span(frames[i].size)
    BY DEF Laid, Placed
<1>9. /\ ends \in [0..m -> Nat] /\ ends[0] = 0 /\ ends[m] = Len(w)
      /\ \A i \in 1..m : ends[i] = ends[i - 1] + Span(more[i].size)
    BY DEF Lies
<1>10. q \in [0..(n + m) -> Nat]
  <2>1. ASSUME NEW i \in 0..(n + m) PROVE (IF i <= n THEN pos[i] ELSE pos[n] + ends[i - n]) \in Nat
    <3>1. CASE i <= n
      <4>1. i \in 0..n
          BY <3>1
      <4> QED BY <3>1, <4>1, <1>8
    <3>2. CASE ~(i <= n)
      <4>1. i - n \in 0..m
          BY <1>1, <3>2
      <4>2. ends[i - n] \in Nat
          BY <4>1, <1>9
      <4> QED BY <3>2, <4>2, <1>6
    <3> QED BY <3>1, <3>2
  <2> QED BY <2>1
<1>11. \A i \in 0..n : q[i] = pos[i]
    BY <1>1
<1>12. \A i \in 0..m : q[n + i] = l + ends[i]
  <2>1. TAKE i \in 0..m
  <2>2. CASE i = 0
    <3>1. q[n] = pos[n]
        BY <1>1
    <3> QED BY <2>2, <3>1, <1>6, <1>9
  <2>3. CASE i # 0
    <3>1. n + i \in 0..(n + m) /\ ~(n + i <= n) /\ (n + i) - n = i
        BY <1>1, <2>3
    <3> QED BY <3>1, <1>6
  <2> QED BY <2>2, <2>3
<1> HIDE DEF q
<1>13. Placed(q, all)
  <2>1. q[0] = 2
      BY <1>1, <1>8, <1>11
  <2>2. ASSUME NEW i \in 1..(n + m)
        PROVE  q[i] = q[i - 1] + Span(all[i].size)
    <3>1. CASE i <= n
      <4>1. i \in 0..n /\ i - 1 \in 0..n /\ i \in 1..n
          BY <3>1
      <4> QED BY <4>1, <1>3, <1>8, <1>11
    <3>2. CASE ~(i <= n)
      <4>1. PICK j \in 1..m : i = n + j
        <5>1. i - n \in 1..m /\ i = n + (i - n)
            BY <1>1, <3>2
        <5> QED BY <5>1
      <4>2. j \in 0..m /\ j - 1 \in 0..m /\ i - 1 = n + (j - 1)
          BY <1>1, <4>1
      <4>3. q[i] = l + ends[j] /\ q[i - 1] = l + ends[j - 1]
          BY <1>12, <4>1, <4>2
      <4>4. ends[j] = ends[j - 1] + Span(all[i].size)
          BY <1>3, <1>9, <4>1
      <4>5. PICK x \in Nat, y \in Nat : x = ends[j] /\ y = ends[j - 1]
          BY <1>9, <4>2
      <4>6. PICK z \in Nat : z = Span(all[i].size)
        <5>1. i \in 1..Len(all)
            BY <1>3
        <5> QED BY <5>1, FrameSpan, Zenon
      <4>7. q[i] = l + x /\ q[i - 1] = l + y /\ x = y + z
          BY <4>3, <4>4, <4>5, <4>6, Zenon
      <4> QED BY <4>6, <4>7
    <3> QED BY <3>1, <3>2
  <2> QED BY <1>3, <1>10, <2>1, <2>2 DEF Placed
<1>14. Len(long) = q[Len(all)]
  <2>1. m \in 0..m /\ Len(w) \in Nat
      BY <1>1
  <2> QED BY <2>1, <1>3, <1>7, <1>9, <1>12
<1>15. \A k \in 1..2 : k <= Len(long) => long[k] = HttpCells(2)[k]
  <2>1. l >= 2
    <3>1. \A i \in 0..n : pos[i] >= 2
        BY PlacedBehind, Zenon DEF Laid
    <3>2. n \in 0..n
        BY <1>1
    <3> QED BY <3>1, <3>2, <1>6
  <2>2. ASSUME NEW k \in 1..2 PROVE long[k] = HttpCells(2)[k]
    <3>1. k \in 1..l /\ k <= Len(cells)
        BY <2>1, <1>6
    <3>2. cells[k] = HttpCells(2)[k]
        BY <3>1, Zenon DEF Laid
    <3> QED BY <3>1, <3>2, <1>7
  <2> QED BY <2>2
<1>16. ASSUME NEW i \in 1..Len(all), NEW k \in 1..Span(all[i].size)
       PROVE  long[q[i - 1] + k] = Plain(all[i].size, i)[k]
  <2>1. CASE i <= n
    <3>1. i \in 1..n /\ i - 1 \in 0..n
        BY <2>1
    <3>2. all[i] = frames[i] /\ q[i - 1] = pos[i - 1] /\ k \in 1..Span(frames[i].size)
        BY <3>1, <1>3, <1>11
    <3>3. PICK x \in Nat : x = pos[i - 1]
        BY <3>1, <1>8
    <3>4. pos[i] <= l
      <4>1. n \in i..n
          BY <2>1, <1>1
      <4> QED BY <3>1, <4>1, <1>6, PlacedBehind, Zenon DEF Laid
    <3>5. x + k <= l /\ x + k \in 1..l
      <4>1. pos[i] = x + Span(frames[i].size) /\ Span(frames[i].size) \in Nat
        <5>1. Span(frames[i].size) \in Nat
            BY <3>1, FrameSpan, Zenon
        <5> QED BY <3>1, <3>3, <5>1, <1>8
      <4> QED BY <3>2, <3>4, <4>1
    <3>6. cells[x + k] = Plain(frames[i].size, i)[k]
        BY <3>1, <3>2, <3>3, <3>5, <1>6, Zenon DEF Laid
    <3> QED BY <3>2, <3>3, <3>5, <3>6, <1>7
  <2>2. CASE ~(i <= n)
    <3>1. PICK j \in 1..m : i = n + j
      <4>1. i - n \in 1..m /\ i = n + (i - n)
          BY <1>1, <1>3, <2>2
      <4> QED BY <4>1
    <3>2. j - 1 \in 0..m /\ i - 1 = n + (j - 1) /\ all[i] = more[j]
        BY <1>1, <1>3, <3>1
    <3>3. PICK x \in Nat : x = ends[j - 1]
        BY <1>9, <3>2
    <3>4. q[i - 1] = l + x
        BY <1>12, <3>2, <3>3
    <3>5. k \in 1..Span(more[j].size)
        BY <3>2
    <3>6. /\ ends[j] = x + Span(more[j].size) /\ ends[j] <= Len(w)
          /\ w[x + k] = Plain(more[j].size, i)[k]
        BY <3>1, <3>3, <3>5, Zenon DEF Lies
    <3>7. Span(more[j].size) \in Nat
        BY FrameSpan, Zenon
    <3>8. x + k \in 1..Len(w) /\ q[i - 1] + k = l + (x + k)
        BY <3>4, <3>5, <3>6, <3>7
    <3>9. long[l + (x + k)] = w[x + k]
        BY <3>8, <1>7
    <3> QED BY <3>2, <3>6, <3>8, <3>9
  <2> QED BY <2>1, <2>2
<1>17. ASSUME NEW p \in 3..Len(long)
       PROVE  long[p].kind # "http" /\ long[p].msg \in 1..Len(all)
  <2>1. CASE p <= l
    <3>1. p \in 3..Len(cells) /\ p \in 1..l
        BY <2>1, <1>6
    <3>2. cells[p].kind # "http" /\ cells[p].msg \in 1..n
        BY <3>1, Zenon DEF Laid
    <3>3. long[p] = cells[p]
        BY <3>1, <1>7
    <3> QED BY <3>2, <3>3, <1>1, <1>3
  <2>2. CASE ~(p <= l)
    <3>1. PICK j \in 1..Len(w) : p = l + j
      <4>1. p - l \in 1..Len(w) /\ p = l + (p - l)
          BY <1>7, <2>2
      <4> QED BY <4>1
    <3>2. long[p] = w[j]
        BY <3>1, <1>7
    <3>3. w[j].kind # "http" /\ w[j].msg \in (n + 1)..(n + m)
        BY Zenon DEF Lies
    <3> QED BY <3>2, <3>3, <1>1, <1>3
  <2> QED BY <2>1, <2>2
<1>18. Laid(q, long, all)
  <2>1. Len(long) <= q[Len(all)]
    <3>1. Len(long) \in Nat
        OBVIOUS
    <3> QED BY <1>14, <3>1
  <2> QED BY <1>13, <1>15, <1>16, <1>17, <2>1, Zenon DEF Laid
<1> QED BY <1>2, <1>5, <1>11, <1>14, <1>18, Zenon DEF GoesOn

\* What the server writes goes behind what it has written.
LEMMA WireGrows ==
    ASSUME NEW pos, NEW cells, NEW more \in Seq(Frame), sent \in Seq(Frame),
           Laid(pos, cells, sent), Len(cells) = pos[Len(sent)],
           down' = cells \o Written(more), sent' = sent \o more
    PROVE  \E q : GoesOn(q, pos, Len(sent), down', sent')
<1>1. PICK base \in Nat : base = Len(sent)
    OBVIOUS
<1>2. PICK w \in Seq(CellType) : w = Written(more)
    BY <1>1, WrittenAt, Zenon
<1>3. PICK ends : Lies(w, ends, more, Len(sent))
    BY <1>1, <1>2, WrittenAt, Zenon
<1>4. \E q : GoesOn(q, pos, Len(sent), cells \o w, sent \o more)
    BY <1>3, LaidGrows, Zenon
<1> QED BY <1>2, <1>4, Zenon

\* The frames of a transcript and of what was sent.
LEMMA SettingsAt == SettingsFrame \in Frame /\ SettingsFrame.op = "SETTINGS"
<1>1. SettingsFrame = [op |-> "SETTINGS", stream |-> 0, boundary |-> FALSE,
                       data |-> <<>>, key |-> <<0, 0>>, start |-> FALSE,
                       end |-> FALSE, id |-> 0, delta |-> <<>>, size |-> 2]
    BY Zenon DEF SettingsFrame, LMFrame
<1>2. <<>> \in Seq(0..255) /\ <<0, 0>> \in Nat \X Nat /\ 0 \in Nat /\ 2 \in Nat \ {0}
    OBVIOUS
<1>4. "SETTINGS" \in Opcode
    BY DEF Opcode
<1>3. FALSE \in BOOLEAN
    BY Zenon
<1> QED BY <1>1, <1>2, <1>3, <1>4, Zenon DEF Frame

\* The frames sent are SETTINGS, and the transcript once OPEN has been answered.
LEMMA SentAt ==
    ASSUME Server
    PROVE  /\ script \in Seq(Frame) /\ sent \in Seq(Frame)
           /\ ~upgraded => sent = <<>>
           /\ upgraded => /\ Len(sent) >= 1 /\ sent[1] = SettingsFrame
                          /\ served = <<>> => sent = <<SettingsFrame>>
                          /\ served # <<>> => sent = <<SettingsFrame>> \o script
<1>1. PICK f \in Frame : f = SettingsFrame
    BY SettingsAt
<1>2. PICK c \in Seq(Frame) : c = script
    BY ScriptsAssumption DEF Server
<1>3. /\ <<f>> \in Seq(Frame) /\ <<f>> \o c \in Seq(Frame) /\ <<>> \in Seq(Frame)
      /\ Len(<<f>>) = 1 /\ <<f>>[1] = f /\ Len(<<f>> \o c) >= 1 /\ (<<f>> \o c)[1] = f
      /\ <<f>> \o <<>> = <<f>>
    OBVIOUS
<1>4. ~upgraded => sent = <<>>
    BY Zenon DEF Server
<1>5. upgraded => sent = <<f>> \o (IF served = <<>> THEN <<>> ELSE c)
    BY <1>1, <1>2, Zenon DEF Server
<1>6. Len(<<f>>) >= 1
    BY <1>3
<1> QED BY <1>1, <1>2, <1>3, <1>4, <1>5, <1>6, Zenon

\* The first n of a sequence are those of any that goes on behind it.
LEMMA FirstKept ==
    ASSUME NEW T, NEW s \in Seq(T), NEW t \in Seq(T), Len(s) <= Len(t),
           \A i \in 1..Len(s) : t[i] = s[i], NEW n \in Nat, n <= Len(s)
    PROVE  SubSeq(s, 1, n) = SubSeq(t, 1, n)
<1>1. SubSeq(s, 1, n) = [i \in 1..n |-> s[i]] /\ SubSeq(t, 1, n) = [i \in 1..n |-> t[i]]
    OBVIOUS
<1> QED BY <1>1

\* The reader is not disturbed by what comes behind, nor by bytes that arrive.
LEMMA ReaderKeeps ==
    ASSUME NEW pos, NEW q, sent \in Seq(Frame), NEW more \in Seq(Frame),
           sent' = sent \o more, \A i \in 0..Len(sent) : q[i] = pos[i],
           Reader(pos), UNCHANGED clientVars, Len(down) \in Nat, Len(down') \in Nat,
           arrived' \in arrived..Len(down')
    PROVE  Reader(q)'
<1>h. PICK h \in Nat : h = Len(handled) /\ h <= Len(sent)
  <2>1. Len(handled) \in 0..Len(sent)
      BY Zenon DEF Reader
  <2> QED BY <2>1
<1>1. PICK s \in Seq(Frame) : s = sent
    OBVIOUS
<1>2. PICK s2 \in Seq(Frame) : s2 = s \o more /\ Behind(s2, s, more)
    BY BehindAt, Zenon
<1>3. sent' = s2
    BY <1>1, <1>2
<1>4. /\ Len(s2) = Len(s) + Len(more) /\ Len(s) \in Nat /\ Len(more) \in Nat
      /\ \A i \in 1..Len(s) : s2[i] = s[i]
    BY <1>2 DEF Behind
<1>5. h <= Len(s) /\ handled = SubSeq(s, 1, h)
    BY <1>h, <1>1, Zenon DEF Reader
<1>6. h <= Len(s2) /\ handled = SubSeq(s2, 1, h)
  <2>1. h <= Len(s2) /\ h <= Len(s) /\ Len(s) <= Len(s2)
      BY <1>h, <1>4, <1>5
  <2>2. SubSeq(s, 1, h) = SubSeq(s2, 1, h)
      BY <2>1, <1>4, FirstKept
  <2> QED BY <2>1, <2>2, <1>5, Zenon
<1>7. q[h] = pos[h]
  <2>1. h \in 0..Len(sent)
      BY <1>h
  <2> QED BY <2>1
<1>8. h < Len(s) => h < Len(s2) /\ s2[h + 1] = s[h + 1]
  <2>1. h < Len(s) => h + 1 \in 1..Len(s)
      BY <1>4
  <2> QED BY <1>4, <2>1
<1>9. /\ arrived' \in 0..Len(down') /\ taken \in 0..arrived' /\ arrived \in Nat
  <2>1. arrived \in 0..Len(down) /\ taken \in 0..arrived
      BY Zenon DEF Reader
  <2> QED BY <2>1
<1>10. UNCHANGED <<pc, taken, bodyFrom, need, handled, overread, established>>
    BY DEF clientVars
<1>11. h = Len(handled) /\ h = Len(handled') /\ sent' = s2
    BY <1>3, <1>10, <1>h, Zenon
<1>12. Phase'
  <2>1. Phase
      BY Zenon DEF Reader
  <2> QED BY <2>1, <1>10 DEF Phase
<1>13. Place(pos, s, h)
    BY <1>1, <1>h, Zenon DEF Reader
<1>14. Place(q, s2, h)
    BY <1>7, <1>8, <1>13, Zenon DEF Place
<1>15. Place(q, s2, h)'
    BY <1>10, <1>14 DEF Place
<1>16. h \in 0..Len(s2)
    BY <1>6
<1> QED BY <1>6, <1>9, <1>10, <1>11, <1>12, <1>15, <1>16, Zenon DEF Reader

------------------------------------------------------------------------------
(* The steps of the server and the network *)

\* What has been made of the frames is the client's.
LEMMA ToldKeeps ==
    ASSUME Told, UNCHANGED clientVars, script' = script
    PROVE  Told'
<1>1. UNCHANGED <<pc, error, session, handled>>
    BY DEF clientVars
<1> QED BY <1>1 DEF Told

\* Without new frames the reader stands where it stood.
LEMMA ReaderStays ==
    ASSUME NEW pos, sent \in Seq(Frame), sent' = sent, Reader(pos),
           UNCHANGED clientVars, Len(down) \in Nat, Len(down') \in Nat,
           arrived' \in arrived..Len(down')
    PROVE  Reader(pos)'
<1>1. PICK s \in Seq(Frame) : s = sent
    OBVIOUS
<1>2. <<>> \in Seq(Frame) /\ s = s \o <<>>
    OBVIOUS
<1>3. sent' = sent \o <<>>
    BY <1>1, <1>2, Zenon
<1>4. \A i \in 0..Len(sent) : pos[i] = pos[i]
    OBVIOUS
<1> QED BY <1>2, <1>3, <1>4, ReaderKeeps, Zenon

\* The answer to the upgrade, and SETTINGS.
LEMMA UpgradeKeeps ==
    ASSUME IInv, Upgrade, UNCHANGED clientVars
    PROVE  IInv'
<1>1. Server /\ Told
    BY Zenon DEF IInv
<1>2. PICK pos : Wire(pos) /\ Reader(pos)
    BY Zenon DEF IInv
<1>3. /\ ~upgraded /\ ~closed /\ up # <<>> /\ upgraded' /\ chunked' = Len(up)
      /\ parsed' = Len(up) /\ ServerWrites(HttpCells(2), <<SettingsFrame>>)
      /\ UNCHANGED <<script, up, requests, busy, served, arrived, closed>>
    BY Zenon DEF Upgrade
<1>4. /\ sent = <<>> /\ served = <<>> /\ requests = <<>> /\ ~busy
      /\ script \in Scripts /\ down = <<>>
    BY <1>1, <1>2, <1>3, Zenon DEF Server, Wire
<1>5. pc # "connect" /\ up = HttpCells(1) /\ ~established
    BY <1>1, <1>3, <1>4 DEF Server
<1>6. UNCHANGED <<pc, established>>
    BY DEF clientVars
<1>7. PICK f \in Frame : f = SettingsFrame
    BY SettingsAt
<1>8. <<f>> \in Seq(Frame) /\ <<>> \o <<f>> = <<f>> /\ <<f>> \o <<>> = <<f>>
    OBVIOUS
<1>9. PICK h \in Seq(CellType) : h = HttpCells(2) /\ Len(h) = 2
    BY HttpAt
<1>10. sent' = <<f>> /\ down' = h \o Written(<<f>>)
  <2>1. <<>> \o h = h
      OBVIOUS
  <2>2. sent' = <<>> \o <<f>> /\ down' = <<>> \o h \o Written(<<f>>)
      BY <1>3, <1>4, <1>7, <1>9, Zenon DEF ServerWrites
  <2> QED BY <1>8, <2>1, <2>2, Zenon
<1>11. Len(up) = 1
    BY <1>5, HttpAt
<1>12. Server'
  <2>1. chunked' \in parsed'..Len(up')
      BY <1>3, <1>11
  <2>2. sent' = <<SettingsFrame>> \o <<>>
      BY <1>7, <1>8, <1>10, Zenon
  <2> QED BY <1>3, <1>4, <1>5, <1>6, <1>11, <2>1, <2>2, Zenon DEF Server
<1>13. PICK q : Wire(q)' /\ \A i \in 0..Len(sent) : q[i] = pos[i]
  <2> DEFINE start == [i \in 0..0 |-> 2]
  <2>1. start[0] = 2 /\ start \in [0..0 -> Nat] /\ Len(<<>>) = 0
      OBVIOUS
  <2>2. Placed(start, <<>>)
    <3>1. \A i \in 1..0 : start[i] = start[i - 1] + Span(<<>>[i].size)
        OBVIOUS
    <3> HIDE DEF start
    <3> QED BY <2>1, <3>1 DEF Placed
  <2> HIDE DEF start
  <2>3. Laid(start, h, <<>>)
    <3>1. \A k \in 1..2 : h[k] = HttpCells(2)[k]
        BY <1>9
    <3>2. 1..0 = {} /\ 3..2 = {} /\ 2 <= 2
        OBVIOUS
    <3> QED BY <1>9, <2>1, <2>2, <3>1, <3>2, Zenon DEF Laid
  <2>4. <<>> \in Seq(Frame)
      OBVIOUS
  <2>5. sent' = sent \o <<f>>
      BY <1>4, <1>8, <1>10, Zenon
  <2>6. PICK q : GoesOn(q, start, Len(sent), down', sent')
    <3>1. sent \in Seq(Frame) /\ Laid(start, h, sent) /\ Len(h) = start[Len(sent)]
        BY <1>4, <1>9, <2>1, <2>3, <2>4, Zenon
    <3> QED BY <1>8, <1>10, <2>5, <3>1, WireGrows, Zenon
  <2>7. Wire(q)'
      BY <1>3, <2>6, Zenon DEF Wire, GoesOn
  <2>8. ASSUME NEW i \in 0..Len(sent) PROVE q[i] = pos[i]
    <3>1. i = 0
        BY <1>4, <2>1
    <3>2. q[0] = 2
        BY <2>6, Zenon DEF GoesOn, Laid, Placed
    <3>3. pos[0] = 2
        BY <1>2, Zenon DEF Wire, Laid, Placed
    <3> QED BY <3>1, <3>2, <3>3
  <2> QED BY <2>7, <2>8
<1>14. Reader(q)'
  <2>1. sent \in Seq(Frame) /\ sent' = sent \o <<f>>
    <3>1. <<>> \in Seq(Frame)
        OBVIOUS
    <3> QED BY <1>4, <1>8, <1>10, <3>1, Zenon
  <2>2. Len(down) = 0
      BY <1>4
  <2>3. Len(down') \in Nat
    <3>1. down' \in Seq(CellType)
        BY <1>13, Zenon DEF Wire, Laid
    <3> QED BY <3>1
  <2>4. arrived' \in arrived..Len(down')
    <3>1. arrived \in 0..Len(down) /\ arrived' = arrived
        BY <1>2, <1>3, Zenon DEF Reader
    <3> QED BY <2>2, <2>3, <3>1
  <2>5. Len(down) \in Nat
      BY <2>2
  <2> QED BY <1>2, <1>8, <1>13, <2>1, <2>3, <2>4, <2>5, ReaderKeeps, Zenon
<1>15. Told'
    BY <1>1, <1>3, ToldKeeps, Zenon
<1> QED BY <1>12, <1>13, <1>14, <1>15, Zenon DEF IInv

\* A beginning of the stream is one of it.
LEMMA LaidCut ==
    ASSUME NEW pos, NEW d \in Seq(CellType), NEW frames \in Seq(Frame),
           Laid(pos, d, frames), NEW e \in Seq(CellType), Len(e) <= Len(d),
           \A p \in 1..Len(e) : e[p] = d[p]
    PROVE  Laid(pos, e, frames)
<1> DEFINE n == Len(frames)
<1>1. Placed(pos, frames)
    BY Zenon DEF Laid
<1>2. PICK x \in Nat : x = Len(d)
    OBVIOUS
<1>3. PICK y \in Nat : y = Len(e) /\ y <= x /\ \A p \in 1..y : e[p] = d[p]
    BY <1>2
<1>4. Len(e) <= pos[Len(frames)]
  <2>1. n \in 0..n
      OBVIOUS
  <2>2. PICK z \in Nat : z = pos[n]
      BY <1>1, <2>1 DEF Placed
  <2>3. x <= z
      BY <1>2, <2>2, Zenon DEF Laid
  <2> QED BY <1>3, <2>2, <2>3
<1>5. ASSUME NEW k \in 1..2, k <= Len(e) PROVE e[k] = HttpCells(2)[k]
  <2>1. k \in 1..y /\ k <= Len(d)
      BY <1>2, <1>3, <1>5
  <2>2. d[k] = HttpCells(2)[k]
      BY <2>1, Zenon DEF Laid
  <2> QED BY <2>1, <2>2, <1>3
<1>6. ASSUME NEW i \in 1..n, NEW k \in 1..Span(frames[i].size), pos[i - 1] + k <= Len(e)
      PROVE  e[pos[i - 1] + k] = Plain(frames[i].size, i)[k]
  <2>1. i - 1 \in 0..n
      OBVIOUS
  <2>2. PICK z \in Nat : z = pos[i - 1]
      BY <1>1, <2>1 DEF Placed
  <2>3. Span(frames[i].size) \in Nat
      BY FrameSpan, Zenon
  <2>4. z + k \in 1..y /\ z + k <= x
      BY <1>3, <1>6, <2>2, <2>3, SMTT(40)
  <2>5. d[z + k] = Plain(frames[i].size, i)[k]
      BY <1>2, <2>2, <2>4, Zenon DEF Laid
  <2> QED BY <1>3, <2>2, <2>4, <2>5
<1>7. ASSUME NEW p \in 3..Len(e)
      PROVE  e[p].kind # "http" /\ e[p].msg \in 1..n
  <2>1. p \in 1..y /\ p \in 3..Len(d)
      BY <1>2, <1>3
  <2>2. d[p].kind # "http" /\ d[p].msg \in 1..n
      BY <2>1, Zenon DEF Laid
  <2> QED BY <2>1, <2>2, <1>3
<1> QED BY <1>1, <1>4, <1>5, <1>6, <1>7, Zenon DEF Laid

\* What the server does without writing leaves the stream as it is.
LEMMA QuietKeeps ==
    ASSUME IInv, Server', UNCHANGED <<script, upgraded, sent, down, closed>>,
           UNCHANGED clientVars, arrived' \in arrived..Len(down)
    PROVE  IInv'
<1>1. Server /\ Told
    BY Zenon DEF IInv
<1>2. PICK pos : Wire(pos) /\ Reader(pos)
    BY Zenon DEF IInv
<1>3. sent \in Seq(Frame)
    BY <1>1, SentAt, Zenon
<1>4. Wire(pos)'
    BY <1>2, Zenon DEF Wire
<1>5. Len(down) \in Nat
  <2>1. down \in Seq(CellType)
      BY <1>2, Zenon DEF Wire, Laid
  <2> QED BY <2>1
<1>6. Reader(pos)'
  <2>1. Len(down') \in Nat /\ arrived' \in arrived..Len(down')
      BY <1>5
  <2> QED BY <1>2, <1>3, <1>5, <2>1, ReaderStays, Zenon
<1>7. Told'
    BY <1>1, ToldKeeps, Zenon
<1> QED BY <1>4, <1>6, <1>7, Zenon DEF IInv

\* A chunk has come for the server,
LEMMA DataKeeps ==
    ASSUME IInv, Data, UNCHANGED clientVars
    PROVE  IInv'
<1>1. Server /\ \E pos : Reader(pos)
    BY Zenon DEF IInv
<1>2. /\ upgraded /\ chunked' \in (chunked + 1)..Len(up) /\ busy'
      /\ UNCHANGED <<script, up, requests, parsed, upgraded, served, down, sent,
                     arrived, closed>>
    BY Zenon DEF Data
<1>3. UNCHANGED <<pc, established>>
    BY DEF clientVars
<1>4. chunked' \in parsed'..Len(up')
  <2>1. chunked \in parsed..Len(up) /\ parsed = IF served = <<>> THEN 1 ELSE Len(up)
      BY <1>1, <1>2, Zenon DEF Server
  <2>2. PICK l \in Nat : l = Len(up)
      BY <1>1, <1>2, UpAt
  <2>3. PICK p \in Nat : p = parsed
      BY <2>1, <2>2
  <2> QED BY <1>2, <2>1, <2>2, <2>3
<1>5. Server'
    BY <1>1, <1>2, <1>3, <1>4, Zenon DEF Server
<1>6. arrived' \in arrived..Len(down)
    BY <1>1, <1>2 DEF Reader
<1> QED BY <1>2, <1>5, <1>6, QuietKeeps, Zenon

\* the server waits for the next,
LEMMA LeaveLoopKeeps ==
    ASSUME IInv, LeaveLoop, UNCHANGED clientVars
    PROVE  IInv'
<1>1. Server /\ \E pos : Reader(pos)
    BY Zenon DEF IInv
<1>2. /\ busy /\ ~HasFrame(rxBuf) /\ ~busy'
      /\ UNCHANGED <<script, up, requests, chunked, parsed, upgraded, served,
                     down, sent, arrived, closed>>
    BY Zenon DEF LeaveLoop
<1>3. UNCHANGED <<pc, established>>
    BY DEF clientVars
<1>4. upgraded
    BY <1>1, <1>2, Zenon DEF Server
<1>5. chunked = Len(up) => served = requests
    BY <1>1, <1>2, <1>4, ServerBuffer, Zenon
<1>6. Server'
    BY <1>1, <1>2, <1>3, <1>5, Zenon DEF Server
<1>7. arrived' \in arrived..Len(down)
    BY <1>1, <1>2 DEF Reader
<1> QED BY <1>2, <1>6, <1>7, QuietKeeps, Zenon

\* or bytes arrive at the demo.
LEMMA ArriveKeeps ==
    ASSUME IInv, Arrive, UNCHANGED clientVars
    PROVE  IInv'
<1>1. Server /\ \E pos : Reader(pos)
    BY Zenon DEF IInv
<1>2. /\ arrived' \in (arrived + 1)..Len(down)
      /\ UNCHANGED <<script, up, requests, chunked, parsed, upgraded, busy, served,
                     down, sent, closed>>
    BY DEF Arrive
<1>3. UNCHANGED <<pc, established>>
    BY DEF clientVars
<1>4. Server'
    BY <1>1, <1>2, <1>3, Zenon DEF Server
<1>5. arrived' \in arrived..Len(down)
    BY <1>1, <1>2 DEF Reader
<1> QED BY <1>2, <1>4, <1>5, QuietKeeps, Zenon

\* The server writes the transcript once the loop has found OPEN.
LEMMA TakeFrameKeeps ==
    ASSUME IInv, TakeFrame, UNCHANGED clientVars
    PROVE  IInv'
<1>1. Server /\ Told
    BY Zenon DEF IInv
<1>2. PICK pos : Wire(pos) /\ Reader(pos)
    BY Zenon DEF IInv
<1>3. /\ busy /\ ~closed
      /\ UNCHANGED <<script, up, requests, chunked, upgraded, busy, arrived, closed>>
    BY Zenon DEF TakeFrame
<1>4. upgraded
    BY <1>1, <1>3, Zenon DEF Server
<1>5. /\ served = <<>> /\ requests = <<OpenFrame>> /\ parsed' = Len(up)
      /\ served' = requests /\ chunked = Len(up) /\ ServerWrites(<<>>, script)
    BY <1>1, <1>4, TakesOpen, Zenon
<1>6. UNCHANGED <<pc, established>>
    BY DEF clientVars
<1>7. script \in Seq(Frame) /\ sent \in Seq(Frame) /\ sent = <<SettingsFrame>>
    BY <1>1, <1>4, <1>5, SentAt, Zenon
<1>8. sent' = sent \o script
    BY <1>5, Zenon DEF ServerWrites
<1>9. Laid(pos, down, sent) /\ Len(down) = pos[Len(sent)] /\ down \in Seq(CellType)
    BY <1>2, <1>3, <1>4, Zenon DEF Wire, Laid
<1>10. down' = down \o Written(script)
  <2>1. down \o <<>> = down
      BY <1>9
  <2> QED BY <1>5, <2>1, Zenon DEF ServerWrites
<1>11. PICK q : GoesOn(q, pos, Len(sent), down', sent')
    BY <1>7, <1>8, <1>9, <1>10, WireGrows, Zenon
<1>12. Wire(q)'
    BY <1>3, <1>4, <1>11, Zenon DEF Wire, GoesOn
<1>13. Reader(q)'
  <2>1. Len(down) \in Nat
      BY <1>9
  <2>2. PICK w \in Seq(CellType) : w = Written(script)
    <3>1. Len(sent) \in Nat
        BY <1>7
    <3> QED BY <1>7, <3>1, WrittenAt, Zenon
  <2>3. Len(down') = Len(down) + Len(w)
      BY <1>9, <1>10, <2>2, BehindAt, Zenon DEF Behind
  <2>4. Len(down') \in Nat /\ arrived' \in arrived..Len(down')
    <3>1. arrived \in 0..Len(down) /\ arrived' = arrived
        BY <1>2, <1>3, Zenon DEF Reader
    <3>2. Len(w) \in Nat
        OBVIOUS
    <3> QED BY <2>1, <2>3, <3>1, <3>2
  <2>5. \A i \in 0..Len(sent) : q[i] = pos[i]
      BY <1>11, Zenon DEF GoesOn
  <2> QED BY <1>2, <1>7, <1>8, <2>1, <2>4, <2>5, ReaderKeeps, Zenon
<1>14. Server'
  <2>1. chunked' \in parsed'..Len(up')
    <3>1. Len(up) \in Nat
        BY <1>1, <1>4, UpAt
    <3> QED BY <1>3, <1>5, <3>1
  <2>2. <<OpenFrame>> # <<>>
      OBVIOUS
  <2> QED BY <1>1, <1>3, <1>4, <1>5, <1>6, <1>7, <1>8, <2>1, <2>2, Zenon DEF Server
<1>15. Told'
    BY <1>1, <1>3, ToldKeeps, Zenon
<1> QED BY <1>12, <1>13, <1>14, <1>15, Zenon DEF IInv

\* The server dies, and bytes that have not arrived are lost.
LEMMA CloseKeeps ==
    ASSUME IInv, Close, UNCHANGED clientVars
    PROVE  IInv'
<1>1. Server /\ Told
    BY Zenon DEF IInv
<1>2. PICK pos : Wire(pos) /\ Reader(pos)
    BY Zenon DEF IInv
<1>3. PICK kept \in arrived..Len(down) : down' = SubSeq(down, 1, kept)
    BY Zenon DEF Close
<1>4. /\ closed'
      /\ UNCHANGED <<script, up, requests, chunked, parsed, upgraded, busy, served,
                     sent, arrived>>
    BY Zenon DEF Close
<1>5. UNCHANGED <<pc, established>>
    BY DEF clientVars
<1>6. Server'
    BY <1>1, <1>4, <1>5, Zenon DEF Server
<1>7. sent \in Seq(Frame)
    BY <1>1, SentAt, Zenon
<1>8. PICK d \in Seq(CellType) : d = down
    BY <1>2, Zenon DEF Wire, Laid
<1>9. arrived \in Nat /\ kept \in Nat /\ kept <= Len(d) /\ arrived <= kept
  <2>1. arrived \in 0..Len(d)
      BY <1>2, <1>8, Zenon DEF Reader
  <2> QED BY <2>1, <1>8
<1>10. PICK e \in Seq(CellType) : /\ e = SubSeq(d, 1, kept) /\ Len(e) = kept
                                  /\ \A p \in 1..kept : e[p] = d[p]
  <2>1. /\ SubSeq(d, 1, kept) \in Seq(CellType) /\ Len(SubSeq(d, 1, kept)) = kept
        /\ \A p \in 1..kept : SubSeq(d, 1, kept)[p] = d[p]
      BY <1>9
  <2> QED BY <2>1, Zenon
<1>11. down' = e
    BY <1>3, <1>8, <1>10, Zenon
<1>12. Laid(pos, e, sent)
    BY <1>2, <1>7, <1>8, <1>9, <1>10, LaidCut DEF Wire
<1>13. Wire(pos)'
  <2>1. ~upgraded => e = <<>>
    <3>1. ~upgraded => d = <<>>
        BY <1>2, <1>8, Zenon DEF Wire
    <3>2. d = <<>> => e = <<>>
        BY <1>9, <1>10
    <3> QED BY <3>1, <3>2, Zenon
  <2> QED BY <1>4, <1>11, <1>12, <2>1, Zenon DEF Wire
<1>14. Reader(pos)'
  <2>1. Len(down) \in Nat /\ Len(down') \in Nat /\ arrived' \in arrived..Len(down')
      BY <1>4, <1>8, <1>9, <1>10, <1>11
  <2> QED BY <1>2, <1>4, <1>7, <2>1, ReaderStays, Zenon
<1>15. Told'
    BY <1>1, <1>4, ToldKeeps, Zenon
<1> QED BY <1>6, <1>13, <1>14, <1>15, Zenon DEF IInv

------------------------------------------------------------------------------
(* What a frame does to the variables of run_demo *)

\* One or two of the fields get new values.
LEMMA FieldSet ==
    ASSUME NEW s, s = [f \in Fields |-> s[f]], NEW a \in Fields, NEW x,
           NEW t, t = [s EXCEPT ![a] = x]
    PROVE  /\ t = [f \in Fields |-> t[f]] /\ t[a] = x
           /\ \A f \in Fields : f # a => t[f] = s[f]
<1>1. t = [f \in Fields |-> IF f = a THEN x ELSE s[f]]
    OBVIOUS
<1> QED BY <1>1

\* Two fields are set.
LEMMA FieldsSet ==
    ASSUME NEW s, s = [f \in Fields |-> s[f]], NEW a \in Fields, NEW b \in Fields,
           a # b, NEW x, NEW y, NEW t, t = [s EXCEPT ![a] = x, ![b] = y]
    PROVE  /\ t = [f \in Fields |-> t[f]] /\ t[a] = x /\ t[b] = y
           /\ \A f \in Fields : f # a /\ f # b => t[f] = s[f]
<1>1. t = [f \in Fields |-> IF f = b THEN y ELSE IF f = a THEN x ELSE s[f]]
    OBVIOUS
<1> QED BY <1>1

\* The assembler renders and keeps bytes.
LEMMA RenderedBytes ==
    ASSUME NEW pending \in Seq(Byte), NEW boundary \in BOOLEAN, NEW data \in Seq(Byte)
    PROVE  /\ Rendered(pending, boundary, data) \in Seq(Byte)
           /\ Kept(pending, boundary, data) \in Seq(Byte)
<1>1. PICK buf \in Seq(Byte) : buf = pending \o data
  <2>1. pending \o data \in Seq(Byte)
      BY ConcatProperties
  <2> QED BY <2>1
<1>2. PICK l \in Nat : l = Len(buf)
    OBVIOUS
<1>3. PICK v \in 0..l : v = ValidLen(buf)
  <2>1. CASE \E t \in 0..2 : CutShort(buf, t)
    <3>1. PICK t \in 0..2 : t = (CHOOSE u \in 0..2 : CutShort(buf, u)) /\ CutShort(buf, t)
        BY <2>1, Zenon
    <3>2. t < l
        BY <1>2, <3>1 DEF CutShort, ScanStops
    <3>3. ValidLen(buf) = l - 1 - t
        BY <1>2, <2>1, <3>1, Zenon DEF ValidLen
    <3>4. l - 1 - t \in 0..l
        BY <3>2
    <3> QED BY <3>3, <3>4
  <2>2. CASE ~\E t \in 0..2 : CutShort(buf, t)
    <3>1. ValidLen(buf) = l
        BY <1>2, <2>2, Zenon DEF ValidLen
    <3> QED BY <3>1
  <2> QED BY <2>1, <2>2
<1>4. SubSeq(buf, 1, v) \in Seq(Byte) /\ SubSeq(buf, v + 1, l) \in Seq(Byte)
    BY <1>2
<1>5. <<>> \in Seq(Byte)
    OBVIOUS
<1>6. Rendered(pending, boundary, data) = IF boundary THEN buf ELSE SubSeq(buf, 1, v)
    BY <1>1, <1>3, Zenon DEF Rendered
<1>7. Kept(pending, boundary, data) = IF boundary THEN <<>> ELSE SubSeq(buf, v + 1, l)
    BY <1>1, <1>2, <1>3, Zenon DEF Kept
<1> QED BY <1>4, <1>5, <1>6, <1>7, Zenon

\* A frame leaves the variables well-formed and does not touch end, unless it
\* is the one behind which the loop is left.
Fine(s, done, frame) ==
    /\ SessionOK(done.session)
    /\ ~EndsLoop(frame) => done.session["end"] = s["end"]

\* A frame of text does so,
LEMMA TextFine ==
    ASSUME NEW s, SessionOK(s), NEW frame \in Frame, NEW text \in Texts,
           NEW pending \in Texts, text # pending
    PROVE  Fine(s, TextStep(s, text, pending, frame), frame)
<1>1. Texts \subseteq Fields /\ "end" \notin Texts /\ "end" \in Fields
    BY DEF Texts, Fields
<1>2. frame.boundary \in BOOLEAN /\ frame.data \in Seq(Byte)
    BY DEF Frame, Byte
<1>3. s = [f \in Fields |-> s[f]] /\ \A f \in Texts : s[f] \in Seq(Byte)
    BY Zenon DEF SessionOK
<1>4. PICK shown \in Seq(Byte) : shown = Rendered(s[pending], frame.boundary, frame.data)
    BY <1>2, <1>3, RenderedBytes, Zenon
<1>5. PICK kept \in Seq(Byte) : kept = Kept(s[pending], frame.boundary, frame.data)
    BY <1>2, <1>3, RenderedBytes, Zenon
<1>6. PICK t : t = [s EXCEPT ![text] = s[text] \o shown, ![pending] = kept]
    OBVIOUS
<1>7. /\ t = [f \in Fields |-> t[f]] /\ t[text] = s[text] \o shown /\ t[pending] = kept
      /\ \A f \in Fields : f # text /\ f # pending => t[f] = s[f]
    BY <1>1, <1>3, <1>6, FieldsSet
<1>8. s[text] \o shown \in Seq(Byte)
  <2>1. PICK old \in Seq(Byte) : old = s[text]
      BY <1>3
  <2>2. old \o shown \in Seq(Byte)
      BY ConcatProperties
  <2> QED BY <2>1, <2>2
<1>9. SessionOK(t) /\ t["end"] = s["end"]
  <2>1. \A f \in Texts : t[f] \in Seq(Byte)
      BY <1>1, <1>3, <1>7, <1>8, Zenon
  <2>2. t["end"] = s["end"]
      BY <1>1, <1>7, Zenon
  <2> QED BY <1>7, <2>1, <2>2, Zenon DEF SessionOK
<1>10. TextStep(s, text, pending, frame)
           = IF WellFormed(shown) THEN [raised |-> "none", session |-> t]
             ELSE [raised |-> "UnicodeDecodeError", session |-> s]
    BY <1>4, <1>5, <1>6, Zenon DEF TextStep
<1>11. TextStep(s, text, pending, frame).session \in {s, t}
    BY <1>10
<1> QED BY <1>9, <1>11, Zenon DEF Fine

\* one of a tool call,
LEMMA ToolFine ==
    ASSUME NEW s, SessionOK(s), NEW frame \in Frame
    PROVE  Fine(s, ToolStep(s, frame), frame)
<1>1. Texts \subseteq Fields /\ "end" \in Fields /\ "active" \in Fields \ Texts
      /\ "completed" \in Fields \ Texts /\ "active" # "completed"
      /\ "end" # "active" /\ "end" # "completed"
    BY DEF Texts, Fields
<1>2. s = [f \in Fields |-> s[f]] /\ \A f \in Texts : s[f] \in Seq(Byte)
    BY Zenon DEF SessionOK
<1>3. PICK call : call = CompletedBy(s.active, frame)
    OBVIOUS
<1>4. PICK x : x = ActivePy(s.active, frame)
    OBVIOUS
<1>5. PICK y : y = s.completed \o call
    OBVIOUS
<1>6. PICK t : t = [s EXCEPT !["active"] = x, !["completed"] = y]
    OBVIOUS
<1>7. /\ t = [f \in Fields |-> t[f]] /\ t["active"] = x
      /\ \A f \in Fields : f # "active" /\ f # "completed" => t[f] = s[f]
    BY <1>1, <1>2, <1>6, FieldsSet
<1>8. SessionOK(t) /\ t["end"] = s["end"]
    BY <1>1, <1>2, <1>7, Zenon DEF SessionOK
<1>9. t = [s EXCEPT !.active = ActivePy(s.active, frame), !.completed = @ \o call]
    BY <1>4, <1>5, <1>6
<1>10. ToolStep(s, frame).session \in {s, t}
    BY <1>3, <1>9 DEF ToolStep
<1> QED BY <1>8, <1>10, Zenon DEF Fine

\* one that sets a field,
LEMMA SetFine ==
    ASSUME NEW s, SessionOK(s), NEW frame \in Frame, NEW field \in Fields \ Texts,
           field = "end" => EndsLoop(frame)
    PROVE  Fine(s, Set(s, field, frame), frame)
<1>1. Texts \subseteq Fields /\ "end" \in Fields
    BY DEF Texts, Fields
<1>2. s = [f \in Fields |-> s[f]] /\ \A f \in Texts : s[f] \in Seq(Byte)
    BY Zenon DEF SessionOK
<1>3. PICK t : t = [s EXCEPT ![field] = frame.data]
    OBVIOUS
<1>4. /\ t = [f \in Fields |-> t[f]]
      /\ \A f \in Fields : f # field => t[f] = s[f]
    BY <1>2, <1>3, FieldSet
<1>5. SessionOK(t) /\ (~EndsLoop(frame) => t["end"] = s["end"])
    BY <1>1, <1>2, <1>4, Zenon DEF SessionOK
<1>6. Set(s, field, frame).session = t
    BY <1>3 DEF Set
<1> QED BY <1>5, <1>6, Zenon DEF Fine

\* and so every frame.
LEMMA DispatchFine ==
    ASSUME NEW s, SessionOK(s), NEW frame \in Frame
    PROVE  Fine(s, Dispatch(s, frame), frame)
<1>1. Fine(s, [raised |-> "none", session |-> s], frame)
    BY DEF Fine
<1>2. /\ Fine(s, TextStep(s, "reasoning", "reasoningPending", frame), frame)
      /\ Fine(s, TextStep(s, "content", "contentPending", frame), frame)
  <2>1. /\ "reasoning" \in Texts /\ "reasoningPending" \in Texts
        /\ "content" \in Texts /\ "contentPending" \in Texts
        /\ "reasoning" # "reasoningPending" /\ "content" # "contentPending"
      BY DEF Texts
  <2> QED BY <2>1, TextFine, Zenon
<1>3. Fine(s, ToolStep(s, frame), frame)
    BY ToolFine, Zenon
<1>4. /\ Fine(s, Set(s, "usage", frame), frame) /\ Fine(s, Set(s, "metrics", frame), frame)
      /\ EndsLoop(frame) => Fine(s, Set(s, "end", frame), frame)
  <2>1. /\ "usage" \in Fields \ Texts /\ "metrics" \in Fields \ Texts
        /\ "end" \in Fields \ Texts /\ "usage" # "end" /\ "metrics" # "end"
      BY DEF Texts, Fields
  <2> QED BY <2>1, SetFine, Zenon
<1>5. Dispatch(s, frame) \in
          {[raised |-> "none", session |-> s],
           TextStep(s, "reasoning", "reasoningPending", frame),
           TextStep(s, "content", "contentPending", frame),
           ToolStep(s, frame), Set(s, "usage", frame), Set(s, "metrics", frame)}
          \cup (IF EndsLoop(frame) THEN {Set(s, "end", frame)} ELSE {})
    BY DEF Dispatch, EndsLoop
<1> QED BY <1>1, <1>2, <1>3, <1>4, <1>5, Zenon

------------------------------------------------------------------------------
(* The steps of the demo *)

\* Reading changes nothing of the server's.
LEMMA ServerStays ==
    ASSUME Server, UNCHANGED serverVars, established' = established,
           pc # "connect", pc' # "connect"
    PROVE  Server'
<1>1. UNCHANGED <<script, up, requests, chunked, parsed, upgraded, busy, served,
                  down, sent, arrived, closed>>
    BY DEF serverVars
<1> QED BY <1>1, Zenon DEF Server

\* The frames lie where they lay.
LEMMA WireStays ==
    ASSUME NEW pos, Wire(pos), UNCHANGED serverVars
    PROVE  Wire(pos)'
<1>1. UNCHANGED <<upgraded, closed, down, sent>>
    BY DEF serverVars
<1> QED BY <1>1, Zenon DEF Wire

\* A step of the running demo that handles no frame.
LEMMA ToldStays ==
    ASSUME Told, pc \in Running, session' = session, pc' # "passed",
           (pc' = "raised") <=> (error' # "none")
    PROVE  Told'
<1>1. SessionOK(session') /\ (pc' \in Running => session'.end = NoneYet)
    BY Zenon DEF Told
<1> QED BY <1>1, Zenon DEF Told

\* As long as it runs, no error has been raised, and without END the
\* transcript is not there.
LEMMA NotPassed ==
    ASSUME Told, pc \in Running
    PROVE  error = "none" /\ ~Transcript(session)
<1>1. pc # "raised"
    BY DEF Running
<1>2. error = "none" /\ session.end = NoneYet
    BY <1>1 DEF Told
<1>3. session.end # Expected.end
    BY <1>2, DemoAssumption, Zenon
<1> QED BY <1>2, <1>3, Zenon DEF Transcript

\* A verdict before the end of the transcript is a failure.
LEMMA VerdictFails ==
    ASSUME Told, pc \in Running, Verdict(session)
    PROVE  pc' = "raised" /\ error' # "none"
<1>1. pc' = "raised" /\ error' = "AssertionError"
    BY NotPassed, Zenon DEF Verdict, Raised
<1>2. "AssertionError" # "none"
    OBVIOUS
<1> QED BY <1>1, <1>2, Zenon

\* Frame h + 1 of those sent has z bytes and comes behind the first x cells.
NextFrame(pos, h, x, z) ==
    /\ x = pos[h] /\ x \in Nat /\ x >= 2
    /\ z = sent[h + 1].size /\ z \in Nat \ {0}
    /\ pos[h + 1] = x + Span(z) /\ Span(z) = HeadLen(z) + z
    /\ HeadLen(z) \in {2, 4} /\ (HeadLen(z) = 4 <=> Short <= z)
    /\ \A k \in 1..Span(z) : x + k <= Len(down) => down[x + k] = Plain(z, h + 1)[k]

\* What the reader is about to read.
LEMMA CellAt ==
    ASSUME NEW pos, sent \in Seq(Frame), Wire(pos), NEW h \in Nat, h < Len(sent)
    PROVE  \E x \in Nat, z \in Nat \ {0} : NextFrame(pos, h, x, z)
<1>1. Placed(pos, sent) /\ Laid(pos, down, sent)
    BY Zenon DEF Wire, Laid
<1>2. PICK n \in Nat : n = Len(sent)
    OBVIOUS
<1>3. h \in 0..n /\ h + 1 \in 1..n /\ (h + 1) - 1 = h
    BY <1>2
<1>4. pos[h] \in Nat /\ pos[h + 1] = pos[h] + Span(sent[h + 1].size)
  <2>1. pos \in [0..n -> Nat] /\ \A i \in 1..n : pos[i] = pos[i - 1] + Span(sent[i].size)
      BY <1>1, <1>2, Zenon DEF Placed
  <2> QED BY <1>3, <2>1
<1>5. pos[h] >= 2
    BY <1>1, <1>2, <1>3, PlacedBehind
<1>6. \A k \in 1..Span(sent[h + 1].size) :
          pos[h] + k <= Len(down) =>
              down[pos[h] + k] = Plain(sent[h + 1].size, h + 1)[k]
    BY <1>1, <1>2, <1>3 DEF Laid
<1>7. PICK z \in Nat \ {0} : z = sent[h + 1].size
    BY <1>2, <1>3, FrameSize
<1>8. PICK x \in Nat : x = pos[h]
    BY <1>4
<1>9. Span(z) = HeadLen(z) + z /\ HeadLen(z) \in {2, 4} /\ (HeadLen(z) = 4 <=> Short <= z)
    BY FramingAssumption DEF Span, HeadLen
<1>10. NextFrame(pos, h, x, z)
    BY <1>4, <1>5, <1>6, <1>7, <1>8, <1>9, Zenon DEF NextFrame
<1> QED BY <1>10

\* The request goes out.
LEMMA SendUpgradeKeeps ==
    ASSUME IInv, SendUpgrade
    PROVE  IInv'
<1>1. Server /\ Told
    BY Zenon DEF IInv
<1>2. PICK pos : Wire(pos) /\ Reader(pos)
    BY Zenon DEF IInv
<1>3. /\ pc = "connect" /\ pc' = "handshake"
      /\ up' = up \o HttpCells(1) /\ requests' = requests \o <<>>
      /\ UNCHANGED <<script, chunked, parsed, upgraded, busy, served, down, sent,
                     arrived, closed>>
      /\ UNCHANGED <<error, established, taken, bodyFrom, need, session, handled,
                     overread, short>>
    BY DEF SendUpgrade, ClientSends
<1>4. /\ requests = <<>> /\ up = <<>> /\ ~upgraded /\ script \in Scripts
      /\ sent = <<>> /\ served = <<>> /\ parsed = 0 /\ chunked = 0 /\ ~busy
      /\ ~established
  <2>1. requests = <<>> /\ ~upgraded
      BY <1>1, <1>3, Zenon DEF Server
  <2>2. up = <<>>
      BY <1>1, <1>3, <2>1, Zenon DEF Server
  <2> QED BY <1>1, <2>1, <2>2, Zenon DEF Server
<1>5. requests' = <<>> /\ up' = HttpCells(1)
  <2>1. PICK h \in Seq(CellType) : h = HttpCells(1)
      BY HttpAt
  <2>2. <<>> \o h = h /\ <<>> \o <<>> = <<>>
      OBVIOUS
  <2> QED BY <1>3, <1>4, <2>1, <2>2, Zenon
<1>6. "handshake" # "connect"
    OBVIOUS
<1>7. Server'
    BY <1>3, <1>4, <1>5, <1>6, Zenon DEF Server
<1>8. Wire(pos)'
    BY <1>2, <1>3, Zenon DEF Wire
<1>9. "connect" \in Running /\ "handshake" \in Running /\ "handshake" # "passed"
      /\ "handshake" # "raised" /\ "handshake" # "spinning" /\ "handshake" # "head"
      /\ "handshake" # "misread"
      /\ "handshake" \notin {"head", "ext", "body"} /\ "connect" # "raised"
      /\ "handshake" \in {"connect", "handshake"} /\ "connect" \in {"connect", "handshake"}
      /\ "connect" \notin {"head", "raised", "misread"}
    BY DEF Running
<1>10. Told'
    BY <1>1, <1>3, <1>9, NotPassed, ToldStays, Zenon
<1>11. Phase'
  <2>1. Phase
      BY <1>2, Zenon DEF Reader
  <2> QED BY <1>3, <1>9, <2>1, Zenon DEF Phase
<1>12. Place(pos, sent, Len(handled))'
  <2>1. pc' # "head" /\ pc' # "ext" /\ pc' # "body"
      BY <1>3
  <2> QED BY <2>1, Zenon DEF Place
<1>13. Reader(pos)'
    BY <1>2, <1>3, <1>11, <1>12, Zenon DEF Reader
<1> QED BY <1>7, <1>8, <1>10, <1>13, Zenon DEF IInv

\* Where the response ends.
LEMMA ResponseAt ==
    ASSUME NEW pos, Wire(pos), arrived \in 0..Len(down)
    PROVE  /\ ResponseRead <=> arrived >= 2
           /\ \A p \in 1..arrived : down[p].kind # "http" <=> p >= 3
<1>1. down \in Seq(CellType) /\ Len(down) \in Nat
  <2>1. down \in Seq(CellType)
      BY Zenon DEF Wire, Laid
  <2> QED BY <2>1
<1>2. ASSUME NEW p \in 1..arrived, p <= 2
      PROVE  down[p].kind = "http" /\ (down[p].last <=> p = 2)
  <2>1. p \in 1..2 /\ p <= Len(down)
      BY <1>1, <1>2
  <2>2. down[p] = HttpCells(2)[p]
      BY <2>1, Zenon DEF Wire, Laid
  <2>3. HttpCells(2)[p] = Cell("http", p, FALSE, 0, p = 2)
      BY <2>1, HttpAt
  <2>4. PICK b : b = (p = 2)
      OBVIOUS
  <2>5. down[p] = Cell("http", p, FALSE, 0, b)
      BY <2>2, <2>3, <2>4, Zenon
  <2>6. down[p].kind = "http" /\ down[p].last = b
    <3>1. PICK c : c = Cell("http", p, FALSE, 0, b)
        OBVIOUS
    <3>2. c.kind = "http" /\ c.last = b
        BY <3>1, Zenon DEF Cell
    <3> QED BY <2>5, <3>1, <3>2, Zenon
  <2>7. down[p].last <=> p = 2
      BY <2>4, <2>6, Zenon
  <2> QED BY <2>6, <2>7, Zenon
<1>3. ASSUME NEW p \in 1..arrived, p >= 3
      PROVE  down[p].kind # "http"
  <2>1. p \in 3..Len(down)
      BY <1>1, <1>3
  <2> QED BY <2>1, Zenon DEF Wire, Laid
<1>4. \A p \in 1..arrived : down[p].kind # "http" <=> p >= 3
  <2>1. \A p \in 1..arrived : p <= 2 \/ p >= 3
      BY <1>1
  <2>2. \A p \in 1..arrived : ~(p <= 2 /\ p >= 3)
      BY <1>1
  <2> QED BY <1>2, <1>3, <2>1, <2>2, Zenon
<1>5. CASE arrived >= 2
  <2>1. 2 \in 1..arrived /\ 2 <= 2
      BY <1>1, <1>5
  <2> QED BY <1>2, <1>4, <1>5, <2>1, Zenon DEF ResponseRead
<1>6. CASE ~(arrived >= 2)
  <2>1. \A p \in 1..arrived : p <= 2 /\ p # 2
      BY <1>1, <1>6
  <2> QED BY <1>2, <1>4, <1>6, <2>1, Zenon DEF ResponseRead
<1> QED BY <1>4, <1>5, <1>6, Zenon

\* The handshake reads the response, and may read more.
LEMMA RecvResponseKeeps ==
    ASSUME IInv, RecvResponse
    PROVE  IInv'
<1>1. Server /\ Told
    BY Zenon DEF IInv
<1>2. PICK pos : Wire(pos) /\ Reader(pos)
    BY Zenon DEF IInv
<1>3. /\ pc = "handshake"
      /\ UNCHANGED <<error, established, bodyFrom, need, session, handled, short>>
      /\ UNCHANGED serverVars /\ UNCHANGED <<down, sent, arrived>>
    BY DEF RecvResponse, serverVars
<1>4. \/ /\ Available > 0 /\ taken' = arrived
         /\ pc' = (IF ResponseRead THEN "head" ELSE "handshake")
         /\ overread' = \E p \in (taken + 1)..arrived : down[p].kind # "http"
      \/ pc' = "spinning" /\ UNCHANGED <<taken, overread>>
    BY Zenon DEF RecvResponse
<1>5. /\ handled = <<>> /\ ~overread /\ bodyFrom = 0 /\ taken <= 1 /\ need \in Nat
      /\ established <=> handled # <<>>
  <2>1. Phase
      BY <1>2, Zenon DEF Reader
  <2>2. pc \in {"connect", "handshake"} /\ pc \in Running
      BY <1>3 DEF Running
  <2> QED BY <2>1, <2>2, Zenon DEF Phase
<1>6. /\ arrived \in 0..Len(down) /\ taken \in 0..arrived
      /\ Len(handled) \in 0..Len(sent) /\ handled = SubSeq(sent, 1, Len(handled))
    BY <1>2, Zenon DEF Reader
<1>7. arrived \in Nat /\ taken \in {0, 1} /\ Len(handled) = 0
  <2>1. Len(down) \in Nat
    <3>1. down \in Seq(CellType)
        BY <1>2, Zenon DEF Wire, Laid
    <3> QED BY <3>1
  <2>2. Len(handled) = 0
      BY <1>5
  <2> QED BY <1>5, <1>6, <2>1, <2>2
<1>8. pos[0] = 2
    BY <1>2, Zenon DEF Wire, Laid, Placed
<1>9. pc' \in {"handshake", "head", "spinning"}
    BY <1>4
<1>10. Server' /\ Wire(pos)'
  <2>1. pc # "connect" /\ pc' # "connect"
      BY <1>3, <1>9
  <2> QED BY <1>1, <1>2, <1>3, <2>1, ServerStays, WireStays, Zenon
<1>11. Told'
  <2>1. pc \in Running /\ pc' # "passed" /\ pc' # "raised"
      BY <1>3, <1>9 DEF Running
  <2> QED BY <1>1, <1>3, <2>1, NotPassed, ToldStays, Zenon
<1>12. Phase' /\ (pc' = "head" /\ ~overread' => taken' = 2) /\ taken' \in 0..arrived
  <2>1. CASE pc' = "spinning" /\ UNCHANGED <<taken, overread>>
    <3>1. /\ "spinning" \notin {"connect", "handshake"} /\ "spinning" \in Halted
          /\ "spinning" \notin {"head", "ext", "body"} /\ "spinning" \notin Running
          /\ "spinning" # "head"
        BY DEF Outcomes, Halted, Running
    <3>2. bodyFrom' \in 0..taken'
        BY <1>3, <1>5, <1>7, <2>1
    <3> QED BY <1>3, <1>5, <1>6, <2>1, <3>1, <3>2, Zenon DEF Phase
  <2>2. CASE /\ Available > 0 /\ taken' = arrived
             /\ pc' = (IF ResponseRead THEN "head" ELSE "handshake")
             /\ overread' = \E p \in (taken + 1)..arrived : down[p].kind # "http"
    <3>1. ResponseRead <=> arrived >= 2
        BY <1>2, <1>6, ResponseAt, Zenon
    <3>2. overread' <=> arrived >= 3
      <4>1. CASE arrived >= 3
        <5>1. 3 \in (taken + 1)..arrived /\ 3 \in 1..arrived /\ 3 >= 3
            BY <1>7, <4>1
        <5>2. down[3].kind # "http"
            BY <1>2, <1>6, <5>1, ResponseAt, Zenon
        <5> QED BY <2>2, <4>1, <5>1, <5>2, Zenon
      <4>2. CASE ~(arrived >= 3)
        <5>1. \A p \in (taken + 1)..arrived : p \in 1..arrived /\ ~(p >= 3)
            BY <1>7, <4>2
        <5>2. \A p \in (taken + 1)..arrived : down[p].kind = "http"
            BY <1>2, <1>6, <5>1, ResponseAt, Zenon
        <5> QED BY <2>2, <4>2, <5>2, Zenon
      <4> QED BY <4>1, <4>2, Zenon
    <3>3. bodyFrom' \in 0..taken' /\ arrived \in 0..arrived
        BY <1>3, <1>5, <1>7, <2>2
    <3>4. CASE arrived >= 2
      <4>1. pc' = "head"
          BY <2>2, <3>1, <3>4, Zenon
      <4>2. "head" \in Running /\ "head" \notin {"connect", "handshake"} /\ "head" # "spinning"
            /\ "head" \in {"head", "raised", "misread"}
          BY DEF Running
      <4>3. ~(arrived >= 3) => arrived = 2
          BY <1>7, <3>4
      <4> QED BY <1>3, <1>5, <2>2, <3>2, <3>3, <3>4, <4>1, <4>2, <4>3, Zenon DEF Phase
    <3>5. CASE ~(arrived >= 2)
      <4>1. pc' = "handshake"
          BY <2>2, <3>1, <3>5, Zenon
      <4>2. "handshake" \in Running /\ "handshake" # "spinning" /\ "handshake" # "head"
            /\ "handshake" \notin {"head", "ext", "body"}
          BY DEF Running
      <4>3. ~(arrived >= 3) /\ arrived <= 1
          BY <1>7, <3>5
      <4> QED BY <1>3, <1>5, <2>2, <3>2, <3>3, <4>1, <4>2, <4>3, Zenon DEF Phase
    <3> QED BY <3>4, <3>5, Zenon
  <2> QED BY <1>4, <2>1, <2>2, Zenon
<1>13. Reader(pos)'
  <2>1. pc' # "ext" /\ pc' # "body"
      BY <1>9
  <2>2. Place(pos, sent, Len(handled))'
      BY <1>3, <1>7, <1>8, <1>12, <2>1, Zenon DEF Place
  <2> QED BY <1>3, <1>6, <1>12, <2>2, Zenon DEF Reader
<1> QED BY <1>10, <1>11, <1>13, Zenon DEF IInv

\* The frames handled are the first of those sent.
HandledOf(frames, n) == n \in 0..Len(frames) /\ handled = SubSeq(frames, 1, n)

\* The demo comes to an end while it reads a frame or handles it.
LEMMA StopKeeps ==
    ASSUME IInv, NEW pos, Wire(pos), Reader(pos), UNCHANGED serverVars,
           pc \in {"head", "ext", "body"}, pc' \in {"raised", "misread", "passed"},
           (pc' = "raised") <=> (error' # "none"), SessionOK(session)',
           overread' = overread, established' = established,
           taken' \in taken..arrived, bodyFrom' \in 0..taken', need' \in Nat,
           handled' # handled => ~overread,
           HandledOf(sent, Len(handled))',
           pc' = "passed" => ~overread /\ handled' = <<SettingsFrame>> \o script
    PROVE  IInv'
<1>1. Server /\ Told
    BY Zenon DEF IInv
<1>2. pc # "connect" /\ pc' # "connect" /\ pc' \notin Running /\ pc' \in Halted
      /\ pc' \notin {"connect", "handshake"} /\ pc' # "spinning"
      /\ pc' \notin {"head", "ext", "body"} /\ (pc' # "passed" => pc' \in {"head", "raised", "misread"})
    BY DEF Running, Halted, Outcomes
<1>3. Server' /\ Wire(pos)'
    BY <1>1, <1>2, ServerStays, WireStays, Zenon
<1>4. UNCHANGED <<script, down, sent, arrived>>
    BY DEF serverVars
<1>5. Told'
    BY <1>2, <1>4, Zenon DEF Told
<1>6. taken \in 0..arrived /\ arrived \in 0..Len(down) /\ Phase
    BY Zenon DEF Reader
<1>7. taken' \in 0..arrived /\ (taken >= 3 => taken' >= 3)
  <2>1. Len(down) \in Nat
    <3>1. down \in Seq(CellType)
        BY Zenon DEF Wire, Laid
    <3> QED BY <3>1
  <2> QED BY <1>6, <2>1
<1>8. Phase'
    BY <1>2, <1>6, <1>7, Zenon DEF Phase
<1>9. Place(pos, sent, Len(handled))'
    BY <1>2, Zenon DEF Place
<1>10. Reader(pos)'
    BY <1>4, <1>6, <1>7, <1>8, <1>9, Zenon DEF Reader, HandledOf
<1> QED BY <1>3, <1>5, <1>10, Zenon DEF IInv

\* The demo goes on reading the same frame.
LEMMA ReadKeeps ==
    ASSUME IInv, NEW pos, Wire(pos), Reader(pos), UNCHANGED serverVars,
           pc \in {"head", "ext", "body"}, pc' \in {"ext", "body"},
           error' = error, session' = session, ~overread, overread' = overread,
           established' = established, handled' = handled,
           taken' \in taken..arrived, bodyFrom' \in 0..taken', need' \in Nat,
           Place(pos, sent, Len(handled))'
    PROVE  IInv'
<1>1. Server /\ Told
    BY Zenon DEF IInv
<1>2. pc # "connect" /\ pc' # "connect" /\ pc' \in Running /\ pc \in Running
      /\ pc' \notin {"connect", "handshake"} /\ pc' # "spinning" /\ pc' # "raised"
      /\ pc' # "passed" /\ pc' \in {"head", "ext", "body"}
    BY DEF Running
<1>3. Server' /\ Wire(pos)'
    BY <1>1, <1>2, ServerStays, WireStays, Zenon
<1>4. UNCHANGED <<script, down, sent, arrived>>
    BY DEF serverVars
<1>5. Told'
    BY <1>1, <1>2, NotPassed, ToldStays, Zenon
<1>6. taken \in 0..arrived /\ arrived \in 0..Len(down) /\ Phase
      /\ Len(handled) \in 0..Len(sent) /\ handled = SubSeq(sent, 1, Len(handled))
    BY Zenon DEF Reader
<1>7. taken' \in 0..arrived /\ (taken >= 2 => taken' >= 2)
  <2>1. Len(down) \in Nat
    <3>1. down \in Seq(CellType)
        BY Zenon DEF Wire, Laid
    <3> QED BY <3>1
  <2> QED BY <1>6, <2>1
<1>8. Phase'
    BY <1>2, <1>6, <1>7, Zenon DEF Phase
<1>9. Reader(pos)'
    BY <1>4, <1>6, <1>7, <1>8, Zenon DEF Reader
<1> QED BY <1>3, <1>5, <1>9, Zenon DEF IInv

\* What every reading step needs of the state it starts from.
LEMMA ReaderAt ==
    ASSUME IInv, NEW pos, Wire(pos), Reader(pos), pc \in {"head", "ext", "body"}
    PROVE  /\ sent \in Seq(Frame) /\ down \in Seq(CellType) /\ Len(down) \in Nat
           /\ arrived \in Nat /\ arrived <= Len(down) /\ upgraded
           /\ taken \in Nat /\ 2 <= taken /\ taken <= arrived
           /\ bodyFrom \in Nat /\ bodyFrom <= taken /\ need \in Nat
           /\ Available \in Nat /\ Available = arrived - taken
           /\ Len(handled) \in Nat /\ Len(handled) <= Len(sent)
           /\ HandledOf(sent, Len(handled))
           /\ established <=> handled # <<>>
           /\ pc \in Running /\ error = "none" /\ SessionOK(session)
           /\ overread => pc = "head" /\ handled = <<>> /\ taken >= 3 /\ ~established
           /\ Place(pos, sent, Len(handled))
<1>1. Server /\ Told
    BY Zenon DEF IInv
<1>2. sent \in Seq(Frame) /\ SessionOK(session) /\ down \in Seq(CellType)
    BY <1>1, SentAt, Zenon DEF Told, Wire, Laid
<1>3. /\ arrived \in 0..Len(down) /\ taken \in 0..arrived
      /\ Len(handled) \in 0..Len(sent) /\ handled = SubSeq(sent, 1, Len(handled))
      /\ Phase /\ Place(pos, sent, Len(handled))
    BY Zenon DEF Reader
<1>4. pc \in Running
    BY DEF Running
<1>5. error = "none"
    BY <1>1, <1>4, NotPassed, Zenon
<1>6. /\ bodyFrom \in 0..taken /\ need \in Nat /\ taken >= 2
      /\ established <=> handled # <<>>
      /\ overread => /\ pc \in {"head", "raised", "misread"}
                     /\ handled = <<>> /\ taken >= 3 /\ ~established
    BY <1>3, <1>4, Zenon DEF Phase
<1>7. pc \in {"head", "raised", "misread"} => pc = "head"
    OBVIOUS
<1>8. Len(down) \in Nat
    BY <1>2
<1>9. /\ arrived \in Nat /\ arrived <= Len(down)
      /\ taken \in Nat /\ 2 <= taken /\ taken <= arrived
      /\ bodyFrom \in Nat /\ bodyFrom <= taken
      /\ Available \in Nat /\ Available = arrived - taken
    BY <1>3, <1>6, <1>8 DEF Available
<1>10. Len(handled) \in Nat /\ Len(handled) <= Len(sent)
    BY <1>2, <1>3
<1>11. upgraded
  <2>1. ~upgraded => down = <<>>
      BY Zenon DEF Wire
  <2>2. down # <<>>
      BY <1>9
  <2> QED BY <2>1, <2>2, Zenon
<1> QED BY <1>2, <1>3, <1>4, <1>5, <1>6, <1>7, <1>8, <1>9, <1>10, <1>11, Zenon DEF HandledOf

\* The cells of its header, as far as they are there.
Header(x, z) ==
    /\ x + 1 <= Len(down) => down[x + 1].kind = "op"
    /\ x + 2 <= Len(down) => down[x + 2].n = IF z < Short THEN z ELSE Short
    /\ (Short <= z /\ x + 4 <= Len(down)) =>
           /\ down[x + 3].n = z \div Base /\ down[x + 4].n = z % Base
           /\ down[x + 3].kind = "ext"

\* They are those of the frame that comes next.
LEMMA HeaderAt ==
    ASSUME NEW pos, NEW h \in Nat, NEW x \in Nat, NEW z \in Nat \ {0},
           NextFrame(pos, h, x, z), Len(down) \in Nat
    PROVE  Header(x, z)
<1>1. /\ Span(z) = HeadLen(z) + z
      /\ HeadLen(z) \in {2, 4} /\ (HeadLen(z) = 4 <=> Short <= z)
      /\ \A k \in 1..Span(z) : x + k <= Len(down) => down[x + k] = Plain(z, h + 1)[k]
    BY Zenon DEF NextFrame
<1>2. PICK m \in Nat : m = h + 1
    OBVIOUS
<1>3. /\ 1 \in 1..Span(z) /\ 2 \in 1..Span(z)
      /\ Short <= z => 3 \in 1..Span(z) /\ 4 \in 1..Span(z)
  <2>1. PICK s, l : s = Span(z) /\ l = HeadLen(z)
      OBVIOUS
  <2> QED BY <1>1, <2>1
<1>4. PICK l : l = IF z < Short THEN z ELSE Short
    OBVIOUS
<1>5. /\ Plain(z, m)[1] = Cell("op", 0, FALSE, m, FALSE)
      /\ Plain(z, m)[2] = Cell("len", l, FALSE, m, FALSE)
      /\ Short <= z => /\ Plain(z, m)[3] = Cell("ext", z \div Base, FALSE, m, FALSE)
                       /\ Plain(z, m)[4] = Cell("ext", z % Base, FALSE, m, FALSE)
  <2>1. z \in Nat
      OBVIOUS
  <2> QED BY <1>4, <2>1, FramedAt, Zenon
<1>6. \A k \in 1..Span(z) : x + k <= Len(down) => down[x + k] = Plain(z, m)[k]
    BY <1>1, <1>2, Zenon
<1>7. x + 1 <= Len(down) => down[x + 1].kind = "op"
  <2>1. x + 1 <= Len(down) => down[x + 1] = Cell("op", 0, FALSE, m, FALSE)
      BY <1>3, <1>5, <1>6, Zenon
  <2>2. Cell("op", 0, FALSE, m, FALSE).kind = "op"
      BY DEF Cell
  <2> QED BY <2>1, <2>2, Zenon
<1>8. x + 2 <= Len(down) => down[x + 2].n = l
  <2>1. x + 2 <= Len(down) => down[x + 2] = Cell("len", l, FALSE, m, FALSE)
      BY <1>3, <1>5, <1>6, Zenon
  <2>2. Cell("len", l, FALSE, m, FALSE).n = l
      BY Zenon DEF Cell
  <2> QED BY <2>1, <2>2, Zenon
<1>9. (Short <= z /\ x + 4 <= Len(down)) =>
          /\ down[x + 3].n = z \div Base /\ down[x + 4].n = z % Base
          /\ down[x + 3].kind = "ext"
  <2> SUFFICES ASSUME Short <= z, x + 4 <= Len(down)
               PROVE  /\ down[x + 3].n = z \div Base /\ down[x + 4].n = z % Base
                      /\ down[x + 3].kind = "ext"
      BY Zenon
  <2>1. x + 3 <= Len(down)
    <3>1. PICK n \in Nat : n = Len(down)
        OBVIOUS
    <3> QED BY <3>1
  <2>2. /\ down[x + 3] = Cell("ext", z \div Base, FALSE, m, FALSE)
        /\ down[x + 4] = Cell("ext", z % Base, FALSE, m, FALSE)
      BY <1>3, <1>5, <1>6, <2>1, Zenon
  <2>3. \A a : /\ Cell("ext", a, FALSE, m, FALSE).n = a
               /\ Cell("ext", a, FALSE, m, FALSE).kind = "ext"
      BY Zenon DEF Cell
  <2> QED BY <2>2, <2>3, Zenon
<1> QED BY <1>4, <1>7, <1>8, <1>9, Zenon DEF Header

\* Behind the frames sent there is nothing to read.
LEMMA FrameAhead ==
    ASSUME NEW pos, sent \in Seq(Frame), Wire(pos), NEW h \in Nat, h <= Len(sent),
           pos[h] < Len(down)
    PROVE  h < Len(sent)
<1>1. Len(down) <= pos[Len(sent)]
    BY Zenon DEF Wire, Laid
<1>2. down \in Seq(CellType)
    BY Zenon DEF Wire, Laid
<1>3. CASE h = Len(sent)
  <2>1. PICK l \in Nat : l = Len(down)
      BY <1>2
  <2>2. pos[h] \in Nat
    <3>1. pos \in [0..Len(sent) -> Nat]
        BY Zenon DEF Wire, Laid, Placed
    <3>2. h \in 0..Len(sent)
        OBVIOUS
    <3> QED BY <3>1, <3>2
  <2> QED BY <1>1, <1>3, <2>1, <2>2
<1>4. CASE h # Len(sent)
    BY <1>4
<1> QED BY <1>3, <1>4

\* A handshake that has read too much finds no header where it goes on.
LEMMA LostPlace ==
    ASSUME IInv, NEW pos, Wire(pos), Reader(pos), pc = "head", overread,
           taken + 2 <= arrived
    PROVE  down[taken + 1].kind # "op"
<1>1. /\ sent \in Seq(Frame) /\ down \in Seq(CellType) /\ Len(down) \in Nat
      /\ arrived \in Nat /\ arrived <= Len(down) /\ upgraded
      /\ taken \in Nat /\ taken >= 3 /\ ~established
  <2>1. pc \in {"head", "ext", "body"}
      OBVIOUS
  <2> QED BY <2>1, ReaderAt, Zenon
<1>2. sent = <<SettingsFrame>>
  <2>1. Server
      BY Zenon DEF IInv
  <2>2. requests = <<>>
      BY <1>1, <2>1, Zenon DEF Server
  <2>3. served = <<>>
      BY <1>1, <2>1, <2>2, Zenon DEF Server
  <2> QED BY <1>1, <2>1, <2>3, SentAt, Zenon
<1>3. Len(sent) = 1 /\ 0 < Len(sent) /\ 0 + 1 = 1
    BY <1>2
<1>4. PICK x \in Nat, z \in Nat \ {0} : NextFrame(pos, 0, x, z)
  <2>1. 0 \in Nat
      OBVIOUS
  <2> QED BY <1>1, <1>3, <2>1, CellAt, Zenon
<1>5. pos[0] = 2 /\ Len(down) <= pos[1]
    BY <1>3, Zenon DEF Wire, Laid, Placed
<1>6. /\ pos[1] = 2 + Span(z) /\ Span(z) = HeadLen(z) + z /\ HeadLen(z) \in {2, 4}
      /\ \A k \in 1..Span(z) : 2 + k <= Len(down) => down[2 + k] = Plain(z, 1)[k]
    BY <1>3, <1>4, <1>5, Zenon DEF NextFrame
<1>7. PICK k \in 2..Span(z) : taken + 1 = 2 + k
  <2>1. taken - 1 \in 2..Span(z) /\ taken + 1 = 2 + (taken - 1)
      BY <1>1, <1>4, <1>5, <1>6
  <2> QED BY <2>1
<1>8. k \in 1..Span(z) /\ 2 + k <= Len(down) /\ k > 1 /\ z \in Nat /\ 1 \in Nat
    BY <1>1, <1>4, <1>6, <1>7
<1>9. PICK c : c = Plain(z, 1)[k]
    OBVIOUS
<1>10. c.kind # "op"
  <2>1. Apart(c, z, 1, k)
      BY <1>8, <1>9, FramedKinds, Zenon
  <2> QED BY <1>8, <2>1, Zenon DEF Apart
<1> QED BY <1>6, <1>7, <1>8, <1>9, <1>10, Zenon

\* The first two bytes of a frame.
LEMMA RecvHeadKeeps ==
    ASSUME IInv, RecvHead
    PROVE  IInv'
<1>1. PICK pos : Wire(pos) /\ Reader(pos)
    BY Zenon DEF IInv
<1>2. pc = "head" /\ pc \in {"head", "ext", "body"}
    BY DEF RecvHead
<1>3. PICK h \in Nat : h = Len(handled)
    BY <1>1, <1>2, ReaderAt, Zenon
<1>4. /\ sent \in Seq(Frame) /\ down \in Seq(CellType) /\ Len(down) \in Nat
      /\ arrived \in Nat /\ arrived <= Len(down)
      /\ taken \in Nat /\ 2 <= taken /\ taken <= arrived
      /\ bodyFrom \in Nat /\ bodyFrom <= taken /\ need \in Nat
      /\ Available \in Nat /\ Available = arrived - taken
      /\ h <= Len(sent) /\ HandledOf(sent, h) /\ error = "none" /\ SessionOK(session)
      /\ Place(pos, sent, h)
    BY <1>1, <1>2, <1>3, ReaderAt, Zenon
<1>5. UNCHANGED <<established, session, handled, overread>> /\ UNCHANGED serverVars
    BY DEF RecvHead
<1>6. HandledOf(sent, Len(handled))' /\ SessionOK(session)'
  <2>1. sent' = sent
      BY <1>5 DEF serverVars
  <2> QED BY <1>3, <1>4, <1>5, <2>1, Zenon DEF HandledOf, SessionOK
<1>7. CASE Available < 2
  <2>1. pc' = "raised" /\ error' = "ValueError" /\ taken' = taken + Available
        /\ UNCHANGED <<bodyFrom, need>>
      BY <1>7, Zenon DEF RecvHead, Raised
  <2>2. taken' \in taken..arrived /\ bodyFrom' \in 0..taken' /\ need' \in Nat
      BY <1>4, <2>1
  <2>3. pc' \in {"raised", "misread", "passed"} /\ pc' # "passed"
        /\ (pc' = "raised" <=> error' # "none")
      BY <2>1
  <2> QED BY <1>1, <1>2, <1>5, <1>6, <2>2, <2>3, StopKeeps, Zenon
<1>8. CASE ~(Available < 2)
  <2>1. /\ taken' = taken + 2 /\ bodyFrom' = taken + 2 /\ need' = down[taken + 2].n
        /\ pc' = (IF down[taken + 1].kind # "op" THEN "misread"
                  ELSE IF down[taken + 2].n = Short THEN "ext" ELSE "body")
        /\ error' = error
      BY <1>8, Zenon DEF RecvHead
  <2>2. taken + 2 <= arrived /\ taken' \in taken..arrived /\ bodyFrom' \in 0..taken'
        /\ taken + 1 <= Len(down) /\ taken + 2 <= Len(down)
      BY <1>4, <1>8, <2>1
  <2>3. need' \in Nat
    <3>1. taken + 2 \in 1..Len(down)
        BY <1>4, <2>2
    <3>2. down[taken + 2] \in CellType
        BY <1>4, <3>1
    <3> QED BY <2>1, <3>2 DEF CellType
  <2>4. CASE down[taken + 1].kind # "op"
    <3>1. pc' = "misread"
        BY <2>1, <2>4, Zenon
    <3>2. pc' \in {"raised", "misread", "passed"} /\ pc' # "passed"
          /\ (pc' = "raised" <=> error' # "none")
        BY <1>4, <2>1, <3>1
    <3> QED BY <1>1, <1>2, <1>5, <1>6, <2>2, <2>3, <3>2, StopKeeps, Zenon
  <2>5. CASE down[taken + 1].kind = "op"
    <3>1. ~overread
        BY <1>1, <1>2, <2>2, <2>5, LostPlace, Zenon
    <3>2. taken = pos[h]
        BY <1>2, <1>4, <3>1, Zenon DEF Place
    <3>3. h < Len(sent)
      <4>1. pos[h] < Len(down)
          BY <1>4, <2>2, <3>2, SMTT(40)
      <4> QED BY <1>1, <1>4, <4>1, FrameAhead, Zenon
    <3>4. PICK x \in Nat, z \in Nat \ {0} : NextFrame(pos, h, x, z)
        BY <1>1, <1>4, <3>3, CellAt, Zenon
    <3>5. /\ z = sent[h + 1].size /\ x = pos[h] /\ x = taken
          /\ HeadLen(z) \in {2, 4} /\ (HeadLen(z) = 4 <=> Short <= z)
        BY <3>2, <3>4, Zenon DEF NextFrame
    <3>6. need' = IF z < Short THEN z ELSE Short
      <4>1. Header(x, z)
          BY <1>4, <3>4, HeaderAt, Zenon
      <4> QED BY <2>1, <2>2, <3>5, <4>1, Zenon DEF Header
    <3>7. pc' = IF need' = Short THEN "ext" ELSE "body"
        BY <2>1, <2>5, Zenon
    <3>8. (need' = Short <=> Short <= z) /\ (~(Short <= z) => need' = z)
        BY <3>5, <3>6, FramingAssumption
    <3>9. Place(pos, sent, Len(handled))'
      <4>1. Len(handled') = h /\ sent' = sent
        <5>1. sent' = sent
            BY <1>5 DEF serverVars
        <5> QED BY <1>3, <1>5, <5>1, Zenon
      <4>2. CASE Short <= z
        <5>1. pc' = "ext"
            BY <3>7, <3>8, <4>2, Zenon
        <5>2. "ext" # "head" /\ "ext" # "body"
            OBVIOUS
        <5> QED BY <2>1, <3>2, <3>3, <3>5, <4>1, <4>2, <5>1, <5>2, Zenon DEF Place
      <4>3. CASE ~(Short <= z)
        <5>1. pc' = "body"
            BY <3>7, <3>8, <4>3, Zenon
        <5>2. "body" # "head" /\ "body" # "ext"
            OBVIOUS
        <5>3. bodyFrom' \in (pos[h] + 2)..(pos[h] + HeadLen(z))
          <6>1. PICK l \in {2, 4} : l = HeadLen(z)
              BY <3>5
          <6>2. x + 2 \in (x + 2)..(x + l)
              OBVIOUS
          <6> QED BY <2>1, <3>5, <6>1, <6>2, Zenon
        <5> QED BY <3>3, <3>5, <3>8, <4>1, <4>3, <5>1, <5>2, <5>3, Zenon DEF Place
      <4> QED BY <4>2, <4>3, Zenon
    <3>10. pc' \in {"ext", "body"}
        BY <3>7
    <3> QED BY <1>1, <1>2, <1>5, <2>1, <2>2, <2>3, <3>1, <3>9, <3>10, ReadKeeps, Zenon
  <2> QED BY <2>4, <2>5, Zenon
<1> QED BY <1>7, <1>8, Zenon

\* The extended length, or as much of it as recv returns.
LEMMA RecvExtendedKeeps ==
    ASSUME IInv, RecvExtended
    PROVE  IInv'
<1>1. PICK pos : Wire(pos) /\ Reader(pos)
    BY Zenon DEF IInv
<1>2. pc = "ext" /\ pc \in {"head", "ext", "body"} /\ pc # "head" /\ pc' = "body"
    BY DEF RecvExtended
<1>3. PICK h \in Nat : h = Len(handled)
    BY <1>1, <1>2, ReaderAt, Zenon
<1>4. /\ sent \in Seq(Frame) /\ down \in Seq(CellType) /\ Len(down) \in Nat
      /\ arrived \in Nat /\ arrived <= Len(down)
      /\ taken \in Nat /\ taken <= arrived
      /\ Available \in Nat /\ Available = arrived - taken
      /\ Place(pos, sent, h) /\ ~overread
    BY <1>1, <1>2, <1>3, ReaderAt, Zenon
<1>5. /\ UNCHANGED <<error, established, session, handled, overread>>
      /\ UNCHANGED serverVars /\ sent' = sent
    BY DEF RecvExtended, serverVars
<1>6. h < Len(sent) /\ Short <= sent[h + 1].size /\ taken = pos[h] + 2
    BY <1>2, <1>4, Zenon DEF Place
<1>7. PICK x \in Nat, z \in Nat \ {0} : NextFrame(pos, h, x, z)
    BY <1>1, <1>4, <1>6, CellAt, Zenon
<1>8. z = sent[h + 1].size /\ x = pos[h] /\ HeadLen(z) = 4
    BY <1>6, <1>7, Zenon DEF NextFrame
<1>9. PICK n : n = IF Available < 2 THEN Available ELSE 2
    OBVIOUS
<1>10. /\ taken' = taken + n /\ bodyFrom' = taken + n
       /\ need' = CASE n = 0 -> 0
                    [] n = 1 -> down[taken + 1].n
                    [] n = 2 -> BigEndian(down[taken + 1].n, down[taken + 2].n)
    BY <1>9, Zenon DEF RecvExtended
<1>11. n \in 0..2 /\ n <= Available
  <2>1. PICK a \in Nat : a = Available
      BY <1>4, Zenon
  <2> QED BY <2>1, <1>9
<1>12. taken' \in taken..arrived /\ bodyFrom' \in 0..taken'
    BY <1>4, <1>10, <1>11
<1>13. \A i \in 1..n : down[taken + i].n \in Nat
  <2>1. ASSUME NEW i \in 1..n PROVE down[taken + i].n \in Nat
    <3>1. taken + i \in 1..Len(down)
        BY <1>4, <1>11
    <3>2. PICK c \in CellType : c = down[taken + i]
        BY <1>4, <3>1
    <3>3. c.n \in Nat
        BY DEF CellType
    <3> QED BY <3>2, <3>3
  <2> QED BY <2>1
<1>14. need' \in Nat
  <2>1. CASE n = 0
      BY <1>10, <2>1
  <2>2. CASE n = 1
    <3>1. need' = down[taken + 1].n
        BY <1>10, <2>2
    <3> QED BY <1>13, <2>2, <3>1
  <2>3. CASE n = 2
    <3>1. need' = BigEndian(down[taken + 1].n, down[taken + 2].n)
        BY <1>10, <2>3
    <3>2. PICK a \in Nat, b \in Nat : a = down[taken + 1].n /\ b = down[taken + 2].n
        BY <1>13, <2>3
    <3>3. BigEndian(a, b) \in Nat
        BY FramingAssumption DEF BigEndian
    <3> QED BY <3>1, <3>2, <3>3, Zenon
  <2> QED BY <1>11, <2>1, <2>2, <2>3
<1>15. bodyFrom' = pos[h] + 4 => need' = z
  <2> SUFFICES ASSUME bodyFrom' = pos[h] + 4 PROVE need' = z
      OBVIOUS
  <2>1. n = 2 /\ pos[h] + 4 <= Len(down)
      BY <1>4, <1>6, <1>8, <1>10, <1>11, SMTT(40)
  <2>2. need' = BigEndian(down[taken + 1].n, down[taken + 2].n)
      BY <1>10, <2>1
  <2>3. taken + 1 = pos[h] + 3 /\ taken + 2 = pos[h] + 4
      BY <1>6, <1>8, SMTT(40)
  <2>4. down[pos[h] + 3].n = z \div Base /\ down[pos[h] + 4].n = z % Base
    <3>1. Header(x, z) /\ Short <= z /\ x + 4 <= Len(down)
        BY <1>4, <1>6, <1>7, <1>8, <2>1, HeaderAt, Zenon
    <3> QED BY <1>8, <3>1, Zenon DEF Header
  <2>5. BigEndian(z \div Base, z % Base) = z
    <3>1. z \in Nat
        BY <1>8
    <3> QED BY <3>1, LengthRead, Zenon
  <2> QED BY <2>2, <2>3, <2>4, <2>5, Zenon
<1>16. bodyFrom' \in (pos[h] + 2)..(pos[h] + HeadLen(z))
    BY <1>6, <1>8, <1>10, <1>11
<1>17. Place(pos, sent, Len(handled))'
  <2>1. Len(handled') = h
      BY <1>3, <1>5, Zenon
  <2>2. "body" # "head" /\ "body" # "ext"
      OBVIOUS
  <2> QED BY <1>2, <1>5, <1>6, <1>8, <1>15, <1>16, <2>1, <2>2, Zenon DEF Place
<1>18. pc' \in {"ext", "body"}
    BY <1>2
<1> QED BY <1>1, <1>2, <1>4, <1>5, <1>12, <1>14, <1>17, <1>18, ReadKeeps, Zenon

\* Frame m is the next one, and the reader stands where it ends.
NextDecoded(pos, h, m) == h < Len(sent) /\ m = h + 1 /\ taken = pos[h + 1]

\* Cells that are the data of a whole frame are those of the next one: a reader
\* that has lost its place decodes none.
LEMMA MessageAt ==
    ASSUME IInv, NEW pos, Wire(pos), Reader(pos), pc = "body", need # 0,
           taken - bodyFrom = need,
           NEW cells, cells = SubSeq(down, bodyFrom + 1, taken),
           NEW m, m = cells[1].msg, IsMessage(cells, sent[m].size, m)
    PROVE  NextDecoded(pos, Len(handled), m)
<1>1. pc \in {"head", "ext", "body"}
    OBVIOUS
<1>2. PICK h \in Nat : h = Len(handled)
    BY <1>1, ReaderAt, Zenon
<1>3. /\ sent \in Seq(Frame) /\ down \in Seq(CellType) /\ Len(down) \in Nat
      /\ arrived \in Nat /\ arrived <= Len(down)
      /\ taken \in Nat /\ taken <= arrived /\ bodyFrom \in Nat /\ need \in Nat
      /\ Place(pos, sent, h)
    BY <1>1, <1>2, ReaderAt, Zenon
<1>4. /\ h < Len(sent)
      /\ bodyFrom \in (pos[h] + 2)..(pos[h] + HeadLen(sent[h + 1].size))
      /\ bodyFrom = pos[h] + HeadLen(sent[h + 1].size) => need = sent[h + 1].size
    BY <1>3, Zenon DEF Place
<1>5. PICK x \in Nat, z \in Nat \ {0} : NextFrame(pos, h, x, z)
    BY <1>3, <1>4, CellAt, Zenon
<1>6. /\ x = pos[h] /\ x >= 2 /\ z = sent[h + 1].size
      /\ pos[h + 1] = x + Span(z) /\ Span(z) = HeadLen(z) + z /\ HeadLen(z) \in {2, 4}
      /\ \A k \in 1..Span(z) : x + k <= Len(down) => down[x + k] = Plain(z, h + 1)[k]
    BY <1>5, Zenon DEF NextFrame
<1>7. PICK l \in {2, 4} : l = HeadLen(z)
    BY <1>6
<1>8. PICK n \in Nat : n = Len(down)
    BY <1>3
<1>9. bodyFrom \in (x + 2)..(x + l) /\ (bodyFrom = x + l => need = z)
    BY <1>4, <1>6, <1>7, Zenon
<1>10. PICK k \in 3..(l + 1) : bodyFrom + 1 = x + k
  <2>1. (bodyFrom + 1) - x \in 3..(l + 1) /\ bodyFrom + 1 = x + ((bodyFrom + 1) - x)
      BY <1>3, <1>7, <1>9
  <2> QED BY <2>1
<1>11. x + k <= n /\ x + k \in 3..n /\ k \in 1..(l + z)
  <2>1. x >= 2 /\ taken <= n /\ bodyFrom + 1 <= taken
      BY <1>3, <1>6, <1>8
  <2>2. x + k <= n /\ x + k \in 3..n
      BY <1>3, <1>8, <1>10, <2>1
  <2>3. k \in 1..(l + z)
      OBVIOUS
  <2> QED BY <2>2, <2>3
<1>12. PICK c : c = Plain(z, h + 1)[k]
    OBVIOUS
<1>13. Apart(c, z, h + 1, k)
  <2>1. z \in Nat /\ h + 1 \in Nat /\ k \in 1..Span(z)
    <3>1. Span(z) = l + z
        BY <1>6, <1>7, Zenon
    <3> QED BY <1>11, <3>1
  <2> QED BY <1>12, <2>1, FramedKinds, Zenon
<1>14. cells[1] = c
  <2>1. cells[1] = down[bodyFrom + 1]
      BY <1>3
  <2>2. down[x + k] = c
    <3>1. k \in 1..Span(z) /\ x + k <= Len(down)
        BY <1>6, <1>7, <1>8, <1>11, Zenon
    <3> QED BY <1>6, <1>12, <3>1, Zenon
  <2> QED BY <1>10, <2>1, <2>2, Zenon
<1>15. m = h + 1
    BY <1>13, <1>14, Zenon DEF Apart
<1>16. c.kind = "data"
  <2>1. cells = DataCells(z, m)
      BY <1>6, <1>15, Zenon DEF IsMessage
  <2>2. DataCells(z, m)[1] = DataCell(1, z, m)
    <3>1. z \in Nat /\ m \in Nat /\ 1 \in 1..z
      <4>1. 1 \in 1..z /\ h + 1 \in Nat
          OBVIOUS
      <4> QED BY <1>15, <4>1, Zenon
    <3> QED BY <3>1, DataAt, ZenonT(60)
  <2>3. PICK last : DataCell(1, z, m) = Cell("data", 1, FALSE, m, last)
      BY Zenon DEF DataCell
  <2>4. Cell("data", 1, FALSE, m, last).kind = "data"
      BY DEF Cell
  <2> QED BY <1>14, <2>1, <2>2, <2>3, <2>4, Zenon
<1>17. ~(k <= HeadLen(z))
    BY <1>13, <1>16, Zenon DEF Apart
<1>18. bodyFrom = x + l /\ need = z
  <2>1. ~(k <= l)
      BY <1>7, <1>17, Zenon
  <2>2. bodyFrom = x + l
      BY <1>3, <1>10, <2>1
  <2> QED BY <1>9, <2>2, Zenon
<1>19. taken = pos[h + 1]
  <2>1. taken = x + (l + z)
      BY <1>3, <1>18
  <2> QED BY <1>6, <1>7, <2>1, Zenon
<1> QED BY <1>2, <1>4, <1>15, <1>19, Zenon DEF NextDecoded

\* The demo goes on with the next frame.
LEMMA NextKeeps ==
    ASSUME IInv, NEW pos, Wire(pos), Reader(pos), pc = "body", pc' = "head",
           UNCHANGED <<script, upgraded, down, sent, arrived, closed>>,
           UNCHANGED <<taken, bodyFrom, need, overread, error>>, established',
           NextDecoded(pos, Len(handled), Len(handled) + 1),
           HandledOf(sent, Len(handled))', Len(handled') = Len(handled) + 1,
           SessionOK(session)', session'.end = NoneYet, Server'
    PROVE  IInv'
<1>1. pc \in {"head", "ext", "body"} /\ pc' \in Running /\ pc' # "raised"
      /\ pc' # "passed" /\ pc' \notin {"connect", "handshake"}
      /\ pc' # "spinning" /\ pc' # "ext" /\ pc' # "body"
      /\ pc # "connect" /\ pc # "handshake" /\ pc # "spinning"
    BY DEF Running
<1>2. PICK h \in Nat : h = Len(handled)
    BY <1>1, ReaderAt, Zenon
<1>3. /\ ~overread /\ error = "none" /\ Phase /\ arrived \in 0..Len(down)
      /\ taken \in 0..arrived /\ 2 <= taken
  <2>1. overread => pc = "head"
      BY <1>1, ReaderAt, Zenon
  <2>2. pc # "head"
      OBVIOUS
  <2> QED BY <1>1, <2>1, <2>2, ReaderAt, Zenon DEF Reader
<1>4. taken = pos[h + 1]
    BY <1>2, Zenon DEF NextDecoded
<1>5. handled' # <<>>
    BY <1>2
<1>6. Told'
    BY <1>1, <1>3, Zenon DEF Told
<1>7. Wire(pos)'
    BY Zenon DEF Wire
<1>8. Phase'
  <2>1. bodyFrom' \in 0..taken' /\ need' \in Nat /\ taken' >= 2
      BY <1>3, Zenon DEF Phase
  <2>2. pc' \in Running \cup Halted
      BY <1>1
  <2> QED BY <1>1, <1>3, <1>5, <2>1, <2>2, Zenon DEF Phase
<1>9. Place(pos, sent, Len(handled))'
    BY <1>1, <1>2, <1>4, Zenon DEF Place
<1>10. Reader(pos)'
    BY <1>3, <1>8, <1>9, Zenon DEF Reader, HandledOf
<1> QED BY <1>6, <1>7, <1>10, Zenon DEF IInv

\* The frame behind which the loop is left is the last of the transcript.
LEMMA EndIsLast ==
    ASSUME Server, NEW h \in Nat \ {0}, h < Len(sent), EndsLoop(sent[h + 1])
    PROVE  h + 1 = Len(sent) /\ sent = <<SettingsFrame>> \o script
<1>1. sent \in Seq(Frame) /\ script \in Seq(Frame)
    BY SentAt, Zenon
<1>2. sent # <<>> /\ sent # <<SettingsFrame>>
    BY <1>1
<1>3. sent = <<SettingsFrame>> \o script
    BY <1>2, SentAt, Zenon
<1>4. PICK f \in Frame : f = SettingsFrame
    BY SettingsAt
<1>5. PICK s \in Seq(Frame) : s = script
    BY <1>1
<1>6. PICK c \in Seq(Frame) : c = sent
    BY <1>1
<1>7. c = <<f>> \o s
    BY <1>3, <1>4, <1>5, <1>6, Zenon
<1>8. Len(c) = 1 + Len(s) /\ h \in 1..Len(s) /\ c[h + 1] = s[h]
    BY <1>6, <1>7
<1>9. EndsLoop(s[h])
    BY <1>6, <1>8, Zenon
<1>10. s \in Scripts
    BY <1>5, Zenon DEF Server
<1>11. h = Len(s)
    BY <1>8, <1>9, <1>10, DemoAssumption, Zenon
<1> QED BY <1>3, <1>6, <1>8, <1>11

\* SETTINGS is answered with OPEN.
LEMMA OpenSent ==
    ASSUME Server, upgraded, ~established, established', pc # "connect",
           pc' # "connect",
           ClientSends(Framed(OpenSize, TRUE, Len(requests) + 1), <<OpenFrame>>)
    PROVE  Server'
<1>1. /\ UNCHANGED <<script, chunked, parsed, upgraded, busy, served, sent>>
      /\ up' = up \o Framed(OpenSize, TRUE, Len(requests) + 1)
      /\ requests' = requests \o <<OpenFrame>>
    BY Zenon DEF ClientSends
<1>2. /\ requests = <<>> /\ served = <<>> /\ up = HttpCells(1) /\ parsed = 1
      /\ chunked \in parsed..Len(up)
    BY Zenon DEF Server
<1>3. Len(requests) + 1 = 1 /\ requests' = <<OpenFrame>> /\ <<OpenFrame>> # <<>>
    BY <1>1, <1>2
<1>4. up' = HttpCells(1) \o OpenCells
    BY <1>1, <1>2, <1>3, Zenon DEF OpenCells
<1>5. PICK a \in Seq(CellType) : a = HttpCells(1) /\ Len(a) = 1
    BY HttpAt
<1>6. PICK o \in Seq(CellType) : o = OpenCells
    BY OpenAt, Zenon
<1>7. Len(o) \in Nat /\ Len(o) >= 6
    BY <1>6, UpAt, Zenon
<1>8. Len(a \o o) = 1 + Len(o)
  <2>1. Len(a \o o) = Len(a) + Len(o)
      OBVIOUS
  <2> QED BY <1>5, <2>1, Zenon
<1>9. chunked = 1
  <2>1. chunked \in 1..1
      BY <1>2, <1>5, Zenon
  <2> QED BY <2>1
<1>10. chunked \in 1..Len(up') /\ chunked # Len(up')
  <2>1. Len(up') = 1 + Len(o)
      BY <1>4, <1>5, <1>6, <1>8, Zenon
  <2> QED BY <1>7, <1>9, <2>1
<1>11. /\ script' \in Scripts /\ requests' \in {<<>>, <<OpenFrame>>}
       /\ up' = HttpCells(1) \o Framed(OpenSize, TRUE, 1) /\ requests' # <<>>
    BY <1>1, <1>3, <1>4, Zenon DEF Server, OpenCells
<1>12. /\ parsed' = 1 /\ served' = <<>> /\ chunked' \in parsed'..Len(up')
       /\ chunked' # Len(up')
       /\ sent' = <<SettingsFrame>> \o (IF served' = <<>> THEN <<>> ELSE script')
    BY <1>1, <1>2, <1>10, Zenon DEF Server
<1> QED BY <1>1, <1>11, <1>12, Zenon DEF Server

\* The demo fails while it reads a frame.
LEMMA FailKeeps ==
    ASSUME IInv, NEW pos, Wire(pos), Reader(pos), UNCHANGED serverVars,
           pc \in {"head", "ext", "body"}, error = "none",
           \/ pc' = "raised" /\ error' # "none"
           \/ pc' = "misread" /\ error' = error,
           SessionOK(session), HandledOf(sent, Len(handled)),
           UNCHANGED <<established, session, handled, overread>>,
           taken' \in taken..arrived, bodyFrom' \in 0..taken', need' \in Nat
    PROVE  IInv'
<1>1. pc' \in {"raised", "misread", "passed"} /\ pc' # "passed"
      /\ (pc' = "raised" <=> error' # "none")
    OBVIOUS
<1>2. sent' = sent
    BY DEF serverVars
<1>3. HandledOf(sent, Len(handled))' /\ SessionOK(session)'
    BY <1>2, Zenon DEF HandledOf, SessionOK
<1> QED BY <1>1, <1>3, StopKeeps, Zenon

\* A frame behind SETTINGS.
LEMMA HandleFrameKeeps ==
    ASSUME IInv, NEW pos, Wire(pos), Reader(pos), pc = "body", established,
           NEW h \in Nat, h = Len(handled), h < Len(sent), NextDecoded(pos, h, h + 1),
           NEW frame \in Frame, frame = sent[h + 1], HandleFrame(frame),
           UNCHANGED <<taken, bodyFrom, need, overread>>,
           taken' \in taken..arrived, bodyFrom' \in 0..taken', need' \in Nat,
           HandledOf(sent, Len(handled))', Len(handled') = h + 1,
           h + 1 = Len(sent) => handled' = sent
    PROVE  IInv'
<1>1. pc \in {"head", "ext", "body"} /\ pc # "head" /\ pc # "connect"
    OBVIOUS
<1>2. /\ error = "none" /\ SessionOK(session) /\ pc \in Running /\ ~overread
      /\ handled # <<>>
    BY <1>1, ReaderAt, Zenon
<1>3. Server /\ Told
    BY Zenon DEF IInv
<1>4. PICK done : done = Dispatch(session, frame)
    OBVIOUS
<1>5. /\ established' = established /\ UNCHANGED serverVars /\ session' = done.session
      /\ IF done.raised # "none" THEN Raised(done.raised)
         ELSE IF EndsLoop(frame) THEN Verdict(done.session)
         ELSE pc' = "head" /\ UNCHANGED error
    BY <1>4, Zenon DEF HandleFrame
<1>6. SessionOK(session') /\ (~EndsLoop(frame) => session'["end"] = session["end"])
    BY <1>2, <1>4, <1>5, DispatchFine, Zenon DEF Fine
<1>7. SessionOK(session)'
    BY <1>6, Zenon DEF SessionOK
<1>8. CASE done.raised # "none"
  <2>1. pc' = "raised" /\ error' = done.raised
      BY <1>5, <1>8, Zenon DEF Raised
  <2>2. pc' \in {"raised", "misread", "passed"} /\ pc' # "passed"
        /\ (pc' = "raised" <=> error' # "none")
      BY <1>8, <2>1
  <2> QED BY <1>1, <1>2, <1>5, <1>7, <2>2, StopKeeps, Zenon
<1>9. CASE done.raised = "none" /\ EndsLoop(frame)
  <2>1. \/ pc' = "passed" /\ error' = error
        \/ pc' = "raised" /\ error' = "AssertionError"
      BY <1>5, <1>9, Zenon DEF Verdict, Raised
  <2>2. pc' \in {"raised", "misread", "passed"} /\ (pc' = "raised" <=> error' # "none")
      BY <1>2, <2>1
  <2>3. handled' = <<SettingsFrame>> \o script
    <3>1. h \in Nat \ {0}
      <4>1. HandledOf(sent, h) /\ sent \in Seq(Frame)
          BY <1>1, ReaderAt, Zenon
      <4>2. CASE h = 0
        <5>1. handled = <<>>
          <6>1. SubSeq(sent, 1, 0) = <<>>
              BY <4>1
          <6> QED BY <4>1, <4>2, <6>1, Zenon DEF HandledOf
        <5> QED BY <1>2, <5>1
      <4> QED BY <4>2
    <3>2. h + 1 = Len(sent) /\ sent = <<SettingsFrame>> \o script
        BY <1>3, <1>9, <3>1, EndIsLast, Zenon
    <3> QED BY <3>2, Zenon
  <2>4. (<<SettingsFrame>> \o script)' = <<SettingsFrame>> \o script
      BY <1>5 DEF serverVars
  <2> QED BY <1>1, <1>2, <1>5, <1>7, <2>2, <2>3, StopKeeps, Zenon
<1>10. CASE done.raised = "none" /\ ~EndsLoop(frame)
  <2>1. pc' = "head" /\ UNCHANGED error
      BY <1>5, <1>10, Zenon
  <2>2. session'.end = NoneYet
    <3>1. session.end = NoneYet
        BY <1>2, <1>3, Zenon DEF Told
    <3> QED BY <1>6, <1>10, <3>1, Zenon
  <2>3. pc' # "connect"
      BY <2>1
  <2>4. Server'
      BY <1>1, <1>3, <1>5, <2>3, ServerStays, Zenon
  <2>5. UNCHANGED <<script, upgraded, down, sent, arrived, closed>>
      BY <1>5 DEF serverVars
  <2> QED BY <1>5, <1>7, <2>1, <2>2, <2>4, <2>5, NextKeeps, Zenon
<1> QED BY <1>8, <1>9, <1>10, Zenon

\* The first frame.
LEMMA HandleSettingsKeeps ==
    ASSUME IInv, NEW pos, Wire(pos), Reader(pos), pc = "body", ~established,
           NEW h \in Nat, h = Len(handled), h < Len(sent), NextDecoded(pos, h, h + 1),
           NEW frame \in Frame, frame = sent[h + 1], HandleSettings(frame),
           UNCHANGED <<taken, bodyFrom, need, overread>>,
           taken' \in taken..arrived, bodyFrom' \in 0..taken', need' \in Nat,
           HandledOf(sent, Len(handled))', Len(handled') = h + 1
    PROVE  IInv'
<1>1. pc \in {"head", "ext", "body"} /\ pc # "head" /\ pc # "connect"
    OBVIOUS
<1>2. /\ error = "none" /\ SessionOK(session) /\ pc \in Running /\ ~overread /\ upgraded
    BY <1>1, ReaderAt, Zenon
<1>3. Server /\ Told
    BY Zenon DEF IInv
<1>4. session' = session /\ SessionOK(session)'
  <2>1. session' = session
      BY Zenon DEF HandleSettings
  <2> QED BY <1>2, <2>1, Zenon DEF SessionOK
<1>5. CASE \E e \in {"AssertionError", "ConnectionError"} :
              Raised(e) /\ established' = established /\ UNCHANGED serverVars
  <2>1. pc' \in {"raised", "misread", "passed"} /\ pc' # "passed"
        /\ (pc' = "raised" <=> error' # "none")
      BY <1>5 DEF Raised
  <2>2. established' = established /\ UNCHANGED serverVars
      BY <1>5, Zenon
  <2> QED BY <1>1, <1>2, <1>4, <2>1, <2>2, StopKeeps, Zenon
<1>6. CASE /\ pc' = "head" /\ established' = TRUE
           /\ ClientSends(Framed(OpenSize, TRUE, Len(requests) + 1), <<OpenFrame>>)
           /\ UNCHANGED error
  <2>1. pc' # "connect"
      BY <1>6
  <2>2. Server'
      BY <1>1, <1>2, <1>3, <1>6, <2>1, OpenSent, Zenon
  <2>3. UNCHANGED <<script, upgraded, down, sent, arrived, closed>>
      BY <1>6 DEF ClientSends
  <2>4. session'.end = NoneYet
      BY <1>2, <1>3, <1>4, Zenon DEF Told
  <2> QED BY <1>4, <1>6, <2>2, <2>3, <2>4, NextKeeps, Zenon
<1>7. "AssertionError" \in {"AssertionError", "ConnectionError"}
      /\ "ConnectionError" \in {"AssertionError", "ConnectionError"}
    OBVIOUS
<1>8. \/ \E e \in {"AssertionError", "ConnectionError"} :
             Raised(e) /\ established' = established /\ UNCHANGED serverVars
      \/ /\ pc' = "head" /\ established' = TRUE
         /\ ClientSends(Framed(OpenSize, TRUE, Len(requests) + 1), <<OpenFrame>>)
         /\ UNCHANGED error
    BY <1>7, Zenon DEF HandleSettings
<1> QED BY <1>5, <1>6, <1>8, Zenon

\* A frame is handled behind those before it.
LEMMA HandledGrows ==
    ASSUME sent \in Seq(Frame), sent' = sent, NEW h \in Nat, h < Len(sent),
           HandledOf(sent, h), handled' = Append(handled, sent[h + 1])
    PROVE  /\ HandledOf(sent, Len(handled))' /\ Len(handled') = h + 1
           /\ h + 1 = Len(sent) => handled' = sent
<1>1. PICK s \in Seq(Frame) : s = sent
    OBVIOUS
<1>2. PICK n \in Nat : n = Len(s)
    OBVIOUS
<1>3. h + 1 \in 1..n
    BY <1>1, <1>2
<1>4. PICK f \in Frame : f = s[h + 1]
    BY <1>2, <1>3
<1>5. PICK a \in Seq(Frame) : a = SubSeq(s, 1, h) /\ Len(a) = h
  <2>1. SubSeq(s, 1, h) \in Seq(Frame) /\ Len(SubSeq(s, 1, h)) = h
      BY <1>2, <1>3
  <2> QED BY <2>1
<1>6. PICK b \in Seq(Frame) : b = SubSeq(s, 1, h + 1)
  <2>1. SubSeq(s, 1, h + 1) \in Seq(Frame)
      BY <1>2, <1>3
  <2> QED BY <2>1
<1>7. Append(a, f) = b
  <2>1. Len(b) = h + 1 /\ Len(Append(a, f)) = h + 1 /\ Append(a, f) \in Seq(Frame)
      BY <1>2, <1>3, <1>5, <1>6
  <2>2. ASSUME NEW i \in 1..(h + 1) PROVE Append(a, f)[i] = b[i]
    <3>1. b[i] = s[i]
        BY <1>2, <1>3, <1>6
    <3>2. CASE i = h + 1
        BY <1>4, <1>5, <3>1, <3>2
    <3>3. CASE i # h + 1
      <4>1. i \in 1..h
          BY <3>3
      <4>2. a[i] = s[i]
          BY <1>2, <1>3, <1>5, <4>1
      <4> QED BY <1>5, <3>1, <4>1, <4>2
    <3> QED BY <3>2, <3>3
  <2> QED BY <2>1, <2>2, SeqEqual
<1>8. handled' = b
  <2>1. handled = a
      BY <1>1, <1>5, Zenon DEF HandledOf
  <2> QED BY <1>1, <1>4, <1>7, <2>1, Zenon
<1>9. Len(b) = h + 1 /\ h + 1 \in 0..Len(s)
    BY <1>2, <1>3, <1>6
<1>10. h + 1 = n => b = s
  <2>1. SubSeq(s, 1, n) = s
      BY <1>2
  <2> QED BY <1>6, <2>1, Zenon
<1> QED BY <1>1, <1>2, <1>6, <1>8, <1>9, <1>10, Zenon DEF HandledOf

\* The data of a frame are there: it is decoded and handled.
LEMMA RecvAllKeeps ==
    ASSUME IInv, RecvAll
    PROVE  IInv'
<1>1. PICK pos : Wire(pos) /\ Reader(pos)
    BY Zenon DEF IInv
<1>2. /\ pc = "body" /\ pc \in {"head", "ext", "body"} /\ pc # "connect"
      /\ pc # "head" /\ taken - bodyFrom = need
      /\ UNCHANGED <<taken, bodyFrom, need, overread>>
    BY DEF RecvAll
<1>3. PICK h \in Nat : h = Len(handled)
    BY <1>1, <1>2, ReaderAt, Zenon
<1>4. /\ sent \in Seq(Frame) /\ taken \in Nat /\ taken <= arrived /\ arrived \in Nat
      /\ bodyFrom \in Nat /\ bodyFrom <= taken /\ need \in Nat /\ upgraded
      /\ HandledOf(sent, h)
      /\ pc \in Running /\ error = "none" /\ SessionOK(session) /\ ~overread
    BY <1>1, <1>2, <1>3, ReaderAt, Zenon
<1>5. Server /\ Told
    BY Zenon DEF IInv
<1>6. /\ taken' \in taken..arrived /\ bodyFrom' \in 0..taken' /\ need' \in Nat
    BY <1>2, <1>4
<1>7. PICK cells : cells = SubSeq(down, bodyFrom + 1, taken)
    OBVIOUS
<1>8. PICK m : m = cells[1].msg
    OBVIOUS
<1>9. CASE need = 0
  <2>1. /\ IF established THEN Verdict(session) ELSE Raised("LMStreamError")
        /\ UNCHANGED <<established, session, handled>> /\ UNCHANGED serverVars
      BY <1>9, Zenon DEF RecvAll
  <2>2. pc' = "raised" /\ error' # "none"
    <3>1. "LMStreamError" # "none"
        OBVIOUS
    <3> QED BY <1>4, <1>5, <2>1, <3>1, VerdictFails, Zenon DEF Raised
  <2> QED BY <1>1, <1>2, <1>3, <1>4, <1>6, <2>1, <2>2, FailKeeps, Zenon
<1>10. CASE need # 0 /\ ~IsMessage(cells, sent[m].size, m)
  <2>1. pc' = "misread" /\ UNCHANGED <<error, established, session, handled>>
        /\ UNCHANGED serverVars
      BY <1>7, <1>8, <1>10, Zenon DEF RecvAll
  <2> QED BY <1>1, <1>2, <1>3, <1>4, <1>6, <2>1, FailKeeps, Zenon
<1>11. CASE need # 0 /\ IsMessage(cells, sent[m].size, m)
  <2>1. NextDecoded(pos, h, m)
      BY <1>1, <1>2, <1>3, <1>7, <1>8, <1>11, MessageAt, Zenon
  <2>2. h < Len(sent) /\ m = h + 1 /\ NextDecoded(pos, h, h + 1)
      BY <2>1, Zenon DEF NextDecoded
  <2>3. PICK frame \in Frame : frame = sent[h + 1]
      BY <1>4, <2>2
  <2>4. /\ handled' = Append(handled, sent[h + 1])
        /\ IF established THEN HandleFrame(frame) ELSE HandleSettings(frame)
      BY <1>7, <1>8, <1>11, <2>2, <2>3, Zenon DEF RecvAll
  <2>5. sent' = sent
      BY <2>4 DEF HandleFrame, HandleSettings, ClientSends, serverVars
  <2>6. /\ HandledOf(sent, Len(handled))' /\ Len(handled') = h + 1
        /\ h + 1 = Len(sent) => handled' = sent
      BY <1>4, <2>2, <2>4, <2>5, HandledGrows, Zenon
  <2>7. CASE established
      BY <1>1, <1>2, <1>3, <1>4, <1>5, <1>6, <2>2, <2>3, <2>4, <2>6, <2>7,
         HandleFrameKeeps, Zenon
  <2>8. CASE ~established
      BY <1>1, <1>2, <1>3, <1>4, <1>5, <1>6, <2>2, <2>3, <2>4, <2>6, <2>8,
         HandleSettingsKeeps, Zenon
  <2> QED BY <2>7, <2>8
<1> QED BY <1>9, <1>10, <1>11

\* One round of the loop that reads them.
LEMMA RecvSomeKeeps ==
    ASSUME IInv, RecvSome
    PROVE  IInv'
<1>1. PICK pos : Wire(pos) /\ Reader(pos)
    BY Zenon DEF IInv
<1>2. /\ pc = "body" /\ pc \in {"head", "ext", "body"} /\ pc # "head"
      /\ taken - bodyFrom < need
      /\ UNCHANGED <<established, bodyFrom, need, session, handled, overread>>
      /\ UNCHANGED serverVars
    BY DEF RecvSome
<1>3. PICK h \in Nat : h = Len(handled)
    BY <1>1, <1>2, ReaderAt, Zenon
<1>4. /\ taken \in Nat /\ taken <= arrived /\ arrived \in Nat
      /\ bodyFrom \in Nat /\ bodyFrom <= taken /\ need \in Nat
      /\ HandledOf(sent, h) /\ Available = arrived - taken
      /\ pc \in Running /\ error = "none" /\ SessionOK(session) /\ ~overread
      /\ Place(pos, sent, h)
    BY <1>1, <1>2, <1>3, ReaderAt, Zenon
<1>5. Told
    BY Zenon DEF IInv
<1>6. CASE /\ Available > 0
           /\ taken' = taken + Limited(need - (taken - bodyFrom))
           /\ UNCHANGED <<pc, error>>
  <2>1. taken' \in taken..arrived /\ bodyFrom' \in 0..taken' /\ need' \in Nat
    <3>1. PICK a \in Nat : a = Available
        BY <1>4
    <3>2. PICK l \in Nat : l = need - (taken - bodyFrom)
        BY <1>2, <1>4
    <3>3. PICK n \in 0..a : n = Limited(l)
        BY <3>1 DEF Limited
    <3>4. taken' = taken + n
        BY <1>6, <3>2, <3>3, Zenon
    <3> QED BY <1>2, <1>4, <3>1, <3>4
  <2>2. Place(pos, sent, Len(handled))'
    <3>1. sent' = sent
        BY <1>2 DEF serverVars
    <3>2. "body" # "ext"
        OBVIOUS
    <3> QED BY <1>2, <1>3, <1>4, <1>6, <3>1, <3>2, Zenon DEF Place
  <2>3. pc' \in {"ext", "body"}
      BY <1>2, <1>6
  <2> QED BY <1>1, <1>2, <1>4, <1>6, <2>1, <2>2, <2>3, ReadKeeps, Zenon
<1>7. CASE /\ IF taken = bodyFrom /\ established THEN Verdict(session)
              ELSE Raised("LMStreamError")
           /\ UNCHANGED taken
  <2>1. pc' = "raised" /\ error' # "none"
    <3>1. "LMStreamError" # "none"
        OBVIOUS
    <3> QED BY <1>4, <1>5, <1>7, <3>1, VerdictFails, Zenon DEF Raised
  <2>2. taken' \in taken..arrived /\ bodyFrom' \in 0..taken' /\ need' \in Nat
      BY <1>2, <1>4, <1>7
  <2> QED BY <1>1, <1>2, <1>3, <1>4, <2>1, <2>2, FailKeeps, Zenon
<1>8. \/ /\ Available > 0
         /\ taken' = taken + Limited(need - (taken - bodyFrom))
         /\ UNCHANGED <<pc, error>>
      \/ /\ IF taken = bodyFrom /\ established THEN Verdict(session)
            ELSE Raised("LMStreamError")
         /\ UNCHANGED taken
    BY Zenon DEF RecvSome
<1> QED BY <1>6, <1>7, <1>8, Zenon

------------------------------------------------------------------------------
(* The theorems *)

\* The demo starts with nothing written and nothing read.
LEMMA Begin == Init => IInv
<1> SUFFICES ASSUME Init PROVE IInv
    OBVIOUS
<1>1. ServerInit /\ ClientInit
    BY DEF Init
<1>2. Server
  <2>1. /\ script \in Scripts /\ up = <<>> /\ requests = <<>> /\ chunked = 0
        /\ parsed = 0 /\ upgraded = FALSE /\ busy = FALSE /\ served = <<>>
        /\ sent = <<>> /\ pc = "connect" /\ established = FALSE
      BY <1>1 DEF ServerInit, ClientInit
  <2> QED BY <2>1, Zenon DEF Server
<1>3. Told
  <2>1. PICK s : s = [reasoning |-> <<>>, reasoningPending |-> <<>>,
                      content |-> <<>>, contentPending |-> <<>>,
                      active |-> <<>>, completed |-> <<>>,
                      usage |-> NoneYet, metrics |-> NoneYet, end |-> NoneYet]
      OBVIOUS
  <2>2. s = [f \in Fields |-> s[f]]
      BY <2>1 DEF Fields
  <2>3. \A f \in Texts : s[f] \in Seq(Byte)
    <3>1. /\ s["reasoning"] = <<>> /\ s["reasoningPending"] = <<>>
          /\ s["content"] = <<>> /\ s["contentPending"] = <<>>
        BY <2>1
    <3>2. <<>> \in Seq(Byte)
        OBVIOUS
    <3> QED BY <3>1, <3>2, Zenon DEF Texts
  <2>4. s.end = NoneYet
      BY <2>1
  <2>5. session = s /\ pc = "connect" /\ error = "none"
      BY <1>1, <2>1 DEF ClientInit, NewSession
  <2>6. pc # "raised" /\ pc # "passed"
      BY <2>5
  <2> QED BY <2>2, <2>3, <2>4, <2>5, <2>6, Zenon DEF Told, SessionOK
<1>4. PICK pos : pos = [i \in 0..0 |-> 2]
    OBVIOUS
<1>5. down = <<>> /\ sent = <<>> /\ upgraded = FALSE /\ arrived = 0 /\ Len(<<>>) = 0
    BY <1>1 DEF ServerInit
<1>6. Wire(pos)
  <2>1. Placed(pos, <<>>)
      BY <1>4 DEF Placed
  <2>2. Laid(pos, <<>>, <<>>)
    <3>1. pos[0] = 2 /\ <<>> \in Seq(CellType) /\ Len(<<>>) <= 2
        BY <1>4
    <3>2. \A k \in 1..2 : ~(k <= Len(<<>>))
        OBVIOUS
    <3>3. 1..Len(<<>>) = {} /\ 3..Len(<<>>) = {}
        OBVIOUS
    <3> QED BY <1>5, <2>1, <3>1, <3>2, <3>3, Zenon DEF Laid
  <2> QED BY <1>5, <2>2, Zenon DEF Wire
<1>7. Reader(pos)
  <2>1. /\ pc = "connect" /\ established = FALSE /\ taken = 0 /\ bodyFrom = 0
        /\ need = 0 /\ handled = <<>> /\ overread = FALSE
      BY <1>1 DEF ClientInit
  <2>2. Phase
      BY <2>1 DEF Phase, Running
  <2>3. Place(pos, sent, Len(handled))
      BY <2>1 DEF Place
  <2>4. arrived \in 0..Len(down) /\ taken \in 0..arrived /\ Len(handled) \in 0..Len(sent)
      BY <1>5, <2>1
  <2>5. SubSeq(<<>>, 1, Len(<<>>)) = <<>>
      OBVIOUS
  <2> QED BY <1>5, <2>1, <2>2, <2>3, <2>4, <2>5, Zenon DEF Reader
<1> QED BY <1>2, <1>3, <1>6, <1>7, Zenon DEF IInv

\* No step of the demo, the server or the network breaks it.
LEMMA Step == IInv /\ [Next]_vars => IInv'
<1> SUFFICES ASSUME IInv, [Next]_vars PROVE IInv'
    OBVIOUS
<1>1. CASE Demo
    BY <1>1, SendUpgradeKeeps, RecvResponseKeeps, RecvHeadKeeps, RecvExtendedKeeps,
       RecvAllKeeps, RecvSomeKeeps, Zenon DEF Demo
<1>2. CASE Serve /\ UNCHANGED clientVars
    BY <1>2, UpgradeKeeps, DataKeeps, TakeFrameKeeps, LeaveLoopKeeps, Zenon DEF Serve
<1>3. CASE Arrive /\ UNCHANGED clientVars
    BY <1>3, ArriveKeeps, Zenon
<1>4. CASE Close /\ UNCHANGED clientVars
    BY <1>4, CloseKeeps, Zenon
<1>5. CASE UNCHANGED vars
  <2>1. UNCHANGED serverVars /\ UNCHANGED clientVars
      BY <1>5 DEF vars
  <2>2. /\ UNCHANGED <<script, up, requests, chunked, parsed, upgraded, busy, served,
                       down, sent, arrived, closed>>
        /\ UNCHANGED <<pc, error, established, taken, bodyFrom, need, session, handled,
                       overread>>
      BY <2>1 DEF serverVars, clientVars
  <2>3. Server' /\ Told'
      BY <2>2, Zenon DEF IInv, Server, Told, SessionOK
  <2>4. PICK pos : Wire(pos) /\ Reader(pos)
      BY Zenon DEF IInv
  <2>5. Wire(pos)'
      BY <2>2, <2>4, Zenon DEF Wire
  <2>6. Reader(pos)'
      BY <2>2, <2>4, Zenon DEF Reader, Phase, Place
  <2> QED BY <2>3, <2>5, <2>6, Zenon DEF IInv
<1> QED BY <1>1, <1>2, <1>3, <1>4, <1>5, Zenon DEF Next

\* The inductive invariant holds of every run.
THEOREM Invariance == Spec => []IInv
  BY Begin, Step, PTL DEF Spec

\* Positions stay within their streams, the text is bytes, and only a demo that
\* raised has an error: whatever the transcripts are, however TCP cuts the bytes,
\* and at whatever point the server is killed.
THEOREM DemoTyped == Spec => []TypeOK
<1>1. ASSUME IInv PROVE TypeOK
  <2>1. PICK pos : Wire(pos) /\ Reader(pos)
      BY <1>1, Zenon DEF IInv
  <2>2. Server /\ Told
      BY <1>1, Zenon DEF IInv
  <2>3. /\ pc \in Running \cup Halted /\ bodyFrom \in 0..taken /\ need \in Nat
        /\ arrived \in 0..Len(down) /\ taken \in 0..arrived /\ down \in Seq(CellType)
      BY <2>1, Zenon DEF Reader, Phase, Wire, Laid
  <2>4. /\ 0 <= bodyFrom /\ bodyFrom <= taken /\ taken <= arrived
        /\ arrived <= Len(down)
      BY <2>3
  <2>5. 0 <= parsed /\ parsed <= chunked /\ chunked <= Len(up)
    <3>1. CASE upgraded
      <4>1. PICK n \in Nat : n = Len(up)
        <5>1. up \in Seq(CellType)
            BY <2>2, <3>1, UpAt, Zenon
        <5> QED BY <5>1
      <4>2. chunked \in parsed..n /\ (parsed = 1 \/ parsed = n)
          BY <2>2, <3>1, <4>1, Zenon DEF Server
      <4> QED BY <4>1, <4>2
    <3>2. CASE ~upgraded
      <4>1. parsed = 0 /\ chunked = 0 /\ (up = <<>> \/ up = HttpCells(1))
          BY <2>2, <3>2, Zenon DEF Server
      <4>2. Len(HttpCells(1)) = 1
          BY HttpAt
      <4>3. Len(up) \in {0, 1}
          BY <4>1, <4>2
      <4> QED BY <4>1, <4>3
    <3> QED BY <3>1, <3>2
  <2>6. \A field \in {"reasoning", "reasoningPending", "content", "contentPending"} :
            session[field] \in Seq(Byte)
      BY <2>2, Zenon DEF Told, SessionOK, Texts
  <2>7. (pc = "raised") <=> (error # "none")
      BY <2>2, Zenon DEF Told
  <2>8. pc \in {"connect", "handshake", "head", "ext", "body"} \cup Outcomes
               \cup {"spinning", "misread"}
      BY <2>3 DEF Running, Halted
  <2> QED BY <2>3, <2>4, <2>5, <2>6, <2>7, <2>8, Zenon DEF TypeOK
<1> QED BY <1>1, Invariance, PTL

\* However the bytes of the frames are cut, joined or lost, recv returning one
\* byte or the handshake too many: the frames the demo decodes are the first of
\* those the server sent, in order.
THEOREM FirstFrames == Spec => []FramesInOrder
<1>1. ASSUME IInv PROVE FramesInOrder
  <2>1. PICK pos : Reader(pos)
      BY <1>1, Zenon DEF IInv
  <2>2. Len(handled) \in 0..Len(sent) /\ handled = SubSeq(sent, 1, Len(handled))
      BY <2>1, Zenon DEF Reader
  <2>3. sent \in Seq(Frame)
      BY <1>1, SentAt, Zenon DEF IInv
  <2>4. Len(handled) <= Len(sent)
      BY <2>2, <2>3
  <2> QED BY <2>2, <2>4, Zenon DEF FramesInOrder, Begins
<1> QED BY <1>1, Invariance, PTL

\* A run that passes has decoded the whole transcript: one cut off by the death of
\* the server, at whatever byte, never does.
THEOREM WholePasses == Spec => []PassesOnWhole
<1>1. IInv => PassesOnWhole
    BY Zenon DEF IInv, Told, PassesOnWhole
<1> QED BY <1>1, Invariance, PTL

------------------------------------------------------------------------------
(* The variables of run_demo behind each frame of a script *)

\* t[i] are the variables behind the first i of n frames.
Runs(t, s, n) ==
    t = [i \in 0..n |-> IF i = 0 THEN NewSession ELSE Dispatch(t[i - 1], s[i]).session]

\* There is such a function,
LEMMA RunsExist ==
    ASSUME NEW s, NEW n \in Nat
    PROVE  \E t : Runs(t, s, n)
<1> DEFINE Good == {m \in Nat : \E t : Runs(t, s, m)}
<1>1. Runs([i \in 0..0 |-> NewSession], s, 0)
    BY DEF Runs
<1>2. 0 \in Good
    BY <1>1
<1>3. ASSUME NEW m \in Nat, m \in Good
      PROVE  m + 1 \in Good
  <2>1. PICK t : Runs(t, s, m)
      BY <1>3
  <2>2. PICK x : x = Dispatch(t[m], s[m + 1]).session
      OBVIOUS
  <2> DEFINE d == [i \in 0..(m + 1) |-> IF i = m + 1 THEN x ELSE t[i]]
  <2>3. ASSUME NEW i \in 0..(m + 1)
        PROVE  d[i] = IF i = 0 THEN NewSession ELSE Dispatch(d[i - 1], s[i]).session
    <3>1. CASE i = m + 1
      <4>1. m + 1 # 0 /\ (m + 1) - 1 = m /\ m \in 0..(m + 1) /\ m # m + 1
            /\ m + 1 \in 0..(m + 1)
          OBVIOUS
      <4>2. d[m + 1] = x /\ d[m] = t[m]
          BY <4>1, Zenon
      <4> QED BY <2>2, <3>1, <4>1, <4>2, Zenon
    <3>2. CASE i # m + 1
      <4>1. i \in 0..m /\ i \in 0..(m + 1) /\ (i # 0 => i - 1 \in 0..(m + 1) /\ i - 1 # m + 1)
          BY <3>2
      <4>2. t[i] = IF i = 0 THEN NewSession ELSE Dispatch(t[i - 1], s[i]).session
          BY <2>1, <4>1, Zenon DEF Runs
      <4>3. d[i] = t[i] /\ (i # 0 => d[i - 1] = t[i - 1])
          BY <3>2, <4>1, Zenon
      <4> QED BY <4>2, <4>3, Zenon
    <3> QED BY <3>1, <3>2
  <2>4. Runs(d, s, m + 1)
      BY <2>3, Zenon DEF Runs
  <2> QED BY <2>4
<1>4. \A m \in Nat : m \in Good
  <2> HIDE DEF Good
  <2> QED BY <1>2, <1>3, Inductive
<1> QED BY <1>4

\* ... and After is it.
LEMMA AfterRuns ==
    ASSUME NEW s, Len(s) \in Nat
    PROVE  Runs(After(s), s, Len(s))
<1>1. PICK n \in Nat : n = Len(s)
    OBVIOUS
<1>2. \E t : Runs(t, s, n)
    BY RunsExist, Zenon
<1>3. After(s) = CHOOSE t : Runs(t, s, n)
    BY <1>1, Zenon DEF After, Runs
<1> QED BY <1>1, <1>2, <1>3, Zenon

\* Frame by frame.
LEMMA AfterAt ==
    ASSUME NEW s, NEW n \in Nat, n = Len(s)
    PROVE  /\ After(s)[0] = NewSession
           /\ \A i \in 1..n : After(s)[i] = Dispatch(After(s)[i - 1], s[i]).session
<1>1. PICK t : t = After(s)
    OBVIOUS
<1>2. Runs(t, s, n)
    BY <1>1, AfterRuns, Zenon
<1>3. t[0] = NewSession
  <2>1. 0 \in 0..n
      OBVIOUS
  <2> QED BY <1>2, <2>1, Zenon DEF Runs
<1>4. ASSUME NEW i \in 1..n PROVE t[i] = Dispatch(t[i - 1], s[i]).session
  <2>1. i \in 0..n /\ i # 0
      OBVIOUS
  <2> QED BY <1>2, <2>1, Zenon DEF Runs
<1> QED BY <1>1, <1>3, <1>4, Zenon

------------------------------------------------------------------------------
(* What the steps do with frames *)

\* How many frames of the script have been handled.
Shown == IF handled = <<>> THEN 0 ELSE Len(handled) - 1

\* What the demo has made of them.
Course == pc \in Running => session = After(script)[Shown]

\* Frame h of the script is handled next; its predecessors have been.
Next1(h) == /\ h \in 1..Len(script) /\ h = Len(handled) /\ handled # <<>>
            /\ h < Len(sent) /\ sent[h + 1] = script[h]

\* The frames behind SETTINGS are those of the script.
LEMMA ScriptBehind ==
    ASSUME Server, NEW h \in Nat \ {0}, h < Len(sent)
    PROVE  h \in 1..Len(script) /\ sent[h + 1] = script[h]
<1>1. sent \in Seq(Frame) /\ script \in Seq(Frame)
    BY SentAt, Zenon
<1>2. sent # <<>> /\ sent # <<SettingsFrame>>
  <2>1. PICK n \in Nat : n = Len(sent)
      BY <1>1
  <2>2. n # 0 /\ n # 1
      BY <2>1
  <2>3. Len(<<>>) = 0 /\ Len(<<SettingsFrame>>) = 1
      OBVIOUS
  <2> QED BY <2>1, <2>2, <2>3, Zenon
<1>3. sent = <<SettingsFrame>> \o script
    BY <1>2, SentAt, Zenon
<1>4. PICK f \in Frame : f = SettingsFrame
    BY SettingsAt
<1>5. PICK s \in Seq(Frame) : s = script
    BY <1>1
<1>6. PICK c \in Seq(Frame) : c = sent
    BY <1>1
<1>7. c = <<f>> \o s
    BY <1>3, <1>4, <1>5, <1>6, Zenon
<1>8. h \in 1..Len(s) /\ c[h + 1] = s[h]
    BY <1>6, <1>7
<1> QED BY <1>5, <1>6, <1>8, Zenon

\* A step that handles no frame,
Quiet == /\ UNCHANGED <<script, session, handled>> /\ (pc' = pc \/ pc \in Running)
         /\ error' \in {error, "ValueError", "LMStreamError", "AssertionError"}

\* one that answers SETTINGS,
First == /\ UNCHANGED <<script, session>>
         /\ handled = <<>> /\ Len(handled') = 1 /\ handled' # <<>>
         /\ pc \in Running
         /\ error' \in {error, "AssertionError", "ConnectionError"}

\* and one that handles a frame of the script.
Behind1(h) == /\ script' = script /\ pc \in Running /\ Next1(h)
              /\ Len(handled') = h + 1 /\ handled' # <<>>
              /\ HandleFrame(script[h])

\* RecvAll is the only one that handles any.
LEMMA RecvAllHandles ==
    ASSUME IInv, RecvAll
    PROVE  Quiet \/ First \/ \E h : Behind1(h)
<1>1. PICK pos : Wire(pos) /\ Reader(pos)
    BY Zenon DEF IInv
<1>2. /\ pc = "body" /\ pc \in {"head", "ext", "body"} /\ taken - bodyFrom = need
    BY DEF RecvAll
<1>3. PICK h \in Nat : h = Len(handled)
    BY <1>1, <1>2, ReaderAt, Zenon
<1>4. /\ sent \in Seq(Frame) /\ HandledOf(sent, h) /\ pc \in Running
    BY <1>1, <1>2, <1>3, ReaderAt, Zenon
<1>5. established <=> handled # <<>>
    BY <1>1, <1>2, ReaderAt, Zenon
<1>6. Server /\ Told
    BY Zenon DEF IInv
<1>7. PICK cells : cells = SubSeq(down, bodyFrom + 1, taken)
    OBVIOUS
<1>8. PICK m : m = cells[1].msg
    OBVIOUS
<1>9. CASE need = 0
  <2>1. /\ IF established THEN Verdict(session) ELSE Raised("LMStreamError")
        /\ UNCHANGED <<session, handled>> /\ UNCHANGED serverVars
      BY <1>9, Zenon DEF RecvAll
  <2>2. script' = script
      BY <2>1 DEF serverVars
  <2>3. error' \in {error, "LMStreamError", "AssertionError"}
      BY <2>1 DEF Verdict, Raised
  <2> QED BY <1>4, <2>1, <2>2, <2>3 DEF Quiet
<1>10. CASE need # 0 /\ ~IsMessage(cells, sent[m].size, m)
  <2>1. UNCHANGED <<error, session, handled>> /\ UNCHANGED serverVars
      BY <1>7, <1>8, <1>10, Zenon DEF RecvAll
  <2>2. script' = script
      BY <2>1 DEF serverVars
  <2> QED BY <1>4, <2>1, <2>2 DEF Quiet
<1>11. CASE need # 0 /\ IsMessage(cells, sent[m].size, m)
  <2>1. NextDecoded(pos, h, m)
      BY <1>1, <1>2, <1>3, <1>7, <1>8, <1>11, MessageAt, Zenon
  <2>2. h < Len(sent) /\ m = h + 1
      BY <2>1, Zenon DEF NextDecoded
  <2>3. PICK frame \in Frame : frame = sent[h + 1]
      BY <1>4, <2>2
  <2>4. /\ handled' = Append(handled, sent[h + 1])
        /\ IF established THEN HandleFrame(frame) ELSE HandleSettings(frame)
      BY <1>7, <1>8, <1>11, <2>2, <2>3, Zenon DEF RecvAll
  <2>5. sent' = sent /\ script' = script
      BY <2>4 DEF HandleFrame, HandleSettings, ClientSends, serverVars
  <2>6. Len(handled') = h + 1
      BY <1>4, <2>2, <2>4, <2>5, HandledGrows, Zenon
  <2>7. handled' # <<>>
      BY <2>6
  <2>8. CASE established
    <3>1. handled # <<>>
        BY <1>5, <2>8, Zenon
    <3>2. h # 0
      <4>1. SubSeq(sent, 1, 0) = <<>>
          BY <1>4
      <4> QED BY <1>4, <3>1, <4>1, Zenon DEF HandledOf
    <3>3. Next1(h)
      <4>1. h \in Nat \ {0}
          BY <3>2
      <4> QED BY <1>3, <1>6, <2>2, <3>1, <4>1, ScriptBehind, Zenon DEF Next1
    <3>4. HandleFrame(script[h])
        BY <2>3, <2>4, <2>8, <3>3, Zenon DEF Next1
    <3>5. Behind1(h)
        BY <1>4, <2>5, <2>6, <2>7, <3>3, <3>4, Zenon DEF Behind1
    <3> QED BY <3>5
  <2>9. CASE ~established
    <3>1. handled = <<>>
        BY <1>5, <2>9, Zenon
    <3>2. Len(handled') = 1
        BY <1>3, <2>6, <3>1
    <3>3. HandleSettings(frame)
        BY <2>4, <2>9, Zenon
    <3>4. session' = session /\ error' \in {error, "AssertionError", "ConnectionError"}
        BY <3>3 DEF HandleSettings, Raised
    <3> QED BY <1>4, <2>5, <2>7, <3>1, <3>2, <3>4, Zenon DEF First
  <2> QED BY <2>8, <2>9
<1> QED BY <1>9, <1>10, <1>11

\* All the others are quiet.
LEMMA StepHandles ==
    ASSUME IInv, [Next]_vars
    PROVE  Quiet \/ First \/ \E h : Behind1(h)
<1>1. CASE RecvAll
    BY <1>1, RecvAllHandles, Zenon
<1>2. CASE SendUpgrade
    BY <1>2 DEF SendUpgrade, ClientSends, Quiet, Running
<1>3. CASE RecvResponse
    BY <1>3 DEF RecvResponse, serverVars, Quiet, Running
<1>4. CASE RecvHead
    BY <1>4 DEF RecvHead, Raised, serverVars, Quiet, Running
<1>5. CASE RecvExtended
    BY <1>5 DEF RecvExtended, serverVars, Quiet, Running
<1>6. CASE RecvSome
    BY <1>6 DEF RecvSome, Verdict, Raised, serverVars, Quiet, Running
<1>7. CASE UNCHANGED clientVars /\ script' = script
    BY <1>7 DEF clientVars, Quiet
<1>8. (Serve \/ Arrive \/ Close) => script' = script
    BY DEF Serve, Upgrade, Data, TakeFrame, LeaveLoop, Arrive, Close
<1>9. UNCHANGED vars => UNCHANGED clientVars /\ script' = script
    BY DEF vars, serverVars
<1> QED BY <1>1, <1>2, <1>3, <1>4, <1>5, <1>6, <1>7, <1>8, <1>9, Zenon DEF Next, Demo

\* The demo stays on the course of the script.
LEMMA CourseKeeps ==
    ASSUME IInv, Course, [Next]_vars
    PROVE  Course'
<1>1. CASE Quiet
    BY <1>1, Zenon DEF Quiet, Course, Shown
<1>2. CASE First
  <2>1. Shown = 0 /\ Shown' = 0
    <3>1. Shown' = Len(handled') - 1
        BY <1>2, Zenon DEF First, Shown
    <3>2. 1 - 1 = 0
        OBVIOUS
    <3> QED BY <1>2, <3>1, <3>2, Zenon DEF First, Shown
  <2> QED BY <1>2, <2>1, Zenon DEF First, Course
<1>3. ASSUME NEW h, Behind1(h) PROVE Course'
  <2>1. /\ script' = script /\ pc \in Running /\ h \in 1..Len(script) /\ h = Len(handled)
        /\ handled # <<>> /\ Len(handled') = h + 1 /\ handled' # <<>>
        /\ HandleFrame(script[h])
      BY <1>3, Zenon DEF Behind1, Next1
  <2>2. script \in Seq(Frame)
      BY SentAt, Zenon DEF IInv
  <2>3. PICK n \in Nat : n = Len(script)
      BY <2>2
  <2>4. Shown = h - 1 /\ Shown' = h
    <3>1. (h + 1) - 1 = h
        BY <2>1, <2>3
    <3> QED BY <2>1, <3>1, Zenon DEF Shown
  <2>5. session = After(script)[h - 1]
      BY <2>1, <2>4, Zenon DEF Course
  <2>6. session' = Dispatch(session, script[h]).session
      BY <2>1, Zenon DEF HandleFrame
  <2>7. After(script)[h] = Dispatch(After(script)[h - 1], script[h]).session
      BY <2>1, <2>3, AfterAt, Zenon
  <2> QED BY <2>1, <2>4, <2>5, <2>6, <2>7, Zenon DEF Course
<1> QED BY <1>1, <1>2, <1>3, StepHandles, Zenon

\* It sets out on it.
LEMMA CourseBegins == Init => Course
<1> SUFFICES ASSUME Init PROVE Course
    OBVIOUS
<1>1. session = NewSession /\ handled = <<>> /\ script \in Scripts
    BY DEF Init, ClientInit, ServerInit
<1>2. script \in Seq(Frame)
    BY <1>1, ScriptsAssumption
<1>3. PICK n \in Nat : n = Len(script)
    BY <1>2
<1>4. After(script)[0] = NewSession
    BY <1>3, AfterAt, Zenon
<1> QED BY <1>1, <1>4, Zenon DEF Course, Shown

\* The variables of run_demo are those behind the frames handled.
THEOREM OnCourse == Spec => []Course
<1>1. IInv /\ Course /\ [Next]_vars => Course'
    BY CourseKeeps, Zenon
<1> QED BY <1>1, CourseBegins, Invariance, PTL DEF Spec

------------------------------------------------------------------------------
(* Texts *)

\* x is put out and y kept of the text w, whole characters first.
Holds(x, y, w) == x \in Seq(Byte) /\ y \in Seq(Byte) /\ WellFormed(x) /\ x \o y = w

\* The assembler never gives the decoder a part of a character.
LEMMA PartHolds ==
    ASSUME NEW x, NEW y, NEW w \in Seq(Byte), Holds(x, y, w), NEW data \in Seq(Byte),
           NEW boundary \in BOOLEAN, Partial(w \o data), boundary => Closed(w \o data),
           NEW r, r = Rendered(y, boundary, data)
    PROVE  WellFormed(r) /\ Holds(x \o r, Kept(y, boundary, data), w \o data)
<1>1. x \in Seq(Byte) /\ y \in Seq(Byte) /\ WellFormed(x) /\ x \o y = w
    BY Zenon DEF Holds
<1>2. Partial((x \o y) \o data) /\ (boundary => WellFormed((x \o y) \o data))
    BY <1>1, Zenon DEF WellFormed
<1>3. Parted(x, r, Kept(y, boundary, data), (x \o y) \o data)
    BY <1>1, <1>2, AssemblerParts, Zenon
<1> QED BY <1>1, <1>3, Zenon DEF Parted, Holds

\* What a frame of the channel text does: the channel holds w behind it.
Stepped(s, done, text, pending, w) ==
    /\ done.raised = "none"
    /\ Holds(done.session[text], done.session[pending], w)
    /\ \A f \in Texts : f # text /\ f # pending => done.session[f] = s[f]

\* A frame of text does, if its channel may be cut where it ends.
LEMMA TextStepHolds ==
    ASSUME NEW s, SessionOK(s), NEW frame \in Frame, NEW text \in Texts,
           NEW pending \in Texts, text # pending, NEW w \in Seq(Byte),
           Holds(s[text], s[pending], w), Partial(w \o frame.data),
           frame.boundary => Closed(w \o frame.data)
    PROVE  Stepped(s, TextStep(s, text, pending, frame), text, pending, w \o frame.data)
<1>1. Texts \subseteq Fields
    BY DEF Texts, Fields
<1>2. frame.boundary \in BOOLEAN /\ frame.data \in Seq(Byte)
    BY DEF Frame, Byte
<1>3. s = [f \in Fields |-> s[f]]
    BY Zenon DEF SessionOK
<1>4. PICK shown : shown = Rendered(s[pending], frame.boundary, frame.data)
    OBVIOUS
<1>5. PICK kept : kept = Kept(s[pending], frame.boundary, frame.data)
    OBVIOUS
<1>6. WellFormed(shown) /\ Holds(s[text] \o shown, kept, w \o frame.data)
    BY <1>2, <1>4, <1>5, PartHolds, Zenon
<1>7. PICK t : t = [s EXCEPT ![text] = s[text] \o shown, ![pending] = kept]
    OBVIOUS
<1>8. /\ t[text] = s[text] \o shown /\ t[pending] = kept
      /\ \A f \in Fields : f # text /\ f # pending => t[f] = s[f]
    BY <1>1, <1>3, <1>7, FieldsSet
<1>9. TextStep(s, text, pending, frame) = [raised |-> "none", session |-> t]
    BY <1>4, <1>5, <1>6, <1>7, Zenon DEF TextStep
<1>10. /\ TextStep(s, text, pending, frame).raised = "none"
       /\ TextStep(s, text, pending, frame).session = t
    BY <1>9
<1> QED BY <1>1, <1>6, <1>8, <1>10, Zenon DEF Stepped

\* Other frames leave the texts alone.
Untouched(s, done) == \A f \in Texts : done.session[f] = s[f]

\* A tool call leaves the texts alone,
LEMMA ToolUntouched ==
    ASSUME NEW s, SessionOK(s), NEW frame \in Frame
    PROVE  Untouched(s, ToolStep(s, frame))
<1>1. Texts \subseteq Fields /\ "active" \in Fields /\ "completed" \in Fields
      /\ "active" \notin Texts /\ "completed" \notin Texts /\ "active" # "completed"
    BY DEF Texts, Fields
<1>2. s = [f \in Fields |-> s[f]]
    BY Zenon DEF SessionOK
<1>3. PICK call : call = CompletedBy(s.active, frame)
    OBVIOUS
<1>4. PICK x : x = ActivePy(s.active, frame)
    OBVIOUS
<1>5. PICK y : y = s.completed \o call
    OBVIOUS
<1>6. PICK t : t = [s EXCEPT !["active"] = x, !["completed"] = y]
    OBVIOUS
<1>7. \A f \in Fields : f # "active" /\ f # "completed" => t[f] = s[f]
    BY <1>1, <1>2, <1>6, FieldsSet
<1>8. \A f \in Texts : t[f] = s[f]
    BY <1>1, <1>7, Zenon
<1>9. t = [s EXCEPT !.active = ActivePy(s.active, frame), !.completed = @ \o call]
    BY <1>4, <1>5, <1>6
<1>10. ToolStep(s, frame).session \in {s, t}
    BY <1>3, <1>9 DEF ToolStep
<1> QED BY <1>8, <1>10, Zenon DEF Untouched

\* and so does a frame that sets another field.
LEMMA SetUntouched ==
    ASSUME NEW s, SessionOK(s), NEW frame, NEW field \in Fields \ Texts
    PROVE  Untouched(s, Set(s, field, frame)) /\ Set(s, field, frame).raised = "none"
<1>1. Texts \subseteq Fields
    BY DEF Texts, Fields
<1>2. s = [f \in Fields |-> s[f]]
    BY Zenon DEF SessionOK
<1>3. PICK t : t = [s EXCEPT ![field] = frame.data]
    OBVIOUS
<1>4. \A f \in Fields : f # field => t[f] = s[f]
    BY <1>2, <1>3, FieldSet
<1>5. Set(s, field, frame).session = t /\ Set(s, field, frame).raised = "none"
    BY <1>3 DEF Set
<1> QED BY <1>1, <1>4, <1>5, Zenon DEF Untouched

\* The variables hold the text a in the one channel and b in the other.
Whole(s, a, b) == /\ Holds(s["reasoning"], s["reasoningPending"], a)
                  /\ Holds(s["content"], s["contentPending"], b)

\* The next frame of a channel goes on with its text a, cut as is allowed.
GoesOnWith(frame, op, a) ==
    (frame.stream # 0 /\ frame.op = op) =>
        Partial(a \o frame.data) /\ (frame.boundary => Closed(a \o frame.data))

\* A frame that goes on with the texts is decoded.
LEMMA DispatchHolds ==
    ASSUME NEW s, SessionOK(s), NEW frame \in Frame,
           NEW a \in Seq(Byte), NEW b \in Seq(Byte), Whole(s, a, b),
           GoesOnWith(frame, "REASONING", a), GoesOnWith(frame, "CONTENT", b),
           (frame.stream # 0 /\ frame.op = "TOOL_CALL") => WellFormed(frame.delta),
           NEW done, done = Dispatch(s, frame)
    PROVE  /\ done.raised # "UnicodeDecodeError"
           /\ Whole(done.session, a \o TextOf(frame, "REASONING"),
                    b \o TextOf(frame, "CONTENT"))
<1>1. /\ "reasoning" \in Texts /\ "reasoningPending" \in Texts
      /\ "content" \in Texts /\ "contentPending" \in Texts
      /\ "reasoning" # "reasoningPending" /\ "content" # "contentPending"
      /\ "reasoning" # "content" /\ "reasoning" # "contentPending"
      /\ "reasoningPending" # "content" /\ "reasoningPending" # "contentPending"
    BY DEF Texts
<1>2. /\ a \o <<>> = a /\ b \o <<>> = b
      /\ "REASONING" # "CONTENT" /\ "none" # "UnicodeDecodeError"
    BY ConcatEmptySeq
<1>3. CASE frame.stream # 0 /\ frame.op = "REASONING"
  <2>1. done = TextStep(s, "reasoning", "reasoningPending", frame)
      BY <1>3 DEF Dispatch
  <2>2. Partial(a \o frame.data) /\ (frame.boundary => Closed(a \o frame.data))
      BY <1>3, Zenon DEF GoesOnWith
  <2>3. Stepped(s, done, "reasoning", "reasoningPending", a \o frame.data)
      BY <1>1, <2>1, <2>2, TextStepHolds, Zenon DEF Whole
  <2>4. TextOf(frame, "REASONING") = frame.data /\ TextOf(frame, "CONTENT") = <<>>
      BY <1>2, <1>3, Zenon DEF TextOf
  <2> QED BY <1>1, <1>2, <2>3, <2>4, Zenon DEF Stepped, Whole
<1>4. CASE frame.stream # 0 /\ frame.op = "CONTENT"
  <2>1. done = TextStep(s, "content", "contentPending", frame)
      BY <1>4 DEF Dispatch
  <2>2. Partial(b \o frame.data) /\ (frame.boundary => Closed(b \o frame.data))
      BY <1>4, Zenon DEF GoesOnWith
  <2>3. Stepped(s, done, "content", "contentPending", b \o frame.data)
      BY <1>1, <2>1, <2>2, TextStepHolds, Zenon DEF Whole
  <2>4. TextOf(frame, "CONTENT") = frame.data /\ TextOf(frame, "REASONING") = <<>>
      BY <1>2, <1>4, Zenon DEF TextOf
  <2> QED BY <1>1, <1>2, <2>3, <2>4, Zenon DEF Stepped, Whole
<1>5. CASE ~(frame.stream # 0 /\ frame.op \in {"REASONING", "CONTENT"})
  <2>1. TextOf(frame, "CONTENT") = <<>> /\ TextOf(frame, "REASONING") = <<>>
      BY <1>5 DEF TextOf
  <2>2. Untouched(s, [raised |-> "none", session |-> s])
      BY DEF Untouched
  <2>3. Untouched(s, ToolStep(s, frame))
      BY ToolUntouched, Zenon
  <2>4. (frame.stream # 0 /\ frame.op = "TOOL_CALL")
            => ToolStep(s, frame).raised # "UnicodeDecodeError"
    <3> SUFFICES ASSUME WellFormed(frame.delta)
                 PROVE  ToolStep(s, frame).raised # "UnicodeDecodeError"
        BY Zenon
    <3>1. ToolStep(s, frame).raised \in {"ValueError", "JSONDecodeError", "none"}
      <4>1. PICK t : t = [s EXCEPT !.active = ActivePy(s.active, frame),
                                   !.completed = @ \o CompletedBy(s.active, frame)]
          OBVIOUS
      <4>2. ToolStep(s, frame) \in {[raised |-> "ValueError", session |-> s],
                                    [raised |-> "JSONDecodeError", session |-> s],
                                    [raised |-> "none", session |-> t]}
          BY <4>1 DEF ToolStep
      <4> QED BY <4>2
    <3> QED BY <3>1
  <2>5. \A field \in {"usage", "metrics", "end"} :
            Untouched(s, Set(s, field, frame)) /\ Set(s, field, frame).raised = "none"
    <3>1. {"usage", "metrics", "end"} \subseteq Fields \ Texts
        BY DEF Texts, Fields
    <3> QED BY <3>1, SetUntouched, Zenon
  <2>6. \/ done = [raised |-> "none", session |-> s]
        \/ done = ToolStep(s, frame) /\ frame.stream # 0 /\ frame.op = "TOOL_CALL"
        \/ \E field \in {"usage", "metrics", "end"} : done = Set(s, field, frame)
      BY <1>5 DEF Dispatch
  <2>7. Untouched(s, done) /\ done.raised # "UnicodeDecodeError"
    <3>1. [raised |-> "none", session |-> s].raised = "none"
        OBVIOUS
    <3> QED BY <1>2, <2>2, <2>3, <2>4, <2>5, <2>6, <3>1, Zenon
  <2> QED BY <1>1, <1>2, <2>1, <2>7, Zenon DEF Untouched, Whole
<1>6. \/ frame.stream # 0 /\ frame.op = "REASONING"
      \/ frame.stream # 0 /\ frame.op = "CONTENT"
      \/ ~(frame.stream # 0 /\ frame.op \in {"REASONING", "CONTENT"})
    OBVIOUS
<1> QED BY <1>3, <1>4, <1>5, <1>6, Zenon

\* The text of a channel, frame by frame.
LEMMA SaidAt ==
    ASSUME NEW s \in Seq(Frame), NEW op, NEW n \in Nat, n = Len(s)
    PROVE  /\ Said(s, op)[0] = <<>>
           /\ \A i \in 1..n : Said(s, op)[i] = Said(s, op)[i - 1] \o TextOf(s[i], op)
           /\ \A i \in 0..n : Said(s, op)[i] \in Seq(Byte)
<1> DEFINE part == [i \in 1..n |-> TextOf(s[i], op)]
<1>1. part \in [1..n -> Seq(Byte)]
  <2> SUFFICES ASSUME NEW i \in 1..n PROVE TextOf(s[i], op) \in Seq(Byte)
      OBVIOUS
  <2>1. PICK f \in Frame : f = s[i]
      OBVIOUS
  <2>2. f.data \in Seq(Byte) /\ <<>> \in Seq(Byte)
      BY DEF Frame, Byte
  <2> QED BY <2>1, <2>2, Zenon DEF TextOf
<1>2. \E c : Chained(c, n, part)
    BY ChainExists, Zenon
<1>3. PICK t : t = Said(s, op)
    OBVIOUS
<1>4. Chained(t, n, part)
  <2>1. \A c : Chained(c, n, part) <=>
            c = [i \in 0..n |-> IF i = 0 THEN <<>> ELSE c[i - 1] \o TextOf(s[i], op)]
    <3> SUFFICES ASSUME NEW c
                 PROVE  [i \in 0..n |-> IF i = 0 THEN <<>> ELSE c[i - 1] \o part[i]]
                      = [i \in 0..n |-> IF i = 0 THEN <<>>
                                        ELSE c[i - 1] \o TextOf(s[i], op)]
        BY Zenon DEF Chained
    <3>1. ASSUME NEW i \in 0..n, i # 0 PROVE part[i] = TextOf(s[i], op)
      <4>1. i \in 1..n
          BY <3>1
      <4> QED BY <4>1
    <3> HIDE DEF part
    <3> QED BY <3>1, Zenon
  <2>2. t = CHOOSE c : c = [i \in 0..n |-> IF i = 0 THEN <<>>
                                           ELSE c[i - 1] \o TextOf(s[i], op)]
      BY <1>3, Zenon DEF Said
  <2> HIDE DEF part
  <2> QED BY <1>2, <2>1, <2>2, Zenon
<1>5. t[0] = <<>>
  <2>1. 0 \in 0..n
      OBVIOUS
  <2> QED BY <1>4, <2>1, Zenon DEF Chained
<1>6. ASSUME NEW i \in 1..n PROVE t[i] = t[i - 1] \o TextOf(s[i], op)
  <2>1. i \in 0..n /\ i # 0 /\ part[i] = TextOf(s[i], op)
      OBVIOUS
  <2> HIDE DEF part
  <2> QED BY <1>4, <2>1, Zenon DEF Chained
<1>7. ASSUME NEW i \in 0..n PROVE t[i] \in Seq(Byte)
  <2> HIDE DEF part
  <2>1. \A j \in 0..n : Joins(t, part, Byte, j)
      BY <1>1, <1>4, ChainAt, Zenon
  <2> QED BY <2>1, Zenon DEF Joins
<1> QED BY <1>3, <1>5, <1>6, <1>7, Zenon

\* Behind i frames of a truthful script the variables hold its texts so far,
\* and the next frame is decoded.
TextsAt(s, i) ==
    /\ SessionOK(After(s)[i])
    /\ Whole(After(s)[i], Said(s, "REASONING")[i], Said(s, "CONTENT")[i])

Decodes(s, i) == Dispatch(After(s)[i - 1], s[i]).raised # "UnicodeDecodeError"

\* Frame i is decoded and goes on with the texts.
LEMMA TextsGoOn ==
    ASSUME NEW s \in Seq(Frame), Truthful(s), NEW i \in 1..Len(s), TextsAt(s, i - 1)
    PROVE  TextsAt(s, i) /\ Decodes(s, i)
<1>1. PICK n \in Nat : n = Len(s)
    OBVIOUS
<1>2. i \in 1..n /\ i - 1 \in 0..n /\ i \in 0..n
    BY <1>1
<1>3. PICK frame \in Frame : frame = s[i]
    OBVIOUS
<1>4. PICK t : t = After(s)[i - 1]
    OBVIOUS
<1>5. PICK done : done = Dispatch(t, frame)
    OBVIOUS
<1>6. After(s)[i] = done.session
    BY <1>1, <1>2, <1>3, <1>4, <1>5, AfterAt, Zenon
<1>7. PICK a \in Seq(Byte) : a = Said(s, "REASONING")[i - 1]
  <2>1. Said(s, "REASONING")[i - 1] \in Seq(Byte)
      BY <1>1, <1>2, SaidAt, Zenon
  <2> QED BY <2>1
<1>8. PICK b \in Seq(Byte) : b = Said(s, "CONTENT")[i - 1]
  <2>1. Said(s, "CONTENT")[i - 1] \in Seq(Byte)
      BY <1>1, <1>2, SaidAt, Zenon
  <2> QED BY <2>1
<1>9. /\ Said(s, "REASONING")[i] = a \o TextOf(frame, "REASONING")
      /\ Said(s, "CONTENT")[i] = b \o TextOf(frame, "CONTENT")
    BY <1>1, <1>2, <1>3, <1>7, <1>8, SaidAt, Zenon
<1>10. frame.stream # 0 =>
         /\ frame.op \in {"REASONING", "CONTENT"} =>
               /\ Partial(Said(s, frame.op)[i])
               /\ frame.boundary => Closed(Said(s, frame.op)[i])
         /\ frame.op = "TOOL_CALL" => WellFormed(frame.delta)
    BY <1>3, Zenon DEF Truthful
<1>11. GoesOnWith(frame, "REASONING", a)
  <2> SUFFICES ASSUME frame.stream # 0, frame.op = "REASONING"
               PROVE  Partial(a \o frame.data) /\ (frame.boundary => Closed(a \o frame.data))
      BY Zenon DEF GoesOnWith
  <2>1. Said(s, frame.op)[i] = a \o frame.data
      BY <1>9, Zenon DEF TextOf
  <2>2. frame.op \in {"REASONING", "CONTENT"}
      OBVIOUS
  <2> QED BY <1>10, <2>1, <2>2, Zenon
<1>12. GoesOnWith(frame, "CONTENT", b)
  <2> SUFFICES ASSUME frame.stream # 0, frame.op = "CONTENT"
               PROVE  Partial(b \o frame.data) /\ (frame.boundary => Closed(b \o frame.data))
      BY Zenon DEF GoesOnWith
  <2>1. Said(s, frame.op)[i] = b \o frame.data
      BY <1>9, Zenon DEF TextOf
  <2>2. frame.op \in {"REASONING", "CONTENT"}
      OBVIOUS
  <2> QED BY <1>10, <2>1, <2>2, Zenon
<1>13. SessionOK(t) /\ Whole(t, a, b)
    BY <1>4, <1>7, <1>8, Zenon DEF TextsAt
<1>14. /\ done.raised # "UnicodeDecodeError"
       /\ Whole(done.session, a \o TextOf(frame, "REASONING"), b \o TextOf(frame, "CONTENT"))
    BY <1>5, <1>10, <1>11, <1>12, <1>13, DispatchHolds, Zenon
<1>15. SessionOK(done.session)
    BY <1>5, <1>13, DispatchFine, Zenon DEF Fine
<1> QED BY <1>3, <1>4, <1>5, <1>6, <1>9, <1>14, <1>15, Zenon DEF TextsAt, Decodes

\* No frame of a truthful script raises in the decoder.
LEMMA ScriptDecodes ==
    ASSUME NEW s \in Seq(Frame), Truthful(s)
    PROVE  \A i \in 1..Len(s) : Decodes(s, i)
<1>1. PICK n \in Nat : n = Len(s)
    OBVIOUS
<1>2. TextsAt(s, 0)
  <2>1. PICK t : t = NewSession
      OBVIOUS
  <2>2. After(s)[0] = t
      BY <1>1, <2>1, AfterAt, Zenon
  <2>3. Said(s, "REASONING")[0] = <<>> /\ Said(s, "CONTENT")[0] = <<>>
      BY <1>1, SaidAt, Zenon
  <2>4. SessionOK(t)
    <3>1. t = [f \in Fields |-> t[f]]
        BY <2>1 DEF NewSession, Fields
    <3>2. \A f \in Texts : t[f] = <<>>
        BY <2>1 DEF NewSession, Texts
    <3>3. <<>> \in Seq(Byte)
        OBVIOUS
    <3> QED BY <3>1, <3>2, <3>3, Zenon DEF SessionOK
  <2>5. Holds(<<>>, <<>>, <<>>)
    <3>1. <<>> \in Seq(Byte) /\ <<>> \o <<>> = <<>>
        OBVIOUS
    <3>2. WellFormed(<<>>)
        BY EmptyPartial DEF WellFormed, Closed
    <3> QED BY <3>1, <3>2, Zenon DEF Holds
  <2>6. /\ t["reasoning"] = <<>> /\ t["reasoningPending"] = <<>>
        /\ t["content"] = <<>> /\ t["contentPending"] = <<>>
      BY <2>1 DEF NewSession
  <2> QED BY <2>2, <2>3, <2>4, <2>5, <2>6, Zenon DEF TextsAt, Whole
<1>3. \A i \in 0..n : TextsAt(s, i)
  <2> DEFINE Good == {i \in Nat : i <= n => TextsAt(s, i)}
  <2>1. 0 \in Good
      BY <1>2
  <2>2. ASSUME NEW i \in Nat, i \in Good PROVE i + 1 \in Good
    <3> SUFFICES ASSUME i + 1 <= n PROVE TextsAt(s, i + 1)
        OBVIOUS
    <3>1. i + 1 \in 1..n /\ (i + 1) - 1 = i /\ TextsAt(s, i)
        BY <2>2
    <3>2. i + 1 \in 1..Len(s) /\ TextsAt(s, (i + 1) - 1)
        BY <1>1, <3>1, Zenon
    <3> QED BY <3>2, TextsGoOn, Zenon
  <2>3. \A i \in Nat : i \in Good
    <3> HIDE DEF Good
    <3> QED BY <2>1, <2>2, Inductive
  <2> QED BY <2>3
<1>4. ASSUME NEW i \in 1..n PROVE Decodes(s, i)
  <2>1. i - 1 \in 0..n /\ i \in 1..Len(s)
      BY <1>1
  <2> QED BY <1>3, <2>1, TextsGoOn, Zenon
<1> QED BY <1>1, <1>4, Zenon

\* Texts may be cut in the middle of characters, wherever a frame does not
\* promise a whole one: the demo never raises for one it cannot decode.
THEOREM AlwaysDecodable ==
    ASSUME \A s \in Scripts : Truthful(s)
    PROVE  Spec => []NeverUndecodable
<1>1. Init => NeverUndecodable
  <2>1. "none" # "UnicodeDecodeError"
      OBVIOUS
  <2> QED BY <2>1, Zenon DEF Init, ClientInit, NeverUndecodable
<1>2. ASSUME IInv, Course, NeverUndecodable, [Next]_vars PROVE NeverUndecodable'
  <2>1. CASE Quiet \/ First
      BY <1>2, <2>1 DEF Quiet, First, NeverUndecodable
  <2>2. ASSUME NEW h, Behind1(h) PROVE NeverUndecodable'
    <3>1. /\ pc \in Running /\ h \in 1..Len(script) /\ h = Len(handled)
          /\ handled # <<>> /\ HandleFrame(script[h])
        BY <2>2, Zenon DEF Behind1, Next1
    <3>2. session = After(script)[h - 1]
        BY <1>2, <3>1, Zenon DEF Course, Shown
    <3>3. script \in Seq(Frame) /\ Truthful(script)
        BY <1>2, SentAt, Zenon DEF IInv, Server
    <3>4. Decodes(script, h)
        BY <3>1, <3>3, ScriptDecodes, Zenon
    <3>5. PICK e : e = Dispatch(session, script[h]).raised /\ e # "UnicodeDecodeError"
        BY <3>2, <3>4, Zenon DEF Decodes
    <3>6. error' \in {error, e, "AssertionError"}
        BY <3>1, <3>5 DEF HandleFrame, Verdict, Raised
    <3> QED BY <1>2, <3>5, <3>6 DEF NeverUndecodable
  <2> QED BY <1>2, <2>1, <2>2, StepHandles, Zenon
<1>3. (IInv /\ Course /\ NeverUndecodable /\ [Next]_vars) => NeverUndecodable'
    BY <1>2
<1> QED BY <1>1, <1>3, OnCourse, Invariance, PTL DEF Spec

------------------------------------------------------------------------------
(* Failures *)

\* Nothing has gone wrong with what the demo reads from.
Lucky == ~(overread \/ short \/ closed)

\* With an extended length the demo reads on behind its two bytes.
InPlace == (Lucky /\ pc = "body" /\ Short <= sent[Len(handled) + 1].size)
               => down[bodyFrom - 1].kind = "ext"

\* What the demo reads on behind is the header of the next frame.
BehindHead(b, x, l) == b = x + l

\* Frame h + 1, of z bytes, behind x cells of the first n.
FrameAt(x, z, h, n) ==
    \A k \in 1..(HeadLen(z) + z) : x + k <= n => down[x + k] = Plain(z, h + 1)[k]

\* The byte before the b-th is one of an extended length, if there is one.
ReadExtended(b, z) == Short <= z => down[b - 1].kind = "ext"

\* The only such byte is the last of a header, so that b cells end with it.
LEMMA BodyInPlace ==
    ASSUME NEW x \in Nat, NEW z \in Nat \ {0}, NEW h \in Nat, NEW n \in Nat,
           FrameAt(x, z, h, n), NEW l \in {2, 4}, l = HeadLen(z),
           NEW b \in (x + 2)..(x + l), b <= n, ReadExtended(b, z)
    PROVE  BehindHead(b, x, l)
<1> SUFFICES b = x + l
    BY Zenon DEF BehindHead
<1>0. \A k \in 1..(l + z) : x + k <= n => down[x + k] = Plain(z, h + 1)[k]
    BY Zenon DEF FrameAt
<1>1. z < Short => l = 2
    BY FramingAssumption DEF HeadLen
<1>2. CASE z < Short
    BY <1>1, <1>2
<1>3. CASE Short <= z
  <2>1. l = 4
      BY <1>3, FramingAssumption DEF HeadLen
  <2>2. /\ Plain(z, h + 1)[1] = Cell("op", 0, FALSE, h + 1, FALSE)
        /\ Plain(z, h + 1)[2]
               = Cell("len", IF z < Short THEN z ELSE Short, FALSE, h + 1, FALSE)
    <3>1. h + 1 \in Nat /\ z \in Nat
        OBVIOUS
    <3> QED BY <3>1, FramedAt, Zenon
  <2>3. Plain(z, h + 1)[1].kind # "ext" /\ Plain(z, h + 1)[2].kind # "ext"
    <3>1. PICK v : v = IF z < Short THEN z ELSE Short
        OBVIOUS
    <3>2. PICK o : o = Cell("op", 0, FALSE, h + 1, FALSE)
        OBVIOUS
    <3>3. PICK e : e = Cell("len", v, FALSE, h + 1, FALSE)
        OBVIOUS
    <3>4. o.kind # "ext" /\ e.kind # "ext"
        BY <3>2, <3>3 DEF Cell
    <3> QED BY <2>2, <3>1, <3>2, <3>3, <3>4, Zenon
  <2>4. ASSUME NEW k \in {1, 2}, b - 1 = x + k PROVE FALSE
    <3>1. k \in 1..(l + z) /\ x + k <= n
        BY <2>4
    <3>2. down[x + k] = Plain(z, h + 1)[k]
        BY <1>0, <3>1, Zenon
    <3>3. down[x + k].kind = "ext"
        BY <1>3, <2>4, Zenon DEF ReadExtended
    <3> QED BY <2>3, <2>4, <3>2, <3>3, Zenon
  <2>5. b - 1 # x + 1 /\ b - 1 # x + 2
      BY <2>4
  <2> QED BY <2>1, <2>5
<1> QED BY <1>2, <1>3, FramingAssumption

\* Behind it lies the data of the next frame, whole.
WholeFrame(cells, h) ==
    /\ h < Len(sent) /\ need # 0 /\ cells[1].msg = h + 1
    /\ IsMessage(cells, sent[h + 1].size, h + 1)

\* A demo in its place has read it once it has all it needs.
LEMMA DataArrived ==
    ASSUME IInv, InPlace, Lucky, NEW pos, Wire(pos), Reader(pos), pc = "body",
           taken - bodyFrom = need,
           NEW cells, cells = SubSeq(down, bodyFrom + 1, taken)
    PROVE  WholeFrame(cells, Len(handled))
<1>1. pc \in {"head", "ext", "body"}
    OBVIOUS
<1>2. PICK h \in Nat : h = Len(handled)
    BY <1>1, ReaderAt, Zenon
<1>3. /\ sent \in Seq(Frame) /\ down \in Seq(CellType) /\ Len(down) \in Nat
      /\ arrived \in Nat /\ arrived <= Len(down)
      /\ taken \in Nat /\ taken <= arrived /\ bodyFrom \in Nat /\ need \in Nat
      /\ bodyFrom <= taken /\ Place(pos, sent, h)
    BY <1>1, <1>2, ReaderAt, Zenon
<1>4. /\ h < Len(sent)
      /\ bodyFrom \in (pos[h] + 2)..(pos[h] + HeadLen(sent[h + 1].size))
      /\ bodyFrom = pos[h] + HeadLen(sent[h + 1].size) => need = sent[h + 1].size
    BY <1>3, Zenon DEF Place
<1>5. PICK x \in Nat, z \in Nat \ {0} : NextFrame(pos, h, x, z)
    BY <1>3, <1>4, CellAt, Zenon
<1>6. /\ x = pos[h] /\ x >= 2 /\ z = sent[h + 1].size
      /\ pos[h + 1] = x + Span(z) /\ Span(z) = HeadLen(z) + z /\ HeadLen(z) \in {2, 4}
      /\ \A k \in 1..Span(z) : x + k <= Len(down) => down[x + k] = Plain(z, h + 1)[k]
    BY <1>5, Zenon DEF NextFrame
<1>7. PICK l \in {2, 4} : l = HeadLen(z)
    BY <1>6
<1>8. PICK n \in Nat : n = Len(down)
    BY <1>3
<1>9. \A k \in 1..(l + z) : x + k <= n => down[x + k] = Plain(z, h + 1)[k]
    BY <1>6, <1>7, <1>8, Zenon
<1>10. bodyFrom = x + l
  <2>1. PICK b \in Nat : b = bodyFrom
      BY <1>3
  <2>2. b \in (x + 2)..(x + l)
      BY <1>4, <1>6, <1>7, <2>1, Zenon
  <2>3. b <= n
      BY <1>3, <1>8, <2>1
  <2>4. ReadExtended(b, z)
      BY <1>2, <1>6, <2>1, Zenon DEF InPlace, ReadExtended
  <2>5. FrameAt(x, z, h, n)
      BY <1>7, <1>9, Zenon DEF FrameAt
  <2>6. BehindHead(b, x, l)
      BY <1>7, <2>5, <2>2, <2>3, <2>4, BodyInPlace, Zenon
  <2> QED BY <2>1, <2>6, Zenon DEF BehindHead
<1>11. need = z
    BY <1>4, <1>6, <1>7, <1>10, Zenon
<1>12. PICK d : d = DataCells(z, h + 1)
    OBVIOUS
<1>13. h + 1 \in Nat /\ z \in Nat
    OBVIOUS
<1>14. d \in Seq(CellType) /\ Len(d) = z
    BY <1>12, <1>13, DataAt, Zenon
<1>15. \A k \in 1..z : down[(x + l) + k] = d[k]
  <2> SUFFICES ASSUME NEW k \in 1..z PROVE down[(x + l) + k] = d[k]
      OBVIOUS
  <2>1. l + k \in 1..(l + z) /\ x + (l + k) = (x + l) + k
      OBVIOUS
  <2>2. x + (l + k) <= n
      BY <1>3, <1>8, <1>10, <1>11
  <2>3. Plain(z, h + 1)[HeadLen(z) + k] = DataCells(z, h + 1)[k]
      BY <1>13, FramedAt, ZenonT(60)
  <2> QED BY <1>7, <1>9, <1>12, <2>1, <2>2, <2>3, Zenon
<1>16. cells = d
  <2>1. taken = (x + l) + z /\ (x + l) + z <= Len(down)
      BY <1>3, <1>10, <1>11
  <2>2. PICK c : c = SubSeq(down, (x + l) + 1, (x + l) + z)
      OBVIOUS
  <2>3. c \in Seq(CellType) /\ Len(c) = z
      BY <1>3, <2>1, <2>2
  <2>4. \A k \in 1..z : c[k] = down[(x + l) + k]
      BY <1>3, <2>1, <2>2
  <2>5. \A k \in 1..z : c[k] = d[k]
      BY <1>15, <2>4, Zenon
  <2>6. c = d
      BY <1>14, <2>3, <2>5
  <2> QED BY <1>10, <2>1, <2>2, <2>6, Zenon
<1>17. cells[1].msg = h + 1
  <2>1. 1 \in 1..z
      OBVIOUS
  <2>2. d[1] = DataCell(1, z, h + 1)
      BY <1>12, <1>13, <2>1, DataAt, Zenon
  <2>3. PICK last : DataCell(1, z, h + 1) = Cell("data", 1, FALSE, h + 1, last)
      BY Zenon DEF DataCell
  <2>4. Cell("data", 1, FALSE, h + 1, last).msg = h + 1
      BY DEF Cell
  <2> QED BY <1>16, <2>2, <2>3, <2>4, Zenon
<1>18. need # 0
    BY <1>11
<1> QED BY <1>2, <1>4, <1>6, <1>12, <1>16, <1>17, <1>18, Zenon DEF WholeFrame, IsMessage

\* A frame of a transcript that is expected does not end the demo otherwise
\* than with its success.
LEMMA HandledWell ==
    ASSUME Server, Accepted(script), NEW h \in 1..Len(script),
           session = After(script)[h - 1], HandleFrame(script[h])
    PROVE  pc' \in {"head", "passed"}
<1>1. PICK n \in Nat : n = Len(script)
    BY SentAt
<1>2. PICK frame : frame = script[h]
    OBVIOUS
<1>3. PICK done : done = Dispatch(session, frame)
    OBVIOUS
<1>4. done.raised = "none"
    BY <1>2, <1>3, Zenon DEF Accepted
<1>5. done.session = After(script)[h]
    BY <1>1, <1>2, <1>3, AfterAt, Zenon
<1>6. EndsLoop(frame) => Transcript(done.session)
  <2> SUFFICES ASSUME EndsLoop(frame) PROVE Transcript(done.session)
      OBVIOUS
  <2>1. h = Len(script)
      BY <1>2, DemoAssumption, Zenon DEF Server
  <2> QED BY <1>5, <2>1, Zenon DEF Accepted
<1>7. IF EndsLoop(frame) THEN Verdict(done.session) ELSE pc' = "head" /\ UNCHANGED error
    BY <1>2, <1>3, <1>4, Zenon DEF HandleFrame
<1> QED BY <1>6, <1>7 DEF Verdict

\* So a frame that has been read whole keeps the demo going.
LEMMA RecvAllWell ==
    ASSUME IInv, InPlace, Course, Lucky, Accepted(script), RecvAll
    PROVE  pc' \in {"head", "passed"} \/ closed'
<1>1. PICK pos : Wire(pos) /\ Reader(pos)
    BY Zenon DEF IInv
<1>2. /\ pc = "body" /\ pc \in {"head", "ext", "body"} /\ taken - bodyFrom = need
    BY DEF RecvAll
<1>3. PICK h \in Nat : h = Len(handled)
    BY <1>1, <1>2, ReaderAt, Zenon
<1>4. /\ sent \in Seq(Frame) /\ HandledOf(sent, h) /\ pc \in Running /\ upgraded
    BY <1>1, <1>2, <1>3, ReaderAt, Zenon
<1>5. established <=> handled # <<>>
    BY <1>1, <1>2, ReaderAt, Zenon
<1>6. Server
    BY Zenon DEF IInv
<1>7. PICK cells : cells = SubSeq(down, bodyFrom + 1, taken)
    OBVIOUS
<1>8. WholeFrame(cells, h)
    BY <1>1, <1>2, <1>3, <1>7, DataArrived, Zenon
<1>9. PICK m : m = cells[1].msg
    OBVIOUS
<1>10. h < Len(sent) /\ need # 0 /\ m = h + 1 /\ IsMessage(cells, sent[m].size, m)
    BY <1>8, <1>9, Zenon DEF WholeFrame
<1>11. PICK frame \in Frame : frame = sent[h + 1]
    BY <1>4, <1>10
<1>12. IF established THEN HandleFrame(frame) ELSE HandleSettings(frame)
    BY <1>7, <1>9, <1>10, <1>11, Zenon DEF RecvAll
<1>13. CASE established
  <2>1. handled # <<>>
      BY <1>5, <1>13, Zenon
  <2>2. h # 0
    <3>1. SubSeq(sent, 1, 0) = <<>>
        BY <1>4
    <3> QED BY <1>4, <2>1, <3>1, Zenon DEF HandledOf
  <2>3. h \in Nat \ {0}
      BY <2>2
  <2>4. h \in 1..Len(script) /\ sent[h + 1] = script[h]
      BY <1>6, <1>10, <2>3, ScriptBehind, Zenon
  <2>5. session = After(script)[h - 1]
      BY <1>3, <1>4, <2>1, Zenon DEF Course, Shown
  <2>6. HandleFrame(script[h])
      BY <1>11, <1>12, <1>13, <2>4, Zenon
  <2> QED BY <1>6, <2>4, <2>5, <2>6, HandledWell, Zenon
<1>14. CASE ~established
  <2>1. handled = <<>>
      BY <1>5, <1>14, Zenon
  <2>2. h = 0
      BY <1>3, <2>1
  <2>3. frame.op = "SETTINGS"
    <3>1. sent[1] = SettingsFrame
        BY <1>4, <1>6, SentAt, Zenon
    <3>2. h + 1 = 1
        BY <2>2
    <3> QED BY <1>11, <3>1, <3>2, SettingsAt, Zenon
  <2>4. HandleSettings(frame)
      BY <1>12, <1>14, Zenon
  <2>5. pc' = "head" \/ (closed /\ UNCHANGED serverVars)
      BY <2>3, <2>4, Zenon DEF HandleSettings
  <2>6. UNCHANGED serverVars => closed' = closed
      BY DEF serverVars
  <2> QED BY <2>5, <2>6
<1> QED BY <1>13, <1>14

\* The other ways to read, as long as nothing goes wrong with them: the header,
LEMMA RecvHeadWell ==
    ASSUME IInv, RecvHead, Lucky'
    PROVE  pc' \in {"ext", "body"} /\ InPlace'
<1>1. PICK pos : Wire(pos) /\ Reader(pos)
    BY Zenon DEF IInv
<1>2. pc = "head" /\ pc \in {"head", "ext", "body"}
    BY DEF RecvHead
<1>3. PICK h \in Nat : h = Len(handled)
    BY <1>1, <1>2, ReaderAt, Zenon
<1>4. /\ sent \in Seq(Frame) /\ Len(down) \in Nat
      /\ arrived \in Nat /\ arrived <= Len(down)
      /\ taken \in Nat /\ taken <= arrived
      /\ Available \in Nat /\ Available = arrived - taken
      /\ h <= Len(sent) /\ Place(pos, sent, h)
    BY <1>1, <1>2, <1>3, ReaderAt, Zenon
<1>5. /\ UNCHANGED <<closed, overread, handled, sent, down>> /\ ~overread /\ ~closed
  <2>1. overread' = overread /\ UNCHANGED <<handled, sent, down, closed>>
      BY DEF RecvHead, serverVars
  <2> QED BY <2>1 DEF Lucky
<1>6. Available # 1
  <2>1. short' <=> (short \/ Available = 1)
      BY DEF RecvHead
  <2> QED BY <2>1 DEF Lucky
<1>7. Available # 0
  <2>1. Available > 0
      BY <1>5, Zenon DEF RecvHead, AtEnd
  <2> QED BY <1>4, <2>1
<1>8. ~(Available < 2)
    BY <1>4, <1>6, <1>7
<1>9. taken + 2 <= Len(down) /\ taken + 1 <= Len(down) /\ taken < Len(down)
    BY <1>4, <1>8
<1>10. taken = pos[h]
    BY <1>2, <1>4, <1>5, Zenon DEF Place
<1>11. h < Len(sent)
    BY <1>1, <1>4, <1>9, <1>10, FrameAhead, Zenon
<1>12. PICK x \in Nat, z \in Nat \ {0} : NextFrame(pos, h, x, z)
    BY <1>1, <1>4, <1>11, CellAt, Zenon
<1>13. x = taken /\ z = sent[h + 1].size
    BY <1>10, <1>12, Zenon DEF NextFrame
<1>14. Header(x, z)
    BY <1>4, <1>12, HeaderAt, Zenon
<1>15. down[taken + 1].kind = "op"
       /\ down[taken + 2].n = IF z < Short THEN z ELSE Short
    BY <1>9, <1>13, <1>14, Zenon DEF Header
<1>16. pc' = IF down[taken + 2].n = Short THEN "ext" ELSE "body"
    BY <1>8, <1>15, Zenon DEF RecvHead
<1>17. pc' = "body" => ~(Short <= z)
    BY <1>15, <1>16, FramingAssumption
<1>18. pc' = "body" => ~(Short <= sent'[Len(handled') + 1].size)
    BY <1>3, <1>5, <1>13, <1>17, Zenon
<1> QED BY <1>16, <1>18, Zenon DEF InPlace

\* the extended length,
LEMMA RecvExtendedWell ==
    ASSUME IInv, RecvExtended, Lucky'
    PROVE  pc' = "body" /\ InPlace'
<1>1. PICK pos : Wire(pos) /\ Reader(pos)
    BY Zenon DEF IInv
<1>2. pc = "ext" /\ pc \in {"head", "ext", "body"}
    BY DEF RecvExtended
<1>3. PICK h \in Nat : h = Len(handled)
    BY <1>1, <1>2, ReaderAt, Zenon
<1>4. /\ sent \in Seq(Frame) /\ Len(down) \in Nat
      /\ arrived \in Nat /\ arrived <= Len(down)
      /\ taken \in Nat /\ taken <= arrived
      /\ Available \in Nat /\ Available = arrived - taken
      /\ Place(pos, sent, h)
    BY <1>1, <1>2, <1>3, ReaderAt, Zenon
<1>5. UNCHANGED <<closed, handled, sent, down>> /\ ~closed
  <2>1. UNCHANGED <<handled, sent, down, closed>>
      BY DEF RecvExtended, serverVars
  <2> QED BY <2>1 DEF Lucky
<1>6. Available # 1
  <2>1. short' <=> (short \/ Available = 1)
      BY DEF RecvExtended
  <2> QED BY <2>1 DEF Lucky
<1>7. Available # 0
  <2>1. Available > 0
      BY <1>5, Zenon DEF RecvExtended, AtEnd
  <2> QED BY <1>4, <2>1
<1>8. ~(Available < 2)
    BY <1>4, <1>6, <1>7
<1>9. bodyFrom' = taken + 2 /\ pc' = "body"
    BY <1>8 DEF RecvExtended
<1>10. h < Len(sent) /\ Short <= sent[h + 1].size /\ taken = pos[h] + 2
    BY <1>2, <1>4, Zenon DEF Place
<1>11. PICK x \in Nat, z \in Nat \ {0} : NextFrame(pos, h, x, z)
    BY <1>1, <1>4, <1>10, CellAt, Zenon
<1>12. taken = x + 2 /\ z = sent[h + 1].size
    BY <1>10, <1>11, Zenon DEF NextFrame
<1>13. Header(x, z)
    BY <1>4, <1>11, HeaderAt, Zenon
<1>14. x + 4 <= Len(down)
    BY <1>4, <1>8, <1>12
<1>15. down[x + 3].kind = "ext"
    BY <1>10, <1>12, <1>13, <1>14, Zenon DEF Header
<1>16. bodyFrom' - 1 = x + 3
    BY <1>9, <1>12
<1> QED BY <1>5, <1>9, <1>15, <1>16, Zenon DEF InPlace

\* and the data.
LEMMA RecvSomeWell ==
    ASSUME IInv, InPlace, RecvSome, Lucky'
    PROVE  pc' = "body" /\ InPlace'
<1>1. UNCHANGED <<closed, overread, short, handled, sent, down, bodyFrom>>
    BY DEF RecvSome, serverVars
<1>2. pc = "body" /\ ~closed /\ Lucky
    BY <1>1 DEF RecvSome, Lucky
<1>3. pc' = pc
    BY <1>2, Zenon DEF RecvSome, AtEnd
<1> QED BY <1>1, <1>2, <1>3, Zenon DEF InPlace

\* The server and the network do not change what the demo reads from.
LEMMA ServerWell ==
    ASSUME IInv, InPlace, Serve \/ Arrive \/ Close, UNCHANGED clientVars
    PROVE  InPlace'
<1>1. UNCHANGED <<pc, overread, short, handled, bodyFrom>>
    BY DEF clientVars
<1>2. SUFFICES ASSUME Lucky', pc = "body" PROVE InPlace'
    BY <1>1, Zenon DEF InPlace
<1>3. closed' <=> (closed \/ Close)
    BY DEF Serve, Upgrade, Data, TakeFrame, LeaveLoop, Arrive, Close
<1>4. Lucky /\ ~Close
    BY <1>1, <1>2, <1>3 DEF Lucky
<1>5. PICK pos : Wire(pos) /\ Reader(pos)
    BY Zenon DEF IInv
<1>6. pc \in {"head", "ext", "body"}
    BY <1>2
<1>7. PICK h \in Nat : h = Len(handled)
    BY <1>5, <1>6, ReaderAt, Zenon
<1>8. /\ sent \in Seq(Frame) /\ down \in Seq(CellType) /\ Len(down) \in Nat
      /\ arrived \in Nat /\ arrived <= Len(down) /\ upgraded
      /\ taken \in Nat /\ taken <= arrived /\ bodyFrom \in Nat /\ bodyFrom <= taken
      /\ Place(pos, sent, h)
    BY <1>5, <1>6, <1>7, ReaderAt, Zenon
<1>9. h < Len(sent)
    BY <1>2, <1>8, Zenon DEF Place
<1>10. PICK x \in Nat, z \in Nat \ {0} : NextFrame(pos, h, x, z)
    BY <1>5, <1>8, <1>9, CellAt, Zenon
<1>11. x >= 2 /\ x = pos[h] /\ HeadLen(z) \in {2, 4} /\ z = sent[h + 1].size
    BY <1>10, Zenon DEF NextFrame
<1>12. bodyFrom \in (x + 2)..(x + HeadLen(z))
    BY <1>2, <1>8, <1>11, Zenon DEF Place
<1>13. bodyFrom - 1 \in 1..Len(down)
    BY <1>8, <1>11, <1>12
<1>14. h + 1 \in 1..Len(sent)
    BY <1>8, <1>9
<1>15. sent'[h + 1] = sent[h + 1] /\ down'[bodyFrom - 1] = down[bodyFrom - 1]
  <2>1. CASE TakeFrame
    <3>1. Server
        BY Zenon DEF IInv
    <3>2. ServerWrites(<<>>, script)
        BY <1>8, <2>1, <3>1, TakesOpen, Zenon
    <3>3. PICK s \in Seq(Frame) : s = script
        BY <3>1, SentAt, Zenon
    <3>4. PICK base \in Nat : base = Len(sent)
        BY <1>8
    <3>5. PICK w \in Seq(CellType) : w = Written(s)
        BY <3>4, WrittenAt, Zenon
    <3>6. down' = (down \o <<>>) \o w /\ sent' = sent \o s
        BY <3>2, <3>3, <3>5, Zenon DEF ServerWrites
    <3> QED BY <1>8, <1>13, <1>14, <3>6
  <2>2. CASE UNCHANGED <<sent, down>>
      BY <2>2
  <2>3. TakeFrame \/ UNCHANGED <<sent, down>>
      BY <1>4, <1>8 DEF Serve, Upgrade, Data, LeaveLoop, Arrive
  <2> QED BY <2>1, <2>2, <2>3
<1>16. bodyFrom' - 1 = bodyFrom - 1 /\ Len(handled') + 1 = h + 1
    BY <1>1, <1>7, Zenon
<1> QED BY <1>1, <1>2, <1>4, <1>7, <1>15, <1>16, Zenon DEF InPlace

\* A demo that has not failed fails in none of these.
Sound == FailsOnlyByReading /\ InPlace

\* No step makes it fail.
LEMMA SoundKeeps ==
    ASSUME IInv, Course, Accepted(script), Sound, [Next]_vars
    PROVE  Sound'
<1> DEFINE Failed == {"raised", "spinning", "misread"}
<1>1. SUFFICES ASSUME Lucky' PROVE pc' \notin Failed /\ InPlace'
  <2>1. (~Lucky)' => Sound'
      BY DEF Sound, Lucky, FailsOnlyByReading, InPlace
  <2>2. pc' \notin Failed => FailsOnlyByReading'
      BY Zenon DEF FailsOnlyByReading
  <2> QED BY <2>1, <2>2, Zenon DEF Sound
<1>2. CASE Demo
  <2>1. (overread \/ short \/ closed) => (overread' \/ short' \/ closed') \/ RecvResponse
      BY <1>2 DEF Demo, SendUpgrade, ClientSends, RecvHead, RecvExtended, RecvAll,
                  RecvSome, HandleFrame, HandleSettings, serverVars
  <2>2. CASE SendUpgrade
      BY <2>2 DEF SendUpgrade, InPlace
  <2>3. CASE RecvResponse
    <3>1. closed' = closed
        BY <2>3 DEF RecvResponse, serverVars
    <3>2. ~AtEnd
        BY <1>1, <3>1, Zenon DEF Lucky, AtEnd
    <3>3. pc' \in {"head", "handshake"}
        BY <2>3, <3>2 DEF RecvResponse
    <3> QED BY <3>3 DEF InPlace
  <2>4. CASE RecvHead
    <3>1. pc' \in {"ext", "body"} /\ InPlace'
        BY <1>1, <2>4, RecvHeadWell, Zenon
    <3> QED BY <3>1
  <2>5. CASE RecvExtended
    <3>1. pc' = "body" /\ InPlace'
        BY <1>1, <2>5, RecvExtendedWell, Zenon
    <3> QED BY <3>1
  <2>6. CASE RecvSome
    <3>1. pc' = "body" /\ InPlace'
        BY <1>1, <2>6, RecvSomeWell, Zenon DEF Sound
    <3> QED BY <3>1
  <2>7. CASE RecvAll
    <3>1. ~RecvResponse
        BY <2>7 DEF RecvAll, RecvResponse
    <3>2. Lucky
        BY <1>1, <2>1, <3>1, Zenon DEF Lucky
    <3>3. pc' \in {"head", "passed"} \/ closed'
        BY <2>7, <3>2, RecvAllWell, Zenon DEF Sound
    <3>4. pc' \in {"head", "passed"}
        BY <1>1, <3>3, Zenon DEF Lucky
    <3> QED BY <3>4 DEF InPlace
  <2> QED BY <1>2, <2>2, <2>3, <2>4, <2>5, <2>6, <2>7, Zenon DEF Demo
<1>3. CASE (Serve \/ Arrive \/ Close) /\ UNCHANGED clientVars
  <2>1. InPlace'
      BY <1>3, ServerWell, Zenon DEF Sound
  <2>2. pc' = pc /\ overread' = overread /\ short' = short /\ (closed => closed')
      BY <1>3 DEF clientVars, Serve, Upgrade, Data, TakeFrame, LeaveLoop, Arrive, Close
  <2> QED BY <1>1, <2>1, <2>2, Zenon DEF Sound, FailsOnlyByReading, Lucky
<1>4. CASE UNCHANGED vars
    BY <1>1, <1>4 DEF vars, clientVars, serverVars, Sound, FailsOnlyByReading, InPlace,
                       Lucky
<1> QED BY <1>2, <1>3, <1>4, Zenon DEF Next

\* With a transcript it expects, the demo fails only where recv(2) returned one
\* byte, the handshake took more than the response, or the server died.
THEOREM FailsByReading ==
    ASSUME \A s \in Scripts : Accepted(s)
    PROVE  Spec => []FailsOnlyByReading
<1>1. Init => Sound
    BY DEF Init, ClientInit, Sound, FailsOnlyByReading, InPlace
<1>2. IInv => Accepted(script)
    BY Zenon DEF IInv, Server
<1>3. IInv /\ Course /\ Sound /\ [Next]_vars => Sound'
    BY <1>2, SoundKeeps, Zenon
<1>4. Sound => FailsOnlyByReading
    BY Zenon DEF Sound
<1> QED BY <1>1, <1>3, <1>4, OnCourse, Invariance, PTL DEF Spec

==============================================================================
