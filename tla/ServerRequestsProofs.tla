------------------------ MODULE ServerRequestsProofs ------------------------
(***************************************************************************)
(* Theorems about the receive loop of the mock server: whatever frames a   *)
(* client sends, and however they are cut and joined, it takes them out    *)
(* whole, each once and in order.                                          *)
(*                                                                         *)
(* The inductive invariant places the requests in the stream of the client *)
(* and the loop at the beginning of the first it has not taken.            *)
(***************************************************************************)
EXTENDS ServerRequests, SequenceTheorems, TLAPS

------------------------------------------------------------------------------
(* The cells of frames *)

\* What the header of a frame of n bytes takes, and the whole frame.
HeadLen(n) == IF n < Short THEN 2 ELSE 4
Span(n) == HeadLen(n) + n

Kinds == {"http", "op", "len", "ext", "mask", "data"}

CellType == [kind : Kinds, n : Nat, masked : BOOLEAN, msg : Nat, last : BOOLEAN]

\* A frame of the server, message m, and a cell of its data.
Plain(n, m) == Framed(n, FALSE, m)
DataCell(k, n, m) == Cell("data", k, FALSE, m, k = n)

\* The two bytes of an extended length carry it.
LEMMA LengthRead ==
    ASSUME NEW n \in Nat
    PROVE  /\ n \div Base \in Nat /\ n % Base \in Nat
           /\ BigEndian(n \div Base, n % Base) = n
  BY FramingAssumption DEF BigEndian

\* The cells.
LEMMA CellInType ==
    ASSUME NEW kind \in Kinds, NEW n \in Nat, NEW masked \in BOOLEAN, NEW m \in Nat,
           NEW last \in BOOLEAN
    PROVE  Cell(kind, n, masked, m, last) \in CellType
  BY DEF Cell, CellType

\* A function on 1..n is a sequence.
LEMMA FunctionSeq ==
    ASSUME NEW T, NEW n \in Nat, NEW g \in [1..n -> T]
    PROVE  g \in Seq(T) /\ Len(g) = n
  OBVIOUS

\* What its data cells are.
LEMMA DataAt ==
    ASSUME NEW n \in Nat, NEW m \in Nat
    PROVE  /\ DataCells(n, m) \in Seq(CellType) /\ Len(DataCells(n, m)) = n
           /\ \A k \in 1..n : DataCells(n, m)[k] = DataCell(k, n, m)
<1>1. DataCells(n, m) = [k \in 1..n |-> DataCell(k, n, m)]
    BY DEF DataCells, DataCell
<1>2. ASSUME NEW k \in 1..n PROVE DataCell(k, n, m) \in CellType
  <2>1. k \in Nat /\ (k = n) \in BOOLEAN /\ FALSE \in BOOLEAN /\ "data" \in Kinds
      BY DEF Kinds
  <2> QED BY <2>1, CellInType, Zenon DEF DataCell
<1>3. PICK g \in [1..n -> CellType] : g = DataCells(n, m)
    BY <1>1, <1>2
<1>4. g \in Seq(CellType) /\ Len(g) = n
    BY <1>3
<1>5. \A k \in 1..n : DataCells(n, m)[k] = DataCell(k, n, m)
    BY <1>1, Zenon
<1> QED BY <1>3, <1>4, <1>5

\* w is u behind s.
Behind(w, s, u) ==
    /\ Len(w) = Len(s) + Len(u)
    /\ \A i \in 1..Len(s) : w[i] = s[i]
    /\ \A i \in 1..Len(u) : w[Len(s) + i] = u[i]

\* One sequence behind another.
LEMMA BehindAt ==
    ASSUME NEW T, NEW s \in Seq(T), NEW u \in Seq(T)
    PROVE  s \o u \in Seq(T) /\ Behind(s \o u, s, u)
  BY DEF Behind

\* A sequence of two.
LEMMA PairAt ==
    ASSUME NEW T, NEW a \in T, NEW b \in T
    PROVE  /\ <<a, b>> \in Seq(T) /\ Len(<<a, b>>) = 2
           /\ <<a, b>>[1] = a /\ <<a, b>>[2] = b
  OBVIOUS

\* The extended length.
LEMMA ExtendedAt ==
    ASSUME NEW n \in Nat, NEW m \in Nat
    PROVE  \E e \in Seq(CellType) :
              /\ e = Extended(n, m)
              /\ Len(e) = HeadLen(n) - 2
              /\ Short <= n =>
                    /\ e[1] = Cell("ext", n \div Base, FALSE, m, FALSE)
                    /\ e[2] = Cell("ext", n % Base, FALSE, m, FALSE)
<1>1. CASE n < Short
  <2>1. Extended(n, m) = <<>> /\ HeadLen(n) = 2 /\ ~(Short <= n)
      BY <1>1, FramingAssumption DEF Extended, HeadLen
  <2>2. <<>> \in Seq(CellType) /\ Len(<<>>) = 0
      OBVIOUS
  <2>3. Len(<<>>) = HeadLen(n) - 2
      BY <2>1, <2>2
  <2> QED BY <2>1, <2>2, <2>3, Zenon
<1>2. CASE Short <= n
  <2> DEFINE x == Cell("ext", n \div Base, FALSE, m, FALSE)
             y == Cell("ext", n % Base, FALSE, m, FALSE)
  <2>1. x \in CellType /\ y \in CellType
    <3>1. PICK q \in Nat : q = n \div Base
        BY LengthRead
    <3>2. PICK r \in Nat : r = n % Base
        BY LengthRead
    <3>3. Cell("ext", q, FALSE, m, FALSE) \in CellType
        BY CellInType DEF Kinds
    <3>4. Cell("ext", r, FALSE, m, FALSE) \in CellType
        BY CellInType DEF Kinds
    <3> QED BY <3>1, <3>2, <3>3, <3>4, Zenon
  <2>2. Extended(n, m) = <<x, y>> /\ HeadLen(n) = 4
    <3>1. ~(n < Short)
        BY <1>2, FramingAssumption
    <3> QED BY <3>1, Zenon DEF Extended, HeadLen
  <2> HIDE DEF x, y
  <2>3. <<x, y>> \in Seq(CellType) /\ Len(<<x, y>>) = HeadLen(n) - 2
        /\ <<x, y>>[1] = x /\ <<x, y>>[2] = y
    <3>1. 2 = HeadLen(n) - 2
        BY <2>2
    <3> QED BY <2>1, <3>1, PairAt, Zenon
  <2> QED BY <2>2, <2>3, Zenon DEF x, y
<1>3. n < Short \/ Short <= n
    BY FramingAssumption
<1> QED BY <1>1, <1>2, <1>3, Zenon

\* A frame of the server, cell by cell.
LEMMA FramedAt ==
    ASSUME NEW n \in Nat, NEW m \in Nat
    PROVE  LET c == Plain(n, m) IN
           /\ c \in Seq(CellType) /\ Len(c) = Span(n)
           /\ c[1] = Cell("op", 0, FALSE, m, FALSE)
           /\ c[2] = Cell("len", IF n < Short THEN n ELSE Short, FALSE, m, FALSE)
           /\ Short <= n => /\ c[3] = Cell("ext", n \div Base, FALSE, m, FALSE)
                            /\ c[4] = Cell("ext", n % Base, FALSE, m, FALSE)
           /\ \A k \in 1..n : c[HeadLen(n) + k] = DataCells(n, m)[k]
<1> DEFINE first == Cell("op", 0, FALSE, m, FALSE)
           second == Cell("len", IF n < Short THEN n ELSE Short, FALSE, m, FALSE)
<1>1. first \in CellType /\ second \in CellType
  <2>1. PICK l \in Nat : l = IF n < Short THEN n ELSE Short
      BY FramingAssumption
  <2>2. Cell("op", 0, FALSE, m, FALSE) \in CellType
      BY CellInType DEF Kinds
  <2>3. Cell("len", l, FALSE, m, FALSE) \in CellType
      BY CellInType DEF Kinds
  <2> QED BY <2>1, <2>2, <2>3, Zenon
<1>2. PICK e \in Seq(CellType) :
          /\ e = Extended(n, m)
          /\ Len(e) = HeadLen(n) - 2
          /\ Short <= n => /\ e[1] = Cell("ext", n \div Base, FALSE, m, FALSE)
                           /\ e[2] = Cell("ext", n % Base, FALSE, m, FALSE)
    BY ExtendedAt
<1>3. PICK d \in Seq(CellType) : d = DataCells(n, m) /\ Len(d) = n
    BY DataAt
<1>4. Plain(n, m) = <<first, second>> \o e \o <<>> \o d
    BY <1>2, <1>3 DEF Plain, Framed, MaskKey
<1> HIDE DEF first, second
<1>5. PICK h \in Seq(CellType) : h = <<first, second>> /\ Len(h) = 2
  <2>1. <<first, second>> \in Seq(CellType) /\ Len(<<first, second>>) = 2
      BY <1>1, PairAt, Zenon
  <2> QED BY <2>1, Zenon
<1>6. h[1] = first /\ h[2] = second
    BY <1>1, <1>5, PairAt
<1>7. Plain(n, m) = (h \o e) \o d
  <2>1. (h \o e) \o <<>> = h \o e
      OBVIOUS
  <2> QED BY <1>4, <1>5, <2>1
<1>8. HeadLen(n) \in {2, 4} /\ (Short <= n => HeadLen(n) = 4)
    BY FramingAssumption DEF HeadLen
<1>9. /\ (h \o e) \o d \in Seq(CellType) /\ Len((h \o e) \o d) = Span(n)
      /\ ((h \o e) \o d)[1] = h[1] /\ ((h \o e) \o d)[2] = h[2]
      /\ Short <= n => ((h \o e) \o d)[3] = e[1] /\ ((h \o e) \o d)[4] = e[2]
      /\ \A k \in 1..n : ((h \o e) \o d)[HeadLen(n) + k] = d[k]
    BY <1>2, <1>3, <1>5, <1>8, SMTT(40) DEF Span
<1> QED BY <1>2, <1>3, <1>6, <1>7, <1>9, Zenon DEF first, second

------------------------------------------------------------------------------
(* Frames of a client *)

\* The mask, and a frame with what it has in front of its data.
KeyLen(masked) == IF masked THEN 4 ELSE 0
WireLen(n, masked) == HeadLen(n) + KeyLen(masked) + n

\* All that the loop of the server goes by in the cells of a frame.
Readable(c, n, masked, m) ==
    /\ c \in Seq(CellType) /\ Len(c) = WireLen(n, masked)
    /\ c[2].masked = masked
    /\ n < Short => c[2].n = n
    /\ Short <= n => c[2].n = Short /\ c[3].n = n \div Base /\ c[4].n = n % Base
    /\ SubSeq(c, HeadLen(n) + KeyLen(masked) + 1, Len(c)) = DataCells(n, m)

\* w is h, of two elements, with e, k and d behind it.
Four(w, h, e, k, d) ==
    /\ Len(w) = 2 + Len(e) + Len(k) + Len(d)
    /\ w[2] = h[2] /\ \A i \in 1..Len(e) : w[2 + i] = e[i]
    /\ SubSeq(w, 2 + Len(e) + Len(k) + 1, Len(w)) = d

\* Four sequences, one behind the other.
LEMMA FourAt ==
    ASSUME NEW T, NEW h \in Seq(T), NEW e \in Seq(T), NEW k \in Seq(T),
           NEW d \in Seq(T), Len(h) = 2
    PROVE  ((h \o e) \o k) \o d \in Seq(T) /\ Four(((h \o e) \o k) \o d, h, e, k, d)
<1> DEFINE w == ((h \o e) \o k) \o d
<1>1. PICK a \in Seq(T) : a = h \o e /\ Behind(a, h, e)
    BY BehindAt, Zenon
<1>2. PICK b \in Seq(T) : b = a \o k /\ Behind(b, a, k)
    BY BehindAt, Zenon
<1>3. w = b \o d /\ w \in Seq(T) /\ Behind(w, b, d)
    BY <1>1, <1>2, BehindAt, Zenon
<1>4. /\ Len(a) = 2 + Len(e) /\ a[2] = h[2]
      /\ \A i \in 1..Len(e) : a[2 + i] = e[i]
    BY <1>1 DEF Behind
<1>5. /\ Len(b) = 2 + Len(e) + Len(k) /\ b[2] = h[2]
      /\ \A i \in 1..Len(e) : b[2 + i] = e[i]
    BY <1>2, <1>4 DEF Behind
<1>6. /\ Len(w) = 2 + Len(e) + Len(k) + Len(d) /\ w[2] = h[2]
      /\ \A i \in 1..Len(e) : w[2 + i] = e[i]
    BY <1>3, <1>5 DEF Behind
<1>7. SubSeq(b \o d, Len(b) + 1, Len(b) + Len(d)) = d
    OBVIOUS
<1>8. SubSeq(w, 2 + Len(e) + Len(k) + 1, Len(w)) = d
    BY <1>3, <1>5, <1>6, <1>7
<1> QED BY <1>3, <1>6, <1>8 DEF Four

\* The key of a frame that is masked; one that is not has none.
LEMMA KeyAt ==
    ASSUME NEW masked \in BOOLEAN, NEW m \in Nat
    PROVE  \E k \in Seq(CellType) : k = MaskKey(masked, m) /\ Len(k) = KeyLen(masked)
<1>1. CASE ~masked
  <2>1. MaskKey(masked, m) = <<>> /\ KeyLen(masked) = 0
      BY <1>1 DEF MaskKey, KeyLen
  <2>2. <<>> \in Seq(CellType) /\ Len(<<>>) = 0
      OBVIOUS
  <2> QED BY <2>1, <2>2, Zenon
<1>2. CASE masked
  <2>1. ASSUME NEW i \in 1..4 PROVE Cell("mask", i, FALSE, m, FALSE) \in CellType
    <3>1. PICK j \in Nat : j = i
        OBVIOUS
    <3>2. Cell("mask", j, FALSE, m, FALSE) \in CellType
        BY CellInType DEF Kinds
    <3> QED BY <3>1, <3>2, Zenon
  <2>2. [i \in 1..4 |-> Cell("mask", i, FALSE, m, FALSE)] \in [1..4 -> CellType]
      BY <2>1
  <2>3. PICK g \in [1..4 -> CellType] : g = MaskKey(masked, m)
      BY <1>2, <2>2 DEF MaskKey
  <2>4. g \in Seq(CellType) /\ Len(g) = 4
    <3>1. 4 \in Nat
        OBVIOUS
    <3> QED BY <3>1, FunctionSeq, ZenonT(60)
  <2>5. KeyLen(masked) = 4
      BY <1>2 DEF KeyLen
  <2> QED BY <2>3, <2>4, <2>5, Zenon
<1> QED BY <1>1, <1>2

\* A frame of a client, cell by cell.
LEMMA RequestAt ==
    ASSUME NEW n \in Nat, NEW masked \in BOOLEAN, NEW m \in Nat
    PROVE  Readable(Framed(n, masked, m), n, masked, m)
<1>1. PICK first \in CellType : first = Cell("op", 0, FALSE, m, FALSE)
  <2>1. Cell("op", 0, FALSE, m, FALSE) \in CellType
      BY CellInType DEF Kinds
  <2> QED BY <2>1
<1>2. PICK second \in CellType :
          second = Cell("len", IF n < Short THEN n ELSE Short, masked, m, FALSE)
  <2>1. PICK l \in Nat : l = IF n < Short THEN n ELSE Short
      BY FramingAssumption
  <2>2. Cell("len", l, masked, m, FALSE) \in CellType
      BY CellInType DEF Kinds
  <2> QED BY <2>1, <2>2, Zenon
<1>3. second.masked = masked /\ second.n = (IF n < Short THEN n ELSE Short)
    BY <1>2, Zenon DEF Cell
<1>4. PICK e \in Seq(CellType) :
          /\ e = Extended(n, m)
          /\ Len(e) = HeadLen(n) - 2
          /\ Short <= n => e[1].n = n \div Base /\ e[2].n = n % Base
  <2>1. PICK e \in Seq(CellType) :
            /\ e = Extended(n, m)
            /\ Len(e) = HeadLen(n) - 2
            /\ Short <= n => /\ e[1] = Cell("ext", n \div Base, FALSE, m, FALSE)
                             /\ e[2] = Cell("ext", n % Base, FALSE, m, FALSE)
      BY ExtendedAt, Zenon
  <2>2. /\ Cell("ext", n \div Base, FALSE, m, FALSE).n = n \div Base
        /\ Cell("ext", n % Base, FALSE, m, FALSE).n = n % Base
      BY Zenon DEF Cell
  <2>3. Short <= n => e[1].n = n \div Base /\ e[2].n = n % Base
      BY <2>1, <2>2, Zenon
  <2> QED BY <2>1, <2>3
<1>5. PICK k \in Seq(CellType) : k = MaskKey(masked, m) /\ Len(k) = KeyLen(masked)
    BY KeyAt, Zenon
<1>6. PICK d \in Seq(CellType) : d = DataCells(n, m) /\ Len(d) = n
    BY DataAt
<1>7. PICK h \in Seq(CellType) : h = <<first, second>> /\ Len(h) = 2
                                 /\ h[1] = first /\ h[2] = second
  <2>1. <<first, second>> \in Seq(CellType) /\ Len(<<first, second>>) = 2
        /\ <<first, second>>[1] = first /\ <<first, second>>[2] = second
      BY PairAt, Zenon
  <2> QED BY <2>1, Zenon
<1>8. PICK c : c = Framed(n, masked, m)
    OBVIOUS
<1>9. c = ((h \o e) \o k) \o d
    BY <1>1, <1>2, <1>4, <1>5, <1>6, <1>7, <1>8, Zenon DEF Framed
<1>10. c \in Seq(CellType) /\ Four(c, h, e, k, d)
  <2>1. Len(h) = 2
      BY <1>7, Zenon
  <2> QED BY <2>1, <1>9, FourAt, Zenon
<1>11. HeadLen(n) \in {2, 4} /\ (Short <= n => HeadLen(n) = 4) /\ KeyLen(masked) \in {0, 4}
    BY FramingAssumption DEF HeadLen, KeyLen
<1>12. Len(e) = HeadLen(n) - 2 /\ Len(k) = KeyLen(masked) /\ Len(d) = n
    BY <1>4, <1>5, <1>6, Zenon
<1>13. /\ 2 + Len(e) + Len(k) + Len(d) = WireLen(n, masked)
       /\ 2 + Len(e) + Len(k) + 1 = HeadLen(n) + KeyLen(masked) + 1
       /\ Short <= n => 1 \in 1..Len(e) /\ 2 \in 1..Len(e) /\ 2 + 1 = 3 /\ 2 + 2 = 4
    BY <1>11, <1>12 DEF WireLen
<1>14. (n < Short \/ Short <= n) /\ ~(n < Short /\ Short <= n)
    BY FramingAssumption
<1>15. c[2].masked = masked /\ c[2].n = (IF n < Short THEN n ELSE Short)
    BY <1>3, <1>7, <1>10, Zenon DEF Four
<1>16. ASSUME Short <= n
       PROVE  c[3].n = n \div Base /\ c[4].n = n % Base
  <2>1. \A i \in 1..Len(e) : c[2 + i] = e[i]
      BY <1>10, Zenon DEF Four
  <2>2. c[3] = e[1] /\ c[4] = e[2]
    <3>1. c[2 + 1] = e[1] /\ c[2 + 2] = e[2]
        BY <1>13, <1>16, <2>1, Zenon
    <3> QED BY <1>13, <1>16, <3>1, Zenon
  <2> QED BY <1>4, <1>16, <2>2, Zenon
<1>17. Len(c) = WireLen(n, masked)
    BY <1>10, <1>13, Zenon DEF Four
<1>18. SubSeq(c, HeadLen(n) + KeyLen(masked) + 1, Len(c)) = DataCells(n, m)
    BY <1>6, <1>10, <1>13, Zenon DEF Four
<1>19. Readable(c, n, masked, m)
    BY <1>10, <1>14, <1>15, <1>16, <1>17, <1>18, Zenon DEF Readable
<1> QED BY <1>8, <1>19, Zenon

\* buf, of l cells, begins as that frame does.
Fronted(buf, l, n, masked, m) ==
    /\ buf \in Seq(CellType) /\ Len(buf) = l
    /\ \A j \in 1..l : j <= WireLen(n, masked) => buf[j] = Framed(n, masked, m)[j]

\* What the loop reads off the header of that frame.
HeaderOf(buf, l, n, masked) ==
    /\ IsExtended(buf) <=> Short <= n
    /\ (Short <= n => l >= 4) => /\ Offset(buf) = HeadLen(n) + KeyLen(masked)
                                /\ PayloadLen(buf) = n

\* It reads what the client has written.
LEMMA HeaderRead ==
    ASSUME NEW n \in Nat, NEW masked \in BOOLEAN, NEW m \in Nat, NEW l \in Nat,
           NEW buf, Fronted(buf, l, n, masked, m), l >= 2
    PROVE  HeaderOf(buf, l, n, masked)
<1>1. PICK c : c = Framed(n, masked, m) /\ Readable(c, n, masked, m)
    BY RequestAt, Zenon
<1>2. \A j \in 1..l : j <= WireLen(n, masked) => buf[j] = c[j]
    BY <1>1, Zenon DEF Fronted
<1>3. /\ WireLen(n, masked) \in Nat /\ 2 <= WireLen(n, masked)
      /\ Short <= n => 4 <= WireLen(n, masked)
    BY FramingAssumption DEF WireLen, HeadLen, KeyLen
<1>4. buf[2] = c[2]
    BY <1>2, <1>3
<1>5. n < Short <=> ~(Short <= n)
    BY FramingAssumption
<1>6. buf[2].masked = masked /\ buf[2].n = IF n < Short THEN n ELSE Short
    BY <1>1, <1>4, <1>5, Zenon DEF Readable
<1>7. IsExtended(buf) <=> Short <= n
    BY <1>6, FramingAssumption DEF IsExtended
<1>8. MaskLen(buf) = KeyLen(masked)
    BY <1>6, Zenon DEF MaskLen, KeyLen
<1>9. Offset(buf) = HeadLen(n) + KeyLen(masked)
  <2>1. (IF IsExtended(buf) THEN 4 ELSE 2) = HeadLen(n)
      BY <1>5, <1>7 DEF HeadLen
  <2> QED BY <1>8, <2>1, Zenon DEF Offset
<1>10. ASSUME Short <= n, l >= 4
       PROVE  PayloadLen(buf) = n
  <2>1. buf[3] = c[3] /\ buf[4] = c[4]
      BY <1>2, <1>3, <1>10
  <2>2. PayloadLen(buf) = BigEndian(buf[3].n, buf[4].n)
      BY <1>7, <1>10, Zenon DEF PayloadLen
  <2>3. buf[3].n = n \div Base /\ buf[4].n = n % Base
      BY <1>1, <1>10, <2>1, Zenon DEF Readable
  <2> QED BY <2>2, <2>3, LengthRead, Zenon
<1>11. ASSUME ~(Short <= n)
       PROVE  PayloadLen(buf) = n
    BY <1>5, <1>6, <1>7, <1>11, Zenon DEF PayloadLen
<1> QED BY <1>7, <1>9, <1>10, <1>11, Zenon DEF HeaderOf

\* The loop takes it for complete when its last cell is there, and not before.
LEMMA FrameComplete ==
    ASSUME NEW n \in Nat, NEW masked \in BOOLEAN, NEW m \in Nat, NEW l \in Nat,
           NEW buf, Fronted(buf, l, n, masked, m)
    PROVE  HasFrame(buf) <=> l >= WireLen(n, masked)
<1>1. /\ HeadLen(n) \in {2, 4} /\ (Short <= n => HeadLen(n) = 4)
      /\ KeyLen(masked) \in {0, 4}
      /\ WireLen(n, masked) = HeadLen(n) + KeyLen(masked) + n
    BY FramingAssumption DEF WireLen, HeadLen, KeyLen
<1>2. Len(buf) = l
    BY Zenon DEF Fronted
<1>3. CASE l < 2
    BY <1>1, <1>2, <1>3 DEF HasFrame
<1>4. CASE l >= 2
  <2>0. HeaderOf(buf, l, n, masked)
      BY <1>4, HeaderRead, Zenon
  <2>1. IsExtended(buf) <=> Short <= n
      BY <2>0, Zenon DEF HeaderOf
  <2>2. CASE Short <= n => l >= 4
    <3>1. Offset(buf) = HeadLen(n) + KeyLen(masked) /\ PayloadLen(buf) = n
        BY <2>0, <2>2, Zenon DEF HeaderOf
    <3> QED BY <1>1, <1>2, <1>4, <2>1, <2>2, <3>1 DEF HasFrame
  <2>3. CASE ~(Short <= n => l >= 4)
      BY <1>1, <1>2, <2>1, <2>3 DEF HasFrame
  <2> QED BY <2>2, <2>3, Zenon
<1> QED BY <1>3, <1>4

\* A round of the loop cuts the data of that frame out of buf, and leaves the rest.
Takes(buf, l, n, masked, m) ==
    LET from == Offset(buf)
        to == from + PayloadLen(buf)
    IN  /\ Subarray(buf, from, to) = DataCells(n, m)
        /\ Len(Subarray(buf, to, Len(buf))) = l - WireLen(n, masked)

\* So it does when all of it is there.
LEMMA FrameTaken ==
    ASSUME NEW n \in Nat, NEW masked \in BOOLEAN, NEW m \in Nat, NEW l \in Nat,
           NEW buf, Fronted(buf, l, n, masked, m), l >= WireLen(n, masked)
    PROVE  Takes(buf, l, n, masked, m)
<1>1. /\ HeadLen(n) \in {2, 4} /\ (Short <= n => HeadLen(n) = 4)
      /\ KeyLen(masked) \in {0, 4}
      /\ WireLen(n, masked) = HeadLen(n) + KeyLen(masked) + n
    BY FramingAssumption DEF WireLen, HeadLen, KeyLen
<1>2. PICK from \in Nat : from = HeadLen(n) + KeyLen(masked)
    BY <1>1
<1>3. PICK w \in Nat : w = WireLen(n, masked) /\ w = from + n /\ w <= l
    BY <1>1, <1>2
<1>4. Offset(buf) = from /\ PayloadLen(buf) = n
  <2>1. l >= 2 /\ (Short <= n => l >= 4)
      BY <1>1, <1>2, <1>3
  <2>2. HeaderOf(buf, l, n, masked)
      BY <2>1, HeaderRead, Zenon
  <2> QED BY <1>2, <2>1, <2>2, Zenon DEF HeaderOf
<1>5. PICK c \in Seq(CellType) : /\ c = Framed(n, masked, m) /\ Len(c) = w
                                 /\ SubSeq(c, from + 1, w) = DataCells(n, m)
  <2>1. Readable(Framed(n, masked, m), n, masked, m)
      BY RequestAt, Zenon
  <2> QED BY <1>2, <1>3, <2>1 DEF Readable
<1>6. buf \in Seq(CellType) /\ Len(buf) = l /\ \A j \in 1..w : buf[j] = c[j]
    BY <1>3, <1>5 DEF Fronted
<1>7. Subarray(buf, from, w) = SubSeq(buf, from + 1, w)
    BY <1>3, <1>6 DEF Subarray
<1>8. SubSeq(buf, from + 1, w) = SubSeq(c, from + 1, w)
    BY <1>3, <1>5, <1>6, SMTT(30)
<1>9. Len(Subarray(buf, w, Len(buf))) = l - w
    BY <1>3, <1>6 DEF Subarray
<1> QED BY <1>3, <1>4, <1>5, <1>7, <1>8, <1>9, Zenon DEF Takes

\* The bytes of a request or a response without their wording.
LEMMA HttpAt ==
    ASSUME NEW n \in Nat
    PROVE  /\ HttpCells(n) \in Seq(CellType) /\ Len(HttpCells(n)) = n
           /\ \A i \in 1..n : HttpCells(n)[i] = Cell("http", i, FALSE, 0, i = n)
<1>1. ASSUME NEW i \in 1..n PROVE Cell("http", i, FALSE, 0, i = n) \in CellType
  <2>1. PICK j \in Nat : j = i
      OBVIOUS
  <2>2. (i = n) \in BOOLEAN /\ FALSE \in BOOLEAN /\ 0 \in Nat /\ "http" \in Kinds
      BY DEF Kinds
  <2> QED BY <2>1, <2>2, CellInType, Zenon
<1>2. PICK g \in [1..n -> CellType] : g = HttpCells(n)
    BY <1>1 DEF HttpCells
<1>3. g \in Seq(CellType) /\ Len(g) = n
    BY FunctionSeq
<1>4. \A i \in 1..n : HttpCells(n)[i] = Cell("http", i, FALSE, 0, i = n)
    BY Zenon DEF HttpCells
<1> QED BY <1>2, <1>3, <1>4

------------------------------------------------------------------------------
(* Requests and replies *)

\* What Request finds in the data of the message k.
Finds(k) == Request(DataCells(requests[k].size, k)) = <<requests[k]>>

\* The data of two messages differ, for it names its message.
LEMMA DataOfOne ==
    ASSUME NEW n \in Nat \ {0}, NEW k \in Nat, NEW o \in Nat \ {0}, NEW m \in Nat,
           DataCells(n, k) = DataCells(o, m)
    PROVE  k = m
<1>1. PICK i : i = 1 /\ i \in 1..n /\ i \in 1..o
    OBVIOUS
<1>2. DataCells(n, k)[i] = DataCell(i, n, k) /\ DataCells(o, m)[i] = DataCell(i, o, m)
    BY <1>1, DataAt, Zenon
<1>3. DataCell(i, n, k).msg = k /\ DataCell(i, o, m).msg = m
    BY Zenon DEF DataCell, Cell
<1> QED BY <1>2, <1>3, Zenon

\* A frame cut out whole is the request it was written for.
LEMMA RequestFound ==
    ASSUME requests \in Seq(Requests), NEW k \in 1..Len(requests)
    PROVE  Finds(k)
<1>1. \A m \in 1..Len(requests) : requests[m].size \in Nat \ {0}
    BY RequestsAssumption
<1>2. PICK n \in Nat \ {0} : n = requests[k].size
    BY <1>1
<1> DEFINE cells == DataCells(n, k)
<1>3. IsMessage(cells, requests[k].size, k)
    BY <1>2, Zenon DEF IsMessage
<1>4. ASSUME NEW m \in 1..Len(requests), IsMessage(cells, requests[m].size, m)
      PROVE  m = k
  <2>1. PICK o \in Nat \ {0} : o = requests[m].size
      BY <1>1
  <2>2. DataCells(n, k) = DataCells(o, m)
      BY <1>4, <2>1, Zenon DEF IsMessage
  <2>3. k \in Nat /\ m \in Nat
      OBVIOUS
  <2> QED BY <2>2, <2>3, DataOfOne, Zenon
<1> HIDE DEF cells
<1>5. (CHOOSE m \in 1..Len(requests) : IsMessage(cells, requests[m].size, m)) = k
    BY <1>3, <1>4, Zenon
<1>6. Request(cells) = <<requests[k]>>
    BY <1>3, <1>5, Zenon DEF Request
<1> QED BY <1>2, <1>6, Zenon DEF cells, Finds

\* The records like a frame whose fields are of these sets.
Records(Op, Number, Flag, Bytes, Key, Size) ==
    [op : Op, stream : Number, boundary : Flag, data : Bytes, key : Key,
     start : Flag, end : Flag, id : Number, delta : Bytes, size : Size]

\* A field of f is replaced by another of its set.
StaysWithin(f, T, Op, Number) ==
    /\ \A op \in Op : [f EXCEPT !.op = op] \in T
    /\ \A s \in Number : [f EXCEPT !.stream = s] \in T

\* What comes of it is such a record again.
LEMMA FieldReplaced ==
    ASSUME NEW Op, NEW Number, NEW Flag, NEW Bytes, NEW Key, NEW Size,
           NEW f \in Records(Op, Number, Flag, Bytes, Key, Size)
    PROVE  StaysWithin(f, Records(Op, Number, Flag, Bytes, Key, Size), Op, Number)
  BY SMTT(30) DEF Records, StaysWithin

\* A frame keeps its form on another stream, and under another opcode.
LEMMA FrameReplaced ==
    ASSUME NEW f \in Frame
    PROVE  /\ \A op \in Opcode : [f EXCEPT !.op = op] \in Frame
           /\ \A s \in Nat : [f EXCEPT !.stream = s] \in Frame
<1>1. Frame = Records(Opcode, Nat, BOOLEAN, Seq(0..255), Nat \X Nat, Nat \ {0})
    BY Zenon DEF Frame, Records
<1>2. StaysWithin(f, Records(Opcode, Nat, BOOLEAN, Seq(0..255), Nat \X Nat, Nat \ {0}),
                  Opcode, Nat)
  <2>1. f \in Records(Opcode, Nat, BOOLEAN, Seq(0..255), Nat \X Nat, Nat \ {0})
      BY <1>1, Zenon
  <2> QED BY <2>1, FieldReplaced, Zenon
<1> QED BY <1>1, <1>2, Zenon DEF StaysWithin

\* Frames are answered with frames.
LEMMA ReplyFrames ==
    ASSUME script \in Scripts, NEW f \in Requests
    PROVE  Reply(f) \in Seq(Frame)
<1>1. CASE f.op = "OPEN"
  <2>1. f \in Frame
      BY <1>1, RequestsAssumption DEF Opcode
  <2>2. PICK s \in Nat : s = f.stream
      BY <2>1 DEF Frame
  <2>3. script \in Seq(Frame)
      BY ScriptsAssumption
  <2>4. ASSUME NEW g \in Frame PROVE [g EXCEPT !.stream = s] \in Frame
      BY FrameReplaced, Zenon
  <2>5. \A i \in 1..Len(script) : script[i] \in Frame
      BY <2>3
  <2>6. [i \in 1..Len(script) |-> IF script[i].stream = 0 THEN script[i]
                                  ELSE [script[i] EXCEPT !.stream = s]]
            \in [1..Len(script) -> Frame]
      BY <2>4, <2>5, Zenon
  <2>7. ScriptOn(s) \in [1..Len(script) -> Frame] /\ Len(script) \in Nat
      BY <2>3, <2>6 DEF ScriptOn
  <2>8. ScriptOn(s) \in Seq(Frame)
      BY <2>7, FunctionSeq, Zenon
  <2> QED BY <1>1, <2>2, <2>8, Zenon DEF Reply
<1>2. CASE f.op = "PING"
  <2>1. f \in Frame
      BY <1>2, RequestsAssumption DEF Opcode
  <2>2. [f EXCEPT !.op = "PONG", !.stream = 0] \in Frame
    <3>1. PICK g \in Frame : g = [f EXCEPT !.op = "PONG"]
      <4>1. "PONG" \in Opcode
          BY Zenon DEF Opcode
      <4> QED BY <2>1, <4>1, FrameReplaced, Zenon
    <3>2. [g EXCEPT !.stream = 0] \in Frame
      <4>1. 0 \in Nat
          OBVIOUS
      <4> QED BY <4>1, FrameReplaced, Zenon
    <3> QED BY <3>1, <3>2
  <2>3. Reply(f) = <<[f EXCEPT !.op = "PONG", !.stream = 0]>>
      BY <1>2 DEF Reply
  <2> QED BY <2>2, <2>3
<1>3. CASE f.op # "OPEN" /\ f.op # "PING"
    BY <1>3 DEF Reply
<1> QED BY <1>1, <1>2, <1>3

------------------------------------------------------------------------------
(* The invariant *)

\* Frame m of n bytes lies in u from a on, up to b.
FrameLies(u, a, b, n, masked, m) ==
    /\ b = a + WireLen(n, masked) /\ b <= Len(u)
    /\ \A j \in 1..WireLen(n, masked) : u[a + j] = Framed(n, masked, m)[j]

\* Behind the request of the upgrade frames lie one after another; pos tells
\* where each ends, masks which have a mask.
LaidOut(pos, masks, u, frames) ==
    /\ pos \in [Nat -> Nat] /\ masks \in [Nat -> BOOLEAN]
    /\ pos[Len(frames)] = Len(u)
    /\ \A i \in 1..Len(frames) :
          FrameLies(u, pos[i - 1], pos[i], frames[i].size, masks[i], i)

\* The loop stands where the frames it has taken end, and waits only when the
\* next has not arrived as a whole.
Stands(pos, frames, taken, at, until, looping) ==
    /\ Len(taken) <= Len(frames)
    /\ \A i \in 1..Len(taken) : taken[i] = frames[i]
    /\ at = pos[Len(taken)]
    /\ ~looping /\ Len(taken) < Len(frames) => until < pos[Len(taken) + 1]

\* The frames of the client are laid out, and the loop stands in them.
Served(u, frames, taken, at, until, looping) ==
    \E pos, masks : LaidOut(pos, masks, u, frames)
                    /\ Stands(pos, frames, taken, at, until, looping)

\* What the variables are; before the upgrade nothing has been taken.
ServerTyped ==
    /\ up \in Seq(CellType) /\ requests \in Seq(Requests) /\ served \in Seq(Requests)
    /\ script \in Scripts /\ sent \in Seq(Frame)
    /\ busy \in BOOLEAN
    /\ parsed \in Nat /\ chunked \in Nat /\ parsed <= chunked /\ chunked <= Len(up)
    /\ upgraded => up # <<>>
    /\ ~upgraded => requests = <<>> /\ served = <<>> /\ ~busy /\ parsed = 0 /\ chunked = 0

ServerInv ==
    /\ ServerTyped
    /\ upgraded => Served(up, requests, served, parsed, chunked, busy)

\* What is in rxBuf begins as the next frame does.
LEMMA FrontAt ==
    ASSUME NEW u \in Seq(CellType), NEW a \in Nat, NEW b \in Nat, NEW c \in Nat,
           a <= c, c <= Len(u),
           NEW n \in Nat, NEW masked \in BOOLEAN, NEW m \in Nat,
           FrameLies(u, a, b, n, masked, m)
    PROVE  Fronted(SubSeq(u, a + 1, c), c - a, n, masked, m)
<1>1. PICK l \in Nat : l = c - a
    OBVIOUS
<1>2. /\ SubSeq(u, a + 1, c) \in Seq(CellType) /\ Len(SubSeq(u, a + 1, c)) = l
      /\ \A j \in 1..l : SubSeq(u, a + 1, c)[j] = u[a + j]
    BY <1>1
<1>3. WireLen(n, masked) \in Nat
    BY FramingAssumption DEF WireLen, HeadLen, KeyLen
<1>4. \A j \in 1..l : j <= WireLen(n, masked) => u[a + j] = Framed(n, masked, m)[j]
    BY <1>3 DEF FrameLies
<1> QED BY <1>1, <1>2, <1>4, Zenon DEF Fronted

\* A frame more lies behind the others.
LEMMA OneMore ==
    ASSUME NEW u \in Seq(CellType), NEW frames \in Seq(Requests), NEW f \in Requests,
           NEW masked \in BOOLEAN, NEW pos, NEW masks,
           LaidOut(pos, masks, u, frames)
    PROVE  LET w == u \o Framed(f.size, masked, Len(frames) + 1)
               next == [pos EXCEPT ![Len(frames) + 1] = Len(w)]
           IN  /\ w \in Seq(CellType) /\ Len(u) < Len(w)
               /\ LaidOut(next, [masks EXCEPT ![Len(frames) + 1] = masked], w,
                         frames \o <<f>>)
<1>1. PICK n \in Nat : n = f.size
    BY RequestsAssumption
<1>2. PICK k \in Nat : k = Len(frames) + 1 /\ k >= 1 /\ Len(frames) = k - 1
    OBVIOUS
<1>3. PICK c : c = Framed(n, masked, k) /\ Readable(c, n, masked, k)
    BY RequestAt, Zenon
<1>4. c \in Seq(CellType) /\ Len(c) = WireLen(n, masked)
    BY <1>3, Zenon DEF Readable
<1>5. WireLen(n, masked) \in Nat /\ WireLen(n, masked) >= 2
    BY FramingAssumption DEF WireLen, HeadLen, KeyLen
<1>6. PICK w \in Seq(CellType) : w = u \o c /\ Behind(w, u, c)
    BY <1>4, BehindAt, Zenon
<1>7. /\ Len(w) = Len(u) + WireLen(n, masked)
      /\ \A i \in 1..Len(u) : w[i] = u[i]
      /\ \A i \in 1..WireLen(n, masked) : w[Len(u) + i] = c[i]
    BY <1>4, <1>6, Zenon DEF Behind
<1>8. PICK next : next = [pos EXCEPT ![k] = Len(w)]
    OBVIOUS
<1>9. PICK keys : keys = [masks EXCEPT ![k] = masked]
    OBVIOUS
<1>10. PICK all : all = frames \o <<f>>
    OBVIOUS
<1>11. /\ pos \in [Nat -> Nat] /\ masks \in [Nat -> BOOLEAN]
       /\ pos[k - 1] = Len(u)
       /\ \A i \in 1..(k - 1) :
             FrameLies(u, pos[i - 1], pos[i], frames[i].size, masks[i], i)
  <2>1. Len(frames) = k - 1
      BY <1>2
  <2> QED BY <2>1, Zenon DEF LaidOut
<1>12. /\ next \in [Nat -> Nat] /\ next[k] = Len(w)
       /\ \A i \in Nat : i # k => next[i] = pos[i]
  <2>1. PICK l \in Nat : l = Len(w)
      OBVIOUS
  <2> QED BY <1>8, <1>11, <2>1
<1>13. /\ keys \in [Nat -> BOOLEAN] /\ keys[k] = masked
       /\ \A i \in Nat : i # k => keys[i] = masks[i]
    BY <1>9, <1>11
<1>14. Len(all) = k /\ all[k] = f /\ \A i \in 1..(k - 1) : all[i] = frames[i]
    BY <1>2, <1>10
<1>15. ASSUME NEW i \in 1..(k - 1)
       PROVE  FrameLies(w, next[i - 1], next[i], all[i].size, keys[i], i)
  <2>1. next[i - 1] = pos[i - 1] /\ next[i] = pos[i] /\ keys[i] = masks[i]
    <3>1. i \in Nat /\ i - 1 \in Nat /\ i # k /\ i - 1 # k
        OBVIOUS
    <3> QED BY <3>1, <1>12, <1>13, Zenon
  <2>2. all[i] = frames[i]
      BY <1>14
  <2>3. FrameLies(u, pos[i - 1], pos[i], frames[i].size, masks[i], i)
      BY <1>11
  <2>4. PICK a \in Nat : a = pos[i - 1]
      BY <1>11
  <2>5. PICK q : q = WireLen(frames[i].size, masks[i])
      OBVIOUS
  <2>6. q \in Nat
    <3>1. frames[i] \in Requests
        BY <1>2
    <3>2. PICK s \in Nat : s = frames[i].size
        BY <3>1, RequestsAssumption
    <3> QED BY <2>5, <3>2, FramingAssumption DEF WireLen, HeadLen, KeyLen
  <2>7. /\ pos[i] = a + q /\ pos[i] <= Len(u)
        /\ \A j \in 1..q : u[a + j] = Framed(frames[i].size, masks[i], i)[j]
      BY <2>3, <2>4, <2>5, Zenon DEF FrameLies
  <2>8. \A j \in 1..q : a + j \in 1..Len(u)
      BY <2>6, <2>7
  <2>9. \A j \in 1..q : w[a + j] = Framed(frames[i].size, masks[i], i)[j]
      BY <1>7, <2>7, <2>8, Zenon
  <2>10. pos[i] <= Len(w)
      BY <1>5, <1>7, <2>4, <2>6, <2>7
  <2>11. FrameLies(w, pos[i - 1], pos[i], frames[i].size, masks[i], i)
      BY <2>4, <2>5, <2>7, <2>9, <2>10, Zenon DEF FrameLies
  <2> QED BY <2>1, <2>2, <2>11, Zenon
<1>16. FrameLies(w, next[k - 1], next[k], all[k].size, keys[k], k)
  <2>1. next[k - 1] = Len(u)
    <3>1. k - 1 \in Nat /\ k - 1 # k
      <4>1. k \in Nat /\ k >= 1
          BY <1>2, Zenon
      <4> HIDE <1>2
      <4>2. k - 1 \in Nat
          BY <4>1
      <4>3. k - 1 # k
          BY <4>1
      <4> QED BY <4>2, <4>3
    <3>2. next[k - 1] = pos[k - 1]
        BY <3>1, <1>12, Zenon
    <3> QED BY <3>2, <1>11, Zenon
  <2>2. Len(w) <= Len(w)
      OBVIOUS
  <2>3. FrameLies(w, Len(u), Len(w), n, masked, k)
      BY <1>3, <1>7, <2>2, Zenon DEF FrameLies
  <2> QED BY <1>1, <1>12, <1>13, <1>14, <2>1, <2>3, Zenon
<1>17. \A i \in 1..k : FrameLies(w, next[i - 1], next[i], all[i].size, keys[i], i)
  <2>1. \A i \in 1..k : i \in 1..(k - 1) \/ i = k
      BY <1>2
  <2> QED BY <1>15, <1>16, <2>1, Zenon
<1>18. LaidOut(next, keys, w, all)
    BY <1>12, <1>13, <1>14, <1>17, Zenon DEF LaidOut
<1>19. Len(u) < Len(w)
    BY <1>5, <1>7
<1> QED BY <1>1, <1>2, <1>3, <1>6, <1>8, <1>9, <1>10, <1>18, <1>19, Zenon

------------------------------------------------------------------------------
(* The steps *)

\* w is s with x behind it.
Longer(w, s, x) ==
    /\ Len(w) = Len(s) + 1 /\ w[Len(s) + 1] = x
    /\ \A i \in 1..Len(s) : w[i] = s[i]

\* A sequence of one behind another.
LEMMA LongerAt ==
    ASSUME NEW T, NEW s \in Seq(T), NEW x \in T
    PROVE  s \o <<x>> \in Seq(T) /\ Longer(s \o <<x>>, s, x)
  BY DEF Longer

\* Before the upgrade there is nothing but its request.
LEMMA NothingServed ==
    ASSUME NEW u \in Seq(CellType), NEW looping \in BOOLEAN
    PROVE  Served(u, <<>>, <<>>, Len(u), Len(u), looping)
<1>1. PICK l \in Nat : l = Len(u)
    OBVIOUS
<1>2. PICK pos \in [Nat -> Nat] : \A i \in Nat : pos[i] = l
  <2>1. [i \in Nat |-> l] \in [Nat -> Nat]
      OBVIOUS
  <2> QED BY <2>1
<1>3. PICK masks \in [Nat -> BOOLEAN] : TRUE
  <2>1. [i \in Nat |-> FALSE] \in [Nat -> BOOLEAN]
      OBVIOUS
  <2> QED BY <2>1
<1>4. Len(<<>>) = 0 /\ 0 \in Nat /\ 1..0 = {}
    OBVIOUS
<1>5. LaidOut(pos, masks, u, <<>>)
    BY <1>1, <1>2, <1>4, Zenon DEF LaidOut
<1>6. Stands(pos, <<>>, <<>>, Len(u), Len(u), looping)
    BY <1>1, <1>2, <1>4 DEF Stands
<1> QED BY <1>5, <1>6, Zenon DEF Served

\* A frame more to come disturbs none of those that have.
LEMMA OneMoreServed ==
    ASSUME NEW u \in Seq(CellType), NEW frames \in Seq(Requests), NEW f \in Requests,
           NEW masked \in BOOLEAN, NEW taken \in Seq(Requests), NEW at \in Nat,
           NEW until \in Nat, NEW looping \in BOOLEAN, until <= Len(u),
           Served(u, frames, taken, at, until, looping)
    PROVE  Served(u \o Framed(f.size, masked, Len(frames) + 1), frames \o <<f>>,
                  taken, at, until, looping)
<1>1. PICK pos, masks : LaidOut(pos, masks, u, frames)
                        /\ Stands(pos, frames, taken, at, until, looping)
    BY Zenon DEF Served
<1>2. PICK w : w = u \o Framed(f.size, masked, Len(frames) + 1)
    OBVIOUS
<1>3. PICK next : next = [pos EXCEPT ![Len(frames) + 1] = Len(w)]
    OBVIOUS
<1>4. PICK keys : keys = [masks EXCEPT ![Len(frames) + 1] = masked]
    OBVIOUS
<1>5. w \in Seq(CellType) /\ Len(u) < Len(w) /\ LaidOut(next, keys, w, frames \o <<f>>)
    BY <1>1, <1>2, <1>3, <1>4, OneMore, Zenon
<1>6. PICK k \in Nat : k = Len(frames)
    OBVIOUS
<1>7. PICK t \in Nat : t = Len(taken)
    OBVIOUS
<1>8. PICK all \in Seq(Requests) :
          /\ all = frames \o <<f>> /\ Len(all) = k + 1
          /\ \A i \in 1..k : all[i] = frames[i]
  <2>1. /\ frames \o <<f>> \in Seq(Requests)
        /\ Longer(frames \o <<f>>, frames, f)
      BY LongerAt, Zenon
  <2> QED BY <1>6, <2>1, Zenon DEF Longer
<1>9. /\ t <= k /\ \A i \in 1..t : taken[i] = frames[i]
      /\ at = pos[t]
      /\ ~looping /\ t < k => until < pos[t + 1]
    BY <1>1, <1>6, <1>7, Zenon DEF Stands
<1>10. pos \in [Nat -> Nat]
    BY <1>1, Zenon DEF LaidOut
<1>11. next[k + 1] = Len(w) /\ \A i \in 0..k : next[i] = pos[i]
  <2>1. PICK l \in Nat : l = Len(w)
      BY <1>5
  <2>2. next = [pos EXCEPT ![k + 1] = l]
      BY <1>3, <1>6, <2>1
  <2> QED BY <1>10, <2>1, <2>2
<1>12. t <= k + 1 /\ \A i \in 1..t : taken[i] = all[i]
    BY <1>8, <1>9
<1>13. at = next[t]
    BY <1>9, <1>11
<1>14. ASSUME ~looping PROVE until < next[t + 1]
  <2>1. CASE t < k
    <3>1. t + 1 \in 0..k
        BY <2>1
    <3>2. next[t + 1] = pos[t + 1]
        BY <3>1, <1>11, Zenon
    <3> QED BY <2>1, <3>2, <1>9, <1>14
  <2>2. CASE t = k
    <3>1. next[t + 1] = Len(w)
        BY <2>2, <1>11
    <3>2. PICK lu \in Nat : lu = Len(u)
        OBVIOUS
    <3>3. PICK lw \in Nat : lw = Len(w)
        BY <1>5
    <3> QED BY <3>1, <3>2, <3>3, <1>5
  <2> QED BY <2>1, <2>2, <1>9
<1>15. Stands(next, all, taken, at, until, looping)
    BY <1>7, <1>8, <1>12, <1>13, <1>14, Zenon DEF Stands
<1> QED BY <1>2, <1>5, <1>8, <1>15, Zenon DEF Served

\* In a round of the loop the request k leaves rxBuf, and all before it had left.
Cut(k) ==
    LET from == Offset(rxBuf)
        to == from + PayloadLen(rxBuf)
        at == chunked - Len(Subarray(rxBuf, to, Len(rxBuf)))
    IN  /\ k \in 1..Len(requests)
        /\ Request(Subarray(rxBuf, from, to)) = <<requests[k]>>
        /\ at \in Nat /\ at <= chunked
        /\ Served(up, requests, served \o <<requests[k]>>, at, chunked, busy)

\* A frame that is taken is the next one, and all of it.
LEMMA NextTaken ==
    ASSUME ServerTyped, busy, HasFrame(rxBuf),
           Served(up, requests, served, parsed, chunked, busy)
    PROVE  Cut(Len(served) + 1)
<1>1. PICK pos, masks : LaidOut(pos, masks, up, requests)
                        /\ Stands(pos, requests, served, parsed, chunked, busy)
    BY Zenon DEF Served
<1>2. PICK t \in Nat : t = Len(served)
    BY DEF ServerTyped
<1>3. PICK size \in Nat : size = Len(requests)
    BY DEF ServerTyped
<1>4. PICK n \in Nat : n = Len(up)
    BY DEF ServerTyped
<1>5. /\ t <= size /\ \A i \in 1..t : served[i] = requests[i]
      /\ parsed = pos[t]
    BY <1>1, <1>2, <1>3, Zenon DEF Stands
<1>6. /\ pos \in [Nat -> Nat] /\ masks \in [Nat -> BOOLEAN] /\ pos[size] = n
      /\ \A i \in 1..size :
            FrameLies(up, pos[i - 1], pos[i], requests[i].size, masks[i], i)
    BY <1>1, <1>3, <1>4, Zenon DEF LaidOut
<1>7. PICK a \in Nat : a = parsed
    BY Zenon DEF ServerTyped
<1>8. PICK c \in Nat : c = chunked /\ a <= c /\ c <= n
    BY <1>4, <1>7, Zenon DEF ServerTyped
<1>9. t # size
  <2> SUFFICES ASSUME t = size PROVE FALSE
      OBVIOUS
  <2>1. a = n
      BY <1>5, <1>6, <1>7
  <2>2. c = a
      BY <1>8, <2>1
  <2>3. Len(SubSeq(up, a + 1, c)) = 0
      BY <2>2 DEF ServerTyped
  <2>4. Len(rxBuf) = 0
      BY <1>7, <1>8, <2>3, Zenon DEF rxBuf
  <2> QED BY <2>4 DEF HasFrame
<1>10. PICK k \in 1..size : k = t + 1 /\ k - 1 = t
    BY <1>5, <1>9
<1>11. PICK f \in Requests : f = requests[k]
    BY <1>3 DEF ServerTyped
<1>12. PICK s \in Nat : s = f.size
    BY RequestsAssumption
<1>13. PICK masked \in BOOLEAN : masked = masks[k]
    BY <1>6
<1>14. PICK b \in Nat : b = pos[k]
    BY <1>6
<1>15. FrameLies(up, a, b, s, masked, k)
    BY <1>5, <1>6, <1>7, <1>10, <1>11, <1>12, <1>13, <1>14, Zenon
<1>16. k \in Nat /\ up \in Seq(CellType)
    BY DEF ServerTyped
<1>17. PICK l \in Nat : l = c - a
    BY <1>8
<1>18. Fronted(rxBuf, l, s, masked, k)
  <2>1. Fronted(SubSeq(up, a + 1, c), c - a, s, masked, k)
    <3>1. a <= c /\ c <= Len(up)
        BY <1>4, <1>8
    <3> QED BY <1>15, <1>16, <3>1, FrontAt, SMTT(30)
  <2> QED BY <1>7, <1>8, <1>17, <2>1, Zenon DEF rxBuf
<1>19. l >= WireLen(s, masked)
    BY <1>16, <1>18, FrameComplete, Zenon
<1>20. PICK from : from = Offset(rxBuf)
    OBVIOUS
<1>21. PICK to : to = from + PayloadLen(rxBuf)
    OBVIOUS
<1>22. /\ Subarray(rxBuf, from, to) = DataCells(s, k)
       /\ Len(Subarray(rxBuf, to, Len(rxBuf))) = l - WireLen(s, masked)
  <2>1. Takes(rxBuf, l, s, masked, k)
      BY <1>16, <1>18, <1>19, FrameTaken, Zenon
  <2> QED BY <1>20, <1>21, <2>1, Zenon DEF Takes
<1>23. Request(Subarray(rxBuf, from, to)) = <<requests[k]>>
  <2>1. Finds(k)
    <3>1. k \in 1..Len(requests) /\ requests \in Seq(Requests)
        BY <1>3 DEF ServerTyped
    <3> QED BY <3>1, RequestFound, Zenon
  <2> QED BY <1>11, <1>12, <1>22, <2>1, Zenon DEF Finds
<1>24. PICK w \in Nat : w = WireLen(s, masked)
    BY FramingAssumption DEF WireLen, HeadLen, KeyLen
<1>25. b = a + w
    BY <1>15, <1>24, Zenon DEF FrameLies
<1>26. PICK at : at = chunked - Len(Subarray(rxBuf, to, Len(rxBuf)))
    OBVIOUS
<1>27. at = b /\ at \in Nat /\ at <= chunked
    BY <1>8, <1>14, <1>17, <1>19, <1>22, <1>24, <1>25, <1>26
<1>28. PICK more \in Seq(Requests) :
           /\ more = served \o <<requests[k]>> /\ Len(more) = k
           /\ \A i \in 1..k : more[i] = requests[i]
  <2>1. served \in Seq(Requests)
      BY Zenon DEF ServerTyped
  <2>2. PICK more \in Seq(Requests) :
            /\ more = served \o <<f>> /\ Len(more) = t + 1 /\ more[t + 1] = f
            /\ \A i \in 1..t : more[i] = served[i]
    <3>1. /\ served \o <<f>> \in Seq(Requests)
          /\ Longer(served \o <<f>>, served, f)
        BY <2>1, LongerAt, Zenon
    <3> QED BY <1>2, <3>1, Zenon DEF Longer
  <2>3. \A i \in 1..k : i \in 1..t \/ i = k
      BY <1>10
  <2> QED BY <1>5, <1>10, <1>11, <2>2, <2>3, Zenon
<1>29. Stands(pos, requests, more, at, chunked, busy)
  <2>1. Len(more) <= Len(requests)
      BY <1>3, <1>28
  <2> QED BY <1>14, <1>27, <1>28, <2>1, Zenon DEF Stands
<1>30. Served(up, requests, more, at, chunked, busy)
    BY <1>1, <1>29, Zenon DEF Served
<1>31. k \in 1..Len(requests)
    BY <1>3, Zenon
<1>32. Cut(k)
    BY <1>20, <1>21, <1>23, <1>26, <1>27, <1>28, <1>30, <1>31, Zenon DEF Cut
<1> QED BY <1>2, <1>10, <1>32, Zenon

\* When the loop is left, the next frame has not arrived as a whole.
LEMMA LoopLeft ==
    ASSUME ServerTyped, ~HasFrame(rxBuf),
           Served(up, requests, served, parsed, chunked, TRUE)
    PROVE  Served(up, requests, served, parsed, chunked, FALSE)
<1>1. PICK pos, masks : LaidOut(pos, masks, up, requests)
                        /\ Stands(pos, requests, served, parsed, chunked, TRUE)
    BY Zenon DEF Served
<1>2. PICK t \in Nat : t = Len(served)
    BY DEF ServerTyped
<1>3. PICK size \in Nat : size = Len(requests)
    BY DEF ServerTyped
<1>4. PICK n \in Nat : n = Len(up)
    BY DEF ServerTyped
<1>5. /\ t <= size /\ \A i \in 1..t : served[i] = requests[i]
      /\ parsed = pos[t]
    BY <1>1, <1>2, <1>3, Zenon DEF Stands
<1>6. /\ pos \in [Nat -> Nat] /\ masks \in [Nat -> BOOLEAN] /\ pos[size] = n
      /\ \A i \in 1..size :
            FrameLies(up, pos[i - 1], pos[i], requests[i].size, masks[i], i)
    BY <1>1, <1>3, <1>4, Zenon DEF LaidOut
<1>7. PICK a \in Nat : a = parsed
    BY Zenon DEF ServerTyped
<1>8. PICK c \in Nat : c = chunked /\ a <= c /\ c <= n
    BY <1>4, <1>7, Zenon DEF ServerTyped
<1>9. ASSUME t < size PROVE chunked < pos[t + 1]
  <2>1. PICK k \in 1..size : k = t + 1 /\ k - 1 = t
      BY <1>9
  <2>2. PICK f \in Requests : f = requests[k]
      BY <1>3 DEF ServerTyped
  <2>3. PICK s \in Nat : s = f.size
      BY RequestsAssumption
  <2>4. PICK masked \in BOOLEAN : masked = masks[k]
      BY <1>6
  <2>5. PICK b \in Nat : b = pos[k]
      BY <1>6
  <2>6. FrameLies(up, a, b, s, masked, k)
      BY <1>5, <1>6, <1>7, <2>1, <2>2, <2>3, <2>4, <2>5, Zenon
  <2>7. k \in Nat /\ up \in Seq(CellType) /\ a <= c /\ c <= Len(up)
      BY <1>4, <1>8 DEF ServerTyped
  <2>8. PICK l \in Nat : l = c - a
      BY <1>8
  <2>9. Fronted(rxBuf, l, s, masked, k)
    <3>1. Fronted(SubSeq(up, a + 1, c), c - a, s, masked, k)
        BY <2>6, <2>7, FrontAt, SMTT(30)
    <3> QED BY <1>7, <1>8, <2>8, <3>1, Zenon DEF rxBuf
  <2>10. ~(l >= WireLen(s, masked))
      BY <2>7, <2>9, FrameComplete, Zenon
  <2>11. PICK w \in Nat : w = WireLen(s, masked)
      BY FramingAssumption DEF WireLen, HeadLen, KeyLen
  <2>12. b = a + w
      BY <2>6, <2>11, Zenon DEF FrameLies
  <2>13. c < b
      BY <1>8, <2>8, <2>10, <2>11, <2>12
  <2> QED BY <1>8, <2>1, <2>5, <2>13, Zenon
<1>10. Stands(pos, requests, served, parsed, chunked, FALSE)
    BY <1>2, <1>3, <1>5, <1>9, Zenon DEF Stands
<1> QED BY <1>1, <1>10, Zenon DEF Served

\* It holds at the start.
LEMMA ServerInvInit == ServerInit => ServerInv
<1> SUFFICES ASSUME ServerInit PROVE ServerInv
    OBVIOUS
<1>1. ServerTyped
  <2>1. /\ <<>> \in Seq(CellType) /\ <<>> \in Seq(Requests) /\ <<>> \in Seq(Frame)
        /\ Len(<<>>) = 0
      OBVIOUS
  <2>2. 0 \in Nat /\ 0 <= 0 /\ FALSE \in BOOLEAN
      OBVIOUS
  <2> QED BY <2>1, <2>2, Zenon DEF ServerInit, ServerTyped
<1>2. ~upgraded
    BY DEF ServerInit
<1> QED BY <1>1, <1>2, Zenon DEF ServerInv

\* Writing disturbs nothing that was written, and none of what was taken.
LEMMA ServerInvClient ==
    ASSUME ServerInv,
           \/ Connect
           \/ \E frame \in Requests, masked \in BOOLEAN : SendRequest(frame, masked)
    PROVE  ServerInv'
<1>1. ServerTyped
    BY Zenon DEF ServerInv
<1>2. CASE Connect
  <2>1. ~upgraded /\ requests = <<>>
      BY <1>1, <1>2, Zenon DEF Connect, ServerTyped
  <2>2. PICK http \in Seq(CellType) : http = HttpCells(1)
      BY HttpAt
  <2>3. up' = up \o http /\ requests' = requests \o <<>>
      BY <1>2, <2>2, Zenon DEF Connect, ClientWrites
  <2>4. up' \in Seq(CellType) /\ Len(up) <= Len(up') /\ requests' = requests
      BY <1>1, <2>1, <2>3 DEF ServerTyped
  <2>5. UNCHANGED <<script, chunked, parsed, upgraded, busy, served, sent>>
      BY <1>2, Zenon DEF Connect, ClientWrites
  <2>6. ServerTyped'
      BY <1>1, <2>1, <2>4, <2>5 DEF ServerTyped
  <2>7. ~upgraded'
      BY <2>1, <2>5
  <2> QED BY <2>6, <2>7, Zenon DEF ServerInv
<1>3. ASSUME NEW frame \in Requests, NEW masked \in BOOLEAN, SendRequest(frame, masked)
      PROVE  ServerInv'
  <2>1. upgraded /\ Served(up, requests, served, parsed, chunked, busy)
      BY <1>3, Zenon DEF SendRequest, ServerInv
  <2>2. PICK n \in Nat : n = frame.size
      BY RequestsAssumption
  <2>3. PICK m \in Nat : m = Len(requests) + 1
      BY <1>1 DEF ServerTyped
  <2>4. PICK c \in Seq(CellType) : c = Framed(frame.size, masked, Len(requests) + 1)
    <3>1. Readable(Framed(n, masked, m), n, masked, m)
        BY RequestAt, Zenon
    <3> QED BY <2>2, <2>3, <3>1, Zenon DEF Readable
  <2>5. up' = up \o c /\ requests' = requests \o <<frame>>
      BY <1>3, <2>4, Zenon DEF SendRequest, ClientWrites
  <2>6. UNCHANGED <<script, chunked, parsed, upgraded, busy, served, sent>>
      BY <1>3, Zenon DEF SendRequest, ClientWrites
  <2>7. up' \in Seq(CellType) /\ Len(up) <= Len(up') /\ requests' \in Seq(Requests)
        /\ (up # <<>> => up' # <<>>)
      BY <1>1, <2>5 DEF ServerTyped
  <2>8. ServerTyped'
    <3>1. chunked <= Len(up')
      <4>1. PICK p \in Nat : p = Len(up)
          BY <1>1 DEF ServerTyped
      <4>2. PICK q \in Nat : q = Len(up')
          BY <2>7
      <4> QED BY <1>1, <2>7, <4>1, <4>2 DEF ServerTyped
    <3>2. upgraded' /\ up' # <<>>
        BY <1>1, <2>1, <2>6, <2>7, Zenon DEF ServerTyped
    <3> QED BY <1>1, <2>6, <2>7, <3>1, <3>2, Zenon DEF ServerTyped
  <2>9. Served(up', requests', served, parsed, chunked, busy)
    <3>1. /\ up \in Seq(CellType) /\ requests \in Seq(Requests)
          /\ served \in Seq(Requests) /\ parsed \in Nat /\ chunked \in Nat
          /\ chunked <= Len(up) /\ busy \in BOOLEAN
        BY <1>1, Zenon DEF ServerTyped
    <3>2. Served(up \o Framed(frame.size, masked, Len(requests) + 1),
                 requests \o <<frame>>, served, parsed, chunked, busy)
        BY <2>1, <3>1, OneMoreServed, SMTT(30)
    <3> QED BY <2>4, <2>5, <3>2, Zenon
  <2> QED BY <2>6, <2>8, <2>9, Zenon DEF ServerInv
<1> QED BY <1>2, <1>3

\* Neither does the server, whatever comes in a chunk.
LEMMA ServerInvServe ==
    ASSUME ServerInv, Serve
    PROVE  ServerInv'
<1>1. ServerTyped
    BY Zenon DEF ServerInv
<1>2. CASE Upgrade
  <2>1. /\ upgraded' /\ chunked' = Len(up) /\ parsed' = Len(up)
        /\ sent' = sent \o <<SettingsFrame>>
        /\ UNCHANGED <<script, up, requests, busy, served>>
        /\ ~upgraded /\ up # <<>>
      BY <1>2, Zenon DEF Upgrade, ServerWrites
  <2>2. requests = <<>> /\ served = <<>> /\ ~busy /\ up \in Seq(CellType)
      BY <1>1, <2>1, Zenon DEF ServerTyped
  <2>3. SettingsFrame \in Frame
      BY DEF SettingsFrame, LMFrame, Frame, Opcode
  <2>4. sent' \in Seq(Frame)
      BY <1>1, <2>1, <2>3 DEF ServerTyped
  <2>5. ServerTyped'
      BY <1>1, <2>1, <2>2, <2>4 DEF ServerTyped
  <2>6. Served(up, <<>>, <<>>, Len(up), Len(up), FALSE)
    <3>1. FALSE \in BOOLEAN
        OBVIOUS
    <3> QED BY <2>2, <3>1, NothingServed, Zenon
  <2>7. Served(up', requests', served', parsed', chunked', FALSE)
      BY <2>1, <2>2, <2>6, Zenon
  <2>8. busy' = FALSE
      BY <1>1, <2>1, <2>2 DEF ServerTyped
  <2> QED BY <2>5, <2>7, <2>8, Zenon DEF ServerInv
<1>3. ASSUME upgraded PROVE Served(up, requests, served, parsed, chunked, busy)
    BY <1>3, Zenon DEF ServerInv
<1>4. CASE Data
  <2>1. /\ upgraded /\ ~busy /\ busy' = TRUE
        /\ chunked' \in (chunked + 1)..Len(up)
        /\ UNCHANGED <<script, up, requests, parsed, upgraded, served, sent>>
      BY <1>4, Zenon DEF Data
  <2>2. ServerTyped'
      BY <1>1, <2>1 DEF ServerTyped
  <2>3. PICK pos, masks : /\ LaidOut(pos, masks, up, requests)
                          /\ Stands(pos, requests, served, parsed, chunked, busy)
      BY <1>3, <2>1, Zenon DEF Served
  <2>4. Stands(pos, requests, served, parsed, chunked', TRUE)
      BY <2>3, Zenon DEF Stands
  <2>5. Served(up', requests', served', parsed', chunked', busy')
      BY <2>1, <2>3, <2>4, Zenon DEF Served
  <2> QED BY <2>2, <2>5, Zenon DEF ServerInv
<1>5. CASE TakeFrame
  <2>1. PICK at : at = chunked - Len(Subarray(rxBuf, Offset(rxBuf) + PayloadLen(rxBuf),
                                              Len(rxBuf)))
      OBVIOUS
  <2>2. PICK frame : frame = Request(Subarray(rxBuf, Offset(rxBuf),
                                              Offset(rxBuf) + PayloadLen(rxBuf)))
      OBVIOUS
  <2>3. PICK k : k = Len(served) + 1
      OBVIOUS
  <2>4. busy /\ HasFrame(rxBuf)
      BY <1>5, Zenon DEF TakeFrame
  <2>5. /\ parsed' = at /\ served' = served \o frame
        /\ sent' = sent \o (IF frame = <<>> THEN <<>> ELSE Reply(frame[1]))
        /\ UNCHANGED <<script, up, requests, chunked, upgraded, busy>>
      BY <1>5, <2>1, <2>2, Zenon DEF TakeFrame, ServerWrites
  <2>6. upgraded
      BY <1>1, <2>4, Zenon DEF ServerTyped
  <2>7. Cut(k)
      BY <1>1, <1>3, <2>3, <2>4, <2>6, NextTaken, Zenon
  <2>8. frame = <<requests[k]>> /\ k \in 1..Len(requests)
      BY <2>2, <2>7, Zenon DEF Cut
  <2>9. PICK f \in Requests : f = requests[k]
      BY <1>1, <2>8 DEF ServerTyped
  <2>10. frame # <<>> /\ frame[1] = f
      BY <2>8, <2>9
  <2>11. sent' = sent \o Reply(f)
      BY <2>5, <2>10, Zenon
  <2>12. Reply(f) \in Seq(Frame)
    <3>1. script \in Scripts
        BY <1>1, Zenon DEF ServerTyped
    <3> QED BY <3>1, ReplyFrames, Zenon
  <2>13. sent' \in Seq(Frame)
      BY <1>1, <2>11, <2>12 DEF ServerTyped
  <2>14. served' \in Seq(Requests)
      BY <1>1, <2>5, <2>8, <2>9 DEF ServerTyped
  <2>15. parsed' \in Nat /\ parsed' <= chunked
      BY <2>1, <2>5, <2>7, Zenon DEF Cut
  <2>16. ServerTyped'
      BY <1>1, <2>5, <2>6, <2>13, <2>14, <2>15, Zenon DEF ServerTyped
  <2>17. Served(up', requests', served', parsed', chunked', busy')
      BY <2>1, <2>2, <2>5, <2>7, <2>8, Zenon DEF Cut
  <2> QED BY <2>16, <2>17, Zenon DEF ServerInv
<1>6. CASE LeaveLoop
  <2>1. /\ busy /\ ~HasFrame(rxBuf) /\ busy' = FALSE
        /\ UNCHANGED <<script, up, requests, chunked, parsed, upgraded, served, sent>>
      BY <1>6, Zenon DEF LeaveLoop
  <2>2. upgraded
      BY <1>1, <2>1, Zenon DEF ServerTyped
  <2>3. ServerTyped'
      BY <1>1, <2>1, <2>2, Zenon DEF ServerTyped
  <2>4. busy = TRUE
      BY <1>1, <2>1 DEF ServerTyped
  <2>5. Served(up, requests, served, parsed, chunked, TRUE)
      BY <1>3, <2>2, <2>4, Zenon
  <2>6. Served(up, requests, served, parsed, chunked, FALSE)
      BY <1>1, <2>1, <2>5, LoopLeft, Zenon
  <2> QED BY <2>1, <2>3, <2>6, Zenon DEF ServerInv
<1> QED BY <1>2, <1>4, <1>5, <1>6, Zenon DEF Serve

\* The invariant holds throughout.
LEMMA ServerInvAlways == ServerSpec => []ServerInv
<1>1. ServerInv /\ [ServerNext]_serverVars => ServerInv'
  <2> SUFFICES ASSUME ServerInv, [ServerNext]_serverVars PROVE ServerInv'
      OBVIOUS
  <2>1. CASE UNCHANGED serverVars
    <3>1. UNCHANGED <<script, up, requests, chunked, parsed, upgraded, busy, served,
                      sent>>
        BY <2>1, Zenon DEF serverVars
    <3> QED BY <3>1, Zenon DEF ServerInv, ServerTyped
  <2>2. CASE ServerNext
    <3>1. \/ Serve
          \/ Connect
          \/ \E frame \in Requests, masked \in BOOLEAN : SendRequest(frame, masked)
        BY <2>2, Zenon DEF ServerNext
    <3> QED BY <3>1, ServerInvClient, ServerInvServe, Zenon
  <2> QED BY <2>1, <2>2
<1> QED BY <1>1, ServerInvInit, PTL DEF ServerSpec

------------------------------------------------------------------------------
(* Theorems *)

\* For every set of requests, however many, with and without masks: what the
\* server reads are positions in the stream, and what it writes are frames.
THEOREM ServerTyping == ServerSpec => []ServerTypeOK
<1>1. ServerInv => ServerTypeOK
    BY DEF ServerInv, ServerTyped, ServerTypeOK
<1> QED BY <1>1, ServerInvAlways, PTL

\* For every such set and every way the chunks are cut: the loop takes the
\* frames out whole, each once and in order, and leaves none that has arrived.
THEOREM ServerTakesInOrder == ServerSpec => []RequestsInOrder
<1>1. ServerInv => RequestsInOrder
  <2> SUFFICES ASSUME ServerInv PROVE RequestsInOrder
      OBVIOUS
  <2>1. ServerTyped
      BY Zenon DEF ServerInv
  <2>2. PICK t \in Nat : t = Len(served)
      BY <2>1 DEF ServerTyped
  <2>3. PICK size \in Nat : size = Len(requests)
      BY <2>1 DEF ServerTyped
  <2>4. CASE ~upgraded
    <3>1. served = <<>> /\ requests = <<>>
        BY <2>1, <2>4, Zenon DEF ServerTyped
    <3> QED BY <3>1, <2>4 DEF RequestsInOrder, IsPrefix
  <2>5. CASE upgraded
    <3>1. PICK pos, masks : /\ LaidOut(pos, masks, up, requests)
                            /\ Stands(pos, requests, served, parsed, chunked, busy)
        BY <2>5, Zenon DEF ServerInv, Served
    <3>2. /\ t <= size /\ \A i \in 1..t : served[i] = requests[i]
          /\ ~busy /\ t < size => chunked < pos[t + 1]
        BY <2>2, <2>3, <3>1, Zenon DEF Stands
    <3>3. served \in Seq(Requests) /\ requests \in Seq(Requests)
        BY <2>1, Zenon DEF ServerTyped
    <3>4. IsPrefix(served, requests)
        BY <2>2, <2>3, <3>2, <3>3, SMTT(30) DEF IsPrefix
    <3>5. ASSUME ~busy, chunked = Len(up) PROVE served = requests
      <4>1. ASSUME t < size PROVE FALSE
        <5>1. PICK k \in 1..size : k = t + 1
            BY <4>1
        <5>2. FrameLies(up, pos[k - 1], pos[k], requests[k].size, masks[k], k)
            BY <2>3, <3>1, Zenon DEF LaidOut
        <5>3. pos[k] <= Len(up)
            BY <5>2, Zenon DEF FrameLies
        <5>4. pos \in [Nat -> Nat]
            BY <3>1, Zenon DEF LaidOut
        <5>5. PICK b \in Nat : b = pos[k]
            BY <5>4
        <5>6. PICK n \in Nat : n = Len(up)
            BY <2>1 DEF ServerTyped
        <5>7. n < b
            BY <3>2, <3>5, <4>1, <5>1, <5>5, <5>6
        <5> QED BY <5>3, <5>5, <5>6, <5>7
      <4>2. t = size
          BY <3>2, <4>1
      <4>3. Len(served) = Len(requests) /\ \A i \in 1..Len(served) : served[i] = requests[i]
          BY <2>2, <2>3, <3>2, <4>2, Zenon
      <4> QED BY <3>3, <4>3, SeqEqual, Zenon
    <3> QED BY <3>4, <3>5, Zenon DEF RequestsInOrder
  <2> QED BY <2>4, <2>5
<1> QED BY <1>1, ServerInvAlways, PTL

==============================================================================
