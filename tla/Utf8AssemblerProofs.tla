------------------------- MODULE Utf8AssemblerProofs -------------------------
(***************************************************************************)
(* Lemmas about the byte-level operators: how sequences of whole and of    *)
(* incomplete characters split and join, where the backward scan of the    *)
(* assembler cuts, and what slicing does behind an ASCII prefix.           *)
(***************************************************************************)
EXTENDS Utf8Assembler, FiniteSetTheorems, SequenceTheorems, TLAPS

\* Joining and splitting at a byte position, byte by byte.
LEMMA ConcatAt ==
    ASSUME NEW s \in Seq(Byte), NEW u \in Seq(Byte)
    PROVE  /\ s \o u \in Seq(Byte)
           /\ Len(s \o u) = Len(s) + Len(u)
           /\ \A i \in 1..Len(s) : (s \o u)[i] = s[i]
           /\ \A i \in 1..Len(u) : (s \o u)[Len(s) + i] = u[i]
  OBVIOUS

\* The bytes of a part of a sequence.
LEMMA SubSeqAt ==
    ASSUME NEW s \in Seq(Byte), NEW m \in 0..Len(s), NEW n \in 0..Len(s), m <= n
    PROVE  /\ SubSeq(s, m + 1, n) \in Seq(Byte)
           /\ Len(SubSeq(s, m + 1, n)) = n - m
           /\ \A i \in 1..(n - m) : SubSeq(s, m + 1, n)[i] = s[m + i]
  OBVIOUS

\* A sequence is its first n bytes followed by the others.
LEMMA SplitAt ==
    ASSUME NEW s \in Seq(Byte), NEW m \in 0..Len(s)
    PROVE  SubSeq(s, 1, m) \o SubSeq(s, m + 1, Len(s)) = s
<1> DEFINE a == SubSeq(s, 1, m)
           b == SubSeq(s, m + 1, Len(s))
<1>1. /\ a \in Seq(Byte) /\ Len(a) = m
      /\ \A i \in 1..m : a[i] = s[i]
  OBVIOUS
<1>2. /\ b \in Seq(Byte) /\ Len(b) = Len(s) - m
      /\ \A i \in 1..(Len(s) - m) : b[i] = s[m + i]
  BY SubSeqAt
<1> HIDE DEF a, b
<1>3. /\ a \o b \in Seq(Byte)
      /\ Len(a \o b) = Len(s)
      /\ \A i \in 1..m : (a \o b)[i] = a[i]
      /\ \A i \in 1..(Len(s) - m) : (a \o b)[m + i] = b[i]
  BY <1>1, <1>2, ConcatAt
<1>4. ASSUME NEW i \in 1..Len(s)
      PROVE  (a \o b)[i] = s[i]
  <2>1. CASE i <= m
    BY <1>1, <1>3, <2>1
  <2>2. CASE ~(i <= m)
    <3>1. i - m \in 1..(Len(s) - m) /\ m + (i - m) = i
      BY <2>2
    <3> QED BY <1>2, <1>3, <3>1
  <2> QED BY <2>1, <2>2
<1> QED BY <1>3, <1>4, SeqEqual DEF a, b

\* The number of continuation bytes is at most three, and a byte of a text is
\* either a continuation byte or the start of a character.
LEMMA NeedRange ==
    ASSUME NEW b \in Byte
    PROVE  /\ Need(b) \in 0..3
           /\ IsCont(b) => Need(b) = 0
           /\ b < 128 => Need(b) = 0 /\ ~IsCont(b)
  BY DEF Need, IsCont, Byte

\* The part of a text behind a byte position between two characters is a text.
LEMMA TailPartialAt ==
    ASSUME NEW w \in Seq(Byte), NEW m \in 0..Len(w), NEW u \in Seq(Byte),
           Len(u) = Len(w) - m,
           \A i \in 1..Len(u) : u[i] = w[m + i],
           Partial(w),
           \A i \in 1..m : i + Need(w[i]) <= m
    PROVE  Partial(u)
<1> SUFFICES ASSUME NEW i \in 1..Len(u)
             PROVE  /\ u[i] \in 0..247
                    /\ \A j \in 1..Need(u[i]) : i + j <= Len(u) => IsCont(u[i + j])
                    /\ IsCont(u[i]) =>
                          \E j \in 1..3 : /\ j < i
                                          /\ j <= Need(u[i - j])
                                          /\ \A k \in 1..(j - 1) : IsCont(u[i - k])
  BY DEF Partial
<1>1. /\ m + i \in 1..Len(w)
      /\ w[m + i] = u[i]
  OBVIOUS
<1>2. u[i] \in 0..247
  BY <1>1 DEF Partial
<1>3. ASSUME NEW j \in 1..Need(u[i]), i + j <= Len(u)
      PROVE  IsCont(u[i + j])
  <2>1. j \in Nat \ {0}
    BY NeedRange, u[i] \in Byte
  <2>2. m + i + j <= Len(w)
    BY <1>3, <2>1
  <2>3. IsCont(w[m + i + j])
    BY <1>1, <2>2 DEF Partial
  <2>4. i + j \in 1..Len(u) /\ m + (i + j) = m + i + j
    BY <1>3, <2>1
  <2> QED BY <2>3, <2>4
<1>4. ASSUME IsCont(u[i])
      PROVE  \E j \in 1..3 : /\ j < i
                             /\ j <= Need(u[i - j])
                             /\ \A k \in 1..(j - 1) : IsCont(u[i - k])
  <2>1. PICK j \in 1..3 : /\ j < m + i
                          /\ j <= Need(w[m + i - j])
                          /\ \A k \in 1..(j - 1) : IsCont(w[m + i - k])
    BY <1>1, <1>4 DEF Partial
  <2>2. j < i
    <3> SUFFICES ASSUME i <= j PROVE FALSE
      OBVIOUS
    <3>1. m + i - j \in 1..m
      BY <2>1
    <3>2. m + i - j + Need(w[m + i - j]) <= m
      BY <3>1
    <3>3. Need(w[m + i - j]) \in 0..3
      BY <3>1, NeedRange
    <3> QED BY <2>1, <3>1, <3>2, <3>3
  <2>3. ASSUME NEW k \in 1..j
        PROVE  w[m + i - k] = u[i - k]
    <3>1. i - k \in 1..Len(u) /\ m + (i - k) = m + i - k
      BY <2>2
    <3> QED BY <3>1
  <2>4. w[m + i - j] = u[i - j]
    BY <2>3
  <2>5. \A k \in 1..(j - 1) : w[m + i - k] = u[i - k]
    BY <2>3
  <2> QED BY <2>1, <2>2, <2>4, <2>5
<1> QED BY <1>2, <1>3, <1>4

\* ... whether or not its last character is complete.
LEMMA TailPartial ==
    ASSUME NEW s \in Seq(Byte), NEW u \in Seq(Byte),
           Partial(s \o u), Closed(s)
    PROVE  Partial(u)
<1>1. \A i \in 1..Len(s) : i + Need((s \o u)[i]) <= Len(s)
  BY ConcatAt DEF Closed
<1>2. /\ s \o u \in Seq(Byte)
      /\ Len(s) \in 0..Len(s \o u)
      /\ Len(u) = Len(s \o u) - Len(s)
      /\ \A i \in 1..Len(u) : u[i] = (s \o u)[Len(s) + i]
  BY ConcatAt
<1> QED BY <1>1, <1>2, TailPartialAt

\* ... and it is whole if the text is.
LEMMA TailWellFormed ==
    ASSUME NEW s \in Seq(Byte), NEW u \in Seq(Byte),
           WellFormed(s \o u), Closed(s)
    PROVE  WellFormed(u)
<1>1. Partial(u)
  BY TailPartial DEF WellFormed
<1>2. ASSUME NEW i \in 1..Len(u)
      PROVE  i + Need(u[i]) <= Len(u)
  <2>1. /\ Len(s) + i \in 1..Len(s \o u)
        /\ (s \o u)[Len(s) + i] = u[i]
    BY ConcatAt
  <2>2. Len(s) + i + Need(u[i]) <= Len(s) + Len(u)
    BY <2>1, ConcatAt DEF WellFormed, Closed
  <2>3. Need(u[i]) \in 0..3
    BY NeedRange
  <2> QED BY <2>2, <2>3
<1> QED BY <1>1, <1>2 DEF WellFormed, Closed

\* Whole characters followed by whole characters are whole characters.
LEMMA ConcatWellFormed ==
    ASSUME NEW s \in Seq(Byte), NEW u \in Seq(Byte),
           WellFormed(s), WellFormed(u)
    PROVE  WellFormed(s \o u)
<1> DEFINE w == s \o u
<1>w. /\ w \in Seq(Byte)
      /\ Len(w) = Len(s) + Len(u)
      /\ Len(s) \in Nat /\ Len(u) \in Nat
      /\ \A i \in 1..Len(s) : w[i] = s[i]
      /\ \A i \in 1..Len(u) : w[Len(s) + i] = u[i]
  BY ConcatAt
<1> HIDE DEF w
<1> SUFFICES ASSUME NEW i \in 1..Len(w)
             PROVE  /\ w[i] \in 0..247
                    /\ \A j \in 1..Need(w[i]) : i + j <= Len(w) => IsCont(w[i + j])
                    /\ IsCont(w[i]) =>
                          \E j \in 1..3 : /\ j < i
                                          /\ j <= Need(w[i - j])
                                          /\ \A k \in 1..(j - 1) : IsCont(w[i - k])
                    /\ i + Need(w[i]) <= Len(w)
  BY SMTT(60) DEF w, WellFormed, Partial, Closed
<1>1. CASE i \in 1..Len(s)
  <2>1. /\ w[i] = s[i]
        /\ i + Need(s[i]) <= Len(s)
        /\ Need(s[i]) \in 0..3
    BY <1>w, <1>1, NeedRange DEF WellFormed, Closed
  <2>2. s[i] \in 0..247
    BY <1>1 DEF WellFormed, Partial
  <2>3. ASSUME NEW j \in 1..Need(s[i])
        PROVE  IsCont(w[i + j])
    <3>1. i + j \in 1..Len(s)
      BY <2>1
    <3>2. IsCont(s[i + j])
      BY <1>1, <3>1 DEF WellFormed, Partial
    <3> QED BY <1>w, <3>1, <3>2
  <2>4. ASSUME IsCont(s[i])
        PROVE  \E j \in 1..3 : /\ j < i
                               /\ j <= Need(w[i - j])
                               /\ \A k \in 1..(j - 1) : IsCont(w[i - k])
    <3>1. PICK j \in 1..3 : /\ j < i
                            /\ j <= Need(s[i - j])
                            /\ \A k \in 1..(j - 1) : IsCont(s[i - k])
      BY <1>1, <2>4 DEF WellFormed, Partial
    <3>2. /\ i - j \in 1..Len(s)
          /\ \A k \in 1..(j - 1) : i - k \in 1..Len(s)
      BY <1>1, <3>1
    <3>3. /\ w[i - j] = s[i - j]
          /\ \A k \in 1..(j - 1) : w[i - k] = s[i - k]
      BY <1>w, <3>2
    <3> QED BY <1>1, <3>1, <3>3
  <2> QED BY <1>w, <2>1, <2>2, <2>3, <2>4
<1>2. CASE i \notin 1..Len(s)
  <2> DEFINE n == i - Len(s)
  <2>n. /\ n \in 1..Len(u)
        /\ i = Len(s) + n
    BY <1>w, <1>2
  <2> HIDE DEF n
  <2>0. /\ n \in 1..Len(u)
        /\ i = Len(s) + n
        /\ w[i] = u[n]
    BY <1>w, <2>n
  <2>1. /\ n + Need(u[n]) <= Len(u)
        /\ Need(u[n]) \in 0..3
    BY <2>0, NeedRange DEF WellFormed, Closed
  <2>2. u[n] \in 0..247
    BY <2>0 DEF WellFormed, Partial
  <2>3. ASSUME NEW j \in 1..Need(u[n])
        PROVE  IsCont(w[i + j])
    <3>1. n + j \in 1..Len(u)
      BY <2>0, <2>1
    <3>2. IsCont(u[n + j])
      BY <2>0, <3>1 DEF WellFormed, Partial
    <3>3. w[Len(s) + (n + j)] = u[n + j]
      BY <1>w, <3>1
    <3> QED BY <2>0, <2>1, <3>2, <3>3
  <2>4. ASSUME IsCont(u[n])
        PROVE  \E j \in 1..3 : /\ j < i
                               /\ j <= Need(w[i - j])
                               /\ \A k \in 1..(j - 1) : IsCont(w[i - k])
    <3>1. PICK j \in 1..3 : /\ j < n
                            /\ j <= Need(u[n - j])
                            /\ \A k \in 1..(j - 1) : IsCont(u[n - k])
      BY <2>0, <2>4 DEF WellFormed, Partial
    <3>a. /\ n - j \in 1..Len(u)
          /\ \A k \in 1..(j - 1) : n - k \in 1..Len(u)
      BY <1>w, <2>0, <3>1
    <3>2. /\ w[Len(s) + (n - j)] = u[n - j]
          /\ \A k \in 1..(j - 1) : w[Len(s) + (n - k)] = u[n - k]
      BY <1>w, <3>a
    <3>3. /\ Len(s) + (n - j) = i - j
          /\ \A k \in 1..(j - 1) : Len(s) + (n - k) = i - k
      BY <1>w, <2>0
    <3>4. /\ w[i - j] = u[n - j]
          /\ \A k \in 1..(j - 1) : w[i - k] = u[n - k]
      BY <3>2, <3>3
    <3>5. j < i
      BY <1>w, <2>0, <3>1
    <3> QED BY <3>1, <3>4, <3>5
  <2> QED BY <1>w, <2>0, <2>1, <2>2, <2>3, <2>4
<1> QED BY <1>1, <1>2

\* No bytes are no character.
LEMMA EmptyPartial == Partial(<<>>)
  BY DEF Partial

\* What is left of a text cut at any byte position.
LEMMA PrefixPartial ==
    ASSUME NEW s \in Seq(Byte), NEW m \in 0..Len(s), Partial(s)
    PROVE  Partial(SubSeq(s, 1, m))
<1> DEFINE p == SubSeq(s, 1, m)
<1>p. /\ p \in Seq(Byte)
      /\ Len(p) = m
      /\ \A i \in 1..m : p[i] = s[i]
  OBVIOUS
<1> HIDE DEF p
<1> SUFFICES ASSUME NEW i \in 1..m
             PROVE  /\ p[i] \in 0..247
                    /\ \A j \in 1..Need(p[i]) : i + j <= m => IsCont(p[i + j])
                    /\ IsCont(p[i]) =>
                          \E j \in 1..3 : /\ j < i
                                          /\ j <= Need(p[i - j])
                                          /\ \A k \in 1..(j - 1) : IsCont(p[i - k])
  BY <1>p DEF p, Partial
<1>1. i \in 1..Len(s) /\ p[i] = s[i]
  BY <1>p
<1>2. s[i] \in 0..247
  BY <1>1 DEF Partial
<1>3. ASSUME NEW j \in 1..Need(s[i]), i + j <= m
      PROVE  IsCont(p[i + j])
  <2>1. j \in Nat \ {0}
    BY <1>1, NeedRange
  <2>2. i + j \in 1..m /\ i + j <= Len(s)
    BY <1>3, <2>1
  <2>3. IsCont(s[i + j])
    BY <1>1, <2>2 DEF Partial
  <2> QED BY <1>p, <2>2, <2>3
<1>4. ASSUME IsCont(s[i])
      PROVE  \E j \in 1..3 : /\ j < i
                             /\ j <= Need(p[i - j])
                             /\ \A k \in 1..(j - 1) : IsCont(p[i - k])
  <2>1. PICK j \in 1..3 : /\ j < i
                          /\ j <= Need(s[i - j])
                          /\ \A k \in 1..(j - 1) : IsCont(s[i - k])
    BY <1>1, <1>4 DEF Partial
  <2>2. /\ i - j \in 1..m
        /\ \A k \in 1..(j - 1) : i - k \in 1..m
    BY <2>1
  <2>3. /\ p[i - j] = s[i - j]
        /\ \A k \in 1..(j - 1) : p[i - k] = s[i - k]
    BY <1>p, <2>2
  <2> QED BY <2>1, <2>3
<1> QED BY <1>1, <1>2, <1>3, <1>4

\* The scan finds the character that is cut in two, wherever the cut is: what
\* is rendered is closed, and what is kept begins with the leading byte of the
\* one character that the buffer does not hold entirely.
LEMMA ScanFindsCut ==
    ASSUME NEW buf \in Seq(Byte), Partial(buf)
    PROVE  LET v == ValidLen(buf) IN
           /\ v \in 0..Len(buf)
           /\ \A i \in 1..v : i + Need(buf[i]) <= v
           /\ v < Len(buf) => Len(buf) - v <= Need(buf[v + 1])
<1> DEFINE n == Len(buf)
           v == ValidLen(buf)
<1>n. n \in Nat
  OBVIOUS
<1>need. \A i \in 1..n : Need(buf[i]) \in 0..3
  BY NeedRange
<1>1. ASSUME NEW t \in 0..2, CutShort(buf, t)
      PROVE  /\ n - t \in 1..n
             /\ t < Need(buf[n - t])
             /\ \A i \in 1..(n - 1 - t) : i + Need(buf[i]) <= n - 1 - t
  <2>1. /\ n - t \in 1..n
        /\ ~IsCont(buf[n - t])
        /\ t < Need(buf[n - t])
    BY <1>1 DEF CutShort, ScanStops
  <2>2. ASSUME NEW i \in 1..(n - 1 - t), i + Need(buf[i]) > n - 1 - t
        PROVE  FALSE
    <3> DEFINE j == n - t - i
    <3>0. i \in 1..n /\ Need(buf[i]) \in 0..3
      BY <1>n, <1>need
    <3>1. j \in 1..Need(buf[i]) /\ i + j = n - t
      BY <1>n, <2>2, <3>0
    <3> HIDE DEF j
    <3>2. IsCont(buf[i + j])
      BY <2>1, <3>0, <3>1 DEF Partial
    <3>3. IsCont(buf[n - t])
      BY <3>1, <3>2
    <3> QED BY <2>1, <3>3
  <2>3. ASSUME NEW i \in 1..(n - 1 - t)
        PROVE  i + Need(buf[i]) <= n - 1 - t
    <3>1. i \in 1..n /\ Need(buf[i]) \in 0..3
      BY <1>n, <1>need
    <3> QED BY <1>n, <2>2, <3>1
  <2> QED BY <2>1, <2>3
<1>2. CASE \E t \in 0..2 : CutShort(buf, t)
  <2>1. PICK t \in 0..2 : CutShort(buf, t) /\ v = n - 1 - t
    BY <1>2 DEF ValidLen
  <2>2. /\ n - t \in 1..n
        /\ t < Need(buf[n - t])
        /\ \A i \in 1..(n - 1 - t) : i + Need(buf[i]) <= n - 1 - t
    BY <2>1, <1>1
  <2>3. v + 1 = n - t
    BY <2>1, <1>n
  <2>4. n - v <= Need(buf[v + 1])
    BY <2>1, <2>2, <2>3, <1>need
  <2> QED BY <2>1, <2>2, <2>4, <1>n
<1>3. CASE ~ \E t \in 0..2 : CutShort(buf, t)
  <2>1. v = n
    BY <1>3 DEF ValidLen
  <2>2. ASSUME NEW i \in 1..n, i + Need(buf[i]) > n
        PROVE  FALSE
    <3> DEFINE t == n - i
    <3>1. t \in 0..2 /\ t < Need(buf[i]) /\ n - t = i
      BY <2>2, <1>need
    <3>2. ~IsCont(buf[i])
      BY <3>1, NeedRange
    <3>3. ASSUME NEW u \in 0..(t - 1)
          PROVE  IsCont(buf[n - u])
      <4>1. t - u \in 1..Need(buf[i]) /\ i + (t - u) = n - u /\ n - u <= n
        BY <3>1, <1>need, <1>n
      <4> QED BY <4>1 DEF Partial
    <3>4. CutShort(buf, t)
      BY <3>1, <3>2, <3>3 DEF CutShort, ScanStops
    <3> QED BY <1>3, <3>1, <3>4
  <2>3. \A i \in 1..n : i + Need(buf[i]) <= n
    BY <2>2, <1>need
  <2> QED BY <2>1, <2>3, <1>n
<1> QED BY <1>2, <1>3

\* A decoder that meets only whole characters puts out what it was given.
LEMMA DecodeWhole ==
    ASSUME NEW s \in Seq(Byte), WellFormed(s), NoBom(s)
    PROVE  Decode(s) = s
<1>1. ~BomAt(s, 1)
  BY DEF NoBom, BomAt
<1> QED BY <1>1 DEF Decode, WithoutBom

\* A part of a text without U+FEFF has none.
LEMMA PartNoBom ==
    ASSUME NEW s \in Seq(Byte), NEW u \in Seq(Byte), NEW w \in Seq(Byte),
           NoBom((s \o u) \o w)
    PROVE  NoBom(u)
<1> DEFINE a == s \o u
<1>1. /\ a \in Seq(Byte)
      /\ Len(a) = Len(s) + Len(u)
      /\ \A i \in 1..Len(u) : a[Len(s) + i] = u[i]
      /\ Len(s) \in Nat /\ Len(u) \in Nat /\ Len(w) \in Nat
  BY ConcatAt
<1> HIDE DEF a
<1>2. /\ Len(a \o w) = Len(a) + Len(w)
      /\ \A i \in 1..Len(a) : (a \o w)[i] = a[i]
  BY <1>1, ConcatAt
<1> SUFFICES ASSUME NEW i \in 1..Len(u), BomAt(u, i)
             PROVE  FALSE
  BY DEF NoBom
<1>3. i + 2 \in 1..Len(u) /\ i + 1 \in 1..Len(u)
  BY <1>1 DEF BomAt
<1>4. /\ a[Len(s) + i] = u[i]
      /\ a[Len(s) + (i + 1)] = u[i + 1]
      /\ a[Len(s) + (i + 2)] = u[i + 2]
  BY <1>1, <1>3
<1>5. /\ Len(s) + i \in 1..Len(a)
      /\ Len(s) + i + 1 \in 1..Len(a) /\ Len(s) + (i + 1) = Len(s) + i + 1
      /\ Len(s) + i + 2 \in 1..Len(a) /\ Len(s) + (i + 2) = Len(s) + i + 2
      /\ Len(s) + i \in 1..Len(a \o w)
      /\ Len(s) + i + 2 <= Len(a \o w)
  BY <1>1, <1>2, <1>3
<1>6. BomAt(a \o w, Len(s) + i)
  BY <1>2, <1>4, <1>5 DEF BomAt
<1> QED BY <1>5, <1>6 DEF NoBom, a

\* Behind an ASCII prefix, slicing by code units is slicing by bytes.
LEMMA SliceAscii ==
    ASSUME NEW s \in Seq(Byte), Partial(s), NEW n \in 0..Len(s), AllAscii(s, n)
    PROVE  Slice(s, n) = SubSeq(s, 1, n)
<1>n. Len(s) \in Nat /\ n \in Nat
  OBVIOUS
<1>1. ASSUME NEW i \in 1..n
      PROVE  i \in UnitStarts(s)
  <2>1. i \in 1..Len(s) /\ s[i] \in Byte
    BY <1>n
  <2>2. ~IsCont(s[i])
    BY <2>1, NeedRange DEF AllAscii
  <2> QED BY <2>1, <2>2 DEF UnitStarts
<1>fin. \A i \in 1..Len(s) : IsFiniteSet({j \in UnitStarts(s) : j <= i})
  <2>1. IsFiniteSet(1..Len(s))
    BY <1>n, FS_Interval
  <2>2. \A i \in 1..Len(s) : {j \in UnitStarts(s) : j <= i} \in SUBSET (1..Len(s))
    BY DEF UnitStarts
  <2> QED BY <2>1, <2>2, FS_Subset
<1>2. ASSUME NEW i \in 1..n
      PROVE  UnitsUpTo(s, i) <= n
  <2>1. {j \in UnitStarts(s) : j <= i} = 1..i
    BY <1>1, <1>n DEF UnitStarts
  <2>2. Cardinality(1..i) = i
    BY FS_Interval
  <2>3. UnitsUpTo(s, i) = i
    BY <2>1, <2>2, Zenon DEF UnitsUpTo
  <2> QED BY <2>3
<1>3. ASSUME NEW i \in 1..Len(s), i > n
      PROVE  ~(UnitsUpTo(s, i) <= n)
  <2>1. ~IsCont(s[n + 1])
    <3> SUFFICES ASSUME IsCont(s[n + 1]) PROVE FALSE
      OBVIOUS
    <3>1. PICK j \in 1..3 : j < n + 1 /\ j <= Need(s[n + 1 - j])
      BY <1>3, <1>n DEF Partial
    <3>2. n + 1 - j \in 1..n /\ n + 1 - j \in 1..Len(s)
      BY <3>1, <1>n
    <3>3. s[n + 1 - j] < 128 /\ s[n + 1 - j] \in Byte
      BY <3>2 DEF AllAscii
    <3>4. Need(s[n + 1 - j]) = 0
      BY <3>3, NeedRange
    <3> QED BY <3>1, <3>4
  <2>2. n + 1 \in UnitStarts(s)
    BY <2>1, <1>3, <1>n DEF UnitStarts
  <2>3. 1..(n + 1) \in SUBSET {j \in UnitStarts(s) : j <= i}
    <3> SUFFICES ASSUME NEW j \in 1..(n + 1)
                 PROVE  j \in UnitStarts(s) /\ j <= i
      OBVIOUS
    <3>1. CASE j = n + 1
      BY <2>2, <3>1, <1>3, <1>n
    <3>2. CASE j # n + 1
      BY <1>1, <3>2, <1>3, <1>n
    <3> QED BY <3>1, <3>2
  <2>4. Cardinality(1..(n + 1)) <= UnitsUpTo(s, i)
    BY <2>3, <1>fin, FS_Subset DEF UnitsUpTo
  <2>5. Cardinality(1..(n + 1)) = n + 1
    BY FS_Interval, <1>n
  <2>6. UnitsUpTo(s, i) \in Nat
    BY <1>fin, FS_CardinalityType DEF UnitsUpTo
  <2> QED BY <2>4, <2>5, <2>6, <1>n
<1>4. {i \in 1..Len(s) : UnitsUpTo(s, i) <= n} = 1..n
  BY <1>2, <1>3, <1>n
<1>5. Cardinality(1..n) = n
  BY FS_Interval, <1>n
<1> QED BY <1>4, <1>5 DEF Slice

------------------------------------------------------------------------------
(* One frame at the client. *)

\* Two adjacent parts of a text, joined, are the part that spans both.
LEMMA AdjacentParts ==
    ASSUME NEW s \in Seq(Byte), NEW m \in 0..Len(s), NEW n \in 0..Len(s), m <= n
    PROVE  SubSeq(s, 1, n) = SubSeq(s, 1, m) \o SubSeq(s, m + 1, n)
<1>1. SubSeq(s, 1, n) \in Seq(Byte) /\ Len(SubSeq(s, 1, n)) = n
  OBVIOUS
<1>2. /\ SubSeq(SubSeq(s, 1, n), 1, m) = SubSeq(s, 1, m)
      /\ SubSeq(SubSeq(s, 1, n), m + 1, n) = SubSeq(s, m + 1, n)
  OBVIOUS
<1> QED BY <1>1, <1>2, SplitAt

\* Kept folded in the lemma below, where its expansion would hide its use.
Joined(s, u, w) == s \o u = w

\* Joining three parts, in either order.
LEMMA JoinTwice ==
    ASSUME NEW s \in Seq(Byte), NEW t \in Seq(Byte), NEW u \in Seq(Byte)
    PROVE  Joined(s \o t, u, s \o (t \o u))
  BY ConcatAssociative DEF Joined

\* Data that continues the text of which acc is shown and pending kept.
Continues(acc, pending, boundary, data) ==
    /\ acc \in Seq(Byte) /\ pending \in Seq(Byte) /\ data \in Seq(Byte)
    /\ boundary \in BOOLEAN
    /\ WellFormed(acc)
    /\ Partial((acc \o pending) \o data)
    /\ NoBom((acc \o pending) \o data)
    /\ boundary => WellFormed((acc \o pending) \o data)

\* Of a text of which acc is put out and pending kept, r is put out next and k
\* kept: r ends between characters, and nothing is lost.
Parted(acc, r, k, all) ==
    /\ r \in Seq(Byte) /\ k \in Seq(Byte)
    /\ WellFormed(r) /\ Partial(k)
    /\ k # <<>> => Len(k) <= Need(k[1])
    /\ all = (acc \o r) \o k
    /\ acc \o r \in Seq(Byte) /\ WellFormed(acc \o r)

\* That is how the assembler parts what continues a text.
LEMMA AssemblerParts ==
    ASSUME NEW acc \in Seq(Byte), NEW pending \in Seq(Byte), NEW data \in Seq(Byte),
           NEW boundary \in BOOLEAN,
           WellFormed(acc), Partial((acc \o pending) \o data),
           boundary => WellFormed((acc \o pending) \o data)
    PROVE  Parted(acc, Rendered(pending, boundary, data),
                  Kept(pending, boundary, data), (acc \o pending) \o data)
<1> DEFINE all == (acc \o pending) \o data
           buf == pending \o data
           r   == Rendered(pending, boundary, data)
           k   == Kept(pending, boundary, data)
<1>1. /\ buf \in Seq(Byte)
      /\ all = acc \o buf
      /\ Partial(buf)
  <2>1. buf \in Seq(Byte) /\ all = acc \o buf
    <3>1. Joined(acc \o pending, data, acc \o (pending \o data))
      BY JoinTwice
    <3>2. pending \o data \in Seq(Byte)
      BY ConcatAt
    <3> QED BY <3>1, <3>2, Zenon DEF Joined
  <2>2. Partial(acc \o buf) /\ Closed(acc)
    BY <2>1 DEF WellFormed
  <2> HIDE DEF buf
  <2> QED BY <2>1, <2>2, TailPartial
<1>2. /\ r \in Seq(Byte) /\ k \in Seq(Byte)
      /\ buf = r \o k
      /\ WellFormed(r)
      /\ Partial(k)
      /\ k # <<>> => Len(k) <= Need(k[1])
  <2>1. CASE boundary
    <3>1. r = buf /\ k = <<>>
      BY <2>1 DEF Rendered, Kept
    <3>2. WellFormed(acc \o buf) /\ Closed(acc)
      BY <2>1, <1>1 DEF WellFormed
    <3> HIDE DEF r, k, buf
    <3>3. WellFormed(buf)
      BY <1>1, <3>2, TailWellFormed
    <3>4. Partial(<<>>)
      BY EmptyPartial
    <3>5. buf \o <<>> = buf
      BY <1>1, ConcatEmptySeq
    <3> QED BY <1>1, <3>1, <3>3, <3>4, <3>5
  <2>2. CASE ~boundary
    <3> DEFINE v == ValidLen(buf)
    <3>1. r = SubSeq(buf, 1, v) /\ k = SubSeq(buf, v + 1, Len(buf))
      BY <2>2 DEF Rendered, Kept
    <3> HIDE DEF r, k, buf
    <3>2. /\ v \in 0..Len(buf)
          /\ \A i \in 1..v : i + Need(buf[i]) <= v
          /\ v < Len(buf) => Len(buf) - v <= Need(buf[v + 1])
      BY <1>1, ScanFindsCut
    <3> HIDE DEF v
    <3>3. /\ r \in Seq(Byte) /\ Len(r) = v
          /\ \A i \in 1..v : r[i] = buf[i]
      BY <1>1, <3>1, <3>2
    <3>4. /\ k \in Seq(Byte) /\ Len(k) = Len(buf) - v
          /\ \A i \in 1..Len(k) : k[i] = buf[v + i]
      BY <1>1, <3>1, <3>2, SubSeqAt
    <3>5. buf = r \o k
      BY <1>1, <3>1, <3>2, SplitAt
    <3>6. WellFormed(r)
      <4>1. Partial(r)
        BY <1>1, <3>1, <3>2, PrefixPartial
      <4>2. Closed(r)
        BY <3>2, <3>3 DEF Closed
      <4> QED BY <4>1, <4>2 DEF WellFormed
    <3>7. Partial(k)
      BY <1>1, <3>2, <3>4, TailPartialAt
    <3>8. ASSUME k # <<>> PROVE Len(k) <= Need(k[1])
      <4>1. Len(k) > 0
        BY <3>4, <3>8
      <4>2. 1 \in 1..Len(k) /\ v < Len(buf)
        BY <1>1, <3>2, <3>4, <4>1
      <4> QED BY <3>2, <3>4, <4>2
    <3> QED BY <3>3, <3>4, <3>5, <3>6, <3>7, <3>8
  <2> QED BY <2>1, <2>2
<1> HIDE DEF r, k, buf
<1>3. all = (acc \o r) \o k
  <2>1. Joined(acc \o r, k, acc \o (r \o k))
    <3>1. r \in Seq(Byte) /\ k \in Seq(Byte)
      BY <1>2
    <3> QED BY <3>1, JoinTwice
  <2>2. acc \o buf = acc \o (r \o k)
    BY <1>2
  <2> QED BY <1>1, <2>1, <2>2 DEF Joined
<1>4. acc \o r \in Seq(Byte) /\ WellFormed(acc \o r)
  BY <1>2, ConcatAt, ConcatWellFormed
<1>5. Parted(acc, r, k, all)
  BY <1>2, <1>3, <1>4, Zenon DEF Parted
<1> QED BY <1>5 DEF r, k, all

\* A CONTENT frame that continues a text: whatever is rendered and whatever is
\* kept, together they are the bytes held before and the bytes that came.
LEMMA ContentKeepsBytes ==
    ASSUME NEW acc, NEW pending, NEW boundary, NEW data,
           Continues(acc, pending, boundary, data),
           NEW shown, shown = acc \o Decode(Rendered(pending, boundary, data)),
           NEW kept, kept = Kept(pending, boundary, data)
    PROVE  /\ shown \in Seq(Byte)
           /\ kept \in Seq(Byte)
           /\ WellFormed(shown)
           /\ Partial(kept)
           /\ kept # <<>> => Len(kept) <= Need(kept[1])
           /\ Joined(shown, kept, (acc \o pending) \o data)
<1> SUFFICES ASSUME acc \in Seq(Byte), pending \in Seq(Byte), data \in Seq(Byte),
                    boundary \in BOOLEAN,
                    WellFormed(acc),
                    Partial((acc \o pending) \o data),
                    NoBom((acc \o pending) \o data),
                    boundary => WellFormed((acc \o pending) \o data)
             PROVE  /\ shown \in Seq(Byte)
                    /\ kept \in Seq(Byte)
                    /\ WellFormed(shown)
                    /\ Partial(kept)
                    /\ kept # <<>> => Len(kept) <= Need(kept[1])
                    /\ Joined(shown, kept, (acc \o pending) \o data)
  BY DEF Continues
<1> DEFINE all == (acc \o pending) \o data
<1>1. PICK r : r = Rendered(pending, boundary, data)
  OBVIOUS
<1>2. Parted(acc, r, kept, all)
  BY <1>1, AssemblerParts, Zenon
<1> HIDE DEF all
<1>3. /\ r \in Seq(Byte) /\ kept \in Seq(Byte) /\ WellFormed(r) /\ Partial(kept)
      /\ kept # <<>> => Len(kept) <= Need(kept[1])
      /\ all = (acc \o r) \o kept
      /\ acc \o r \in Seq(Byte) /\ WellFormed(acc \o r)
  BY <1>2, Zenon DEF Parted
<1>4. NoBom(r)
  <2>1. NoBom((acc \o r) \o kept)
    BY <1>3 DEF all
  <2> QED BY <1>3, <2>1, PartNoBom
<1>5. shown = acc \o r
  BY <1>1, <1>3, <1>4, DecodeWhole
<1> QED BY <1>3, <1>5 DEF Joined, all

\* At a REWIND nothing is pending, so the string and the channel agree.
LEMMA RewindKeepsBytes ==
    ASSUME NEW acc \in Seq(Byte), NEW pending \in Seq(Byte),
           WellFormed(acc), WellFormed(acc \o pending),
           pending # <<>> => Len(pending) <= Need(pending[1]),
           NEW n \in 0..Len(acc \o pending),
           AllAscii(acc \o pending, n)
    PROVE  /\ pending = <<>>
           /\ Slice(acc, n) = SubSeq(acc \o pending, 1, n)
<1>1. WellFormed(pending)
  BY TailWellFormed DEF WellFormed
<1>2. pending = <<>>
  <2> SUFFICES ASSUME pending # <<>> PROVE FALSE
    OBVIOUS
  <2>1. 1 \in 1..Len(pending)
    OBVIOUS
  <2>2. 1 + Need(pending[1]) <= Len(pending)
    BY <1>1, <2>1 DEF WellFormed, Closed
  <2>3. Need(pending[1]) \in 0..3
    BY <2>1, NeedRange
  <2> QED BY <2>1, <2>2, <2>3
<1>3. acc \o pending = acc
  BY <1>2, ConcatEmptySeq
<1>4. Slice(acc, n) = SubSeq(acc, 1, n)
  BY <1>3, SliceAscii DEF WellFormed
<1> QED BY <1>2, <1>3, <1>4

------------------------------------------------------------------------------
(* Induction *)

\* A set with 0, and with every number that follows one in it, has them all:
\* from a number it lacked one could descend for ever among finitely many.
LEMMA Inductive ==
    ASSUME NEW S, 0 \in S, \A n \in Nat : n \in S => n + 1 \in S
    PROVE  \A n \in Nat : n \in S
<1> SUFFICES ASSUME NEW top \in Nat, top \notin S PROVE FALSE
    OBVIOUS
<1> DEFINE Lacking == {n \in 0..top : n \notin S}
           down1 == [n \in Lacking |-> n - 1]
<1>1. IsFiniteSet(Lacking) /\ top \in Lacking
  <2>1. IsFiniteSet(0..top) /\ Lacking \in SUBSET (0..top)
      BY FS_Interval
  <2> QED BY <2>1, FS_Subset
<1>2. /\ IsFiniteSet(Lacking \ {top})
      /\ Cardinality(Lacking \ {top}) < Cardinality(Lacking)
  <2> HIDE DEF Lacking
  <2>1. Cardinality(Lacking) \in Nat
      BY <1>1, FS_CardinalityType
  <2>2. /\ IsFiniteSet(Lacking \ {top})
        /\ Cardinality(Lacking \ {top}) = Cardinality(Lacking) - 1
      BY <1>1, FS_RemoveElement
  <2> QED BY <2>1, <2>2
<1>3. down1 \in [Lacking -> Lacking \ {top}]
  <2> SUFFICES ASSUME NEW n \in Lacking PROVE n - 1 \in Lacking \ {top}
      OBVIOUS
  <2>1. n # 0 /\ n \in Nat /\ n <= top
      OBVIOUS
  <2>2. n - 1 \in Nat /\ (n - 1) + 1 = n
      BY <2>1
  <2>3. n - 1 \notin S
      BY <2>2
  <2> QED BY <2>1, <2>2, <2>3
<1>4. PICK x, y \in Lacking : x # y /\ down1[x] = down1[y]
  <2> HIDE DEF Lacking, down1
  <2> QED BY <1>1, <1>2, <1>3, FS_PigeonHole
<1> QED BY <1>4

\* s is made up of the first parts: c[i] is the first i of them, joined.
Chained(c, n, part) ==
    c = [i \in 0..n |-> IF i = 0 THEN <<>> ELSE c[i - 1] \o part[i]]

\* The recursive function that joins parts exists.
LEMMA ChainExists ==
    ASSUME NEW n \in Nat, NEW part
    PROVE  \E c : Chained(c, n, part)
<1> DEFINE Good == {m \in Nat : \E c : Chained(c, m, part)}
<1>1. Chained([i \in 0..0 |-> <<>>], 0, part)
    BY DEF Chained
<1>2. 0 \in Good
    BY <1>1
<1>3. ASSUME NEW m \in Nat, m \in Good
      PROVE  m + 1 \in Good
  <2>1. PICK c : Chained(c, m, part)
      BY <1>3
  <2> DEFINE d == [i \in 0..(m + 1) |->
                       IF i = m + 1 THEN c[m] \o part[m + 1] ELSE c[i]]
  <2>2. ASSUME NEW i \in 0..(m + 1)
        PROVE  d[i] = IF i = 0 THEN <<>> ELSE d[i - 1] \o part[i]
    <3>1. CASE i = m + 1
      <4>1. m + 1 # 0 /\ (m + 1) - 1 = m /\ m \in 0..(m + 1) /\ m # m + 1
          OBVIOUS
      <4>2. m + 1 \in 0..(m + 1)
          OBVIOUS
      <4>3. d[m + 1] = c[m] \o part[m + 1]
          BY <4>2, Zenon
      <4>4. d[m] = c[m]
          BY <4>1, Zenon
      <4> QED BY <3>1, <4>1, <4>3, <4>4
    <3>2. CASE i # m + 1
      <4>1. i \in 0..m /\ d[i] = c[i] /\ (i # 0 => d[i - 1] = c[i - 1])
          BY <3>2
      <4>2. c[i] = IF i = 0 THEN <<>> ELSE c[i - 1] \o part[i]
          BY <2>1, <4>1 DEF Chained
      <4> QED BY <4>1, <4>2
    <3> QED BY <3>1, <3>2
  <2>3. Chained(d, m + 1, part)
      BY <2>2 DEF Chained
  <2> QED BY <2>3
<1>4. \A m \in Nat : m \in Good
  <2> HIDE DEF Good
  <2> QED BY <1>2, <1>3, Inductive
<1> QED BY <1>4

\* The first j parts, joined: each lies where those before it end.
Joins(c, part, T, j) ==
    /\ c[j] \in Seq(T)
    /\ j = 0 => Len(c[j]) = 0
    /\ j > 0 => Len(c[j]) = Len(c[j - 1]) + Len(part[j])
    /\ \A i \in 1..j : /\ Len(c[i - 1]) \in Nat
                       /\ Len(c[i - 1]) + Len(part[i]) <= Len(c[j])
                       /\ \A k \in 1..Len(part[i]) :
                              c[j][Len(c[i - 1]) + k] = part[i][k]

\* That is what the chain's values are.
LEMMA ChainAt ==
    ASSUME NEW T, NEW n \in Nat, NEW part \in [1..n -> Seq(T)],
           NEW c, Chained(c, n, part)
    PROVE  \A j \in 0..n : Joins(c, part, T, j)
<1> DEFINE Holds(j) == Joins(c, part, T, j)
<1> SUFFICES \A j \in 0..n : Holds(j)
    OBVIOUS
<1> USE DEF Joins
<1>1. Holds(0)
  <2>1. c[0] = <<>>
      BY DEF Chained
  <2> QED BY <2>1
<1>2. ASSUME NEW j \in 1..n, Holds(j - 1)
      PROVE  Holds(j)
  <2>1. c[j] = c[j - 1] \o part[j]
    <3>1. j \in 0..n /\ j # 0
        OBVIOUS
    <3> QED BY <3>1 DEF Chained
  <2>2. PICK u \in Seq(T) : u = c[j - 1]
      BY <1>2
  <2>3. PICK v \in Seq(T) : v = part[j]
      BY <1>2
  <2>4. /\ c[j] \in Seq(T)
        /\ Len(c[j]) = Len(u) + Len(v)
        /\ \A k \in 1..Len(u) : c[j][k] = u[k]
        /\ \A k \in 1..Len(v) : c[j][Len(u) + k] = v[k]
    <3>1. c[j] = u \o v
        BY <2>1, <2>2, <2>3
    <3>2. /\ u \o v \in Seq(T)
          /\ Len(u \o v) = Len(u) + Len(v)
          /\ \A k \in 1..Len(u) : (u \o v)[k] = u[k]
          /\ \A k \in 1..Len(v) : (u \o v)[Len(u) + k] = v[k]
        OBVIOUS
    <3> QED BY <3>1, <3>2, Zenon
  <2>5. ASSUME NEW i \in 1..j
        PROVE  /\ Len(c[i - 1]) \in Nat
               /\ Len(c[i - 1]) + Len(part[i]) <= Len(c[j])
               /\ \A k \in 1..Len(part[i]) : c[j][Len(c[i - 1]) + k] = part[i][k]
    <3>1. CASE i = j
        BY <3>1, <2>2, <2>3, <2>4
    <3>2. CASE i # j
      <4>1. i \in 1..(j - 1)
          BY <3>2
      <4>2. PICK w \in Seq(T) : w = part[i]
          BY <4>1
      <4>3. PICK a \in Nat : a = Len(c[i - 1])
          BY <4>1, <1>2
      <4>4. a + Len(w) <= Len(u) /\ \A k \in 1..Len(w) : u[a + k] = w[k]
          BY <4>1, <4>2, <4>3, <1>2, <2>2
      <4>5. \A k \in 1..Len(w) : a + k \in 1..Len(u)
          BY <4>4
      <4>6. a + Len(w) <= Len(c[j]) /\ \A k \in 1..Len(w) : c[j][a + k] = w[k]
          BY <4>4, <4>5, <2>4
      <4> QED BY <4>2, <4>3, <4>6
    <3> QED BY <3>1, <3>2
  <2>6. j # 0 /\ Len(c[j]) = Len(c[j - 1]) + Len(part[j])
      BY <2>2, <2>3, <2>4
  <2> QED BY <2>4, <2>5, <2>6
<1> DEFINE Good == {j \in Nat : j <= n => Holds(j)}
<1>3. 0 \in Good
    BY <1>1
<1>4. ASSUME NEW j \in Nat, j \in Good
      PROVE  j + 1 \in Good
  <2> HIDE DEF Holds
  <2> SUFFICES ASSUME j + 1 <= n PROVE Holds(j + 1)
      OBVIOUS
  <2>1. j + 1 \in 1..n /\ (j + 1) - 1 = j /\ Holds(j)
      BY <1>4
  <2> QED BY <2>1, <1>2
<1>5. \A j \in Nat : j \in Good
  <2> HIDE DEF Good
  <2> QED BY <1>3, <1>4, Inductive
<1> HIDE DEF Holds
<1> QED BY <1>5

==============================================================================
