-------------------------- MODULE FrameCodecProofs --------------------------
(***************************************************************************)
(* The frame codec over all sequences of bytes: what decode_frame accepts  *)
(* is what encode_frame makes, a frame survives being encoded and decoded, *)
(* and a part of a frame is refused.  Unlike the runs, which are held to   *)
(* TLC's integers, the proofs take the limit of four bytes as it is.       *)
(***************************************************************************)
EXTENDS FrameCodec, SequenceTheorems, TLAPS

Octet == 0..255

FourBytes == U32Max = 4294967295

------------------------------------------------------------------------------
(* Numbers as bytes *)

\* The largest number of two bytes as a number.
LEMMA U16Value == U16Max \in Nat /\ U16Max = 65535
BY SMTT(20) DEF U16Max

\* A number between the ends of a range is in it.
LEMMA InRange ==
    ASSUME NEW m \in Nat, NEW x \in Nat, x <= m
    PROVE  x \in 0..m
OBVIOUS

\* It is a natural number.
LEMMA U16Nat == U16Max \in Nat
BY U16Value

\* And its bound as a number.
LEMMA U16Bound ==
    ASSUME NEW n \in Nat, n <= U16Max
    PROVE  n <= 65535
BY U16Value, SMTT(20)

\* The limit of a payload has two bytes.
LEMMA PayloadLimit == MAX_PAYLOAD_SIZE \in Nat /\ MAX_PAYLOAD_SIZE <= U16Max
BY SMTT(20) DEF MAX_PAYLOAD_SIZE, U16Max

\* A number of two bytes is a natural number.
LEMMA LengthIsNat == \A n \in 0..U16Max : n \in Nat
BY U16Nat

\* The last digit of a number in any base, and what is before it.
LEMMA Digit ==
    ASSUME NEW k \in Nat, k > 0, NEW q \in Nat, NEW r \in Nat, r < k
    PROVE  (r + k * q) \div k = q
BY SMTT(20)

\* The same of a byte, with the digit itself.
LEMMA LastByte ==
    ASSUME NEW r \in Octet, NEW q \in Nat
    PROVE  (r + 256 * q) % 256 = r /\ (r + 256 * q) \div 256 = q
BY SMTT(20) DEF Octet

\* The last byte of a number, taken off.
LEMMA TakeByte ==
    ASSUME NEW n \in Nat
    PROVE  /\ n % 256 \in Octet /\ n \div 256 \in Nat
           /\ n = (n % 256) + 256 * (n \div 256)
BY SMTT(20) DEF Octet

\* A number of two bytes is written as the bytes it was read from.
LEMMA TwoBytesRead ==
    ASSUME NEW b1 \in Octet, NEW b2 \in Octet
    PROVE  b1 + 256 * b2 \in 0..U16Max /\ LE2(b1 + 256 * b2) = <<b1, b2>>
<1>1. b1 + 256 * b2 \in Nat /\ b1 + 256 * b2 <= 65535
  BY SMTT(20) DEF Octet
<1>2. ASSUME NEW n, n = b1 + 256 * b2
      PROVE  n \in 0..U16Max
  <2>1. n \in Nat /\ n <= U16Max
    BY <1>1, <1>2, U16Value, SMTT(20)
  <2>2. U16Max \in Nat
    BY U16Value
  <2> QED BY <2>1, <2>2, InRange
<1>3. b2 \in Nat
  BY SMTT(20) DEF Octet
<1>4. (b1 + 256 * b2) % 256 = b1 /\ (b1 + 256 * b2) \div 256 = b2
  BY <1>3, LastByte, SMTT(20)
<1> QED BY <1>2, <1>4, SMTT(20) DEF LE2

\* And it is read as the number it was written from.
LEMMA TwoBytesWritten ==
    ASSUME NEW n \in 0..U16Max
    PROVE  /\ n % 256 \in Octet /\ n \div 256 \in Octet
           /\ (n % 256) + 256 * (n \div 256) = n
<1>1. n \in Nat /\ n <= U16Max
  BY U16Nat
<1>2. n <= 65535
  BY <1>1, U16Bound, SMTT(20)
<1> QED BY <1>1, <1>2, SMTT(20) DEF Octet

\* The number of four bytes, little end first.
Number(b1, b2, b3, b4) == (b1 + 256 * b2) + 65536 * b3 + 16777216 * b4

\* It is written as the bytes it was read from.
LEMMA FourBytesRead ==
    ASSUME NEW b1 \in Octet, NEW b2 \in Octet, NEW b3 \in Octet, NEW b4 \in Octet
    PROVE  /\ Number(b1, b2, b3, b4) \in Nat
           /\ Number(b1, b2, b3, b4) <= 4294967295
           /\ LE4(Number(b1, b2, b3, b4)) = <<b1, b2, b3, b4>>
<1> DEFINE n == Number(b1, b2, b3, b4)
<1>0. n = (b1 + 256 * b2) + 65536 * b3 + 16777216 * b4
  BY DEF Number
<1> HIDE DEF n
<1>1. n \in Nat /\ n <= 4294967295
  BY <1>0, SMTT(20) DEF Octet
<1>2. b4 \in Nat /\ b3 + 256 * b4 \in Nat /\ b2 + 256 * (b3 + 256 * b4) \in Nat
  BY SMTT(20) DEF Octet
<1>3. n % 256 = b1 /\ n \div 256 = b2 + 256 * (b3 + 256 * b4)
  <2>1. n = b1 + 256 * (b2 + 256 * (b3 + 256 * b4))
    BY <1>0, SMTT(20) DEF Octet
  <2> QED BY <1>2, <2>1, LastByte, SMTT(20)
<1>4. (n \div 256) % 256 = b2
  BY <1>2, <1>3, LastByte, SMTT(20)
<1>5. n \div 65536 = b3 + 256 * b4
  <2>1. b1 + 256 * b2 \in Nat /\ b1 + 256 * b2 < 65536
    BY SMTT(20) DEF Octet
  <2>2. n = (b1 + 256 * b2) + 65536 * (b3 + 256 * b4)
    BY <1>0, SMTT(20) DEF Octet
  <2> QED BY <1>2, <2>1, <2>2, Digit, SMTT(20)
<1>6. (n \div 65536) % 256 = b3
  BY <1>2, <1>5, LastByte, SMTT(20)
<1>7. n \div 16777216 = b4
  <2>1. b1 + 256 * b2 + 65536 * b3 \in Nat /\ b1 + 256 * b2 + 65536 * b3 < 16777216
    BY SMTT(20) DEF Octet
  <2>2. n = (b1 + 256 * b2 + 65536 * b3) + 16777216 * b4
    BY <1>0, SMTT(20) DEF Octet
  <2> QED BY <1>2, <2>1, <2>2, Digit, SMTT(20)
<1>8. LE4(n) = <<b1, b2, b3, b4>>
  BY <1>3, <1>4, <1>6, <1>7, SMTT(20) DEF LE4
<1> QED BY <1>1, <1>8, SMTT(20) DEF n

\* A number put together of a byte and a rest three times.
LEMMA FourBytesTaken ==
    ASSUME NEW r \in Octet, NEW s \in Octet, NEW t \in Octet, NEW c \in Nat,
           NEW n, NEW a, NEW b,
           n = r + 256 * a, a = s + 256 * b, b = t + 256 * c
    PROVE  /\ n \div 65536 = b
           /\ n = (r + 256 * s) + 65536 * t + 16777216 * c
           /\ n \div 16777216 = c
<1>1. b \in Nat /\ n = (r + 256 * s) + 65536 * b
  BY SMTT(20) DEF Octet
<1>2. n = (r + 256 * s + 65536 * t) + 16777216 * c
  BY SMTT(20) DEF Octet
<1>3. n \div 65536 = b
  <2>1. r + 256 * s \in Nat /\ r + 256 * s < 65536
    BY SMTT(20) DEF Octet
  <2> QED BY <1>1, <2>1, Digit, SMTT(20)
<1>4. n \div 16777216 = c
  <2>1. r + 256 * s + 65536 * t \in Nat /\ r + 256 * s + 65536 * t < 16777216
    BY SMTT(20) DEF Octet
  <2> QED BY <1>2, <2>1, Digit, SMTT(20)
<1> QED BY <1>2, <1>3, <1>4, SMTT(20)

\* And it is read as the number it was written from.
LEMMA FourBytesWritten ==
    ASSUME NEW n \in Nat, n <= 4294967295
    PROVE  /\ n % 256 \in Octet /\ (n \div 256) % 256 \in Octet
           /\ (n \div 65536) % 256 \in Octet /\ n \div 16777216 \in Octet
           /\ ((n % 256) + 256 * ((n \div 256) % 256))
                + 65536 * ((n \div 65536) % 256) + 16777216 * (n \div 16777216)
                = n
<1> DEFINE r == n % 256    a == n \div 256
           s == a % 256    b == a \div 256
           t == b % 256    c == b \div 256
<1>1. r \in Octet /\ a \in Nat /\ n = r + 256 * a
  BY TakeByte, SMTT(20)
<1>2. s \in Octet /\ b \in Nat /\ a = s + 256 * b
  BY <1>1, TakeByte, SMTT(20)
<1>3. t \in Octet /\ c \in Nat /\ b = t + 256 * c
  BY <1>2, TakeByte, SMTT(20)
<1>4. r = n % 256 /\ a = n \div 256 /\ s = a % 256 /\ t = b % 256
  OBVIOUS
<1> HIDE DEF r, a, s, b, t, c
<1>5. /\ n \div 65536 = b
      /\ n = (r + 256 * s) + 65536 * t + 16777216 * c
      /\ n \div 16777216 = c
  BY <1>1, <1>2, <1>3, FourBytesTaken, SMTT(20)
<1>6. c \in Octet
  BY <1>1, <1>2, <1>3, <1>5, SMTT(20) DEF Octet
<1> QED BY <1>1, <1>2, <1>3, <1>4, <1>5, <1>6, SMTT(20)

------------------------------------------------------------------------------
(* Sequences of bytes *)

\* What begins with the eight bytes of a header has them in its places.
LEMMA HeaderInFront ==
    ASSUME NEW front \in Seq(Octet), Len(front) = 8, NEW rest \in Seq(Octet)
    PROVE  /\ front \o rest \in Seq(Octet)
           /\ Len(front \o rest) = 8 + Len(rest)
           /\ \A i \in 1..8 : (front \o rest)[i] = front[i]
<1>1. /\ front \o rest \in Seq(Octet)
      /\ Len(front \o rest) = Len(front) + Len(rest)
      /\ \A i \in 1 .. Len(front) + Len(rest) :
             (front \o rest)[i] = IF i <= Len(front) THEN front[i]
                                  ELSE rest[i - Len(front)]
  BY ConcatProperties
<1>2. Len(rest) \in Nat
  OBVIOUS
<1>3. Len(front \o rest) = 8 + Len(rest)
  BY <1>1
<1>4. ASSUME NEW i \in 1..8
      PROVE  (front \o rest)[i] = front[i]
  <2>1. i \in 1 .. Len(front) + Len(rest) /\ i <= Len(front)
    BY <1>2
  <2> QED BY <1>1, <2>1
<1> QED BY <1>1, <1>3, <1>4

\* Eight bytes are their three parts.
LEMMA EightBytes ==
    ASSUME NEW b \in Seq(Octet), Len(b) >= 8
    PROVE  SubSeq(b, 1, 8) = <<b[1], b[2], b[3], b[4]>> \o <<b[5], b[6]>>
                                \o <<b[7], b[8]>>
OBVIOUS

\* And the three parts are eight bytes.
LEMMA EightInThree ==
    ASSUME NEW b1 \in Octet, NEW b2 \in Octet, NEW b3 \in Octet, NEW b4 \in Octet,
           NEW b5 \in Octet, NEW b6 \in Octet, NEW b7 \in Octet, NEW b8 \in Octet
    PROVE  <<b1, b2, b3, b4>> \o <<b5, b6>> \o <<b7, b8>>
              = <<b1, b2, b3, b4, b5, b6, b7, b8>>
<1> DEFINE b == <<b1, b2, b3, b4, b5, b6, b7, b8>>
<1>1. /\ b \in Seq(Octet) /\ Len(b) = 8
      /\ b[1] = b1 /\ b[2] = b2 /\ b[3] = b3 /\ b[4] = b4
      /\ b[5] = b5 /\ b[6] = b6 /\ b[7] = b7 /\ b[8] = b8
  OBVIOUS
<1> HIDE DEF b
<1>2. SubSeq(b, 1, 8) = b
  BY <1>1
<1>3. SubSeq(b, 1, 8) = <<b[1], b[2], b[3], b[4]>> \o <<b[5], b[6]>>
                           \o <<b[7], b[8]>>
  BY <1>1, EightBytes
<1>4. <<b1, b2, b3, b4>> \o <<b5, b6>> \o <<b7, b8>> = b
  BY <1>1, <1>2, <1>3, Zenon
<1> QED BY <1>4 DEF b

\* A beginning and what follows it are a longer beginning.
LEMMA Rejoined ==
    ASSUME NEW b \in Seq(Octet), NEW m \in Nat, NEW n \in Nat, m <= n, n <= Len(b)
    PROVE  SubSeq(b, 1, m) \o SubSeq(b, m + 1, n) = SubSeq(b, 1, n)
OBVIOUS

\* The length and the members of a piece.
LEMMA Piece ==
    ASSUME NEW b \in Seq(Octet), NEW m \in Nat, NEW n \in Nat, m <= n, n <= Len(b)
    PROVE  /\ SubSeq(b, m + 1, n) \in Seq(Octet)
           /\ Len(SubSeq(b, m + 1, n)) = n - m
           /\ \A i \in 1..(n - m) : SubSeq(b, m + 1, n)[i] = b[m + i]
OBVIOUS

\* Three sequences in a row may be joined in either order.
LEMMA Reassociated ==
    ASSUME NEW front \in Seq(Octet), NEW s \in Seq(Octet), NEW rest \in Seq(Octet)
    PROVE  (front \o s) \o rest = front \o (s \o rest)
BY SMTT(20)

\* What is between two sequences is cut out of them by its length.
LEMMA InTheMiddle ==
    ASSUME NEW front \in Seq(Octet), NEW s \in Seq(Octet), NEW rest \in Seq(Octet)
    PROVE  SubSeq(front \o (s \o rest), Len(front) + 1, Len(front) + Len(s)) = s
<1> DEFINE n == Len(front)
           b == front \o (s \o rest)
           cut == SubSeq(b, n + 1, n + Len(s))
<1>1. /\ s \o rest \in Seq(Octet) /\ Len(s \o rest) = Len(s) + Len(rest)
      /\ \A i \in 1..Len(s) : (s \o rest)[i] = s[i]
  BY ConcatProperties
<1>2. /\ b \in Seq(Octet) /\ Len(b) = n + Len(s) + Len(rest)
      /\ \A i \in 1..Len(s) : b[n + i] = s[i]
  <2>1. /\ b \in Seq(Octet) /\ Len(b) = n + Len(s \o rest)
        /\ \A i \in 1..(n + Len(s \o rest)) :
               b[i] = IF i <= n THEN front[i] ELSE (s \o rest)[i - n]
    BY <1>1, ConcatProperties
  <2>2. ASSUME NEW i \in 1..Len(s)
        PROVE  b[n + i] = (s \o rest)[i]
    BY <1>1, <2>1
  <2> QED BY <1>1, <2>1, <2>2
<1>3. /\ cut \in Seq(Octet) /\ Len(cut) = (n + Len(s)) - n
      /\ \A i \in 1..((n + Len(s)) - n) : cut[i] = b[n + i]
  BY <1>2, Piece
<1> HIDE DEF cut, b
<1>4. Len(cut) = Len(s) /\ \A i \in 1..Len(s) : cut[i] = s[i]
  BY <1>2, <1>3
<1>5. cut = s
  BY <1>3, <1>4
<1> QED BY <1>5 DEF cut, b

------------------------------------------------------------------------------
(* Headers *)

\* The header in the first eight bytes of b, as decode_header unpacks it.
HeaderOf(b) == Header(U32(b, 1), b[5], b[6], U16(b, 7))

\* What struct.unpack reads packs again, into the same eight bytes.
LEMMA Repacked ==
    ASSUME FourBytes, NEW b \in Seq(Octet), Len(b) >= 8
    PROVE  /\ Packable(HeaderOf(b))
           /\ HeaderBytes(HeaderOf(b)) = SubSeq(b, 1, 8)
<1>1. PICK b1, b2, b3, b4, b5, b6, b7, b8 \in Octet :
           /\ b[1] = b1 /\ b[2] = b2 /\ b[3] = b3 /\ b[4] = b4
           /\ b[5] = b5 /\ b[6] = b6 /\ b[7] = b7 /\ b[8] = b8
  <2>1. /\ b[1] \in Octet /\ b[2] \in Octet /\ b[3] \in Octet /\ b[4] \in Octet
        /\ b[5] \in Octet /\ b[6] \in Octet /\ b[7] \in Octet /\ b[8] \in Octet
    OBVIOUS
  <2> QED BY <2>1, Zenon
<1>2. U16(b, 7) = b7 + 256 * b8
  BY <1>1 DEF U16
<1>3. U16(b, 7) \in 0..U16Max /\ LE2(U16(b, 7)) = <<b[7], b[8]>>
  <2>1. b7 + 256 * b8 \in 0..U16Max /\ LE2(b7 + 256 * b8) = <<b7, b8>>
    BY TwoBytesRead
  <2> QED BY <1>1, <1>2, <2>1, Zenon
<1>4. U32(b, 1) = Number(b1, b2, b3, b4)
  BY <1>1, SMTT(20) DEF U32, U16, Number
<1>5. /\ U32(b, 1) \in Nat /\ U32(b, 1) <= 4294967295
      /\ LE4(U32(b, 1)) = <<b[1], b[2], b[3], b[4]>>
  BY <1>1, <1>4, FourBytesRead, SMTT(20)
<1>6. U32(b, 1) \in 0..U32Max
  <2>1. U32Max \in Nat /\ U32(b, 1) <= U32Max
    BY <1>5, U32Assumption, SMTT(20) DEF FourBytes
  <2> QED BY <1>5, <2>1, InRange, SMTT(20)
<1>7. Packable(HeaderOf(b))
  BY <1>1, <1>3, <1>6, SMTT(20) DEF Packable, HeaderOf, Header, Octet
<1>8. HeaderBytes(HeaderOf(b)) = <<b[1], b[2], b[3], b[4]>> \o <<b[5], b[6]>>
                                    \o <<b[7], b[8]>>
  <2>1. LE4(U32(b, 1)) = <<b[1], b[2], b[3], b[4]>>
    BY <1>5, SMTT(20)
  <2>2. /\ HeaderOf(b).stream_id = U32(b, 1) /\ HeaderOf(b).opcode = b[5]
        /\ HeaderOf(b).flags = b[6] /\ HeaderOf(b).length = U16(b, 7)
    BY DEF HeaderOf, Header
  <2> QED BY <1>3, <2>1, <2>2, Zenon DEF HeaderBytes
<1> QED BY <1>7, <1>8, EightBytes, SMTT(20)

\* The header a call may return: the fields struct.unpack can make.
Unpackable(h) ==
    \E stream_id \in Nat, opcode, flags \in Octet, length \in 0..U16Max :
        /\ stream_id <= U32Max
        /\ h = Header(stream_id, opcode, flags, length)

\* A header that packs is in front of whatever follows its eight bytes.
LEMMA Unpacked ==
    ASSUME FourBytes, NEW h, Unpackable(h), NEW rest \in Seq(Octet)
    PROVE  /\ HeaderBytes(h) \in Seq(Octet) /\ Len(HeaderBytes(h)) = 8
           /\ HeaderOf(HeaderBytes(h) \o rest) = h
<1>1. PICK stream_id \in Nat, opcode \in Octet, flags \in Octet, length \in 0..U16Max :
        /\ stream_id <= U32Max
        /\ h = Header(stream_id, opcode, flags, length)
  BY SMTT(20) DEF Unpackable
<1>2. stream_id <= 4294967295
  BY <1>1, SMTT(20) DEF FourBytes
<1> DEFINE b1 == stream_id % 256
           b2 == (stream_id \div 256) % 256
           b3 == (stream_id \div 65536) % 256
           b4 == stream_id \div 16777216
           b7 == length % 256
           b8 == length \div 256
<1>3. /\ b1 \in Octet /\ b2 \in Octet /\ b3 \in Octet /\ b4 \in Octet
      /\ (b1 + 256 * b2) + 65536 * b3 + 16777216 * b4 = stream_id
  BY <1>2, FourBytesWritten, SMTT(20)
<1>4. b7 \in Octet /\ b8 \in Octet /\ b7 + 256 * b8 = length
  BY TwoBytesWritten, SMTT(20)
<1>5. LE4(stream_id) = <<b1, b2, b3, b4>> /\ LE2(length) = <<b7, b8>>
  BY SMTT(20) DEF LE4, LE2
<1> HIDE DEF b1, b2, b3, b4, b7, b8
<1> DEFINE front == HeaderBytes(h)
<1>6. front = <<b1, b2, b3, b4>> \o <<opcode, flags>> \o <<b7, b8>>
  <2>1. /\ h.stream_id = stream_id /\ h.opcode = opcode
        /\ h.flags = flags /\ h.length = length
    BY <1>1 DEF Header
  <2> QED BY <1>5, <2>1, Zenon DEF HeaderBytes, front
<1>7. front = <<b1, b2, b3, b4, opcode, flags, b7, b8>>
  <2>1. <<b1, b2, b3, b4>> \o <<opcode, flags>> \o <<b7, b8>>
           = <<b1, b2, b3, b4, opcode, flags, b7, b8>>
    BY <1>3, <1>4, EightInThree
  <2> HIDE DEF front
  <2> QED BY <1>6, <2>1, Zenon
<1>8. front \in Seq(Octet) /\ Len(front) = 8
  BY <1>3, <1>4, <1>7, SMTT(20)
<1>9. /\ front[1] = b1 /\ front[2] = b2 /\ front[3] = b3 /\ front[4] = b4
      /\ front[5] = opcode /\ front[6] = flags /\ front[7] = b7 /\ front[8] = b8
  BY <1>7, SMTT(20)
<1> HIDE DEF front
<1>10. ASSUME NEW b, b = front \o rest
       PROVE  HeaderOf(b) = h
  <2>1. /\ b[1] = b1 /\ b[2] = b2 /\ b[3] = b3 /\ b[4] = b4
        /\ b[5] = opcode /\ b[6] = flags /\ b[7] = b7 /\ b[8] = b8
    BY <1>8, <1>9, <1>10, HeaderInFront, SMTT(20)
  <2>2. U32(b, 1) = stream_id
    <3>1. U32(b, 1) = (b[1] + 256 * b[2]) + 65536 * b[3] + 16777216 * b[4]
      BY SMTT(20) DEF U32, U16
    <3> QED BY <1>3, <2>1, <3>1, SMTT(20)
  <2>3. U16(b, 7) = length
    <3>1. U16(b, 7) = b[7] + 256 * b[8]
      BY SMTT(20) DEF U16
    <3> QED BY <1>4, <2>1, <3>1, SMTT(20)
  <2> QED BY <1>1, <2>1, <2>2, <2>3, SMTT(20) DEF HeaderOf
<1>11. HeaderOf(front \o rest) = h
  BY <1>10
<1> QED BY <1>8, <1>11, Zenon DEF front

------------------------------------------------------------------------------
(* Frames *)

\* What a call of decode_frame that returns has seen.
LEMMA DecodedFrame ==
    ASSUME NEW b \in Seq(Octet), Returns(decode_frame(b))
    PROVE  /\ Len(b) >= 8 /\ ~Refused(HeaderOf(b))
           /\ HeaderOf(b).length \in 0..U16Max
           /\ 8 + HeaderOf(b).length <= Len(b)
           /\ decode_frame(b) =
                Ok(Frame(HeaderOf(b), SubSeq(b, 8 + 1, 8 + HeaderOf(b).length)))
<1>1. ~Returns(Violation)
  BY DEF Returns, Violation, Raise
<1>2. HEADER_SIZE = 8
  BY DEF HEADER_SIZE
<1>3. Returns(decode_header(b))
  BY Zenon DEF decode_frame
<1>4. ~(Len(b) < HEADER_SIZE) /\ ~Refused(HeaderOf(b))
  BY <1>1, <1>3, Zenon DEF decode_header, HeaderOf
<1>5. decode_header(b) = Ok(HeaderOf(b))
  BY <1>4, Zenon DEF decode_header, HeaderOf
<1>6. decode_header(b).value = HeaderOf(b)
  BY <1>5 DEF Ok
<1>7. ~(Len(b) < HEADER_SIZE + HeaderOf(b).length)
  BY <1>1, <1>3, <1>6, Zenon DEF decode_frame
<1>8. decode_frame(b) = Ok(Frame(HeaderOf(b),
                            SubSeq(b, HEADER_SIZE + 1,
                                   HEADER_SIZE + HeaderOf(b).length)))
  BY <1>3, <1>6, <1>7, Zenon DEF decode_frame
<1>9. Len(b) >= 8
  BY <1>2, <1>4
<1>10. HeaderOf(b).length \in 0..U16Max
  <2>1. PICK b7, b8 \in Octet : b[7] = b7 /\ b[8] = b8
    BY <1>9
  <2>2. HeaderOf(b).length = b7 + 256 * b8
    BY <2>1 DEF HeaderOf, Header, U16
  <2>3. b7 + 256 * b8 \in 0..U16Max
    BY TwoBytesRead
  <2> QED BY <2>2, <2>3, Zenon
<1>11. HeaderOf(b).length \in Nat
  BY <1>10, LengthIsNat
<1>12. 8 + HeaderOf(b).length <= Len(b)
  BY <1>2, <1>7, <1>11
<1> QED BY <1>2, <1>4, <1>8, <1>9, <1>10, <1>12, Zenon

\* encode_frame, where the header fits.
LEMMA EncodedFits ==
    ASSUME NEW h, NEW payload, h.length = Len(payload),
           h = [h EXCEPT !.length = Len(payload)],
           ~(h.length > MAX_PAYLOAD_SIZE), Packable(h)
    PROVE  encode_frame(Frame(h, payload)) = Ok(HeaderBytes(h) \o payload)
<1>1. Frame(h, payload).header = h /\ Frame(h, payload).payload = payload
  BY DEF Frame
<1>2. encode_header(h) = Ok(HeaderBytes(h))
  BY Zenon DEF encode_header
<1>3. Returns(encode_header(h)) /\ encode_header(h).value = HeaderBytes(h)
  BY <1>2 DEF Returns, Ok
<1> QED BY <1>1, <1>3, Zenon DEF encode_frame

\* Whatever bytes decode_frame accepts are, up to the end of the payload, those
\* encode_frame makes of the frame they decode to: no two encodings of a frame.
THEOREM Canonical ==
    ASSUME FourBytes, NEW b \in Seq(Octet), Returns(decode_frame(b))
    PROVE  LET frame == decode_frame(b).value
           IN  encode_frame(frame) =
                   Ok(SubSeq(b, 1, HEADER_SIZE + frame.header.length))
<1> DEFINE h == HeaderOf(b)
           payload == SubSeq(b, 8 + 1, 8 + h.length)
<1>1. /\ Len(b) >= 8 /\ ~Refused(h)
      /\ h.length \in 0..U16Max
      /\ 8 + h.length <= Len(b)
      /\ decode_frame(b) = Ok(Frame(h, payload))
  BY DecodedFrame
<1>2. Packable(h) /\ HeaderBytes(h) = SubSeq(b, 1, 8)
  BY <1>1, Repacked
<1>3. ~(h.length > MAX_PAYLOAD_SIZE)
  BY <1>1, Zenon DEF Refused
<1>4. h.length \in Nat
  BY <1>1, LengthIsNat
<1>5. Len(payload) = h.length
  <2>1. Len(payload) = (8 + h.length) - 8
    BY <1>1, <1>4, Piece
  <2> QED BY <1>4, <2>1
<1>6. h = [h EXCEPT !.length = Len(payload)]
  BY <1>5 DEF HeaderOf, Header
<1>7. decode_frame(b).value = Frame(h, payload)
  BY <1>1 DEF Ok
<1>8. Frame(h, payload).header.length = h.length
  BY DEF Frame
<1>9. SubSeq(b, 1, 8) \o payload = SubSeq(b, 1, 8 + h.length)
  <2>1. 8 + h.length \in Nat /\ 8 <= 8 + h.length
    BY <1>4
  <2> QED BY <1>1, <2>1, Rejoined
<1> HIDE DEF h, payload
<1>10. encode_frame(Frame(h, payload)) = Ok(HeaderBytes(h) \o payload)
  BY <1>2, <1>3, <1>5, <1>6, EncodedFits, Zenon
<1>11. HEADER_SIZE = 8
  BY DEF HEADER_SIZE
<1> QED BY <1>2, <1>7, <1>8, <1>9, <1>10, <1>11, Zenon

\* No part of a frame passes for a shorter frame: what decode_frame accepts, cut
\* anywhere within its header or payload, is refused with PROTOCOL_VIOLATION.
THEOREM CutRefused ==
    ASSUME NEW b \in Seq(Octet), Returns(decode_frame(b)), NEW n \in Nat,
           n < HEADER_SIZE + decode_frame(b).value.header.length
    PROVE  decode_frame(SubSeq(b, 1, n)) = Violation
<1> DEFINE h == HeaderOf(b)
           cut == SubSeq(b, 1, n)
<1>1. /\ Len(b) >= 8 /\ ~Refused(h)
      /\ h.length \in 0..U16Max
      /\ 8 + h.length <= Len(b)
      /\ decode_frame(b) = Ok(Frame(h, SubSeq(b, 8 + 1, 8 + h.length)))
  BY DecodedFrame
<1>2. HEADER_SIZE = 8
  BY DEF HEADER_SIZE
<1>3. h.length \in Nat
  BY <1>1, LengthIsNat
<1>4. decode_frame(b).value.header = h
  BY <1>1 DEF Ok, Frame
<1>5. n < 8 + h.length /\ n <= Len(b)
  BY <1>1, <1>2, <1>3, <1>4
<1>6. Len(cut) = n /\ \A i \in 1..n : cut[i] = b[i]
  <2>1. /\ Len(SubSeq(b, 0 + 1, n)) = n - 0
        /\ \A i \in 1..(n - 0) : SubSeq(b, 0 + 1, n)[i] = b[0 + i]
    BY <1>5, Piece
  <2> QED BY <2>1
<1> HIDE DEF cut
<1>7. ~Returns(Violation)
  BY DEF Returns, Violation, Raise
<1>8. CASE n < 8
  <2>1. decode_header(cut) = Violation
    BY <1>2, <1>6, <1>8, Zenon DEF decode_header
  <2>2. decode_frame(cut) = Violation
    BY <1>7, <2>1, Zenon DEF decode_frame
  <2> QED BY <2>2 DEF cut
<1>9. CASE ~(n < 8)
  <2>1. /\ cut[1] = b[1] /\ cut[2] = b[2] /\ cut[3] = b[3] /\ cut[4] = b[4]
        /\ cut[5] = b[5] /\ cut[6] = b[6] /\ cut[7] = b[7] /\ cut[8] = b[8]
    BY <1>6, <1>9
  <2>2. HeaderOf(cut) = h
    <3>1. U32(cut, 1) = U32(b, 1)
      BY <2>1, SMTT(20) DEF U32, U16
    <3>2. U16(cut, 7) = U16(b, 7)
      BY <2>1 DEF U16
    <3> QED BY <2>1, <3>1, <3>2, Zenon DEF HeaderOf, h
  <2>3. ~(Len(cut) < HEADER_SIZE)
    BY <1>2, <1>6, <1>9
  <2>4. ~Refused(HeaderOf(cut))
    BY <1>1, <2>2, Zenon
  <2>5. decode_header(cut) = Ok(HeaderOf(cut))
    BY <2>3, <2>4, Zenon DEF decode_header, HeaderOf
  <2>6. Returns(decode_header(cut)) /\ decode_header(cut).value = h
    BY <2>2, <2>5 DEF Returns, Ok
  <2>7. Len(cut) < HEADER_SIZE + h.length
    BY <1>2, <1>5, <1>6
  <2>8. decode_frame(cut) = Violation
    BY <2>6, <2>7, Zenon DEF decode_frame
  <2> QED BY <2>8, Zenon DEF cut
<1> QED BY <1>8, <1>9

\* A frame survives the way through a stream: encode_frame makes of a header
\* that is not refused with the length of the payload, and of that payload,
\* bytes that decode_frame takes off the front of any stream that begins with
\* them, as the same frame.
THEOREM RoundTrip ==
    ASSUME FourBytes, NEW header, Unpackable(header),
           NEW payload \in Seq(Octet), NEW rest \in Seq(Octet),
           ~Refused([header EXCEPT !.length = Len(payload)])
    PROVE  LET call == encode_frame(Frame(header, payload))
           IN  /\ Returns(call)
               /\ decode_frame(call.value \o rest) =
                    Ok(Frame([header EXCEPT !.length = Len(payload)], payload))
<1> DEFINE h == [header EXCEPT !.length = Len(payload)]
           call == encode_frame(Frame(header, payload))
<1>1. PICK stream_id \in Nat, opcode \in Octet, flags \in Octet, length \in 0..U16Max :
        /\ stream_id <= U32Max
        /\ header = Header(stream_id, opcode, flags, length)
  BY Zenon DEF Unpackable
<1>2. h = Header(stream_id, opcode, flags, Len(payload)) /\ h.length = Len(payload)
  BY <1>1 DEF Header
<1> HIDE DEF h
<1>3. ~(h.length > MAX_PAYLOAD_SIZE) /\ ~Refused(h)
  BY Zenon DEF Refused, h
<1>4. Len(payload) \in 0..U16Max
  <2>1. Len(payload) <= U16Max
    BY <1>2, <1>3, PayloadLimit, U16Nat
  <2> QED BY <2>1, U16Nat, InRange
<1>5. Unpackable(h)
  BY <1>1, <1>2, <1>4, Zenon DEF Unpackable
<1>6. Packable(h)
  <2>1. /\ h.stream_id = stream_id /\ h.opcode = opcode
        /\ h.flags = flags /\ h.length = Len(payload)
    BY <1>2 DEF Header
  <2>2. stream_id \in 0..U32Max
    BY <1>1, U32Assumption, InRange
  <2> QED BY <1>4, <2>1, <2>2, Zenon DEF Packable, Octet
<1>7. call = Ok(HeaderBytes(h) \o payload)
  <2>1. encode_header(h) = Ok(HeaderBytes(h))
    BY <1>3, <1>6, Zenon DEF encode_header
  <2>2. Returns(encode_header(h)) /\ encode_header(h).value = HeaderBytes(h)
    BY <2>1 DEF Returns, Ok
  <2>3. /\ Frame(header, payload).header = header
        /\ Frame(header, payload).payload = payload
    BY DEF Frame
  <2> QED BY <2>2, <2>3, Zenon DEF encode_frame, h
<1>8. Returns(call) /\ call.value = HeaderBytes(h) \o payload
  BY <1>7 DEF Returns, Ok
<1> HIDE DEF call
<1> DEFINE front == HeaderBytes(h)
           b == front \o (payload \o rest)
<1>9. payload \o rest \in Seq(Octet)
  OBVIOUS
<1>10. front \in Seq(Octet) /\ Len(front) = 8 /\ HeaderOf(b) = h
  BY <1>5, <1>9, Unpacked
<1> HIDE DEF front
<1>11. (front \o payload) \o rest = b
  <2>1. (front \o payload) \o rest = front \o (payload \o rest)
    BY <1>10, Reassociated
  <2> QED BY <2>1, Zenon
<1>12. b \in Seq(Octet) /\ Len(b) = 8 + Len(payload) + Len(rest)
  <2>1. Len(payload \o rest) = Len(payload) + Len(rest)
    OBVIOUS
  <2>2. b \in Seq(Octet) /\ Len(b) = 8 + Len(payload \o rest)
    BY <1>9, <1>10, HeaderInFront
  <2> QED BY <2>1, <2>2
<1>13. SubSeq(b, 8 + 1, 8 + Len(payload)) = payload
  BY <1>10, InTheMiddle
<1> HIDE DEF b
<1>14. HEADER_SIZE = 8
  BY DEF HEADER_SIZE
<1>15. ~(Len(b) < HEADER_SIZE) /\ ~(Len(b) < HEADER_SIZE + h.length)
  BY <1>2, <1>12, <1>14
<1>16. decode_header(b) = Ok(h)
  BY <1>3, <1>10, <1>15, Zenon DEF decode_header, HeaderOf
<1>17. Returns(decode_header(b)) /\ decode_header(b).value = h
  BY <1>16 DEF Returns, Ok
<1>18. decode_frame(b) = Ok(Frame(h, payload))
  BY <1>2, <1>13, <1>14, <1>15, <1>17, Zenon DEF decode_frame
<1>19. call.value \o rest = b
  BY <1>8, <1>11, Zenon DEF front
<1> QED BY <1>8, <1>18, <1>19, Zenon DEF call, h

==============================================================================
