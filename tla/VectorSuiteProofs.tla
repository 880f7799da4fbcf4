------------------------- MODULE VectorSuiteProofs -------------------------
(***************************************************************************)
(* What the runner's vectors show for some bytes holds for the vectors and *)
(* every frame close to them, whatever bytes are probed, and with numbers  *)
(* of four bytes in their full range, which TLC's integers do not reach:   *)
(* frames are canonical, none is part of another, and payloads last.  The  *)
(* payload codecs are proved for every payload, of a vector or not.  The   *)
(* rest goes through the vectors themselves: what they are made of is      *)
(* brought to a few forms of frames, each proved for all its parameters,   *)
(* and with them that the whole suite passes.                              *)
(***************************************************************************)
EXTENDS VectorSuite, FrameCodecProofs, Utf8AssemblerProofs

\* The runner is at a vector of the manifest or behind the last.
AtVector == vec \in Nat \ {0}

\* It always is: it counts from one.
LEMMA AlwaysAtVector == Spec => []AtVector
<1>1. Init => AtVector
  BY DEF Init, AtVector
<1>2. AtVector /\ [Next]_vars => AtVector'
  BY DEF AtVector, Next, vars, TestGolden, TestInvalid, TestEdge, TestStep,
         Tested, OpenManifest, Opened
<1> QED BY <1>1, <1>2, PTL DEF Spec

\* The vector at hand is a sequence of bytes.
LEMMA CurrentBytes ==
    ASSUME AtVector, NEW raw \in {Current[i] : i \in DOMAIN Current}
    PROVE  raw \in Seq(Octet)
<1>1. Byte = Octet
  BY Zenon DEF Byte, Octet
<1>2. PICK i \in DOMAIN Current : raw = Current[i]
  OBVIOUS
<1>3. \A n \in Nat : vec <= n => vec \in 1..n
  BY DEF AtVector
<1>4. CASE phase = "golden" /\ vec <= Len(Golden)
  <2>1. Golden[vec] \in Seq(Octet)
    BY <1>1, <1>3, <1>4, VectorsAssumption
  <2>2. Current = <<Golden[vec]>>
    BY <1>4 DEF Current
  <2> QED BY <1>2, <2>1, <2>2
<1>5. CASE phase = "invalid" /\ vec <= Len(Invalid)
  <2>1. Invalid[vec] \in Seq(Octet)
    BY <1>1, <1>3, <1>5, VectorsAssumption
  <2>2. Current = <<Invalid[vec]>>
    BY <1>5 DEF Current
  <2> QED BY <1>2, <2>1, <2>2
<1>6. CASE phase = "edge" /\ vec <= Len(Edge)
  <2>1. Edge[vec] \in Seq(Octet)
    BY <1>1, <1>3, <1>6, VectorsAssumption
  <2>2. Current = <<Edge[vec]>>
    BY <1>6 DEF Current
  <2> QED BY <1>2, <2>1, <2>2
<1>7. CASE phase = "scenarios" /\ vec <= Len(ScenarioSteps)
  <2>1. ScenarioSteps[vec].raw \in Seq(Octet)
    <3>1. PICK S : ScenarioSteps \in Seq([to : S, raw : Seq(Byte)])
      BY VectorsAssumption, Zenon
    <3> DEFINE Step == [to : S, raw : Seq(Byte)]
    <3>2. ScenarioSteps \in Seq(Step)
      BY <3>1
    <3> HIDE DEF Step
    <3>3. ScenarioSteps[vec] \in Step
      BY <1>3, <1>7, <3>2
    <3> QED BY <1>1, <3>3 DEF Step
  <2>2. Current = <<ScenarioSteps[vec].raw>>
    BY <1>7 DEF Current
  <2> QED BY <1>2, <2>1, <2>2
<1>8. CASE /\ ~(phase = "golden" /\ vec <= Len(Golden))
           /\ ~(phase = "invalid" /\ vec <= Len(Invalid))
           /\ ~(phase = "edge" /\ vec <= Len(Edge))
           /\ ~(phase = "scenarios" /\ vec <= Len(ScenarioSteps))
  <2>1. Current = <<>>
    BY <1>8, Zenon DEF Current
  <2> QED BY <1>2, <2>1
<1> QED BY <1>4, <1>5, <1>6, <1>7, <1>8

\* So are the frames close to a vector.
LEMMA VariantBytes ==
    ASSUME NEW raw \in Seq(Octet), NEW b \in Variants(raw)
    PROVE  b \in Seq(Octet)
<1>1. Byte = Octet /\ 0 \in Octet
  BY DEF Byte, Octet
<1>2. CASE b = raw
  BY <1>2
<1>3. ASSUME NEW probe \in Probes, probe[1] <= Len(raw),
             b = [raw EXCEPT ![probe[1]] = probe[2]]
      PROVE  b \in Seq(Octet)
  <2>1. probe[1] \in 1..Len(raw) /\ probe[2] \in Octet
    BY <1>1, <1>3, ProbesAssumption
  <2> QED BY <1>3, <2>1, ExceptSeq
<1>4. CASE b = Append(raw, 0)
  BY <1>1, <1>4
<1> QED BY <1>2, <1>3, <1>4 DEF Variants

\* Whatever decode_frame accepts of the vectors and the frames close to them is
\* canonical; the run vectors shows it for the probes it lists.
THEOREM VectorsCanonical ==
    ASSUME FourBytes
    PROVE  Spec => []AcceptedIsCanonical
<1>1. AtVector => AcceptedIsCanonical
  <2> SUFFICES ASSUME AtVector,
                      NEW raw \in {Current[i] : i \in DOMAIN Current},
                      NEW b \in Variants(raw), Returns(decode_frame(b))
               PROVE  encode_frame(decode_frame(b).value) =
                        Ok(SubSeq(b, 1, HEADER_SIZE
                                          + decode_frame(b).value.header.length))
    BY Zenon DEF AcceptedIsCanonical
  <2>1. b \in Seq(Octet)
    BY CurrentBytes, VariantBytes, Zenon
  <2> QED BY <2>1, Canonical, Zenon
<1> QED BY <1>1, AlwaysAtVector, PTL

------------------------------------------------------------------------------
(* Numbers of a payload, written as the bytes they were read from *)

\* A byte at its place.
LEMMA ByteAgain ==
    ASSUME NEW b \in Seq(Octet), NEW m \in Nat, m + 1 <= Len(b)
    PROVE  <<b[m + 1]>> = SubSeq(b, m + 1, m + 1)
  OBVIOUS

\* A number of two bytes, written.
LEMMA TwoAgain ==
    ASSUME NEW b \in Seq(Octet), NEW m \in Nat, m + 2 <= Len(b)
    PROVE  LE2(U16(b, m + 1)) = SubSeq(b, m + 1, m + 2)
<1>1. PICK b1 \in Octet, b2 \in Octet : b1 = b[m + 1] /\ b2 = b[(m + 1) + 1]
    OBVIOUS
<1>2. LE2(b1 + 256 * b2) = <<b1, b2>>
    BY TwoBytesRead, Zenon
<1>3. U16(b, m + 1) = b1 + 256 * b2
    BY <1>1, Zenon DEF U16
<1>4. <<b1, b2>> = SubSeq(b, m + 1, m + 2)
    BY <1>1
<1> QED BY <1>2, <1>3, <1>4, Zenon

\* A number of four bytes, written.
LEMMA FourAgain ==
    ASSUME NEW b \in Seq(Octet), NEW m \in Nat, m + 4 <= Len(b)
    PROVE  LE4(U32(b, m + 1)) = SubSeq(b, m + 1, m + 4)
<1>1. PICK b1 \in Octet, b2 \in Octet, b3 \in Octet, b4 \in Octet :
          /\ b1 = b[m + 1] /\ b2 = b[(m + 1) + 1]
          /\ b3 = b[(m + 1) + 2] /\ b4 = b[(m + 1) + 3]
    OBVIOUS
<1>2. LE4(Number(b1, b2, b3, b4)) = <<b1, b2, b3, b4>>
    BY FourBytesRead, SMT
<1>3. U32(b, m + 1) = Number(b1, b2, b3, b4)
    BY <1>1, SMT DEF U32, U16, Number
<1>4. <<b1, b2, b3, b4>> = SubSeq(b, m + 1, m + 4)
    BY <1>1
<1> QED BY <1>2, <1>3, <1>4, Zenon

\* The first n bytes of a payload, and what adds to them.
First(b, n) == SubSeq(b, 1, n)

AddsByte(b, m, i, k) == First(b, m) \o <<b[i]>> = First(b, k)
AddsTwo(b, m, i, k) == First(b, m) \o LE2(U16(b, i)) = First(b, k)
AddsFour(b, m, i, k) == First(b, m) \o LE4(U32(b, i)) = First(b, k)

\* A byte behind the first m.
LEMMA AddByte ==
    ASSUME NEW b \in Seq(Octet), NEW m \in Nat, NEW i \in Nat, i = m + 1,
           NEW k \in Nat, k = m + 1, k <= Len(b)
    PROVE  AddsByte(b, m, i, k)
<1>1. k \in Nat /\ m <= k
    OBVIOUS
<1>2. SubSeq(b, 1, m) \o SubSeq(b, m + 1, k) = SubSeq(b, 1, k)
    BY <1>1, Rejoined, Zenon
<1> QED BY <1>2, ByteAgain, Zenon DEF First, AddsByte

\* A number of two bytes behind them.
LEMMA AddTwo ==
    ASSUME NEW b \in Seq(Octet), NEW m \in Nat, NEW i \in Nat, i = m + 1,
           NEW k \in Nat, k = m + 2, k <= Len(b)
    PROVE  AddsTwo(b, m, i, k)
<1>1. k \in Nat /\ m <= k
    OBVIOUS
<1>2. SubSeq(b, 1, m) \o SubSeq(b, m + 1, k) = SubSeq(b, 1, k)
    BY <1>1, Rejoined, Zenon
<1> QED BY <1>2, TwoAgain, Zenon DEF First, AddsTwo

\* A number of four bytes behind them.
LEMMA AddFour ==
    ASSUME NEW b \in Seq(Octet), NEW m \in Nat, NEW i \in Nat, i = m + 1,
           NEW k \in Nat, k = m + 4, k <= Len(b)
    PROVE  AddsFour(b, m, i, k)
<1>1. k \in Nat /\ m <= k
    OBVIOUS
<1>2. SubSeq(b, 1, m) \o SubSeq(b, m + 1, k) = SubSeq(b, 1, k)
    BY <1>1, Rejoined, Zenon
<1> QED BY <1>2, FourAgain, Zenon DEF First, AddsFour

\* All that is behind them.
LEMMA AddRest ==
    ASSUME NEW b \in Seq(Octet), NEW m \in Nat, m <= Len(b), NEW i \in Nat, i = m + 1
    PROVE  First(b, m) \o From(b, i) = b
<1>1. Len(b) \in Nat /\ Len(b) <= Len(b)
    OBVIOUS
<1>2. SubSeq(b, 1, m) \o SubSeq(b, m + 1, Len(b)) = SubSeq(b, 1, Len(b))
    BY <1>1, Rejoined, Zenon
<1>3. SubSeq(b, 1, Len(b)) = b
    OBVIOUS
<1> QED BY <1>2, <1>3, Zenon DEF First, From

\* The first bytes by themselves.
LEMMA Beginnings ==
    ASSUME NEW b \in Seq(Octet)
    PROVE  /\ 1 <= Len(b) => <<b[1]>> = First(b, 1)
           /\ 2 <= Len(b) => LE2(U16(b, 1)) = First(b, 2)
           /\ 4 <= Len(b) => LE4(U32(b, 1)) = First(b, 4)
<1>1. 0 + 1 = 1 /\ 0 + 2 = 2 /\ 0 + 4 = 4 /\ 0 \in Nat
    OBVIOUS
<1>2. ASSUME 1 <= Len(b) PROVE <<b[1]>> = First(b, 1)
    BY <1>2 DEF First
<1>3. ASSUME 2 <= Len(b) PROVE LE2(U16(b, 1)) = First(b, 2)
  <2>1. LE2(U16(b, 0 + 1)) = SubSeq(b, 0 + 1, 0 + 2)
      BY <1>1, <1>3, TwoAgain, Zenon
  <2> QED BY <1>1, <2>1, Zenon DEF First
<1>4. ASSUME 4 <= Len(b) PROVE LE4(U32(b, 1)) = First(b, 4)
  <2>1. LE4(U32(b, 0 + 1)) = SubSeq(b, 0 + 1, 0 + 4)
      BY <1>1, <1>4, FourAgain, Zenon
  <2> QED BY <1>1, <2>1, Zenon DEF First
<1> QED BY <1>2, <1>3, <1>4, Zenon

\* c is the first n bytes of b.
Same(c, b, n) == /\ c \in Seq(Octet) /\ Len(c) = n
                 /\ \A i \in 1..n : c[i] = b[i]

\* The first bytes of a payload are such a piece.
LEMMA FirstSame ==
    ASSUME NEW b \in Seq(Octet), NEW n \in 0..Len(b)
    PROVE  Same(First(b, n), b, n)
  BY DEF First, Same

\* Their parts are those of b.
LEMMA FirstPart ==
    ASSUME NEW b \in Seq(Octet), NEW n \in 0..Len(b), NEW i \in 1..(n + 1)
    PROVE  SubSeq(First(b, n), i, n) = SubSeq(b, i, n)
  BY DEF First

\* c is f with t behind it.
Fronted(c, f, t) == /\ Len(c) = Len(f) + Len(t)
                    /\ \A i \in 1..Len(f) : c[i] = f[i]
                    /\ \A i \in 1..Len(t) : c[Len(f) + i] = t[i]

\* What is joined is in front and behind.
LEMMA InFront ==
    ASSUME NEW f \in Seq(Octet), NEW t \in Seq(Octet)
    PROVE  Fronted(f \o t, f, t)
  BY DEF Fronted

\* Reserved bytes that make up zero.
LEMMA ZeroBytes ==
    ASSUME NEW b \in Seq(Octet), NEW i \in Nat \ {0}, i + 1 <= Len(b), U16(b, i) = 0
    PROVE  b[i] = 0 /\ b[i + 1] = 0
<1>1. PICK b1 \in Octet, b2 \in Octet : b1 = b[i] /\ b2 = b[i + 1]
    OBVIOUS
<1>2. b1 + 256 * b2 = 0
    BY <1>1, Zenon DEF U16
<1>3. b1 = 0 /\ b2 = 0
    BY <1>2 DEF Octet
<1> QED BY <1>1, <1>3, Zenon

\* They have the same bytes up to the n-th, and so the same numbers.
Alike(c, b, n) == \A i \in 1..n : c[i] = b[i]

\* Numbers read within the bytes that are the same are the same.
LEMMA AlikeNumbers ==
    ASSUME NEW n \in Nat, NEW b, NEW c, Alike(c, b, n)
    PROVE  /\ \A i \in 1..(n - 1) : U16(c, i) = U16(b, i)
           /\ \A i \in 1..(n - 3) : U32(c, i) = U32(b, i)
<1>1. ASSUME NEW i \in 1..(n - 1) PROVE U16(c, i) = U16(b, i)
  <2>1. i \in 1..n /\ i + 1 \in 1..n
      OBVIOUS
  <2> QED BY <2>1 DEF Alike, U16
<1>2. ASSUME NEW i \in 1..(n - 3) PROVE U32(c, i) = U32(b, i)
  <2>1. i \in 1..(n - 1) /\ i + 2 \in 1..n /\ i + 3 \in 1..n
      OBVIOUS
  <2> QED BY <1>1, <2>1 DEF Alike, U32
<1> QED BY <1>1, <1>2

------------------------------------------------------------------------------
(* Payloads of fixed size, encoded and decoded again *)

\* What a call returned is encoded to these bytes, and decoded back as it was.
Survives(call, again, back, bytes) ==
    Returns(again) /\ again = Ok(bytes) /\ back = call

\* SETTINGS, whose reserved bytes are not looked at but written as zero.
LEMMA SettingsSurvive ==
    ASSUME NEW b \in Seq(Octet), Returns(decode_settings(b))
    PROVE  LET call == decode_settings(b)
               again == encode_settings(call.value)
           IN  Survives(call, again, decode_settings(again.value),
                        First(b, 15) \o <<0, 0, 0>>)
<1> DEFINE Read(x) == [version |-> x[1], max_frame_size |-> U32(x, 2),
                       pause_buffer_cap |-> U32(x, 6), heartbeat_ms |-> U32(x, 10),
                       max_concurrent_sessions |-> U16(x, 14)]
<1>1. Len(b) = 18
    BY DEF decode_settings, Returns, Violation, Raise
<1>2. PICK p : p = Read(b)
    OBVIOUS
<1>3. decode_settings(b) = Ok(p)
    BY <1>1, <1>2, Zenon DEF decode_settings
<1>4. PICK c : c = First(b, 15) \o <<0, 0, 0>>
    OBVIOUS
<1>5. encode_settings(p) = Ok(c)
  <2>1. /\ p.version = b[1] /\ p.max_frame_size = U32(b, 2)
        /\ p.pause_buffer_cap = U32(b, 6) /\ p.heartbeat_ms = U32(b, 10)
        /\ p.max_concurrent_sessions = U16(b, 14)
      BY <1>2
  <2>2. <<b[1]>> = First(b, 1)
      BY <1>1, Beginnings
  <2>3. /\ 2 = 1 + 1 /\ 5 = 1 + 4 /\ 6 = 5 + 1 /\ 9 = 5 + 4 /\ 10 = 9 + 1
        /\ 13 = 9 + 4 /\ 14 = 13 + 1 /\ 15 = 13 + 2
        /\ 5 <= Len(b) /\ 9 <= Len(b) /\ 13 <= Len(b) /\ 15 <= Len(b)
        /\ 1 \in Nat /\ 2 \in Nat /\ 5 \in Nat /\ 6 \in Nat /\ 9 \in Nat
        /\ 10 \in Nat /\ 13 \in Nat /\ 14 \in Nat /\ 15 \in Nat
      BY <1>1
  <2>4. /\ AddsFour(b, 1, 2, 5) /\ AddsFour(b, 5, 6, 9) /\ AddsFour(b, 9, 10, 13)
        /\ AddsTwo(b, 13, 14, 15)
      BY <2>3, AddFour, AddTwo, Zenon
  <2> QED BY <1>4, <2>1, <2>2, <2>4, Zenon DEF encode_settings, AddsFour, AddsTwo
<1>6. Len(c) = 18 /\ Alike(c, b, 15)
  <2>1. PICK f : f = First(b, 15)
      OBVIOUS
  <2>2. f \in Seq(Octet) /\ Len(f) = 15 /\ \A i \in 1..15 : f[i] = b[i]
    <3>1. 15 \in 0..Len(b)
        BY <1>1
    <3> QED BY <2>1, <3>1, FirstSame, Zenon DEF Same
  <2>3. c = f \o <<0, 0, 0>>
      BY <1>4, <2>1, Zenon
  <2>4. PICK t : t = <<0, 0, 0>>
      OBVIOUS
  <2>5. t \in Seq(Octet) /\ Len(t) = 3
      BY <2>4 DEF Octet
  <2>6. Fronted(c, f, t)
      BY <2>2, <2>3, <2>4, <2>5, InFront, Zenon
  <2>7. Len(c) = Len(f) + Len(t) /\ Len(f) = 15
      BY <2>2, <2>6, Zenon DEF Fronted
  <2>8. Len(c) = 18
      BY <2>7, <2>5
  <2> QED BY <2>2, <2>6, <2>7, <2>8, Zenon DEF Alike, Fronted
<1>7. decode_settings(c) = Ok(p)
  <2>1. Read(c) = Read(b)
    <3>1. /\ U32(c, 2) = U32(b, 2) /\ U32(c, 6) = U32(b, 6)
          /\ U32(c, 10) = U32(b, 10) /\ U16(c, 14) = U16(b, 14)
        BY <1>6, AlikeNumbers
    <3>2. c[1] = b[1]
        BY <1>6 DEF Alike
    <3> QED BY <3>1, <3>2, Zenon
  <2> QED BY <1>2, <1>6, <2>1, Zenon DEF decode_settings
<1>8. Ok(p).value = p /\ Ok(c).value = c /\ Returns(Ok(c))
    BY DEF Ok, Returns
<1> QED BY <1>3, <1>4, <1>5, <1>7, <1>8, Zenon DEF Survives

\* USAGE, whose reserved bytes have to be zero.
LEMMA UsageSurvives ==
    ASSUME NEW b \in Seq(Octet), Returns(decode_usage(b))
    PROVE  LET call == decode_usage(b)
               again == encode_usage(call.value)
           IN  Survives(call, again, decode_usage(again.value), b)
<1>1. Len(b) = 20
    BY DEF decode_usage, Returns, Violation, Raise
<1>2. PICK p : p = [prompt_tokens |-> U32(b, 1), completion_tokens |-> U32(b, 5),
                    total_tokens |-> U32(b, 9), cached_tokens |-> U32(b, 13),
                    attempt_count |-> b[17]]
    OBVIOUS
<1>3. decode_usage(b) = Ok(p)
  <2>1. ~Returns(Violation)
      BY DEF Returns, Violation, Raise
  <2> QED BY <1>1, <1>2, <2>1, Zenon DEF decode_usage
<1>4. encode_usage(p) = Ok(b)
  <2>1. /\ p.prompt_tokens = U32(b, 1) /\ p.completion_tokens = U32(b, 5)
        /\ p.total_tokens = U32(b, 9) /\ p.cached_tokens = U32(b, 13)
        /\ p.attempt_count = b[17]
      BY <1>2
  <2>2. LE4(U32(b, 1)) = First(b, 4)
    <3>1. 4 <= Len(b)
        BY <1>1
    <3> QED BY <3>1, Beginnings, Zenon
  <2>3. /\ 4 \in Nat /\ 5 \in Nat /\ 8 \in Nat /\ 9 \in Nat /\ 12 \in Nat
        /\ 13 \in Nat /\ 16 \in Nat /\ 5 = 4 + 1 /\ 8 = 4 + 4 /\ 9 = 8 + 1
        /\ 12 = 8 + 4 /\ 13 = 12 + 1 /\ 16 = 12 + 4
        /\ 8 <= Len(b) /\ 12 <= Len(b) /\ 16 <= Len(b)
      BY <1>1
  <2>4. AddsFour(b, 4, 5, 8) /\ AddsFour(b, 8, 9, 12) /\ AddsFour(b, 12, 13, 16)
      BY <2>3, AddFour, Zenon
  <2>5. First(b, 16) \o <<b[17], 0, 0, 0>> = b
    <3>1. b[18] = 0 /\ b[19] = 0 /\ b[20] = 0
      <4>1. U16(b, 19) = 0 /\ b[18] = 0
          BY <1>1, Zenon DEF decode_usage, Returns, Violation, Raise
      <4>2. 19 \in Nat \ {0} /\ 19 + 1 <= Len(b)
          BY <1>1
      <4>3. b[19] = 0 /\ b[19 + 1] = 0
          BY <4>1, <4>2, ZeroBytes, Zenon
      <4> QED BY <4>1, <4>3
    <3>2. <<b[17], 0, 0, 0>> = SubSeq(b, 17, 20)
        BY <1>1, <3>1
    <3>3. SubSeq(b, 1, 16) \o SubSeq(b, 17, 20) = b
        BY <1>1
    <3> QED BY <3>2, <3>3, Zenon DEF First
  <2> QED BY <2>1, <2>2, <2>4, <2>5, Zenon DEF encode_usage, AddsFour
<1>5. Ok(p).value = p /\ Ok(b).value = b /\ Returns(Ok(b))
    BY DEF Ok, Returns
<1> QED BY <1>3, <1>4, <1>5, Zenon DEF Survives

\* METRICS, with a key of eight bytes that are kept as they are.
LEMMA MetricsSurvive ==
    ASSUME NEW b \in Seq(Octet), Returns(decode_metrics(b))
    PROVE  LET call == decode_metrics(b)
               again == encode_metrics(call.value)
           IN  Survives(call, again, decode_metrics(again.value), b)
<1>1. Len(b) = 20
    BY DEF decode_metrics, Returns, Violation, Raise
<1>2. PICK p : p = [ttft_ms |-> U32(b, 1), total_duration_ms |-> U32(b, 5),
                    tokens_per_sec |-> U32(b, 9), obfuscated_key_id |-> From(b, 13)]
    OBVIOUS
<1>3. decode_metrics(b) = Ok(p)
    BY <1>1, <1>2, Zenon DEF decode_metrics
<1>4. encode_metrics(p) = Ok(b)
  <2>1. /\ p.ttft_ms = U32(b, 1) /\ p.total_duration_ms = U32(b, 5)
        /\ p.tokens_per_sec = U32(b, 9) /\ p.obfuscated_key_id = From(b, 13)
      BY <1>2
  <2>2. LE4(U32(b, 1)) = First(b, 4)
    <3>1. 4 <= Len(b)
        BY <1>1
    <3> QED BY <3>1, Beginnings, Zenon
  <2>3. /\ 4 \in Nat /\ 5 \in Nat /\ 8 \in Nat /\ 9 \in Nat /\ 12 \in Nat
        /\ 5 = 4 + 1 /\ 8 = 4 + 4 /\ 9 = 8 + 1 /\ 12 = 8 + 4
        /\ 8 <= Len(b) /\ 12 <= Len(b)
      BY <1>1
  <2>4. AddsFour(b, 4, 5, 8) /\ AddsFour(b, 8, 9, 12)
      BY <2>3, AddFour, Zenon
  <2>5. First(b, 12) \o From(b, 13) = b
      BY <1>1 DEF First, From
  <2> QED BY <2>1, <2>2, <2>4, <2>5, Zenon DEF encode_metrics, AddsFour
<1>5. Ok(p).value = p /\ Ok(b).value = b /\ Returns(Ok(b))
    BY DEF Ok, Returns
<1> QED BY <1>3, <1>4, <1>5, Zenon DEF Survives

\* PING and PONG.
LEMMA PingPongSurvives ==
    ASSUME NEW b \in Seq(Octet), Returns(decode_ping_pong(b))
    PROVE  LET call == decode_ping_pong(b)
               again == encode_ping_pong(call.value)
           IN  Survives(call, again, decode_ping_pong(again.value), b)
<1>1. decode_ping_pong(b) = Ok([timestamp_ms |-> b])
    BY DEF decode_ping_pong, Returns, Violation, Raise
<1>2. encode_ping_pong([timestamp_ms |-> b]) = Ok(b)
    BY DEF encode_ping_pong
<1>3. /\ Ok([timestamp_ms |-> b]).value = [timestamp_ms |-> b]
      /\ Ok(b).value = b /\ Returns(Ok(b))
    BY DEF Ok, Returns
<1> QED BY <1>1, <1>2, <1>3, Zenon DEF Survives

\* END, with a reason there is.
LEMMA EndSurvives ==
    ASSUME NEW b \in Seq(Octet), Returns(decode_end(b))
    PROVE  LET call == decode_end(b)
               again == encode_end(call.value)
           IN  Survives(call, again, decode_end(again.value), b)
<1>1. Len(b) = 2 /\ b[1] \in FinishReasons
    BY DEF decode_end, Returns, Violation, Raise
<1>2. PICK p : p = [finish_reason |-> b[1], choice_index |-> b[2]]
    OBVIOUS
<1>3. decode_end(b) = Ok(p)
    BY <1>1, <1>2, Zenon DEF decode_end
<1>4. encode_end(p) = Ok(b)
  <2>1. p.finish_reason = b[1] /\ p.choice_index = b[2]
      BY <1>2
  <2>2. <<b[1], b[2]>> = b
      BY <1>1
  <2> QED BY <2>1, <2>2, Zenon DEF encode_end
<1>5. Ok(p).value = p /\ Ok(b).value = b /\ Returns(Ok(b))
    BY DEF Ok, Returns
<1> QED BY <1>3, <1>4, <1>5, Zenon DEF Survives

\* REWIND, whose reserved bytes have to be zero.
LEMMA RewindSurvives ==
    ASSUME NEW b \in Seq(Octet), Returns(decode_rewind(b))
    PROVE  LET call == decode_rewind(b)
               again == encode_rewind(call.value)
           IN  Survives(call, again, decode_rewind(again.value), b)
<1>1. Len(b) = 8 /\ U16(b, 3) = 0 /\ b[1] \in Opcodes
    BY DEF decode_rewind, Returns, Violation, Raise
<1>2. PICK p : p = [target_opcode |-> b[1], choice_index |-> b[2],
                    byte_offset |-> U32(b, 5)]
    OBVIOUS
<1>3. decode_rewind(b) = Ok(p)
    BY <1>1, <1>2, Zenon DEF decode_rewind
<1>4. encode_rewind(p) = Ok(b)
  <2>1. p.target_opcode = b[1] /\ p.choice_index = b[2] /\ p.byte_offset = U32(b, 5)
      BY <1>2
  <2>2. b[3] = 0 /\ b[4] = 0
    <3>1. 3 \in Nat \ {0} /\ 3 + 1 <= Len(b)
        BY <1>1
    <3>2. b[3] = 0 /\ b[3 + 1] = 0
        BY <1>1, <3>1, ZeroBytes, Zenon
    <3> QED BY <3>2
  <2>3. <<b[1], b[2], 0, 0>> = First(b, 4)
      BY <1>1, <2>2 DEF First
  <2>4. /\ 4 \in Nat /\ 5 \in Nat /\ 8 \in Nat
        /\ 5 = 4 + 1 /\ 8 = 4 + 4 /\ 8 <= Len(b)
      BY <1>1
  <2>5. AddsFour(b, 4, 5, 8)
      BY <2>4, AddFour, Zenon
  <2>6. First(b, 8) = b
      BY <1>1 DEF First
  <2> QED BY <2>1, <2>3, <2>5, <2>6, Zenon DEF encode_rewind, AddsFour
<1>5. Ok(p).value = p /\ Ok(b).value = b /\ Returns(Ok(b))
    BY DEF Ok, Returns
<1> QED BY <1>3, <1>4, <1>5, Zenon DEF Survives

------------------------------------------------------------------------------
(* Payloads that end in text *)

\* A string that decodes is taken as it is.
LEMMA StrictReturns ==
    ASSUME NEW strings, NEW value, Returns(Strict(strings, value))
    PROVE  /\ Strict(strings, value) = Ok(value)
           /\ \A other : Strict(strings, other) = Ok(other)
<1>1. ~Returns(Raise("ValueError"))
    BY DEF Returns, Raise
<1>2. \A s \in strings : WellFormed(s)
    BY <1>1, Zenon DEF Strict
<1> QED BY <1>2, Zenon DEF Strict

\* A number of two bytes.
LEMMA TwoByteNumber ==
    ASSUME NEW b \in Seq(Octet), NEW i \in Nat \ {0}, i + 1 <= Len(b)
    PROVE  U16(b, i) \in 0..U16Max
<1>1. PICK b1 \in Octet, b2 \in Octet : b1 = b[i] /\ b2 = b[i + 1]
    OBVIOUS
<1>2. b1 + 256 * b2 \in 0..U16Max
    BY TwoBytesRead, Zenon
<1> QED BY <1>1, <1>2, Zenon DEF U16

\* The greatest of them is that of the length of a string.
LEMMA TwoByteLength ==
    ASSUME NEW n \in 0..U16Max
    PROVE  n \in Nat /\ ~(n > 65535)
<1>1. n \in Nat /\ n <= U16Max
    BY U16Nat
<1>2. n <= 65535
    BY <1>1, U16Bound, SMT
<1> QED BY <1>1, <1>2, SMT

\* So struct.pack takes it.
LEMMA TwoBytePrefix ==
    ASSUME NEW s, NEW before, NEW n \in 0..U16Max, Len(s) = n
    PROVE  Prefixed(2, s, before) = Ok((before \o LE2(Len(s))) \o s)
<1>1. ~(Len(s) > 65535)
    BY TwoByteLength, SMT
<1> QED BY <1>1, SMT DEF Prefixed

\* A part of n bytes behind j of them.
LEMMA PastSum ==
    ASSUME NEW j \in Nat, NEW n \in Nat, NEW l \in Nat, j + n <= l
    PROVE  j <= j + n /\ j <= l /\ (j + n) - j = n
  OBVIOUS

\* The length of a string of two bytes in front of it, in a payload that ends
\* with it or behind it.
PrefixedBy(b, m, s, k) == Prefixed(2, s, First(b, m)) = Ok(First(b, k))

\* It is there after the length read from two bytes, and so is the string.
LEMMA Lengthened ==
    ASSUME NEW b \in Seq(Octet), NEW m \in Nat, NEW i \in Nat, i = m + 1,
           NEW j \in Nat, j = m + 2, NEW n \in 0..U16Max, n = U16(b, i),
           NEW k \in Nat, k = j + n, k <= Len(b), NEW s, s = SubSeq(b, j + 1, k)
    PROVE  PrefixedBy(b, m, s, k)
<1>1. n \in Nat
    BY U16Nat
<1>2. j <= k /\ j <= Len(b) /\ k - j = n
  <2>1. Len(b) \in Nat
      OBVIOUS
  <2> QED BY <1>1, <2>1, PastSum, Zenon
<1>3. Len(s) = n
  <2>1. Len(SubSeq(b, j + 1, k)) = k - j
      BY <1>2, Piece, ZenonT(60)
  <2> QED BY <1>2, <2>1, SMT
<1>4. AddsTwo(b, m, i, j)
    BY <1>2, AddTwo, Zenon
<1>5. First(b, j) \o s = First(b, k)
    BY <1>2, Rejoined, Zenon DEF First
<1>6. Prefixed(2, s, First(b, m)) = Ok((First(b, m) \o LE2(Len(s))) \o s)
    BY <1>3, TwoBytePrefix, Zenon
<1> QED BY <1>3, <1>4, <1>5, <1>6, Zenon DEF AddsTwo, PrefixedBy

\* OPEN_ACK: bytes behind the model are dropped.
LEMMA OpenAckSurvives ==
    ASSUME NEW b \in Seq(Octet), Returns(decode_open_ack(b))
    PROVE  LET call == decode_open_ack(b)
               again == encode_open_ack(call.value)
           IN  Survives(call, again, decode_open_ack(again.value),
                        First(b, 6 + U16(b, 5)))
<1>1. ~Returns(Violation)
    BY DEF Returns, Violation, Raise
<1>2. PICK n : n = U16(b, 5)
    OBVIOUS
<1>3. PICK k : k = 6 + n
    OBVIOUS
<1>4. PICK model : model = SubSeq(b, 7, k)
    OBVIOUS
<1>5. PICK p : p = [session_id |-> U32(b, 1), model |-> model]
    OBVIOUS
<1>6. ~(Len(b) < 6) /\ ~(Len(b) < k)
    BY <1>1, <1>2, <1>3, Zenon DEF decode_open_ack
<1>7. decode_open_ack(b) = Strict({model}, p)
    BY <1>2, <1>3, <1>4, <1>5, <1>6, Zenon DEF decode_open_ack
<1>8. Strict({model}, p) = Ok(p)
    BY <1>7, StrictReturns, Zenon
<1>9. n \in 0..U16Max /\ n \in Nat /\ Len(b) >= 6
  <2>1. 5 \in Nat \ {0} /\ 5 + 1 <= Len(b) /\ Len(b) >= 6
      BY <1>6
  <2>2. n \in 0..U16Max
      BY <1>2, <2>1, TwoByteNumber, Zenon
  <2> QED BY <2>1, <2>2, U16Nat
<1>10. k \in 6..Len(b)
    BY <1>3, <1>6, <1>9
<1>11. PICK c : c = First(b, k)
    OBVIOUS
<1>12. encode_open_ack(p) = Ok(c)
  <2>1. p.session_id = U32(b, 1) /\ p.model = model
      BY <1>5
  <2>2. LE4(U32(b, 1)) = First(b, 4)
    <3>1. 4 <= Len(b)
        BY <1>9
    <3> QED BY <3>1, Beginnings, Zenon
  <2>3. /\ 4 \in Nat /\ 5 \in Nat /\ 5 = 4 + 1 /\ 6 \in Nat /\ 6 = 4 + 2
        /\ k \in Nat /\ k <= Len(b) /\ model = SubSeq(b, 6 + 1, k)
      BY <1>4, <1>10
  <2>4. PrefixedBy(b, 4, model, k)
      BY <1>2, <1>3, <1>9, <2>3, Lengthened, Zenon
  <2> QED BY <1>11, <2>1, <2>2, <2>4, Zenon DEF encode_open_ack, PrefixedBy
<1>13. /\ Len(c) = k /\ Alike(c, b, k) /\ SubSeq(c, 7, k) = model
  <2>1. k \in 0..Len(b) /\ 7 \in 1..(k + 1)
      BY <1>10
  <2>2. Same(c, b, k)
      BY <1>11, <2>1, FirstSame, Zenon
  <2>3. SubSeq(c, 7, k) = SubSeq(b, 7, k)
      BY <1>11, <2>1, FirstPart, Zenon
  <2> QED BY <1>4, <2>2, <2>3, Zenon DEF Same, Alike
<1>14. decode_open_ack(c) = Ok(p)
  <2>1. U16(c, 5) = n /\ U32(c, 1) = U32(b, 1)
      BY <1>2, <1>10, <1>13, AlikeNumbers
  <2>2. ~(k < 6) /\ ~(k < k)
      BY <1>10
  <2> QED BY <1>3, <1>5, <1>8, <1>13, <2>1, <2>2, Zenon DEF decode_open_ack
<1>15. Ok(p).value = p /\ Ok(c).value = c /\ Returns(Ok(c))
    BY DEF Ok, Returns
<1> QED BY <1>2, <1>3, <1>7, <1>8, <1>11, <1>12, <1>14, <1>15, Zenon DEF Survives

\* CONTENT and REASONING.
LEMMA ContentSurvives ==
    ASSUME NEW b \in Seq(Octet), Returns(decode_content(b))
    PROVE  LET call == decode_content(b)
               again == encode_content(call.value)
           IN  Survives(call, again, decode_content(again.value), b)
<1>1. ~Returns(Violation)
    BY DEF Returns, Violation, Raise
<1>2. ~(Len(b) < 1)
    BY <1>1, Zenon DEF decode_content
<1>3. PICK p : p = [choice_index |-> b[1], text |-> From(b, 2)]
    OBVIOUS
<1>4. decode_content(b) = Strict({From(b, 2)}, p)
    BY <1>2, <1>3, Zenon DEF decode_content
<1>5. decode_content(b) = Ok(p)
    BY <1>4, StrictReturns, Zenon
<1>6. encode_content(p) = Ok(b)
  <2>1. p.choice_index = b[1] /\ p.text = From(b, 2)
      BY <1>3
  <2>2. <<b[1]>> = First(b, 1)
      BY <1>2 DEF First
  <2>3. First(b, 1) \o From(b, 2) = b
      BY <1>2 DEF First, From
  <2> QED BY <2>1, <2>2, <2>3, Zenon DEF encode_content
<1>7. Ok(p).value = p /\ Ok(b).value = b /\ Returns(Ok(b))
    BY DEF Ok, Returns
<1> QED BY <1>5, <1>6, <1>7, Zenon DEF Survives

\* ERROR: bytes behind the message are dropped.
LEMMA ErrorSurvives ==
    ASSUME NEW b \in Seq(Octet), Returns(decode_error(b))
    PROVE  LET call == decode_error(b)
               again == encode_error(call.value)
           IN  Survives(call, again, decode_error(again.value),
                        First(b, 8 + U16(b, 7)))
<1>1. ~Returns(Violation) /\ ~Returns(Raise("ValueError"))
    BY DEF Returns, Violation, Raise
<1>2. PICK n : n = U16(b, 7)
    OBVIOUS
<1>3. PICK k : k = 8 + n
    OBVIOUS
<1>4. PICK message : message = SubSeq(b, 9, k)
    OBVIOUS
<1>5. PICK p : p = [code |-> U16(b, 1), upstream_status |-> U16(b, 3),
                    choice_index |-> b[5], scope |-> b[6], message |-> message]
    OBVIOUS
<1>6. ~(Len(b) < 8) /\ ~(Len(b) < k)
    BY <1>1, <1>2, <1>3, Zenon DEF decode_error
<1>7. ~(U16(b, 1) \notin ErrorCodes \/ b[6] \notin ErrorScopes)
    BY <1>1, <1>2, <1>3, <1>6, Zenon DEF decode_error
<1>8. decode_error(b) = Strict({message}, p)
    BY <1>2, <1>3, <1>4, <1>5, <1>6, <1>7, Zenon DEF decode_error
<1>9. Strict({message}, p) = Ok(p)
    BY <1>8, StrictReturns, Zenon
<1>10. n \in 0..U16Max /\ n \in Nat /\ Len(b) >= 8
  <2>1. 7 \in Nat \ {0} /\ 7 + 1 <= Len(b) /\ Len(b) >= 8
      BY <1>6
  <2>2. n \in 0..U16Max
      BY <1>2, <2>1, TwoByteNumber, Zenon
  <2> QED BY <2>1, <2>2, U16Nat
<1>11. k \in 8..Len(b)
    BY <1>3, <1>6, <1>10
<1>12. PICK c : c = First(b, k)
    OBVIOUS
<1>13. encode_error(p) = Ok(c)
  <2>1. /\ p.code = U16(b, 1) /\ p.upstream_status = U16(b, 3)
        /\ p.choice_index = b[5] /\ p.scope = b[6] /\ p.message = message
      BY <1>5
  <2>2. LE2(U16(b, 1)) = First(b, 2)
    <3>1. 2 <= Len(b)
        BY <1>10
    <3> QED BY <3>1, Beginnings, Zenon
  <2>3. AddsTwo(b, 2, 3, 4)
    <3>1. 2 \in Nat /\ 3 \in Nat /\ 3 = 2 + 1 /\ 4 \in Nat /\ 4 = 2 + 2 /\ 4 <= Len(b)
        BY <1>10
    <3> QED BY <3>1, AddTwo, Zenon
  <2>4. First(b, 4) \o <<b[5], b[6]>> = First(b, 6)
      BY <1>10 DEF First
  <2>5. /\ 6 \in Nat /\ 7 \in Nat /\ 7 = 6 + 1 /\ 8 \in Nat /\ 8 = 6 + 2
        /\ k \in Nat /\ k <= Len(b) /\ message = SubSeq(b, 8 + 1, k)
      BY <1>4, <1>11
  <2>6. PrefixedBy(b, 6, message, k)
      BY <1>2, <1>3, <1>10, <2>5, Lengthened, Zenon
  <2> QED BY <1>12, <2>1, <2>2, <2>3, <2>4, <2>6, Zenon
          DEF encode_error, AddsTwo, PrefixedBy
<1>14. /\ Len(c) = k /\ Alike(c, b, k) /\ SubSeq(c, 9, k) = message
  <2>1. k \in 0..Len(b) /\ 9 \in 1..(k + 1)
      BY <1>11
  <2>2. Same(c, b, k)
      BY <1>12, <2>1, FirstSame, Zenon
  <2>3. SubSeq(c, 9, k) = SubSeq(b, 9, k)
      BY <1>12, <2>1, FirstPart, Zenon
  <2> QED BY <1>4, <2>2, <2>3, Zenon DEF Same, Alike
<1>15. decode_error(c) = Ok(p)
  <2>1. U16(c, 7) = n /\ U16(c, 1) = U16(b, 1) /\ U16(c, 3) = U16(b, 3)
      BY <1>2, <1>11, <1>14, AlikeNumbers
  <2>2. c[5] = b[5] /\ c[6] = b[6]
      BY <1>11, <1>14 DEF Alike
  <2>3. ~(k < 8) /\ ~(k < k)
      BY <1>11
  <2> QED BY <1>3, <1>5, <1>7, <1>9, <1>14, <2>1, <2>2, <2>3, Zenon DEF decode_error
<1>16. Ok(p).value = p /\ Ok(c).value = c /\ Returns(Ok(c))
    BY DEF Ok, Returns
<1> QED BY <1>2, <1>3, <1>8, <1>9, <1>12, <1>13, <1>15, <1>16, Zenon DEF Survives

\* STEER: bytes behind the text are dropped.
LEMMA SteerSurvives ==
    ASSUME NEW b \in Seq(Octet), Returns(decode_steer(b))
    PROVE  LET call == decode_steer(b)
               again == encode_steer(call.value)
           IN  Survives(call, again, decode_steer(again.value),
                        First(b, 2 + U16(b, 1)))
<1>1. ~Returns(Violation)
    BY DEF Returns, Violation, Raise
<1>2. PICK n : n = U16(b, 1)
    OBVIOUS
<1>3. PICK k : k = 2 + n
    OBVIOUS
<1>4. PICK text : text = SubSeq(b, 3, k)
    OBVIOUS
<1>5. PICK p : p = [text |-> text]
    OBVIOUS
<1>6. ~(Len(b) < 2) /\ ~(Len(b) < k)
    BY <1>1, <1>2, <1>3, Zenon DEF decode_steer
<1>7. decode_steer(b) = Strict({text}, p)
    BY <1>2, <1>3, <1>4, <1>5, <1>6, Zenon DEF decode_steer
<1>8. Strict({text}, p) = Ok(p)
    BY <1>7, StrictReturns, Zenon
<1>9. n \in 0..U16Max /\ n \in Nat /\ Len(b) >= 2
  <2>1. 1 \in Nat \ {0} /\ 1 + 1 <= Len(b) /\ Len(b) >= 2
      BY <1>6
  <2>2. n \in 0..U16Max
      BY <1>2, <2>1, TwoByteNumber, Zenon
  <2> QED BY <2>1, <2>2, U16Nat
<1>10. k \in 2..Len(b)
    BY <1>3, <1>6, <1>9
<1>11. PICK c : c = First(b, k)
    OBVIOUS
<1>12. encode_steer(p) = Ok(c)
  <2>1. p.text = text
      BY <1>5
  <2>2. <<>> = First(b, 0)
      BY DEF First
  <2>3. /\ 0 \in Nat /\ 1 \in Nat /\ 1 = 0 + 1 /\ 2 \in Nat /\ 2 = 0 + 2
        /\ k \in Nat /\ k <= Len(b) /\ text = SubSeq(b, 2 + 1, k)
      BY <1>4, <1>10
  <2>4. PrefixedBy(b, 0, text, k)
      BY <1>2, <1>3, <1>9, <2>3, Lengthened, Zenon
  <2> QED BY <1>11, <2>1, <2>2, <2>4, Zenon DEF encode_steer, PrefixedBy
<1>13. /\ Len(c) = k /\ Alike(c, b, k) /\ SubSeq(c, 3, k) = text
  <2>1. k \in 0..Len(b) /\ 3 \in 1..(k + 1)
      BY <1>10
  <2>2. Same(c, b, k)
      BY <1>11, <2>1, FirstSame, Zenon
  <2>3. SubSeq(c, 3, k) = SubSeq(b, 3, k)
      BY <1>11, <2>1, FirstPart, Zenon
  <2> QED BY <1>4, <2>2, <2>3, Zenon DEF Same, Alike
<1>14. decode_steer(c) = Ok(p)
  <2>1. U16(c, 1) = n
      BY <1>2, <1>10, <1>13, AlikeNumbers
  <2>2. ~(k < 2) /\ ~(k < k)
      BY <1>10
  <2> QED BY <1>3, <1>5, <1>8, <1>13, <2>1, <2>2, Zenon DEF decode_steer
<1>15. Ok(p).value = p /\ Ok(c).value = c /\ Returns(Ok(c))
    BY DEF Ok, Returns
<1> QED BY <1>2, <1>3, <1>7, <1>8, <1>11, <1>12, <1>14, <1>15, Zenon DEF Survives

------------------------------------------------------------------------------
(* TOOL_CALL *)

\* A byte is a number, and no greater than the length of an id may be.
LEMMA OctetNat ==
    ASSUME NEW n \in Octet
    PROVE  n \in Nat /\ ~(n > 255)
  BY DEF Octet

\* What encode_tool_call makes of a later fragment, and of one that starts.
CallBefore(p) == <<p.choice_index>> \o LE2(p.call_index) \o <<p.flags>>
TooLong(id, name) == Len(id) > 255 \/ Len(name) > 65535

\* A later fragment.
LEMMA LaterEncoded ==
    ASSUME NEW p, ~IsStart(p.flags)
    PROVE  encode_tool_call(p) = Ok(CallBefore(p) \o p.args_delta)
  BY SMT DEF encode_tool_call, CallBefore

\* A fragment that starts a call.
LEMMA StartEncoded ==
    ASSUME NEW p, NEW id, NEW name, id = OrEmpty(p.id), name = OrEmpty(p.name),
           IsStart(p.flags), ~TooLong(id, name)
    PROVE  encode_tool_call(p) =
               Ok((CallBefore(p) \o <<Len(id)>> \o LE2(Len(name)) \o id \o name)
                  \o p.args_delta)
  BY SMT DEF encode_tool_call, CallBefore, TooLong

\* A string of a payload is not the one that stands for None.
LEMMA NotNone ==
    ASSUME NEW s \in Seq(Octet)
    PROVE  OrEmpty(s) = s
<1>1. s # NoString
  <2>1. SUFFICES ASSUME s = NoString PROVE FALSE
      OBVIOUS
  <2>2. Len(s) = 1 /\ s[1] = -1
      BY <2>1 DEF NoString
  <2>3. s[1] \in Octet
      BY <2>2
  <2> QED BY <2>2, <2>3 DEF Octet
<1> QED BY <1>1, Zenon DEF OrEmpty

\* The first four bytes of the encoded form.
LEMMA CallHead ==
    ASSUME NEW b \in Seq(Octet), 4 <= Len(b)
    PROVE  (<<b[1]>> \o LE2(U16(b, 2))) \o <<b[4]>> = First(b, 4)
<1>1. <<b[1]>> = First(b, 1)
    BY DEF First
<1>2. /\ 1 \in Nat /\ 2 \in Nat /\ 3 \in Nat /\ 4 \in Nat
      /\ 2 = 1 + 1 /\ 3 = 1 + 2 /\ 4 = 3 + 1 /\ 3 <= Len(b)
    OBVIOUS
<1>3. AddsTwo(b, 1, 2, 3) /\ AddsByte(b, 3, 4, 4)
    BY <1>2, AddTwo, AddByte, Zenon
<1> QED BY <1>1, <1>3, Zenon DEF AddsTwo, AddsByte

\* The parts of a fragment that starts a call, in the order they are joined in.
Started(b, i, j) == /\ i \in Nat /\ j \in Nat /\ 7 <= i /\ i <= j /\ j <= Len(b)
                    /\ i = 7 + b[5] /\ j = i + U16(b, 6)

\* The lengths in the payload are those of id and name.
LEMMA StartedParts ==
    ASSUME NEW b \in Seq(Octet), NEW i, NEW j, Started(b, i, j)
    PROVE  LET id == SubSeq(b, 8, i)
               name == SubSeq(b, i + 1, j)
           IN  /\ OrEmpty(id) = id /\ Len(id) = b[5]
               /\ OrEmpty(name) = name /\ Len(name) = U16(b, 6)
<1>1. /\ i \in Nat /\ j \in Nat /\ 7 <= i /\ i <= j /\ j <= Len(b)
      /\ 7 \in Nat /\ 8 = 7 + 1 /\ i <= Len(b)
    BY DEF Started
<1>2. /\ SubSeq(b, 7 + 1, i) \in Seq(Octet) /\ Len(SubSeq(b, 7 + 1, i)) = i - 7
      /\ SubSeq(b, i + 1, j) \in Seq(Octet) /\ Len(SubSeq(b, i + 1, j)) = j - i
    BY <1>1, Piece, Zenon
<1>3. i - 7 = b[5]
  <2>1. 5 \in 1..Len(b)
      BY <1>1
  <2>2. b[5] \in Nat
    <3>1. b[5] \in Octet
        BY <2>1
    <3> QED BY <3>1, OctetNat
  <2> QED BY <2>2 DEF Started
<1>4. j - i = U16(b, 6)
  <2>1. 6 \in Nat \ {0} /\ 6 + 1 <= Len(b)
      BY <1>1
  <2>2. U16(b, 6) \in 0..U16Max
      BY <2>1, TwoByteNumber, Zenon
  <2>3. PICK n \in Nat : n = U16(b, 6)
      BY <2>2, U16Nat
  <2>4. j = i + n
      BY <2>3, Zenon DEF Started
  <2> QED BY <1>1, <2>3, <2>4
<1> QED BY <1>1, <1>2, <1>3, <1>4, NotNone, Zenon

\* The parts joined are the payload.
LEMMA StartedWhole ==
    ASSUME NEW b \in Seq(Octet), NEW i, NEW j, Started(b, i, j)
    PROVE  ((((First(b, 4) \o <<b[5]>>) \o LE2(U16(b, 6))) \o SubSeq(b, 8, i))
               \o SubSeq(b, i + 1, j)) \o From(b, j + 1) = b
<1>1. /\ i \in Nat /\ j \in Nat /\ 7 <= i /\ i <= j /\ j <= Len(b) /\ i <= Len(b)
      /\ 4 \in Nat /\ 5 \in Nat /\ 6 \in Nat /\ 7 \in Nat
      /\ 5 = 4 + 1 /\ 6 = 5 + 1 /\ 7 = 5 + 2 /\ 8 = 7 + 1
      /\ 5 <= Len(b) /\ 7 <= Len(b) /\ j + 1 \in Nat
    BY DEF Started
<1>2. AddsByte(b, 4, 5, 5)
    BY <1>1, AddByte, Zenon
<1>3. AddsTwo(b, 5, 6, 7)
    BY <1>1, AddTwo, Zenon
<1>4. First(b, 7) \o SubSeq(b, 8, i) = First(b, i)
  <2>1. SubSeq(b, 1, 7) \o SubSeq(b, 7 + 1, i) = SubSeq(b, 1, i)
      BY <1>1, Rejoined, Zenon
  <2> QED BY <1>1, <2>1, Zenon DEF First
<1>5. First(b, i) \o SubSeq(b, i + 1, j) = First(b, j)
    BY <1>1, Rejoined, Zenon DEF First
<1>6. First(b, j) \o From(b, j + 1) = b
    BY <1>1, AddRest, Zenon
<1> QED BY <1>2, <1>3, <1>4, <1>5, <1>6, Zenon DEF AddsByte, AddsTwo

\* TOOL_CALL, in either form.
LEMMA ToolCallSurvives ==
    ASSUME NEW b \in Seq(Octet), Returns(decode_tool_call(b))
    PROVE  LET call == decode_tool_call(b)
               again == encode_tool_call(call.value)
           IN  Survives(call, again, decode_tool_call(again.value), b)
<1>1. ~Returns(Violation)
    BY DEF Returns, Violation, Raise
<1>2. ~(Len(b) < 4) /\ ~ReservedToolFlags(b[4])
    BY <1>1, Zenon DEF decode_tool_call
<1>3. <<b[1]>> \o LE2(U16(b, 2)) \o <<b[4]>> = First(b, 4) /\ Len(b) >= 4
  <2>1. 4 <= Len(b)
      BY <1>2
  <2> QED BY <2>1, CallHead
<1>4. Ok(b).value = b /\ Returns(Ok(b))
    BY DEF Ok, Returns
<1>5. ASSUME NEW p, decode_tool_call(b) = Ok(p), encode_tool_call(p) = Ok(b)
      PROVE  LET call == decode_tool_call(b)
                 again == encode_tool_call(call.value)
             IN  Survives(call, again, decode_tool_call(again.value), b)
  <2>1. Ok(p).value = p
      BY DEF Ok
  <2> QED BY <1>4, <1>5, <2>1, Zenon DEF Survives
<1>6. CASE ~IsStart(b[4])
  <2>1. PICK args : args = From(b, 5)
      OBVIOUS
  <2>2. PICK p : p = ToolCallPayload(b[1], U16(b, 2), b[4], NoString, NoString, args)
      OBVIOUS
  <2>3. decode_tool_call(b) = Strict({args}, p)
      BY <1>2, <1>6, <2>1, <2>2, Zenon DEF decode_tool_call
  <2>4. decode_tool_call(b) = Ok(p)
      BY <2>3, StrictReturns, Zenon
  <2>5. encode_tool_call(p) = Ok(b)
    <3>1. /\ p.choice_index = b[1] /\ p.call_index = U16(b, 2) /\ p.flags = b[4]
          /\ p.args_delta = args
        BY <2>2 DEF ToolCallPayload
    <3>2. 4 \in Nat /\ 5 \in Nat /\ 5 = 4 + 1 /\ 4 <= Len(b)
        BY <1>3
    <3>3. First(b, 4) \o args = b
        BY <2>1, <3>2, AddRest, Zenon
    <3> QED BY <1>3, <1>6, <3>1, <3>3, LaterEncoded, Zenon DEF CallBefore
  <2> QED BY <1>5, <2>4, <2>5, Zenon
<1>7. CASE IsStart(b[4])
  <2>1. PICK i : i = 7 + b[5]
      OBVIOUS
  <2>2. PICK j : j = i + U16(b, 6)
      OBVIOUS
  <2>3. PICK id, name, args : /\ id = SubSeq(b, 8, i) /\ name = SubSeq(b, i + 1, j)
                              /\ args = From(b, j + 1)
      OBVIOUS
  <2>4. PICK p : p = ToolCallPayload(b[1], U16(b, 2), b[4], id, name, args)
      OBVIOUS
  <2>5. ~(Len(b) < 7) /\ ~(Len(b) < j)
      BY <1>1, <1>2, <1>7, <2>1, <2>2, Zenon DEF decode_tool_call
  <2>6. decode_tool_call(b) = Strict({id, name, args}, p)
      BY <1>2, <1>7, <2>1, <2>2, <2>3, <2>4, <2>5, Zenon DEF decode_tool_call
  <2>7. decode_tool_call(b) = Ok(p)
      BY <2>6, StrictReturns, Zenon
  <2>8. Started(b, i, j) /\ U16(b, 6) \in 0..U16Max /\ b[5] \in Octet
    <3>1. 6 \in Nat \ {0} /\ 6 + 1 <= Len(b) /\ 5 \in 1..Len(b)
        BY <2>5
    <3>2. U16(b, 6) \in 0..U16Max
        BY <3>1, TwoByteNumber, Zenon
    <3>3. b[5] \in Octet
        BY <3>1
    <3>4. U16(b, 6) \in Nat /\ b[5] \in Nat
      <4>1. PICK n \in 0..U16Max : n = U16(b, 6)
          BY <3>2, Zenon
      <4>2. n \in Nat
          BY U16Nat
      <4> QED BY <3>3, <4>1, <4>2, OctetNat
    <3>5. i \in Nat /\ 7 <= i /\ j \in Nat /\ i <= j /\ j <= Len(b)
        BY <2>1, <2>2, <2>5, <3>4
    <3> QED BY <2>1, <2>2, <3>2, <3>3, <3>5, Zenon DEF Started
  <2>9. /\ OrEmpty(id) = id /\ Len(id) = b[5]
        /\ OrEmpty(name) = name /\ Len(name) = U16(b, 6)
      BY <2>3, <2>8, StartedParts, ZenonT(60)
  <2>10. ~TooLong(id, name)
    <3>1. ~(Len(id) > 255)
        BY <2>8, <2>9, OctetNat, Zenon
    <3>2. PICK n \in 0..U16Max : n = U16(b, 6)
        BY <2>8, Zenon
    <3>3. ~(n > 65535)
        BY <3>2, TwoByteLength, SMT
    <3> QED BY <2>9, <3>1, <3>2, <3>3, SMT DEF TooLong
  <2>11. PICK head : head = ((First(b, 4) \o <<b[5]>>) \o LE2(U16(b, 6)) \o id \o name)
                             \o args
      OBVIOUS
  <2>12. head = b
      BY <2>3, <2>8, <2>11, StartedWhole, Zenon
  <2>13. encode_tool_call(p) = Ok(head)
    <3>1. /\ p.choice_index = b[1] /\ p.call_index = U16(b, 2) /\ p.flags = b[4]
          /\ p.id = id /\ p.name = name /\ p.args_delta = args
        BY <2>4 DEF ToolCallPayload
    <3>2. encode_tool_call(p) =
              Ok((CallBefore(p) \o <<Len(id)>> \o LE2(Len(name)) \o id \o name) \o args)
        BY <1>7, <2>9, <2>10, <3>1, StartEncoded, Zenon
    <3>3. CallBefore(p) = First(b, 4)
        BY <1>3, <3>1, Zenon DEF CallBefore
    <3> QED BY <2>9, <2>11, <3>2, <3>3, Zenon
  <2> QED BY <1>5, <2>7, <2>12, <2>13, Zenon
<1> QED BY <1>6, <1>7, Zenon

------------------------------------------------------------------------------
(* Payloads by opcode *)

\* The opcodes are numbers, and so differ.
LEMMA OpcodeNumbers ==
    /\ Opcode.OPEN_ACK = 2 /\ Opcode.CONTENT = 3 /\ Opcode.REASONING = 4
    /\ Opcode.TOOL_CALL = 5 /\ Opcode.USAGE = 6 /\ Opcode.METRICS = 7
    /\ Opcode.END = 8 /\ Opcode.ERROR = 9 /\ Opcode.STEER = 13
    /\ Opcode.REWIND = 14 /\ Opcode.SETTINGS = 15
    /\ Opcode.PING = 16 /\ Opcode.PONG = 17
  BY DEF Opcode

\* A payload as it is written: reserved bytes of SETTINGS are zero, and nothing
\* is behind a string that has its length in front of it.
Trimmed(op, b) ==
    CASE op = Opcode.SETTINGS -> First(b, 15) \o <<0, 0, 0>>
      [] op = Opcode.OPEN_ACK -> First(b, 6 + U16(b, 5))
      [] op = Opcode.ERROR    -> First(b, 8 + U16(b, 7))
      [] op = Opcode.STEER    -> First(b, 2 + U16(b, 1))
      [] OTHER                -> b

\* A payload of an opcode is encoded, and decoded back as it was.
Lasting(op, b) ==
    LET call == Decoded(op, b)
        again == Encoded(op, call.value)
    IN  Survives(call, again, Decoded(op, again.value), Trimmed(op, b))

\* Whatever the opcode is; OPEN and the empty payloads are not decoded.
LEMMA PayloadLasts ==
    ASSUME NEW op, NEW b \in Seq(Octet), Returns(Decoded(op, b))
    PROVE  Lasting(op, b)
<1>1. CASE op = Opcode.SETTINGS
  <2>1. \A x : Decoded(op, x) = decode_settings(x) /\ Encoded(op, x) = encode_settings(x)
      BY <1>1, OpcodeNumbers DEF Decoded, Encoded
  <2>2. Trimmed(op, b) = First(b, 15) \o <<0, 0, 0>>
      BY <1>1, OpcodeNumbers DEF Trimmed
  <2> QED BY <2>1, <2>2, SettingsSurvive, Zenon DEF Lasting, Survives
<1>2. CASE op \in {Opcode.PING, Opcode.PONG}
  <2>1. \A x : Decoded(op, x) = decode_ping_pong(x) /\ Encoded(op, x) = encode_ping_pong(x)
    <3>1. CASE op = Opcode.PING
        BY <3>1, OpcodeNumbers DEF Decoded, Encoded
    <3>2. CASE op = Opcode.PONG
        BY <3>2, OpcodeNumbers DEF Decoded, Encoded
    <3> QED BY <1>2, <3>1, <3>2
  <2>2. Trimmed(op, b) = b
      BY <1>2, OpcodeNumbers DEF Trimmed
  <2> QED BY <2>1, <2>2, PingPongSurvives, Zenon DEF Lasting, Survives
<1>3. CASE op = Opcode.OPEN_ACK
  <2>1. \A x : Decoded(op, x) = decode_open_ack(x) /\ Encoded(op, x) = encode_open_ack(x)
      BY <1>3, OpcodeNumbers DEF Decoded, Encoded
  <2>2. Trimmed(op, b) = First(b, 6 + U16(b, 5))
      BY <1>3, OpcodeNumbers DEF Trimmed
  <2> QED BY <2>1, <2>2, OpenAckSurvives, Zenon DEF Lasting, Survives
<1>4. CASE op \in {Opcode.CONTENT, Opcode.REASONING}
  <2>1. \A x : Decoded(op, x) = decode_content(x) /\ Encoded(op, x) = encode_content(x)
      BY <1>4, OpcodeNumbers DEF Decoded, Encoded
  <2>2. Trimmed(op, b) = b
      BY <1>4, OpcodeNumbers DEF Trimmed
  <2> QED BY <2>1, <2>2, ContentSurvives, Zenon DEF Lasting, Survives
<1>5. CASE op = Opcode.TOOL_CALL
  <2>1. \A x : Decoded(op, x) = decode_tool_call(x) /\ Encoded(op, x) = encode_tool_call(x)
      BY <1>5, OpcodeNumbers DEF Decoded, Encoded
  <2>2. Trimmed(op, b) = b
      BY <1>5, OpcodeNumbers DEF Trimmed
  <2> QED BY <2>1, <2>2, ToolCallSurvives, Zenon DEF Lasting, Survives
<1>6. CASE op = Opcode.USAGE
  <2>1. \A x : Decoded(op, x) = decode_usage(x) /\ Encoded(op, x) = encode_usage(x)
      BY <1>6, OpcodeNumbers DEF Decoded, Encoded
  <2>2. Trimmed(op, b) = b
      BY <1>6, OpcodeNumbers DEF Trimmed
  <2> QED BY <2>1, <2>2, UsageSurvives, Zenon DEF Lasting, Survives
<1>7. CASE op = Opcode.METRICS
  <2>1. \A x : Decoded(op, x) = decode_metrics(x) /\ Encoded(op, x) = encode_metrics(x)
      BY <1>7, OpcodeNumbers DEF Decoded, Encoded
  <2>2. Trimmed(op, b) = b
      BY <1>7, OpcodeNumbers DEF Trimmed
  <2> QED BY <2>1, <2>2, MetricsSurvive, Zenon DEF Lasting, Survives
<1>8. CASE op = Opcode.END
  <2>1. \A x : Decoded(op, x) = decode_end(x) /\ Encoded(op, x) = encode_end(x)
      BY <1>8, OpcodeNumbers DEF Decoded, Encoded
  <2>2. Trimmed(op, b) = b
      BY <1>8, OpcodeNumbers DEF Trimmed
  <2> QED BY <2>1, <2>2, EndSurvives, Zenon DEF Lasting, Survives
<1>9. CASE op = Opcode.ERROR
  <2>1. \A x : Decoded(op, x) = decode_error(x) /\ Encoded(op, x) = encode_error(x)
      BY <1>9, OpcodeNumbers DEF Decoded, Encoded
  <2>2. Trimmed(op, b) = First(b, 8 + U16(b, 7))
      BY <1>9, OpcodeNumbers DEF Trimmed
  <2> QED BY <2>1, <2>2, ErrorSurvives, Zenon DEF Lasting, Survives
<1>10. CASE op = Opcode.STEER
  <2>1. \A x : Decoded(op, x) = decode_steer(x) /\ Encoded(op, x) = encode_steer(x)
      BY <1>10, OpcodeNumbers DEF Decoded, Encoded
  <2>2. Trimmed(op, b) = First(b, 2 + U16(b, 1))
      BY <1>10, OpcodeNumbers DEF Trimmed
  <2> QED BY <2>1, <2>2, SteerSurvives, Zenon DEF Lasting, Survives
<1>11. CASE op = Opcode.REWIND
  <2>1. \A x : Decoded(op, x) = decode_rewind(x) /\ Encoded(op, x) = encode_rewind(x)
      BY <1>11, OpcodeNumbers DEF Decoded, Encoded
  <2>2. Trimmed(op, b) = b
      BY <1>11, OpcodeNumbers DEF Trimmed
  <2> QED BY <2>1, <2>2, RewindSurvives, Zenon DEF Lasting, Survives
<1>12. CASE /\ op \notin {Opcode.PING, Opcode.PONG, Opcode.CONTENT, Opcode.REASONING}
            /\ op # Opcode.SETTINGS /\ op # Opcode.OPEN_ACK
            /\ op # Opcode.TOOL_CALL /\ op # Opcode.USAGE /\ op # Opcode.METRICS
            /\ op # Opcode.END /\ op # Opcode.ERROR /\ op # Opcode.STEER
            /\ op # Opcode.REWIND
  <2>1. \A x : Decoded(op, x) = Ok(x) /\ Encoded(op, x) = Ok(x)
      BY <1>12 DEF Decoded, Encoded
  <2>2. Ok(b).value = b /\ Returns(Ok(b))
      BY DEF Ok, Returns
  <2>3. Trimmed(op, b) = b
      BY <1>12 DEF Trimmed
  <2> QED BY <2>1, <2>2, <2>3, Zenon DEF Lasting, Survives
<1> QED BY <1>1, <1>2, <1>3, <1>4, <1>5, <1>6, <1>7, <1>8, <1>9, <1>10, <1>11, <1>12

\* What a decoder makes of a payload, its encoder writes as the payload was but
\* for what the decoder does not look at: the reserved bytes of SETTINGS and the
\* bytes behind a string that has its length in front of it.  No other payload
\* of any opcode has two encodings.
THEOREM PayloadsCanonical ==
    ASSUME NEW op, NEW b \in Seq(Octet), Returns(Decoded(op, b))
    PROVE  Encoded(op, Decoded(op, b).value) = Ok(Trimmed(op, b))
  BY PayloadLasts, Zenon DEF Lasting, Survives

\* A payload that decodes, of a vector or of any frame close to one, is what it
\* was after it has been encoded and decoded again, whatever bytes are probed.
THEOREM PayloadsLast == Spec => []DecodedSurvives
<1>1. AtVector => DecodedSurvives
  <2> SUFFICES ASSUME AtVector,
                      NEW raw \in {Current[i] : i \in DOMAIN Current},
                      NEW b \in Variants(raw), Returns(decode_frame(b)),
                      NEW op, op = decode_frame(b).value.header.opcode,
                      NEW payload, payload = decode_frame(b).value.payload,
                      Returns(Decoded(op, payload))
               PROVE  Lasting(op, payload)
    BY ZenonT(60) DEF DecodedSurvives, Lasting, Survives
  <2>1. b \in Seq(Octet)
    BY CurrentBytes, VariantBytes, Zenon
  <2>2. PICK n : n = HeaderOf(b).length
    OBVIOUS
  <2>3. n \in 0..U16Max /\ 8 + n <= Len(b)
    BY <2>1, <2>2, DecodedFrame, Zenon
  <2>4. payload = SubSeq(b, 8 + 1, 8 + n)
    <3>1. decode_frame(b) = Ok(Frame(HeaderOf(b), SubSeq(b, 8 + 1, 8 + n)))
      BY <2>1, <2>2, DecodedFrame, Zenon
    <3>2. decode_frame(b).value = Frame(HeaderOf(b), SubSeq(b, 8 + 1, 8 + n))
      BY <3>1 DEF Ok
    <3>3. \A h, p : Frame(h, p).payload = p
      BY DEF Frame
    <3> QED BY <3>2, <3>3, Zenon
  <2>5. payload \in Seq(Octet)
    <3>1. n \in Nat
      BY <2>3, U16Nat
    <3>2. 8 \in Nat /\ 8 + n \in Nat /\ 8 <= 8 + n
      BY <3>1
    <3> QED BY <2>1, <2>3, <2>4, <3>2, Piece, Zenon
  <2> QED BY <2>5, PayloadLasts, Zenon
<1> QED BY <1>1, AlwaysAtVector, PTL

------------------------------------------------------------------------------
(* Vectors cut anywhere *)

\* The header of a frame cut behind it is the header of the frame.
LEMMA SameHeader ==
    ASSUME NEW b \in Seq(Octet), NEW n \in 8..Len(b)
    PROVE  decode_header(First(b, n)) = decode_header(b)
<1>1. PICK c : c = First(b, n)
    OBVIOUS
<1>2. Same(c, b, n)
    BY <1>1, FirstSame, n \in 0..Len(b)
<1>3. Len(c) = n /\ Alike(c, b, n)
    BY <1>2, Zenon DEF Same, Alike
<1>4. U32(c, 1) = U32(b, 1) /\ U16(c, 7) = U16(b, 7) /\ c[5] = b[5] /\ c[6] = b[6]
  <2>1. n \in Nat /\ 1 \in 1..(n - 3) /\ 7 \in 1..(n - 1) /\ 5 \in 1..n /\ 6 \in 1..n
      OBVIOUS
  <2>2. U32(c, 1) = U32(b, 1) /\ U16(c, 7) = U16(b, 7)
      BY <1>3, <2>1, AlikeNumbers, ZenonT(60)
  <2> QED BY <1>3, <2>1, <2>2, Zenon DEF Alike
<1>5. ~(Len(c) < HEADER_SIZE) /\ ~(Len(b) < HEADER_SIZE)
    BY <1>3 DEF HEADER_SIZE
<1> QED BY <1>1, <1>4, <1>5, Zenon DEF decode_header

\* A frame that has nothing behind its payload is refused wherever it is cut.
LEMMA CutAnywhere ==
    ASSUME NEW b \in Seq(Octet), NEW n \in 0..(Len(b) - 1),
           Returns(decode_header(b)) =>
               Len(b) <= HEADER_SIZE + decode_header(b).value.length
    PROVE  decode_frame(SubSeq(b, 1, n)) = Violation
<1>1. PICK c : c = First(b, n)
    OBVIOUS
<1>2. n \in 0..Len(b) /\ n < Len(b) /\ n \in Nat /\ Len(b) \in Nat
    OBVIOUS
<1>3. Len(c) = n
    BY <1>1, <1>2, FirstSame, Zenon DEF Same
<1>4. ~Returns(Violation)
    BY DEF Returns, Violation, Raise
<1>5. CASE n < 8
  <2>1. Len(c) < HEADER_SIZE
      BY <1>3, <1>5 DEF HEADER_SIZE
  <2>2. decode_header(c) = Violation
      BY <2>1, Zenon DEF decode_header
  <2> QED BY <1>1, <1>4, <2>2, Zenon DEF decode_frame, First
<1>6. CASE ~(n < 8)
  <2>1. n \in 8..Len(b)
      BY <1>2, <1>6
  <2>2. PICK call : call = decode_header(b)
      OBVIOUS
  <2>3. decode_header(c) = call
      BY <1>1, <2>1, <2>2, SameHeader, Zenon
  <2>4. CASE ~Returns(call)
    <3>1. decode_frame(c) = call
        BY <2>3, <2>4, Zenon DEF decode_frame
    <3>2. call = Violation
      <4>1. \A h : Returns(Ok(h))
          BY DEF Returns, Ok
      <4> QED BY <2>2, <2>4, <4>1, Zenon DEF decode_header
    <3> QED BY <1>1, <3>1, <3>2, Zenon DEF First
  <2>5. CASE Returns(call)
    <3>1. call.value.length \in Nat
      <4>1. \A h : Ok(h).value = h
          BY DEF Ok
      <4>2. call.value = Header(U32(b, 1), b[5], b[6], U16(b, 7))
          BY <1>4, <2>2, <2>5, <4>1, Zenon DEF decode_header
      <4>3. call.value.length = U16(b, 7)
        <5>1. PICK id, op, flags, length :
                  id = U32(b, 1) /\ op = b[5] /\ flags = b[6] /\ length = U16(b, 7)
            OBVIOUS
        <5>2. call.value = Header(id, op, flags, length)
            BY <4>2, <5>1, Zenon
        <5>3. call.value.length = length
            BY <5>2 DEF Header
        <5> QED BY <5>1, <5>3, Zenon
      <4>4. 7 \in Nat \ {0} /\ 7 + 1 <= Len(b)
          BY <2>1
      <4>5. U16(b, 7) \in 0..U16Max
          BY <4>4, TwoByteNumber, Zenon
      <4>6. PICK l \in 0..U16Max : l = U16(b, 7)
          BY <4>5, Zenon
      <4> QED BY <4>3, <4>6, U16Nat
    <3>2. HEADER_SIZE \in Nat
        BY DEF HEADER_SIZE
    <3>3. Len(b) <= HEADER_SIZE + call.value.length
        BY <2>2, <2>5, Zenon
    <3>4. Len(c) < HEADER_SIZE + call.value.length
        BY <1>2, <1>3, <3>1, <3>2, <3>3
    <3>5. decode_frame(c) = Violation
        BY <2>3, <2>5, <3>4, Zenon DEF decode_frame
    <3> QED BY <1>1, <3>5, Zenon DEF First
  <2> QED BY <2>4, <2>5
<1> QED BY <1>5, <1>6

\* The vector at hand is one of them.
LEMMA CurrentRaw ==
    ASSUME AtVector, NEW raw \in {Current[i] : i \in DOMAIN Current}
    PROVE  raw \in Raws
<1>1. PICK i \in DOMAIN Current : raw = Current[i]
  OBVIOUS
<1>2. \A n \in Nat : vec <= n => vec \in 1..n
  BY DEF AtVector
<1>3. /\ DOMAIN Golden = 1..Len(Golden) /\ Len(Golden) \in Nat
      /\ DOMAIN Invalid = 1..Len(Invalid) /\ Len(Invalid) \in Nat
      /\ DOMAIN Edge = 1..Len(Edge) /\ Len(Edge) \in Nat
      /\ DOMAIN ScenarioSteps = 1..Len(ScenarioSteps) /\ Len(ScenarioSteps) \in Nat
  BY VectorsAssumption
<1>4. CASE phase = "golden" /\ vec <= Len(Golden)
  <2>1. Current = <<Golden[vec]>>
    BY <1>4 DEF Current
  <2>2. vec \in DOMAIN Golden
    BY <1>2, <1>3, <1>4, Zenon
  <2>3. raw = Golden[vec]
    BY <1>1, <2>1
  <2> QED BY <2>2, <2>3, Zenon DEF Raws
<1>5. CASE phase = "invalid" /\ vec <= Len(Invalid)
  <2>1. Current = <<Invalid[vec]>>
    BY <1>5 DEF Current
  <2>2. vec \in DOMAIN Invalid
    BY <1>2, <1>3, <1>5, Zenon
  <2>3. raw = Invalid[vec]
    BY <1>1, <2>1
  <2> QED BY <2>2, <2>3, Zenon DEF Raws
<1>6. CASE phase = "edge" /\ vec <= Len(Edge)
  <2>1. Current = <<Edge[vec]>>
    BY <1>6 DEF Current
  <2>2. vec \in DOMAIN Edge
    BY <1>2, <1>3, <1>6, Zenon
  <2>3. raw = Edge[vec]
    BY <1>1, <2>1
  <2> QED BY <2>2, <2>3, Zenon DEF Raws
<1>7. CASE phase = "scenarios" /\ vec <= Len(ScenarioSteps)
  <2>1. Current = <<ScenarioSteps[vec].raw>>
    BY <1>7 DEF Current
  <2>2. vec \in DOMAIN ScenarioSteps
    BY <1>2, <1>3, <1>7, Zenon
  <2>3. raw = ScenarioSteps[vec].raw
    BY <1>1, <2>1
  <2> QED BY <2>2, <2>3, Zenon DEF Raws
<1>8. CASE /\ ~(phase = "golden" /\ vec <= Len(Golden))
           /\ ~(phase = "invalid" /\ vec <= Len(Invalid))
           /\ ~(phase = "edge" /\ vec <= Len(Edge))
           /\ ~(phase = "scenarios" /\ vec <= Len(ScenarioSteps))
  <2>1. Current = <<>>
    BY <1>8, Zenon DEF Current
  <2> QED BY <1>1, <2>1
<1> QED BY <1>4, <1>5, <1>6, <1>7, <1>8

\* No part of a vector passes for a frame, in the manifests and in the longest
\* of their frames too: decode_frame refuses every one with PROTOCOL_VIOLATION.
THEOREM VectorsCut == Spec => []CutFramesRefused
<1>1. AtVector => CutFramesRefused
  <2> SUFFICES ASSUME AtVector,
                      NEW raw \in {Current[i] : i \in DOMAIN Current},
                      NEW n \in 0..(Len(raw) - 1)
               PROVE  decode_frame(SubSeq(raw, 1, n)) = Violation
    BY Zenon DEF CutFramesRefused
  <2>1. raw \in Seq(Octet) /\ raw \in Raws
    BY CurrentBytes, CurrentRaw, Zenon
  <2>2. Returns(decode_header(raw)) =>
            Len(raw) <= HEADER_SIZE + decode_header(raw).value.length
    BY <2>1, NothingBehindAssumption, Zenon
  <2> QED BY <2>1, <2>2, CutAnywhere, Zenon
<1> QED BY <1>1, AlwaysAtVector, PTL

------------------------------------------------------------------------------
(* The runner *)

\* What is counted when a manifest is opened.
Before(manifest) == CASE manifest = "golden"    -> 0
                      [] manifest = "invalid"   -> Len(Golden)
                      [] manifest = "edge"      -> Len(Golden) + Len(Invalid)
                      [] manifest = "scenarios" -> Len(Golden) + Len(Invalid)
                                                   + Len(Edge)
                      [] manifest = "done"      -> 145

\* Every vector tried so far is counted once: those of the manifests before, and
\* those before the one at hand.
Counted == /\ TypeOK
           /\ total_tested = Before(phase) + vec - 1
           /\ (verdict = "validated") <=> (phase = "done")

\* The sizes of the manifests as numbers.
LEMMA Sizes ==
    /\ Len(Golden) \in Nat /\ Len(Invalid) \in Nat /\ Len(Edge) \in Nat
    /\ Len(ScenarioSteps) \in Nat
  BY VectorsAssumption

\* Where each manifest begins and ends.
LEMMA Marks ==
    /\ Size("golden") = Len(Golden) /\ Size("invalid") = Len(Invalid)
    /\ Size("edge") = Len(Edge) /\ Size("scenarios") = Len(ScenarioSteps)
    /\ Size("done") = 0
    /\ Before("golden") = 0 /\ Before("invalid") = Len(Golden)
    /\ Before("edge") = Len(Golden) + Len(Invalid)
    /\ Before("scenarios") = Len(Golden) + Len(Invalid) + Len(Edge)
    /\ Before("done") = 145
  BY DEF Size, Before

\* No manifest ends behind the last vector.
LEMMA MarksInRange ==
    ASSUME NEW manifest \in {"golden", "invalid", "edge", "scenarios"}
    PROVE  /\ Size(manifest) \in Nat /\ Before(manifest) \in Nat
           /\ Before(manifest) + Size(manifest) <= 145
<1>1. manifest = "golden" \/ manifest = "invalid" \/ manifest = "edge"
      \/ manifest = "scenarios"
  OBVIOUS
<1> QED BY <1>1, Marks, Sizes, SizesAssumption

\* Trying the vector at hand, with any outcome.
LEMMA TestedCounts ==
    ASSUME Counted, NEW manifest \in {"golden", "invalid", "edge", "scenarios"},
           NEW outcome \in {"running", "failed", "crashed"}, vec <= Size(manifest),
           Tested(manifest, outcome)
    PROVE  Counted'
<1>1. phase = manifest /\ phase' = manifest /\ verdict' = outcome
  BY DEF Tested
<1>2. Size(manifest) \in Nat /\ Before(manifest) \in Nat
      /\ Before(manifest) + Size(manifest) <= 145
  BY MarksInRange, ZenonT(60)
<1>3. vec' \in 1..(Size(manifest) + 1) /\ total_tested' \in 0..145
      /\ total_tested' = Before(manifest) + vec' - 1
  <2>1. /\ vec \in 1..(Size(manifest) + 1) /\ total_tested \in 0..145
        /\ total_tested = Before(manifest) + vec - 1
    BY <1>1, Zenon DEF Counted, TypeOK
  <2>2. PICK size, before : size = Size(manifest) /\ before = Before(manifest)
    OBVIOUS
  <2>3. \/ total_tested' = total_tested + 1 /\ vec' = vec + 1
        \/ total_tested' = total_tested /\ vec' = vec
    BY DEF Tested
  <2>4. vec <= size /\ vec \in 1..(size + 1) /\ total_tested = before + vec - 1
    BY <2>1, <2>2
  <2>5. size \in Nat /\ before \in Nat /\ before + size <= 145
    BY <1>2, <2>2, Zenon
  <2>6. CASE total_tested' = total_tested + 1 /\ vec' = vec + 1
    <3>1. /\ vec + 1 \in 1..(size + 1) /\ total_tested + 1 \in 0..145
          /\ total_tested + 1 = before + (vec + 1) - 1
      BY <2>4, <2>5
    <3> QED BY <2>2, <2>6, <3>1, Zenon
  <2>7. CASE total_tested' = total_tested /\ vec' = vec
    BY <2>1, <2>7, Zenon
  <2> QED BY <2>3, <2>6, <2>7
<1>4. (verdict' = "validated") <=> (phase' = "done")
  BY <1>1
<1>5. /\ phase' \in {"golden", "invalid", "edge", "scenarios", "done"}
      /\ verdict' \in {"running", "validated", "failed", "crashed"}
  BY <1>1
<1> QED BY <1>1, <1>3, <1>4, <1>5, Zenon DEF Counted, TypeOK

\* Opening the next manifest behind the last vector of one.
LEMMA OpenedCounts ==
    ASSUME Counted, OpenManifest
    PROVE  Counted'
<1>1. /\ vec \in 1..(Size(phase) + 1) /\ total_tested = Before(phase) + vec - 1
      /\ verdict \in {"running", "validated", "failed", "crashed"}
      /\ (verdict = "validated") <=> (phase = "done")
  BY Zenon DEF Counted, TypeOK
<1>2. ASSUME NEW manifest, NEW next, NEW size \in Nat, NEW before \in Nat,
             <<manifest, next>> \in {<<"golden", "invalid">>, <<"invalid", "edge">>,
                                    <<"edge", "scenarios">>, <<"scenarios", "done">>},
             Opened(manifest, size, next), size = Size(manifest),
             before = Before(manifest), Before(next) = before + size,
             Size(next) \in Nat, before + size <= 145,
             verdict' = IF next = "done" THEN "validated" ELSE verdict
      PROVE  Counted'
  <2>1. phase = manifest /\ phase' = next /\ vec' = 1 /\ total_tested' = total_tested
        /\ vec > size /\ verdict = "running"
    BY <1>2, Zenon DEF Opened
  <2>2. vec \in 1..(size + 1) /\ total_tested = before + vec - 1
    BY <1>1, <1>2, <2>1, Zenon
  <2>3. total_tested' = before + size /\ total_tested' \in 0..145
    BY <1>2, <2>1, <2>2
  <2>4. vec' \in 1..(Size(next) + 1) /\ total_tested' = Before(next) + vec' - 1
    BY <1>2, <2>1, <2>3
  <2>5. /\ next \in {"golden", "invalid", "edge", "scenarios", "done"}
        /\ verdict' \in {"running", "validated", "failed", "crashed"}
        /\ (verdict' = "validated") <=> (next = "done")
    BY <1>2, <2>1
  <2> QED BY <2>1, <2>3, <2>4, <2>5, Zenon DEF Counted, TypeOK
<1>3. CASE Opened("golden", Len(Golden), "invalid") /\ UNCHANGED verdict
  BY <1>2, <1>3, Marks, Sizes, SizesAssumption
<1>4. CASE Opened("invalid", Len(Invalid), "edge") /\ UNCHANGED verdict
  BY <1>2, <1>4, Marks, Sizes, SizesAssumption
<1>5. CASE Opened("edge", Len(Edge), "scenarios") /\ UNCHANGED verdict
  BY <1>2, <1>5, Marks, Sizes, SizesAssumption
<1>6. CASE /\ Opened("scenarios", Len(ScenarioSteps), "done")
           /\ verdict' = "validated"
  BY <1>2, <1>6, Marks, Sizes, SizesAssumption
<1> QED BY <1>3, <1>4, <1>5, <1>6 DEF OpenManifest

\* The runner keeps its counters: it is an inductive invariant.
LEMMA AlwaysCounted == Spec => []Counted
<1>1. Init => Counted
  BY Sizes, Marks DEF Init, Counted, TypeOK
<1>2. Counted /\ [Next]_vars => Counted'
  <2> SUFFICES ASSUME Counted, [Next]_vars PROVE Counted'
    OBVIOUS
  <2>1. CASE UNCHANGED vars
    BY <2>1, Zenon DEF vars, Counted, TypeOK
  <2>2. CASE TestGolden
    <3>1. Reencoded(Golden[vec]) \in {"running", "failed", "crashed"}
      BY Zenon DEF Reencoded
    <3>2. vec <= Size("golden")
      BY <2>2, Marks DEF TestGolden
    <3> QED BY <2>2, <3>1, <3>2, TestedCounts DEF TestGolden
  <2>3. CASE TestInvalid
    <3>1. RefusedAsExpected(Invalid[vec]) \in {"running", "failed", "crashed"}
      BY DEF RefusedAsExpected
    <3>2. vec <= Size("invalid")
      BY <2>3, Marks DEF TestInvalid
    <3> QED BY <2>3, <3>1, <3>2, TestedCounts DEF TestInvalid
  <2>4. CASE TestEdge
    <3>1. Reencoded(Edge[vec]) \in {"running", "failed", "crashed"}
      BY Zenon DEF Reencoded
    <3>2. vec <= Size("edge")
      BY <2>4, Marks DEF TestEdge
    <3> QED BY <2>4, <3>1, <3>2, TestedCounts DEF TestEdge
  <2>5. CASE TestStep
    <3>1. PICK outcome \in {"running", "failed", "crashed"} :
              Tested("scenarios", outcome)
      BY <2>5 DEF TestStep
    <3>2. vec <= Size("scenarios")
      BY <2>5, Marks DEF TestStep
    <3> QED BY <3>1, <3>2, TestedCounts
  <2>6. CASE OpenManifest
    BY <2>6, OpenedCounts
  <2> QED BY <2>1, <2>2, <2>3, <2>4, <2>5, <2>6 DEF Next
<1> QED BY <1>1, <1>2, PTL DEF Spec

\* The counters of the runner keep their ranges, whatever its vectors show.
THEOREM SuiteTyped == Spec => []TypeOK
<1>1. Counted => TypeOK
  BY DEF Counted
<1> QED BY <1>1, AlwaysCounted, PTL

\* It says that the suite is valid only when all 145 vectors and steps have been
\* tried: none is passed over or counted twice on the way.
THEOREM AllTested == Spec => [](verdict = "validated" => total_tested = 145)
<1>1. Counted => (verdict = "validated" => total_tested = 145)
  BY Marks DEF Counted, TypeOK
<1> QED BY <1>1, AlwaysCounted, PTL

------------------------------------------------------------------------------
(* The payloads of the vectors *)

\* The two names of a byte.
LEMMA BytesAreOctets == Byte = Octet
  BY Zenon DEF Byte, Octet

\* The bytes of a text of ASCII characters.
Ascii == 0..127

\* Such a text is well formed, and so is every part of it.
LEMMA AsciiWellFormed ==
    ASSUME NEW s \in Seq(Ascii)
    PROVE  s \in Seq(Octet) /\ WellFormed(s)
<1>1. Ascii \subseteq Octet
    BY DEF Ascii, Octet
<1>2. s \in Seq(Octet)
    BY <1>1
<1>3. ASSUME NEW i \in 1..Len(s)
      PROVE  s[i] \in 0..247 /\ Need(s[i]) = 0 /\ ~IsCont(s[i])
  <2>1. PICK x \in Ascii : x = s[i]
    <3>1. s[i] \in Ascii
        OBVIOUS
    <3> QED BY <3>1, Zenon
  <2>2. x \in 0..247 /\ Need(x) = 0 /\ ~IsCont(x)
      BY DEF Ascii, Need, IsCont
  <2> QED BY <2>1, <2>2, Zenon
<1>4. Partial(s)
  <2> SUFFICES ASSUME NEW i \in 1..Len(s)
               PROVE  /\ s[i] \in 0..247
                      /\ \A j \in 1..Need(s[i]) : i + j <= Len(s) => IsCont(s[i + j])
                      /\ ~IsCont(s[i])
      BY Zenon DEF Partial
  <2>1. s[i] \in 0..247 /\ Need(s[i]) = 0 /\ ~IsCont(s[i])
      BY <1>3
  <2>2. \A j : j \in 1..Need(s[i]) => FALSE
    <3>1. \A j : j \in 1..0 => FALSE
        OBVIOUS
    <3> QED BY <2>1, <3>1, Zenon
  <2> QED BY <2>1, <2>2, Zenon
<1>5. Closed(s)
  <2> SUFFICES ASSUME NEW i \in 1..Len(s) PROVE i + Need(s[i]) <= Len(s)
      BY Zenon DEF Closed
  <2>1. i + 0 <= Len(s)
      OBVIOUS
  <2> QED BY <1>3, <2>1
<1> QED BY <1>2, <1>4, <1>5, Zenon DEF WellFormed

\* The letters of a vector are such a text.
LEMMA TextAscii ==
    ASSUME NEW n \in Nat
    PROVE  Text(n) \in Seq(Ascii) /\ Len(Text(n)) = n
  BY DEF Text, Ascii

\* Any part of the bytes of a text.
LEMMA PartAscii ==
    ASSUME NEW b \in Seq(Octet), NEW m \in Nat, NEW n \in Nat, m <= n, n <= Len(b),
           \A i \in (m + 1)..n : b[i] \in Ascii
    PROVE  WellFormed(SubSeq(b, m + 1, n))
<1>1. SubSeq(b, m + 1, n) \in Seq(Ascii)
    OBVIOUS
<1> QED BY <1>1, AsciiWellFormed, Zenon

\* A well-formed text with a character of two, three or four bytes behind it.
LEMMA CharacterBehind ==
    ASSUME NEW s \in Seq(Octet), WellFormed(s), NEW c \in Seq(Octet), WellFormed(c)
    PROVE  s \o c \in Seq(Octet) /\ WellFormed(s \o c)
  BY BytesAreOctets, ConcatWellFormed

\* One byte that leads and all the bytes it asks for.
IsCharacter(c) ==
    /\ c \in Seq(Octet) /\ Len(c) \in 2..4
    /\ c[1] \in 192..247 /\ Need(c[1]) = Len(c) - 1
    /\ \A i \in 2..Len(c) : IsCont(c[i])

\* They are well formed.
LEMMA CharacterWellFormed ==
    ASSUME NEW c, IsCharacter(c)
    PROVE  c \in Seq(Octet) /\ WellFormed(c)
<1>1. /\ c \in Seq(Octet) /\ Len(c) \in 2..4
      /\ c[1] \in 192..247 /\ Need(c[1]) = Len(c) - 1
      /\ \A i \in 2..Len(c) : IsCont(c[i])
    BY Zenon DEF IsCharacter
<1>2. ~IsCont(c[1])
  <2>1. \A x \in 192..247 : ~IsCont(x)
      BY DEF IsCont
  <2> QED BY <1>1, <2>1, Zenon
<1>3. ASSUME NEW i \in 2..Len(c)
      PROVE  c[i] \in 0..247 /\ Need(c[i]) = 0 /\ IsCont(c[i])
  <2>1. IsCont(c[i])
      BY <1>1, Zenon
  <2>2. \A x : IsCont(x) => x \in 0..247 /\ Need(x) = 0
      BY DEF IsCont, Need
  <2> QED BY <2>1, <2>2, Zenon
<1>4. ASSUME NEW i \in 1..Len(c)
      PROVE  /\ c[i] \in 0..247
             /\ \A j \in 1..Need(c[i]) : i + j <= Len(c) => IsCont(c[i + j])
             /\ IsCont(c[i]) =>
                   \E j \in 1..3 : /\ j < i
                                   /\ j <= Need(c[i - j])
                                   /\ \A k \in 1..(j - 1) : IsCont(c[i - k])
             /\ i + Need(c[i]) <= Len(c)
  <2>1. CASE i = 1
    <3>1. Len(c) \in Nat /\ 1 + (Len(c) - 1) <= Len(c) /\ c[1] \in 0..247
        BY <1>1
    <3>2. ASSUME NEW j \in 1..Need(c[1]) PROVE IsCont(c[1 + j])
      <4>1. j \in 1..(Len(c) - 1)
          BY <1>1, Zenon
      <4>2. 1 + j \in 2..Len(c)
          BY <1>1, <4>1
      <4> QED BY <1>1, <4>2, Zenon
    <3> QED BY <1>1, <1>2, <2>1, <3>1, <3>2, Zenon
  <2>2. CASE i # 1
    <3>1. i \in 2..Len(c) /\ i - 1 \in 1..3 /\ i - 1 < i /\ i - (i - 1) = 1
        BY <1>1, <2>2
    <3>2. c[i] \in 0..247 /\ Need(c[i]) = 0
        BY <1>3, <3>1
    <3>3. i - 1 <= Need(c[i - (i - 1)])
        BY <1>1, <3>1
    <3>4. \A k \in 1..((i - 1) - 1) : i - k \in 2..Len(c)
        BY <1>1, <3>1
    <3>5. \A k \in 1..((i - 1) - 1) : IsCont(c[i - k])
        BY <1>1, <3>4
    <3>6. i + Need(c[i]) <= Len(c)
      <4>1. i + 0 <= Len(c)
          BY <3>1
      <4> QED BY <3>2, <4>1, Zenon
    <3>7. \A j : j \in 1..Need(c[i]) => FALSE
      <4>1. \A j : j \in 1..0 => FALSE
          OBVIOUS
      <4> QED BY <3>2, <4>1, Zenon
    <3> QED BY <3>1, <3>2, <3>3, <3>5, <3>6, <3>7, Zenon
  <2> QED BY <2>1, <2>2
<1>5. Partial(c)
    BY <1>4, Zenon DEF Partial
<1>6. Closed(c)
    BY <1>4, Zenon DEF Closed
<1> QED BY <1>1, <1>5, <1>6, Zenon DEF WellFormed

\* Those of the vectors.
LEMMA Characters ==
    /\ IsCharacter(<<195, 169>>) /\ IsCharacter(<<195, 167>>)
    /\ IsCharacter(<<226, 130, 172>>)
    /\ IsCharacter(<<228, 184, 150>>) /\ IsCharacter(<<231, 149, 140>>)
    /\ IsCharacter(<<240, 159, 154, 128>>) /\ IsCharacter(<<240, 159, 148, 165>>)
    /\ IsCharacter(<<240, 159, 140, 141>>)
  BY DEF IsCharacter, Need, IsCont, Octet

------------------------------------------------------------------------------
(* Frames made of a payload *)

\* The fields of a header fit.
Fitting(stream_id, opcode, flags, b) ==
    /\ stream_id \in Nat /\ stream_id <= U16Max
    /\ opcode \in Octet /\ flags \in Octet
    /\ b \in Seq(Octet) /\ Len(b) <= U16Max

\* What bytes decode to that are a header and a payload.
Yields(raw, h, b) ==
    decode_frame(raw) = IF Refused(h) THEN Violation ELSE Ok(Frame(h, b))

\* Made of these, behind a header of eight bytes.
Made(raw, h, b) ==
    raw \in Seq(Octet) /\ Len(raw) = 8 + Len(b) /\ Yields(raw, h, b)

\* A made frame decodes to what it was made of, unless its header is refused.
LEMMA MadeFrame ==
    ASSUME FourBytes, NEW stream_id, NEW opcode, NEW flags, NEW b,
           Fitting(stream_id, opcode, flags, b),
           NEW h, h = Header(stream_id, opcode, flags, Len(b)),
           NEW raw, raw = make_frame(stream_id, opcode, flags, b)
    PROVE  Made(raw, h, b)
<1>1. b \in Seq(Octet) /\ Len(b) \in 0..U16Max /\ Len(b) \in Nat
  <2>1. b \in Seq(Octet) /\ Len(b) \in Nat /\ Len(b) <= U16Max
      BY DEF Fitting
  <2> QED BY <2>1, U16Nat
<1>2. Unpackable(h)
  <2>1. stream_id <= U32Max
      BY U16Nat, U32Assumption DEF Fitting
  <2> QED BY <1>1, <2>1, Zenon DEF Unpackable, Fitting
<1>3. PICK front : front = HeaderBytes(h)
    OBVIOUS
<1>4. raw = front \o b
  <2>1. /\ h.stream_id = stream_id /\ h.opcode = opcode /\ h.flags = flags
        /\ h.length = Len(b)
      BY DEF Header
  <2> QED BY <1>3, <2>1, Zenon DEF make_frame, make_header, HeaderBytes
<1>5. front \in Seq(Octet) /\ Len(front) = 8 /\ HeaderOf(raw) = h
    BY <1>1, <1>2, <1>3, <1>4, Unpacked, Zenon
<1>6. raw \in Seq(Octet) /\ Len(raw) = 8 + Len(b)
  <2>1. front \o b \in Seq(Octet) /\ Len(front \o b) = 8 + Len(b)
      BY <1>1, <1>5, HeaderInFront
  <2> QED BY <1>4, <2>1
<1>7. SubSeq(raw, 8 + 1, 8 + Len(b)) = b
  <2>1. <<>> \in Seq(Octet) /\ b \o <<>> = b
      BY <1>1
  <2>2. SubSeq(front \o (b \o <<>>), Len(front) + 1, Len(front) + Len(b)) = b
      BY <1>1, <1>5, <2>1, InTheMiddle, Zenon
  <2> QED BY <1>4, <1>5, <2>1, <2>2, Zenon
<1>8. h.length = Len(b)
    BY DEF Header
<1>9. ~(Len(raw) < 8) /\ ~(Len(raw) < 8 + Len(b)) /\ HEADER_SIZE = 8
    BY <1>1, <1>6 DEF HEADER_SIZE
<1>10. CASE Refused(h)
  <2>1. decode_header(raw) = Violation /\ ~Returns(Violation)
    <3>1. ~Returns(Violation)
        BY DEF Returns, Violation, Raise
    <3>2. decode_header(raw) = Violation
        BY <1>5, <1>9, <1>10, Zenon DEF decode_header, HeaderOf
    <3> QED BY <3>1, <3>2
  <2> QED BY <1>6, <1>10, <2>1, Zenon DEF decode_frame, Yields, Made
<1>11. CASE ~Refused(h)
  <2>1. decode_header(raw) = Ok(h)
      BY <1>5, <1>9, <1>11, Zenon DEF decode_header, HeaderOf
  <2>2. Ok(h).value = h /\ Returns(Ok(h))
      BY DEF Ok, Returns
  <2>3. decode_frame(raw) = Ok(Frame(h, SubSeq(raw, 8 + 1, 8 + Len(b))))
      BY <1>8, <1>9, <2>1, <2>2, Zenon DEF decode_frame
  <2> QED BY <1>6, <1>7, <1>11, <2>3, Zenon DEF Yields, Made
<1> QED BY <1>10, <1>11

\* What PayloadsSurvive asks of a vector, and the runner of a valid one.
Survivor(raw) ==
    LET frame == decode_frame(raw)
        op == frame.value.header.opcode
        payload == Decoded(op, frame.value.payload)
    IN  /\ Returns(frame)
        /\ encode_frame(frame.value) = Ok(raw)
        /\ IF Returns(payload)
           THEN Encoded(op, payload.value) = Ok(frame.value.payload)
           ELSE /\ op \in {Opcode.CONTENT, Opcode.REASONING}
                /\ \/ frame.value.header.flags = 0
                   \/ IsCont(frame.value.payload[2])

Survivors == {raw \in Seq(Octet) : Survivor(raw)}

\* And of its payload.
Intact(op, flags, b) ==
    IF Returns(Decoded(op, b)) THEN Trimmed(op, b) = b
    ELSE /\ op \in {Opcode.CONTENT, Opcode.REASONING}
         /\ flags = 0 \/ IsCont(b[2])

\* Its length is one that its opcode allows.
Measured(op, n) == n \in Nat /\ n <= MAX_PAYLOAD_SIZE /\ n \in FixedLength(op)

IntactOf(op, flags) == {b \in Seq(Octet) : Measured(op, Len(b)) /\ Intact(op, flags, b)}

\* The opcode, the flags and the stream of a frame fit, and go together.
Addressed(stream_id, op, flags) ==
    /\ stream_id \in Nat /\ stream_id <= U16Max
    /\ op \in Opcodes /\ flags \in {0, 1}
    /\ stream_id = 0 => op \in {9, 15, 16, 17}
    /\ stream_id # 0 => op \notin {15, 16, 17}

\* So its header is not refused.
LEMMA AddressedTaken ==
    ASSUME NEW stream_id, NEW op, NEW flags, Addressed(stream_id, op, flags),
           NEW n, Measured(op, n), NEW h, h = Header(stream_id, op, flags, n)
    PROVE  ~Refused(h)
<1>1. /\ h.stream_id = stream_id /\ h.opcode = op /\ h.flags = flags /\ h.length = n
    BY DEF Header
<1>2. ~(n > MAX_PAYLOAD_SIZE) /\ n \in FixedLength(op)
    BY PayloadLimit DEF Measured
<1>3. ~ReservedFlags(flags)
  <2>1. ~ReservedFlags(0) /\ ~ReservedFlags(1)
      BY DEF ReservedFlags
  <2>2. flags = 0 \/ flags = 1
      BY Zenon DEF Addressed
  <2> QED BY <2>1, <2>2, Zenon
<1>4. ConnectionOnly = {15, 16, 17} /\ Opcode.ERROR = 9
    BY DEF ConnectionOnly, Opcode
<1>5. /\ op \in Opcodes
      /\ ~(stream_id = 0 /\ op \notin ConnectionOnly \cup {Opcode.ERROR})
      /\ ~(stream_id # 0 /\ op \in ConnectionOnly)
  <2>1. {9, 15, 16, 17} = {15, 16, 17} \cup {9}
      OBVIOUS
  <2> QED BY <1>4, <2>1, Zenon DEF Addressed
<1> QED BY <1>1, <1>2, <1>3, <1>5, Zenon DEF Refused

\* Accepted, with this header and this payload.
Taken(raw, h, b) == /\ raw \in Seq(Octet) /\ Len(raw) = 8 + Len(b)
                    /\ decode_frame(raw) = Ok(Frame(h, b))

\* A frame whose payload has such a length is.
LEMMA MadeTaken ==
    ASSUME FourBytes, NEW stream_id, NEW op, NEW flags, Addressed(stream_id, op, flags),
           NEW b \in Seq(Octet), Measured(op, Len(b)),
           NEW h, h = Header(stream_id, op, flags, Len(b)),
           NEW raw, raw = make_frame(stream_id, op, flags, b)
    PROVE  Taken(raw, h, b)
<1>1. Fitting(stream_id, op, flags, b)
  <2>1. op \in Octet /\ flags \in Octet
      BY DEF Addressed, Opcodes, Octet
  <2>2. Len(b) <= U16Max
      BY PayloadLimit, U16Nat DEF Measured
  <2> QED BY <2>1, <2>2, Zenon DEF Addressed, Fitting
<1>2. raw \in Seq(Octet) /\ Len(raw) = 8 + Len(b) /\ Yields(raw, h, b)
  <2>1. Made(raw, h, b)
      BY <1>1, MadeFrame, Zenon
  <2> QED BY <2>1, Zenon DEF Made
<1>3. ~Refused(h)
    BY AddressedTaken, Zenon
<1> QED BY <1>2, <1>3, Zenon DEF Yields, Taken

\* A frame made of such a payload.
LEMMA MadeSurvives ==
    ASSUME FourBytes, NEW stream_id, NEW op, NEW flags, Addressed(stream_id, op, flags),
           NEW b \in IntactOf(op, flags)
    PROVE  make_frame(stream_id, op, flags, b) \in Survivors
<1>1. b \in Seq(Octet) /\ Intact(op, flags, b) /\ Measured(op, Len(b))
    BY Zenon DEF IntactOf
<1>2. PICK raw, h : /\ raw = make_frame(stream_id, op, flags, b)
                    /\ h = Header(stream_id, op, flags, Len(b))
    BY Zenon
<1>3. raw \in Seq(Octet) /\ Len(raw) = 8 + Len(b) /\ decode_frame(raw) = Ok(Frame(h, b))
  <2>1. Taken(raw, h, b)
      BY <1>1, <1>2, MadeTaken, Zenon
  <2> QED BY <2>1, Zenon DEF Taken
<1>4. h.opcode = op /\ h.flags = flags /\ h.length = Len(b)
    BY <1>2 DEF Header
<1>5. decode_frame(raw).value = Frame(h, b) /\ Returns(decode_frame(raw))
    BY <1>3 DEF Ok, Returns
<1>6. Frame(h, b).header = h /\ Frame(h, b).payload = b
    BY DEF Frame
<1>7. encode_frame(Frame(h, b)) = Ok(raw)
  <2>1. encode_frame(Frame(h, b)) = Ok(SubSeq(raw, 1, HEADER_SIZE + Len(b)))
      BY <1>3, <1>4, <1>5, <1>6, Canonical, Zenon
  <2>2. SubSeq(raw, 1, HEADER_SIZE + Len(b)) = raw
    <3>1. raw \in Seq(Octet) /\ Len(raw) = HEADER_SIZE + Len(b)
        BY <1>3, Zenon DEF HEADER_SIZE
    <3> QED BY <3>1
  <2> QED BY <2>1, <2>2, Zenon
<1>8. IF Returns(Decoded(op, b))
      THEN Encoded(op, Decoded(op, b).value) = Ok(b)
      ELSE /\ op \in {Opcode.CONTENT, Opcode.REASONING}
           /\ flags = 0 \/ IsCont(b[2])
  <2>1. CASE Returns(Decoded(op, b))
    <3>1. Encoded(op, Decoded(op, b).value) = Ok(Trimmed(op, b))
        BY <1>1, <2>1, PayloadsCanonical, Zenon
    <3>2. Trimmed(op, b) = b
        BY <1>1, <2>1, Zenon DEF Intact
    <3> QED BY <2>1, <3>1, <3>2, Zenon
  <2>2. CASE ~Returns(Decoded(op, b))
      BY <1>1, <2>2, Zenon DEF Intact
  <2> QED BY <2>1, <2>2
<1>9. Survivor(raw)
    BY <1>4, <1>5, <1>6, <1>7, <1>8, Zenon DEF Survivor
<1> QED BY <1>2, <1>3, <1>9, Zenon DEF Survivors

\* And one for each of several.
LEMMA EachSurvives ==
    ASSUME FourBytes, NEW stream_id, NEW op, NEW flags, Addressed(stream_id, op, flags),
           NEW payloads \in Seq(IntactOf(op, flags))
    PROVE  Each(stream_id, op, flags, payloads) \in Seq(Survivors)
<1>1. ASSUME NEW i \in DOMAIN payloads
      PROVE  make_frame(stream_id, op, flags, payloads[i]) \in Survivors
  <2>1. payloads[i] \in IntactOf(op, flags)
      OBVIOUS
  <2> QED BY <2>1, MadeSurvives, Zenon
<1>2. DOMAIN payloads = 1..Len(payloads) /\ Len(payloads) \in Nat
    OBVIOUS
<1> QED BY <1>1, <1>2 DEF Each

\* A vector of a concatenation is one of either part.
LEMMA JoinedSurvive ==
    ASSUME NEW s \in Seq(Survivors), NEW t \in Seq(Survivors)
    PROVE  s \o t \in Seq(Survivors)
  OBVIOUS

\* A payload that decodes, and is as it is written.
LEMMA Whole ==
    ASSUME NEW op, NEW flags, NEW b \in Seq(Octet), Measured(op, Len(b)),
           Returns(Decoded(op, b)), Trimmed(op, b) = b
    PROVE  b \in IntactOf(op, flags)
  BY Zenon DEF IntactOf, Intact

------------------------------------------------------------------------------
(* Pieces of a payload, joined one behind the other *)

\* So many bytes.
Sized(s, n) == s \in Seq(Octet) /\ n \in Nat /\ Len(s) = n

\* Two pieces.
LEMMA SizedJoin ==
    ASSUME NEW s, NEW t, NEW m, NEW n, Sized(s, m), Sized(t, n)
    PROVE  Sized(s \o t, m + n)
  BY DEF Sized

\* Their bytes.
Parts(s, t, m, n) == /\ \A i \in 1..m : (s \o t)[i] = s[i]
                     /\ \A i \in 1..n : (s \o t)[m + i] = t[i]

\* They are those of the pieces.
LEMMA SizedParts ==
    ASSUME NEW s, NEW t, NEW m, NEW n, Sized(s, m), Sized(t, n)
    PROVE  Parts(s, t, m, n)
  BY InFront, Zenon DEF Sized, Fronted, Parts

\* The first of them is the beginning.
LEMMA FrontFirst ==
    ASSUME NEW f \in Seq(Octet), NEW t \in Seq(Octet)
    PROVE  First(f \o t, Len(f)) = f
<1>1. f \o t \in Seq(Octet) /\ <<>> \in Seq(Octet) /\ Len(<<>>) = 0
    OBVIOUS
<1>2. <<>> \o (f \o t) = f \o t
    BY <1>1
<1>3. SubSeq(<<>> \o (f \o t), Len(<<>>) + 1, Len(<<>>) + Len(f)) = f
    BY <1>1, InTheMiddle, Zenon
<1>4. Len(<<>>) + 1 = 1 /\ Len(<<>>) + Len(f) = Len(f)
    BY <1>1
<1> QED BY <1>2, <1>3, <1>4, Zenon DEF First

\* A number of four bytes, and one of two.
LEMMA FourSized ==
    ASSUME FourBytes, NEW n \in Nat, n <= U32Max
    PROVE  Sized(LE4(n), 4)
<1>1. n <= 4294967295
    BY SMTT(20) DEF FourBytes
<1>2. /\ n % 256 \in Octet /\ (n \div 256) % 256 \in Octet
      /\ (n \div 65536) % 256 \in Octet /\ n \div 16777216 \in Octet
    BY <1>1, FourBytesWritten, SMTT(20)
<1>3. ASSUME NEW b1 \in Octet, NEW b2 \in Octet, NEW b3 \in Octet, NEW b4 \in Octet
      PROVE  Sized(<<b1, b2, b3, b4>>, 4)
    BY DEF Sized
<1> QED BY <1>2, <1>3, SMTT(20) DEF LE4

\* And that one is read as it was written.
LEMMA TwoSized ==
    ASSUME NEW n \in 0..U16Max
    PROVE  Sized(LE2(n), 2) /\ U16(LE2(n), 1) = n
<1>0. /\ n % 256 \in Octet /\ n \div 256 \in Octet
      /\ (n % 256) + 256 * (n \div 256) = n
    BY TwoBytesWritten, Zenon
<1>1. PICK b1 \in Octet, b2 \in Octet :
          b1 = n % 256 /\ b2 = n \div 256 /\ b1 + 256 * b2 = n
    BY <1>0, ZenonT(40)
<1>2. LE2(n) = <<b1, b2>>
    BY <1>1, Zenon DEF LE2
<1>3. Sized(<<b1, b2>>, 2) /\ U16(<<b1, b2>>, 1) = b1 + 256 * b2
    BY DEF Sized, U16
<1> QED BY <1>1, <1>2, <1>3, ZenonT(40)

\* What is in front of a payload, the length of a string in two bytes, and the
\* bytes behind it.
Lengthy(b, f, m, n, t) ==
    /\ b \in Seq(Octet) /\ Len(b) = m + 2 + Len(t)
    /\ \A i \in 1..m : b[i] = f[i]
    /\ U16(b, m + 1) = n
    /\ SubSeq(b, m + 3, m + 2 + Len(t)) = t
    /\ \A i \in 1..Len(t) : b[m + 2 + i] = t[i]

\* They are read as they were joined.
LEMMA LengthRead ==
    ASSUME NEW f, NEW m, Sized(f, m), NEW n \in 0..U16Max, NEW t \in Seq(Octet)
    PROVE  Lengthy((f \o LE2(n)) \o t, f, m, n, t)
<1>1. PICK l : l = LE2(n)
    OBVIOUS
<1>2. l \in Seq(Octet) /\ Len(l) = 2 /\ U16(l, 1) = n
    BY <1>1, TwoSized, Zenon DEF Sized
<1>3. f \in Seq(Octet) /\ m \in Nat /\ Len(f) = m
    BY Zenon DEF Sized
<1> DEFINE b == (f \o l) \o t
<1>4. /\ f \o l \in Seq(Octet) /\ Len(f \o l) = m + 2
      /\ \A i \in 1..m : (f \o l)[i] = f[i]
      /\ (f \o l)[m + 1] = l[1] /\ (f \o l)[m + 2] = l[2]
  <2>1. Fronted(f \o l, f, l)
      BY <1>2, <1>3, InFront, Zenon
  <2>2. f \o l \in Seq(Octet)
      BY <1>2, <1>3
  <2>3. 1 \in 1..Len(l) /\ 2 \in 1..Len(l)
      BY <1>2
  <2> QED BY <1>2, <1>3, <2>1, <2>2, <2>3, Zenon DEF Fronted
<1>5. PICK g : g = f \o l
    OBVIOUS
<1>6. /\ b \in Seq(Octet) /\ Len(b) = m + 2 + Len(t)
      /\ \A i \in 1..(m + 2) : b[i] = g[i]
      /\ \A i \in 1..Len(t) : b[m + 2 + i] = t[i]
  <2>1. Fronted(g \o t, g, t)
      BY <1>4, <1>5, InFront, Zenon
  <2>2. b = g \o t /\ g \in Seq(Octet) /\ Len(g) = m + 2
      BY <1>4, <1>5, Zenon
  <2> QED BY <1>3, <2>1, <2>2 DEF Fronted
<1>7. U16(b, m + 1) = n
  <2>1. b[m + 1] = l[1] /\ b[m + 1 + 1] = l[2]
    <3>1. m + 1 \in 1..(m + 2) /\ m + 2 \in 1..(m + 2) /\ m + 1 + 1 = m + 2
        BY <1>3
    <3> QED BY <1>4, <1>5, <1>6, <3>1, Zenon
  <2>2. U16(l, 1) = l[1] + 256 * l[2]
      BY DEF U16
  <2> QED BY <1>2, <2>1, <2>2, Zenon DEF U16
<1>8. SubSeq(b, m + 3, m + 2 + Len(t)) = t
  <2>1. <<>> \in Seq(Octet) /\ t \o <<>> = t /\ (m + 2) + 1 = m + 3
      BY <1>3
  <2>2. SubSeq(g \o (t \o <<>>), Len(g) + 1, Len(g) + Len(t)) = t
      BY <1>4, <1>5, <2>1, InTheMiddle, Zenon
  <2> QED BY <1>4, <1>5, <2>1, <2>2, Zenon
<1>9. \A i \in 1..m : b[i] = f[i]
  <2>1. \A i \in 1..m : i \in 1..(m + 2)
      BY <1>3
  <2> QED BY <1>4, <1>5, <1>6, <2>1, Zenon
<1>10. b = (f \o LE2(n)) \o t
    BY <1>1, Zenon
<1> HIDE DEF b
<1> QED BY <1>6, <1>7, <1>8, <1>9, <1>10, Zenon DEF Lengthy

\* What is decoded for each number of an opcode.
LEMMA DecodedAs ==
    ASSUME NEW b
    PROVE  /\ Decoded(1, b) = Ok(b) /\ Decoded(10, b) = Ok(b)
           /\ Decoded(11, b) = Ok(b) /\ Decoded(12, b) = Ok(b)
           /\ Decoded(2, b) = decode_open_ack(b)
           /\ Decoded(3, b) = decode_content(b) /\ Decoded(4, b) = decode_content(b)
           /\ Decoded(5, b) = decode_tool_call(b)
           /\ Decoded(6, b) = decode_usage(b) /\ Decoded(7, b) = decode_metrics(b)
           /\ Decoded(8, b) = decode_end(b) /\ Decoded(9, b) = decode_error(b)
           /\ Decoded(13, b) = decode_steer(b) /\ Decoded(14, b) = decode_rewind(b)
           /\ Decoded(15, b) = decode_settings(b)
           /\ Decoded(16, b) = decode_ping_pong(b) /\ Decoded(17, b) = decode_ping_pong(b)
  BY DEF Decoded, Opcode

\* And how its payload is written.
LEMMA TrimmedAs ==
    ASSUME NEW b
    PROVE  /\ \A op \in {1, 3, 4, 5, 6, 7, 8, 10, 11, 12, 14, 16, 17} : Trimmed(op, b) = b
           /\ Trimmed(2, b) = First(b, 6 + U16(b, 5))
           /\ Trimmed(9, b) = First(b, 8 + U16(b, 7))
           /\ Trimmed(13, b) = First(b, 2 + U16(b, 1))
           /\ Trimmed(15, b) = First(b, 15) \o <<0, 0, 0>>
  BY DEF Trimmed, Opcode

\* The numbers and the lengths of texts in the payloads of the vectors.
Short == 0..1000

\* They are numbers of two bytes and of four.
LEMMA Numbers ==
    /\ U16Max \in Nat /\ U32Max \in Nat /\ U16Max <= U32Max /\ 20 <= U16Max
    /\ 0 \in Short /\ 0 \in 0..U16Max
    /\ \A n \in Short : n \in Nat /\ n \in 0..U16Max /\ n + 8 <= U16Max
<1>1. U16Max \in Nat /\ 2000 <= U16Max
    BY U16Value, SMTT(20)
<1>2. U32Max \in Nat /\ U16Max <= U32Max
    BY U32Assumption
<1> QED BY <1>1, <1>2 DEF Short

\* And small enough for a payload.
LEMMA Payloads1000 ==
    /\ MAX_PAYLOAD_SIZE \in Nat /\ MAX_PAYLOAD_SIZE <= U16Max
    /\ 20 <= MAX_PAYLOAD_SIZE
    /\ \A n \in Short : n \in Nat /\ n + 8 <= MAX_PAYLOAD_SIZE
<1>1. 2000 <= MAX_PAYLOAD_SIZE
    BY SMTT(20) DEF MAX_PAYLOAD_SIZE
<1> QED BY <1>1, PayloadLimit DEF Short

\* The lengths of payloads, by the numbers of their opcodes.
LEMMA FixedLengths ==
    /\ FixedLength(15) = {18} /\ FixedLength(16) = {8} /\ FixedLength(17) = {8}
    /\ FixedLength(6) = {20} /\ FixedLength(7) = {20} /\ FixedLength(8) = {2}
    /\ FixedLength(10) = {0} /\ FixedLength(11) = {0} /\ FixedLength(12) = {0}
    /\ FixedLength(14) = {8}
    /\ \A op \in {1, 2, 3, 4, 5, 9, 13} : FixedLength(op) = 0..U16Max
  BY DEF FixedLength, Opcode

\* So a payload of a fixed length, or of any other up to the limit, has one
\* that its opcode allows.
LEMMA MeasuredAs ==
    /\ Measured(15, 18) /\ Measured(16, 8) /\ Measured(17, 8)
    /\ Measured(6, 20) /\ Measured(7, 20) /\ Measured(8, 2)
    /\ Measured(10, 0) /\ Measured(11, 0) /\ Measured(12, 0) /\ Measured(14, 8)
    /\ \A op \in {1, 2, 3, 4, 5, 9, 13} :
           \A n \in Nat : n <= MAX_PAYLOAD_SIZE => Measured(op, n)
<1>1. ASSUME NEW op, NEW n \in Nat, n <= 20, FixedLength(op) = {n}
      PROVE  Measured(op, n)
  <2>1. n <= MAX_PAYLOAD_SIZE
      BY <1>1, Payloads1000
  <2> QED BY <1>1, <2>1 DEF Measured
<1>2. ASSUME NEW op \in {1, 2, 3, 4, 5, 9, 13}, NEW n \in Nat,
             n <= MAX_PAYLOAD_SIZE
      PROVE  Measured(op, n)
  <2>1. n \in 0..U16Max
      BY <1>2, Payloads1000, Numbers
  <2> QED BY <1>2, <2>1, FixedLengths, Zenon DEF Measured
<1>3. /\ 18 \in Nat /\ 8 \in Nat /\ 20 \in Nat /\ 2 \in Nat /\ 0 \in Nat
      /\ 18 <= 20 /\ 8 <= 20 /\ 20 <= 20 /\ 2 <= 20 /\ 0 <= 20
    OBVIOUS
<1> QED BY <1>1, <1>2, <1>3, FixedLengths, Zenon

\* A payload whose opcode has no decoder.
LEMMA OpaqueIntact ==
    ASSUME NEW op \in {1, 10, 11, 12}, NEW b \in Seq(Octet), Measured(op, Len(b))
    PROVE  b \in IntactOf(op, 0)
<1>1. Decoded(op, b) = Ok(b)
    BY DecodedAs
<1>2. Returns(Decoded(op, b))
    BY <1>1 DEF Returns, Ok
<1>3. Trimmed(op, b) = b
    BY TrimmedAs
<1> QED BY <1>2, <1>3, Whole, Zenon

\* PING and PONG.
LEMMA PingIntact ==
    ASSUME NEW op \in {16, 17}, NEW b, Sized(b, 8)
    PROVE  b \in IntactOf(op, 0)
<1>1. b \in Seq(Octet) /\ Len(b) = 8 /\ Measured(op, Len(b))
  <2>1. op = 16 \/ op = 17
      OBVIOUS
  <2> QED BY <2>1, MeasuredAs, Zenon DEF Sized
<1>2. Decoded(op, b) = decode_ping_pong(b)
    BY DecodedAs
<1>3. Returns(decode_ping_pong(b))
    BY <1>1 DEF decode_ping_pong, Returns, Ok
<1>4. Trimmed(op, b) = b
    BY TrimmedAs
<1> QED BY <1>1, <1>2, <1>3, <1>4, Whole, Zenon

\* END.
LEMMA EndIntact ==
    ASSUME NEW reason \in 0..4, NEW choice \in Octet
    PROVE  <<reason, choice>> \in IntactOf(8, 0)
<1> DEFINE b == <<reason, choice>>
<1>1. b \in Seq(Octet) /\ Len(b) = 2 /\ b[1] = reason
    BY DEF Octet
<1> HIDE DEF b
<1>2. Measured(8, Len(b))
    BY <1>1, MeasuredAs, Zenon
<1>3. Returns(decode_end(b))
    BY <1>1 DEF decode_end, FinishReasons, Returns, Ok
<1>4. Decoded(8, b) = decode_end(b) /\ Trimmed(8, b) = b
    BY DecodedAs, TrimmedAs
<1>5. b \in IntactOf(8, 0)
    BY <1>1, <1>2, <1>3, <1>4, Whole, Zenon
<1> QED BY <1>5 DEF b

\* SETTINGS.
LEMMA SettingsIntact ==
    ASSUME FourBytes, NEW size \in 0..U32Max, NEW cap \in 0..U32Max,
           NEW heartbeat \in 0..U32Max, NEW sessions \in 0..U16Max
    PROVE  SettingsBytes(size, cap, heartbeat, sessions) \in IntactOf(15, 0)
<1> DEFINE front == <<1>> \o LE4(size) \o LE4(cap) \o LE4(heartbeat) \o LE2(sessions)
           b == front \o <<0, 0, 0>>
<1>1. Sized(front, 15)
  <2>1. /\ Sized(LE4(size), 4) /\ Sized(LE4(cap), 4) /\ Sized(LE4(heartbeat), 4)
        /\ Sized(LE2(sessions), 2)
      BY FourSized, TwoSized, U32Assumption, SMT
  <2>2. Sized(<<1>>, 1)
      BY DEF Sized, Octet
  <2>3. Sized(<<1>> \o LE4(size), 1 + 4)
      BY <2>1, <2>2, SizedJoin, Zenon
  <2>4. Sized(<<1>> \o LE4(size) \o LE4(cap), 1 + 4 + 4)
      BY <2>1, <2>3, SizedJoin, Zenon
  <2>5. Sized(<<1>> \o LE4(size) \o LE4(cap) \o LE4(heartbeat), 1 + 4 + 4 + 4)
      BY <2>1, <2>4, SizedJoin, Zenon
  <2>6. Sized(front, 1 + 4 + 4 + 4 + 2)
      BY <2>1, <2>5, SizedJoin, Zenon
  <2> QED BY <2>6
<1> HIDE DEF front
<1>2. b \in Seq(Octet) /\ Len(b) = 18 /\ First(b, 15) = front
  <2>1. front \in Seq(Octet) /\ Len(front) = 15
      BY <1>1, Zenon DEF Sized
  <2>2. PICK t : t = <<0, 0, 0>>
      OBVIOUS
  <2>3. t \in Seq(Octet) /\ Len(t) = 3
      BY <2>2 DEF Octet
  <2>4. front \o t \in Seq(Octet) /\ Len(front \o t) = 18
    <3>1. Sized(t, 3)
        BY <2>3 DEF Sized
    <3>2. Sized(front \o t, 15 + 3)
        BY <1>1, <3>1, SizedJoin, Zenon
    <3>3. 15 + 3 = 18
        OBVIOUS
    <3> QED BY <3>2, <3>3, Zenon DEF Sized
  <2>5. b = front \o t
      BY <2>2, Zenon
  <2> HIDE DEF b
  <2>6. First(b, 15) = front
    <3>1. First(front \o t, Len(front)) = front
        BY <2>1, <2>3, FrontFirst, Zenon
    <3> QED BY <2>1, <2>5, <3>1
  <2> QED BY <2>4, <2>5, <2>6
<1>3. SettingsBytes(size, cap, heartbeat, sessions) = b
    BY Zenon DEF SettingsBytes, front
<1>4. Trimmed(15, b) = b
    BY <1>2, TrimmedAs, Zenon
<1> HIDE DEF b
<1>5. Returns(Decoded(15, b))
  <2>1. Returns(decode_settings(b))
      BY <1>2 DEF decode_settings, Returns, Ok
  <2> QED BY <2>1, DecodedAs, Zenon
<1>6. Measured(15, Len(b))
    BY <1>2, MeasuredAs, Zenon
<1> QED BY <1>2, <1>3, <1>4, <1>5, <1>6, Whole, Zenon

\* USAGE with such a first reserved byte.
UsageRead(u, reserved) == Sized(u, 20) /\ u[18] = reserved /\ u[19] = 0 /\ u[20] = 0

\* USAGE, with its reserved bytes as they were given.
LEMMA UsageFields ==
    ASSUME FourBytes, NEW prompt \in 0..U32Max, NEW completion \in 0..U32Max,
           prompt + completion <= U32Max, NEW cached \in 0..U32Max,
           NEW attempts \in Octet, NEW reserved \in Octet
    PROVE  UsageRead(UsageBytes(prompt, completion, cached, attempts, reserved), reserved)
<1> DEFINE front == LE4(prompt) \o LE4(completion) \o LE4(prompt + completion)
                    \o LE4(cached)
           t == <<attempts, reserved, 0, 0>>
           b == front \o t
<1>1. Sized(front, 16)
  <2>1. /\ Sized(LE4(prompt), 4) /\ Sized(LE4(completion), 4)
        /\ Sized(LE4(prompt + completion), 4) /\ Sized(LE4(cached), 4)
    <3>1. /\ prompt \in Nat /\ completion \in Nat /\ prompt + completion \in Nat
          /\ cached \in Nat /\ prompt <= U32Max /\ completion <= U32Max
          /\ cached <= U32Max
        BY U32Assumption
    <3> QED BY <3>1, FourSized, Zenon
  <2>2. Sized(LE4(prompt) \o LE4(completion), 4 + 4)
      BY <2>1, SizedJoin, Zenon
  <2>3. Sized(LE4(prompt) \o LE4(completion) \o LE4(prompt + completion), 4 + 4 + 4)
      BY <2>1, <2>2, SizedJoin, Zenon
  <2>4. Sized(front, 4 + 4 + 4 + 4)
      BY <2>1, <2>3, SizedJoin, Zenon
  <2> QED BY <2>4
<1>2. /\ Sized(t, 4) /\ t[2] = reserved /\ t[3] = 0 /\ t[4] = 0
    BY DEF Sized, Octet
<1>3. UsageBytes(prompt, completion, cached, attempts, reserved) = b
    BY Zenon DEF UsageBytes
<1> HIDE DEF front, t
<1>4. Sized(b, 16 + 4)
    BY <1>1, <1>2, SizedJoin, Zenon
<1>5. b[16 + 2] = reserved /\ b[16 + 3] = 0 /\ b[16 + 4] = 0
  <2>1. 2 \in 1..4 /\ 3 \in 1..4 /\ 4 \in 1..4
      OBVIOUS
  <2>2. Parts(front, t, 16, 4)
      BY <1>1, <1>2, SizedParts, Zenon
  <2> QED BY <1>2, <2>1, <2>2, Zenon DEF Parts
<1> HIDE DEF b
<1>6. UsageRead(b, reserved)
    BY <1>4, <1>5 DEF UsageRead
<1> QED BY <1>3, <1>6, Zenon

\* So USAGE that reserves nothing is intact.
LEMMA UsageIntact ==
    ASSUME FourBytes, NEW prompt \in 0..U32Max, NEW completion \in 0..U32Max,
           prompt + completion <= U32Max, NEW cached \in 0..U32Max,
           NEW attempts \in Octet
    PROVE  UsageBytes(prompt, completion, cached, attempts, 0) \in IntactOf(6, 0)
<1>1. PICK b : b = UsageBytes(prompt, completion, cached, attempts, 0)
    OBVIOUS
<1>2. Sized(b, 20) /\ b[18] = 0 /\ b[19] = 0 /\ b[20] = 0
  <2>1. 0 \in Octet
      BY DEF Octet
  <2>2. UsageRead(b, 0)
      BY <1>1, <2>1, UsageFields, Zenon
  <2> QED BY <2>2, Zenon DEF UsageRead
<1>3. b \in Seq(Octet) /\ Len(b) = 20 /\ Measured(6, Len(b))
  <2>1. b \in Seq(Octet) /\ Len(b) = 20
      BY <1>2 DEF Sized
  <2> QED BY <2>1, MeasuredAs, Zenon
<1>4. b[18] = 0 /\ U16(b, 19) = 0
    BY <1>2 DEF U16
<1>5. Returns(decode_usage(b))
    BY <1>3, <1>4 DEF decode_usage, Returns, Ok
<1>6. Decoded(6, b) = decode_usage(b) /\ Trimmed(6, b) = b
    BY DecodedAs, TrimmedAs
<1> QED BY <1>1, <1>3, <1>5, <1>6, Whole, Zenon

\* METRICS.
LEMMA MetricsIntact ==
    ASSUME FourBytes, NEW ttft \in 0..U32Max, NEW duration \in 0..U32Max,
           NEW rate \in 0..U32Max, NEW key, Sized(key, 8)
    PROVE  MetricsBytes(ttft, duration, rate, key) \in IntactOf(7, 0)
<1> DEFINE b == LE4(ttft) \o LE4(duration) \o LE4(rate) \o key
<1>1. Sized(b, 20)
  <2>1. Sized(LE4(ttft), 4) /\ Sized(LE4(duration), 4) /\ Sized(LE4(rate), 4)
    <3>1. /\ ttft \in Nat /\ duration \in Nat /\ rate \in Nat
          /\ ttft <= U32Max /\ duration <= U32Max /\ rate <= U32Max
        BY U32Assumption
    <3> QED BY <3>1, FourSized, Zenon
  <2>2. Sized(LE4(ttft) \o LE4(duration), 4 + 4)
      BY <2>1, SizedJoin, Zenon
  <2>3. Sized(LE4(ttft) \o LE4(duration) \o LE4(rate), 4 + 4 + 4)
      BY <2>1, <2>2, SizedJoin, Zenon
  <2>4. Sized(b, 4 + 4 + 4 + 8)
      BY <2>3, SizedJoin, Zenon
  <2> QED BY <2>4
<1>2. MetricsBytes(ttft, duration, rate, key) = b
    BY Zenon DEF MetricsBytes
<1> HIDE DEF b
<1>3. b \in Seq(Octet) /\ Len(b) = 20 /\ Measured(7, Len(b))
  <2>1. b \in Seq(Octet) /\ Len(b) = 20
      BY <1>1 DEF Sized
  <2> QED BY <2>1, MeasuredAs, Zenon
<1>4. Returns(decode_metrics(b))
    BY <1>3 DEF decode_metrics, Returns, Ok
<1>5. Decoded(7, b) = decode_metrics(b) /\ Trimmed(7, b) = b
    BY DecodedAs, TrimmedAs
<1> QED BY <1>2, <1>3, <1>4, <1>5, Whole, Zenon

\* REWIND, with its reserved bytes as they were given.
LEMMA RewindFields ==
    ASSUME FourBytes, NEW target \in 1..17, NEW reserved \in 0..U16Max,
           NEW offset \in 0..U32Max,
           NEW r, r = RewindBytes(target, reserved, offset)
    PROVE  Sized(r, 8) /\ r[1] = target /\ U16(r, 3) = reserved
<1> DEFINE head == <<target, 0>>
           front == head \o LE2(reserved)
           b == front \o LE4(offset)
<1>1. Sized(head, 2) /\ head[1] = target
    BY DEF Sized, Octet
<1>2. Sized(LE2(reserved), 2) /\ U16(LE2(reserved), 1) = reserved
    BY TwoSized, Zenon
<1>3. Sized(LE4(offset), 4)
  <2>1. offset \in Nat /\ offset <= U32Max
      BY U32Assumption
  <2> QED BY <2>1, FourSized, Zenon
<1>4. RewindBytes(target, reserved, offset) = b
    BY Zenon DEF RewindBytes
<1> HIDE DEF head
<1>5. /\ Sized(front, 2 + 2) /\ front[1] = target
      /\ front[2 + 1] = LE2(reserved)[1] /\ front[2 + 2] = LE2(reserved)[2]
  <2>1. 1 \in 1..2 /\ 2 \in 1..2
      OBVIOUS
  <2>2. Sized(front, 2 + 2) /\ Parts(head, LE2(reserved), 2, 2)
      BY <1>1, <1>2, SizedJoin, SizedParts, Zenon
  <2> QED BY <1>1, <2>1, <2>2, Zenon DEF Parts
<1> HIDE DEF front
<1>6. /\ Sized(b, (2 + 2) + 4) /\ b[1] = target
      /\ b[2 + 1] = LE2(reserved)[1] /\ b[2 + 2] = LE2(reserved)[2]
  <2>1. 1 \in 1..(2 + 2) /\ 2 + 1 \in 1..(2 + 2) /\ 2 + 2 \in 1..(2 + 2)
      OBVIOUS
  <2>2. Sized(b, (2 + 2) + 4) /\ Parts(front, LE4(offset), 2 + 2, 4)
      BY <1>3, <1>5, SizedJoin, SizedParts, Zenon
  <2> QED BY <1>5, <2>1, <2>2, Zenon DEF Parts
<1> HIDE DEF b
<1>7. Sized(b, 8)
  <2>1. (2 + 2) + 4 = 8
      OBVIOUS
  <2> QED BY <1>6, <2>1, Zenon
<1>8. U16(b, 3) = reserved
  <2>1. b[3] = LE2(reserved)[1] /\ b[4] = LE2(reserved)[2]
      BY <1>6
  <2> QED BY <1>2, <2>1 DEF U16
<1> QED BY <1>4, <1>6, <1>7, <1>8, Zenon

\* So REWIND that reserves nothing is intact.
LEMMA RewindIntact ==
    ASSUME FourBytes, NEW target \in 1..17, NEW offset \in 0..U32Max
    PROVE  RewindBytes(target, 0, offset) \in IntactOf(14, 0)
<1>1. PICK b : b = RewindBytes(target, 0, offset)
    OBVIOUS
<1>2. Sized(b, 8) /\ b[1] = target /\ U16(b, 3) = 0
    BY <1>1, Numbers, RewindFields, Zenon
<1>3. b \in Seq(Octet) /\ Len(b) = 8 /\ Measured(14, Len(b))
  <2>1. b \in Seq(Octet) /\ Len(b) = 8
      BY <1>2 DEF Sized
  <2> QED BY <2>1, MeasuredAs, Zenon
<1>4. Returns(decode_rewind(b))
    BY <1>2, <1>3 DEF decode_rewind, Opcodes, Returns, Ok
<1>5. Decoded(14, b) = decode_rewind(b) /\ Trimmed(14, b) = b
    BY DecodedAs, TrimmedAs
<1> QED BY <1>1, <1>3, <1>4, <1>5, Whole, Zenon

\* Well-formed strings decode.
LEMMA StrictTaken ==
    ASSUME NEW strings, \A s \in strings : WellFormed(s), NEW value
    PROVE  Returns(Strict(strings, value))
<1>1. Strict(strings, value) = Ok(value)
    BY Zenon DEF Strict
<1> QED BY <1>1 DEF Returns, Ok

\* CONTENT and REASONING: whatever bytes when BOUNDARY is clear, and otherwise
\* a text or what goes on a cut character.
LEMMA ContentIntact ==
    ASSUME NEW op \in {3, 4}, NEW choice \in Octet, NEW text \in Seq(Octet),
           Len(text) < MAX_PAYLOAD_SIZE, NEW flags,
           flags = 0 \/ WellFormed(text) \/ (text # <<>> /\ IsCont(text[1]))
    PROVE  <<choice>> \o text \in IntactOf(op, flags)
<1> DEFINE b == <<choice>> \o text
<1>1. /\ b \in Seq(Octet) /\ Len(b) = 1 + Len(text) /\ From(b, 2) = text
      /\ text # <<>> => b[2] = text[1]
    BY DEF From
<1> HIDE DEF b
<1>2. Measured(op, Len(b)) /\ ~(Len(b) < 1)
  <2>1. Len(b) \in Nat /\ Len(b) <= MAX_PAYLOAD_SIZE /\ ~(Len(b) < 1)
      BY <1>1, PayloadLimit
  <2>2. op \in {1, 2, 3, 4, 5, 9, 13}
      OBVIOUS
  <2> QED BY <2>1, <2>2, MeasuredAs, Zenon
<1>3. Decoded(op, b) = decode_content(b) /\ Trimmed(op, b) = b
    BY DecodedAs, TrimmedAs
<1>4. op \in {Opcode.CONTENT, Opcode.REASONING}
    BY OpcodeNumbers
<1>5. CASE flags = 0
    BY <1>1, <1>2, <1>3, <1>4, <1>5, Zenon DEF IntactOf, Intact, b
<1>6. CASE WellFormed(text)
  <2>1. Returns(Strict({text}, [choice_index |-> b[1], text |-> text]))
      BY <1>6, StrictTaken
  <2>2. Returns(decode_content(b))
      BY <1>1, <1>2, <2>1, Zenon DEF decode_content
  <2>3. b \in IntactOf(op, flags)
      BY <1>1, <1>2, <1>3, <2>2, Whole, Zenon
  <2> QED BY <2>3, Zenon DEF b
<1>7. CASE text # <<>> /\ IsCont(text[1])
    BY <1>1, <1>2, <1>3, <1>4, <1>7, Zenon DEF IntactOf, Intact, b
<1> QED BY <1>5, <1>6, <1>7

\* OPEN_ACK.
LEMMA AckIntact ==
    ASSUME FourBytes, NEW session \in 0..U32Max, NEW n \in Short
    PROVE  AckBytes(session, n) \in IntactOf(2, 0)
<1> DEFINE f == LE4(session)
           t == Text(n)
           b == (f \o LE2(n)) \o t
<1>1. t \in Seq(Ascii) /\ t \in Seq(Octet) /\ Len(t) = n /\ WellFormed(t)
  <2>1. n \in Nat
      BY Numbers
  <2> QED BY <2>1, TextAscii, AsciiWellFormed, Zenon
<1>2. Sized(f, 4)
  <2>1. session \in Nat /\ session <= U32Max
      BY U32Assumption
  <2> QED BY <2>1, FourSized, Zenon
<1>3. AckBytes(session, n) = b
    BY Zenon DEF AckBytes
<1> HIDE DEF f, t
<1>4. Lengthy(b, f, 4, n, t)
  <2>1. n \in 0..U16Max
      BY Numbers
  <2> QED BY <1>1, <1>2, <2>1, LengthRead, Zenon
<1> HIDE DEF b
<1>5. /\ b \in Seq(Octet) /\ Len(b) = 6 + n /\ U16(b, 5) = n
      /\ SubSeq(b, 7, 6 + n) = t
    BY <1>1, <1>4 DEF Lengthy
<1>6. Measured(2, Len(b)) /\ ~(Len(b) < 6) /\ ~(Len(b) < 6 + n)
  <2>1. n \in Nat /\ MAX_PAYLOAD_SIZE \in Nat /\ 6 + n <= MAX_PAYLOAD_SIZE
      BY Payloads1000
  <2>2. /\ Len(b) \in Nat /\ Len(b) <= MAX_PAYLOAD_SIZE
        /\ ~(Len(b) < 6) /\ ~(Len(b) < 6 + n)
      BY <1>5, <2>1
  <2> QED BY <2>2, MeasuredAs
<1>7. Returns(decode_open_ack(b))
  <2>1. Returns(Strict({t}, [session_id |-> U32(b, 1), model |-> t]))
      BY <1>1, StrictTaken
  <2> QED BY <1>5, <1>6, <2>1, Zenon DEF decode_open_ack
<1>8. First(b, 6 + U16(b, 5)) = b
    BY <1>5 DEF First
<1>9. Decoded(2, b) = decode_open_ack(b) /\ Trimmed(2, b) = b
    BY <1>8, DecodedAs, TrimmedAs
<1> QED BY <1>3, <1>5, <1>6, <1>7, <1>9, Whole, Zenon

\* STEER, with its length in bytes.
LEMMA SteerIntact ==
    ASSUME NEW t \in Seq(Octet), NEW n \in Short, Len(t) = n, WellFormed(t)
    PROVE  LE2(n) \o t \in IntactOf(13, 0)
<1> DEFINE b == LE2(n) \o t
<1>1. n \in 0..U16Max
    BY Numbers
<1>2. b = (<<>> \o LE2(n)) \o t /\ Sized(<<>>, 0)
  <2>1. LE2(n) \in Seq(Octet)
      BY <1>1, TwoSized DEF Sized
  <2>2. <<>> \o LE2(n) = LE2(n)
      BY <2>1
  <2>3. Sized(<<>>, 0)
      BY DEF Sized
  <2> QED BY <2>2, <2>3, Zenon
<1>3. Lengthy(b, <<>>, 0, n, t)
    BY <1>1, <1>2, LengthRead, Zenon
<1> HIDE DEF b
<1>4. /\ b \in Seq(Octet) /\ Len(b) = 2 + n /\ U16(b, 1) = n
      /\ SubSeq(b, 3, 2 + n) = t
    BY <1>3 DEF Lengthy
<1>5. Measured(13, Len(b)) /\ ~(Len(b) < 2) /\ ~(Len(b) < 2 + n)
  <2>1. n \in Nat /\ MAX_PAYLOAD_SIZE \in Nat /\ 2 + n <= MAX_PAYLOAD_SIZE
      BY Payloads1000
  <2>2. /\ Len(b) \in Nat /\ Len(b) <= MAX_PAYLOAD_SIZE
        /\ ~(Len(b) < 2) /\ ~(Len(b) < 2 + n)
      BY <1>4, <2>1
  <2> QED BY <2>2, MeasuredAs
<1>6. Returns(decode_steer(b))
  <2>1. Returns(Strict({t}, [text |-> t]))
      BY StrictTaken
  <2> QED BY <1>4, <1>5, <2>1, Zenon DEF decode_steer
<1>7. First(b, 2 + U16(b, 1)) = b
    BY <1>4 DEF First
<1>8. Decoded(13, b) = decode_steer(b) /\ Trimmed(13, b) = b
    BY <1>7, DecodedAs, TrimmedAs
<1>9. b \in IntactOf(13, 0)
    BY <1>4, <1>5, <1>6, <1>8, Whole, Zenon
<1> QED BY <1>9, Zenon DEF b

\* An ERROR of so many letters, and the length of its message.
ErrorRead(b, code, scope, n, given) ==
    /\ b \in Seq(Octet) /\ Len(b) = 8 + given
    /\ U16(b, 1) = code /\ b[6] = scope /\ U16(b, 7) = n
    /\ SubSeq(b, 9, 8 + given) = Text(given)

\* Its fields are read as they were given, and the two may differ.
LEMMA ErrorFields ==
    ASSUME NEW code \in ErrorCodes, NEW status \in Short, NEW scope \in 0..1,
           NEW n \in Short, NEW given \in Short
    PROVE  ErrorRead(ErrorBytes(code, status, scope, n, given), code, scope, n, given)
<1> DEFINE pair == LE2(code) \o LE2(status)
           f == pair \o <<0, scope>>
           t == Text(given)
           b == (f \o LE2(n)) \o t
<1>0. code \in 0..U16Max /\ status \in 0..U16Max /\ n \in 0..U16Max
      /\ given \in Nat
  <2>1. code \in 0..U16Max
    <3>1. 1009 <= U16Max /\ U16Max \in Nat
        BY U16Value, SMT
    <3> QED BY <3>1 DEF ErrorCodes
  <2> QED BY <2>1, Numbers
<1>1. t \in Seq(Ascii) /\ t \in Seq(Octet) /\ Len(t) = given
    BY <1>0, TextAscii, AsciiWellFormed, Zenon
<1>2. Sized(LE2(code), 2) /\ U16(LE2(code), 1) = code /\ Sized(LE2(status), 2)
    BY <1>0, TwoSized, Zenon
<1>3. Sized(<<0, scope>>, 2) /\ <<0, scope>>[2] = scope
    BY DEF Sized, Octet
<1>4. ErrorBytes(code, status, scope, n, given) = b
    BY Zenon DEF ErrorBytes
<1>5. /\ Sized(pair, 2 + 2)
      /\ pair[1] = LE2(code)[1] /\ pair[2] = LE2(code)[2]
  <2>1. 1 \in 1..2 /\ 2 \in 1..2
      OBVIOUS
  <2>2. Sized(pair, 2 + 2) /\ Parts(LE2(code), LE2(status), 2, 2)
      BY <1>2, SizedJoin, SizedParts, Zenon
  <2> QED BY <2>1, <2>2, Zenon DEF Parts
<1> HIDE DEF pair
<1>6. /\ Sized(f, 6) /\ f[6] = scope
      /\ f[1] = LE2(code)[1] /\ f[2] = LE2(code)[2]
  <2>1. 1 \in 1..(2 + 2) /\ 2 \in 1..(2 + 2) /\ 2 \in 1..2
      OBVIOUS
  <2>2. Sized(f, (2 + 2) + 2) /\ Parts(pair, <<0, scope>>, 2 + 2, 2)
      BY <1>3, <1>5, SizedJoin, SizedParts, Zenon
  <2>3. /\ f[(2 + 2) + 2] = scope
        /\ f[1] = LE2(code)[1] /\ f[2] = LE2(code)[2]
      BY <1>3, <1>5, <2>1, <2>2, Zenon DEF Parts
  <2> HIDE DEF f
  <2> QED BY <2>2, <2>3
<1> HIDE DEF f, t
<1>7. Lengthy(b, f, 6, n, t)
    BY <1>0, <1>1, <1>6, LengthRead, Zenon
<1> HIDE DEF b
<1>8. /\ b \in Seq(Octet) /\ Len(b) = 8 + given /\ U16(b, 7) = n
      /\ SubSeq(b, 9, 8 + given) = t
      /\ b[1] = f[1] /\ b[2] = f[2] /\ b[6] = f[6]
    BY <1>1, <1>7 DEF Lengthy
<1>9. U16(b, 1) = code /\ b[6] = scope
  <2>1. b[1] = LE2(code)[1] /\ b[1 + 1] = LE2(code)[1 + 1]
      BY <1>6, <1>8
  <2> QED BY <1>2, <1>6, <1>8, <2>1, Zenon DEF U16
<1> QED BY <1>4, <1>8, <1>9, Zenon DEF ErrorRead, t

\* So an ERROR whose message has that length is intact, and keeps its code.
LEMMA ErrorIntact ==
    ASSUME NEW code \in ErrorCodes, NEW status \in Short, NEW scope \in 0..1,
           NEW n \in Short
    PROVE  /\ ErrorBytes(code, status, scope, n, n) \in IntactOf(9, 0)
           /\ Returns(decode_error(ErrorBytes(code, status, scope, n, n)))
           /\ decode_error(ErrorBytes(code, status, scope, n, n)).value.code = code
<1>1. PICK b, t : b = ErrorBytes(code, status, scope, n, n) /\ t = Text(n)
    OBVIOUS
<1>2. WellFormed(t)
  <2>1. n \in Nat
      BY Numbers
  <2> QED BY <1>1, <2>1, TextAscii, AsciiWellFormed, Zenon
<1>3. /\ b \in Seq(Octet) /\ Len(b) = 8 + n /\ U16(b, 7) = n
      /\ SubSeq(b, 9, 8 + n) = t
      /\ U16(b, 1) = code /\ b[6] = scope
  <2>1. ErrorRead(b, code, scope, n, n)
      BY <1>1, ErrorFields, Zenon
  <2> QED BY <1>1, <2>1, Zenon DEF ErrorRead
<1>4. Measured(9, Len(b)) /\ ~(Len(b) < 8) /\ ~(Len(b) < 8 + n)
  <2>1. n \in Nat /\ MAX_PAYLOAD_SIZE \in Nat /\ 8 + n <= MAX_PAYLOAD_SIZE
      BY Payloads1000
  <2>2. Len(b) = 8 + n
      BY <1>3, Zenon
  <2>3. /\ Len(b) \in Nat /\ Len(b) <= MAX_PAYLOAD_SIZE
        /\ ~(Len(b) < 8) /\ ~(Len(b) < 8 + n)
      BY <2>1, <2>2
  <2> QED BY <2>3, MeasuredAs
<1>5. ~(U16(b, 1) \notin ErrorCodes \/ b[6] \notin ErrorScopes)
    BY <1>3 DEF ErrorScopes
<1>6. PICK p : p = [code |-> U16(b, 1), upstream_status |-> U16(b, 3),
                     choice_index |-> b[5], scope |-> b[6], message |-> t]
    OBVIOUS
<1>7. decode_error(b) = Strict({t}, p)
    BY <1>3, <1>4, <1>5, <1>6, Zenon DEF decode_error
<1>8. Returns(decode_error(b)) /\ decode_error(b).value.code = code
  <2>1. Strict({t}, p) = Ok(p)
      BY <1>2, Zenon DEF Strict
  <2>2. Returns(Ok(p)) /\ Ok(p).value = p
      BY DEF Returns, Ok
  <2>3. p.code = U16(b, 1)
      BY <1>6
  <2> QED BY <1>3, <1>7, <2>1, <2>2, <2>3, Zenon
<1>9. First(b, 8 + U16(b, 7)) = b
    BY <1>3 DEF First
<1>10. Decoded(9, b) = decode_error(b) /\ Trimmed(9, b) = b
    BY <1>9, DecodedAs, TrimmedAs
<1>11. b \in IntactOf(9, 0)
    BY <1>3, <1>4, <1>8, <1>10, Whole, Zenon
<1> QED BY <1>1, <1>8, <1>11, Zenon

\* TOOL_CALL, a later fragment.
LEMMA MoreIntact ==
    ASSUME NEW flags \in {2, 4}, NEW n \in Short
    PROVE  ToolMore(flags, n) \in IntactOf(5, 0)
<1> DEFINE f == <<0, 0, 0, flags>>
           t == Text(n)
           b == f \o t
<1>1. t \in Seq(Ascii) /\ t \in Seq(Octet) /\ Len(t) = n /\ WellFormed(t)
  <2>1. n \in Nat
      BY Numbers
  <2> QED BY <2>1, TextAscii, AsciiWellFormed, Zenon
<1>2. f \in Seq(Octet) /\ Len(f) = 4 /\ f[4] = flags
    BY DEF Octet
<1>3. ToolMore(flags, n) = b
    BY Zenon DEF ToolMore
<1> HIDE DEF f, t
<1>4. /\ b \in Seq(Octet) /\ Len(b) = 4 + n /\ b[4] = flags
  <2>1. Fronted(b, f, t)
      BY <1>1, <1>2, InFront, Zenon
  <2>2. b \in Seq(Octet)
      BY <1>1, <1>2
  <2> QED BY <1>1, <1>2, <2>1, <2>2 DEF Fronted
<1>5. From(b, 5) = t
  <2>1. <<>> \in Seq(Octet) /\ t \o <<>> = t
      BY <1>1
  <2>2. SubSeq(f \o (t \o <<>>), Len(f) + 1, Len(f) + Len(t)) = t
      BY <1>1, <1>2, <2>1, InTheMiddle, Zenon
  <2>3. Len(f) + 1 = 5 /\ Len(f) + Len(t) = Len(b)
      BY <1>1, <1>2, <1>4
  <2> QED BY <2>1, <2>2, <2>3, Zenon DEF From
<1> HIDE DEF b
<1>6. Measured(5, Len(b)) /\ ~(Len(b) < 4)
  <2>1. n \in Nat /\ MAX_PAYLOAD_SIZE \in Nat /\ 4 + n <= MAX_PAYLOAD_SIZE
      BY Payloads1000
  <2>2. Len(b) \in Nat /\ Len(b) <= MAX_PAYLOAD_SIZE /\ ~(Len(b) < 4)
      BY <1>4, <2>1
  <2> QED BY <2>2, MeasuredAs
<1>7. ~ReservedToolFlags(b[4]) /\ ~IsStart(b[4])
    BY <1>4 DEF ReservedToolFlags, IsStart
<1>8. Returns(decode_tool_call(b))
  <2>1. PICK p : p = ToolCallPayload(b[1], U16(b, 2), b[4], NoString, NoString, t)
      OBVIOUS
  <2>2. decode_tool_call(b) = Strict({t}, p)
      BY <1>5, <1>6, <1>7, <2>1, Zenon DEF decode_tool_call
  <2>3. Returns(Strict({t}, p))
      BY <1>1, StrictTaken
  <2> QED BY <2>2, <2>3, Zenon
<1>9. Decoded(5, b) = decode_tool_call(b) /\ Trimmed(5, b) = b
    BY DecodedAs, TrimmedAs
<1> QED BY <1>3, <1>4, <1>6, <1>8, <1>9, Whole, Zenon

\* TOOL_CALL, a fragment that starts a call.
LEMMA StartIntact ==
    ASSUME NEW call \in 0..U16Max, NEW flags \in {1, 5}, NEW id \in 0..255,
           NEW name \in Short, NEW args \in Short
    PROVE  ToolStart(call, flags, id, name, args) \in IntactOf(5, 0)
<1> DEFINE n == id + name + args
           head == <<0>> \o LE2(call)
           f == head \o <<flags, id>>
           t == Text(n)
           b == (f \o LE2(name)) \o t
<1>0. id \in Nat /\ name \in Nat /\ args \in Nat
    BY Numbers
<1>1. t \in Seq(Ascii) /\ t \in Seq(Octet) /\ Len(t) = n /\ n \in Nat
  <2>1. n \in Nat
      BY <1>0
  <2> HIDE DEF n
  <2> QED BY <2>1, TextAscii, AsciiWellFormed, Zenon
<1>2. /\ Sized(<<0>>, 1) /\ Sized(LE2(call), 2) /\ Sized(<<flags, id>>, 2)
      /\ <<flags, id>>[1] = flags /\ <<flags, id>>[2] = id
  <2>1. Sized(LE2(call), 2)
      BY TwoSized, Zenon
  <2> QED BY <2>1 DEF Sized, Octet
<1>3. Sized(head, 1 + 2)
    BY <1>2, SizedJoin, Zenon
<1>4. ToolStart(call, flags, id, name, args) = b
    BY Zenon DEF ToolStart
<1> HIDE DEF head
<1>5. Sized(f, 5) /\ f[4] = flags /\ f[5] = id
  <2>1. 1 \in 1..2 /\ 2 \in 1..2
      OBVIOUS
  <2>2. Sized(f, (1 + 2) + 2) /\ Parts(head, <<flags, id>>, 1 + 2, 2)
      BY <1>2, <1>3, SizedJoin, SizedParts, Zenon
  <2>3. f[(1 + 2) + 1] = flags /\ f[(1 + 2) + 2] = id
      BY <1>2, <2>1, <2>2, Zenon DEF Parts
  <2> HIDE DEF f
  <2> QED BY <2>2, <2>3
<1> HIDE DEF f, t
<1>6. Lengthy(b, f, 5, name, t)
  <2>1. name \in 0..U16Max
      BY Numbers
  <2> QED BY <1>1, <1>5, <2>1, LengthRead, ZenonT(40)
<1> HIDE DEF b
<1>7. /\ b \in Seq(Octet) /\ Len(b) = 7 + (id + name + args) /\ U16(b, 6) = name
      /\ b[4] = flags /\ b[5] = id
      /\ \A i \in 1..(id + name + args) : b[7 + i] = t[i]
    BY <1>1, <1>5, <1>6, SMTT(30) DEF Lengthy
<1>8. PICK i, j : i = 7 + id /\ j = i + name
    OBVIOUS
<1>9. /\ i \in Nat /\ j \in Nat /\ 7 <= i /\ i <= j /\ j <= Len(b) /\ i <= Len(b)
      /\ 7 + 1 = 8 /\ Len(b) \in Nat
    BY <1>0, <1>7, <1>8
<1>10. \A k \in 8..Len(b) : b[k] \in Ascii
  <2> SUFFICES ASSUME NEW k \in 8..Len(b) PROVE b[k] \in Ascii
      OBVIOUS
  <2>1. k - 7 \in 1..(id + name + args) /\ 7 + (k - 7) = k
      BY <1>0, <1>7
  <2>2. b[k] = t[k - 7]
      BY <1>7, <2>1
  <2> QED BY <1>1, <2>1, <2>2
<1>11. PICK first, second, rest : /\ first = SubSeq(b, 8, i)
                                  /\ second = SubSeq(b, i + 1, j)
                                  /\ rest = From(b, j + 1)
    OBVIOUS
<1>12. \A s \in {first, second, rest} : WellFormed(s)
  <2>1. ASSUME NEW m \in Nat, NEW k \in Nat, 7 <= m, m <= k, k <= Len(b)
        PROVE  WellFormed(SubSeq(b, m + 1, k))
    <3>1. \A l \in (m + 1)..k : l \in 8..Len(b)
        BY <1>9, <2>1
    <3>2. \A l \in (m + 1)..k : b[l] \in Ascii
        BY <1>10, <3>1, Zenon
    <3> QED BY <1>7, <2>1, <3>2, PartAscii, Zenon
  <2>2. WellFormed(SubSeq(b, 7 + 1, i))
    <3>1. 7 \in Nat /\ 7 <= 7
        OBVIOUS
    <3> QED BY <1>9, <2>1, <3>1, Zenon
  <2>3. WellFormed(SubSeq(b, i + 1, j))
      BY <1>9, <2>1, Zenon
  <2>4. WellFormed(SubSeq(b, j + 1, Len(b)))
    <3>1. 7 <= j /\ Len(b) <= Len(b)
        BY <1>9
    <3> QED BY <1>9, <2>1, <3>1, Zenon
  <2>5. WellFormed(first) /\ WellFormed(second) /\ WellFormed(rest)
      BY <1>9, <1>11, <2>2, <2>3, <2>4, Zenon DEF From
  <2> QED BY <2>5
<1>13. Measured(5, Len(b)) /\ ~(Len(b) < 4) /\ ~(Len(b) < 7) /\ ~(Len(b) < j)
  <2>1. 7 + (id + name + args) <= MAX_PAYLOAD_SIZE
      BY SMT DEF Short, MAX_PAYLOAD_SIZE
  <2>2. MAX_PAYLOAD_SIZE \in Nat
      BY Payloads1000
  <2>3. /\ Len(b) \in Nat /\ Len(b) <= MAX_PAYLOAD_SIZE
        /\ ~(Len(b) < 4) /\ ~(Len(b) < 7) /\ ~(Len(b) < j)
      BY <1>7, <1>9, <2>1, <2>2
  <2> QED BY <2>3, MeasuredAs
<1>14. ~ReservedToolFlags(b[4]) /\ IsStart(b[4])
  <2>1. ~ReservedToolFlags(flags) /\ IsStart(flags)
      BY DEF ReservedToolFlags, IsStart
  <2> QED BY <1>7, <2>1, Zenon
<1>15. Returns(decode_tool_call(b))
  <2>1. PICK p : p = ToolCallPayload(b[1], U16(b, 2), b[4], first, second, rest)
      OBVIOUS
  <2>2. i = 7 + b[5] /\ j = i + U16(b, 6)
      BY <1>7, <1>8, Zenon
  <2>3. decode_tool_call(b) = Strict({first, second, rest}, p)
      BY <1>11, <1>13, <1>14, <2>1, <2>2, Zenon DEF decode_tool_call
  <2>4. Returns(Strict({first, second, rest}, p))
      BY <1>12, StrictTaken
  <2> QED BY <2>3, <2>4, Zenon
<1>16. Decoded(5, b) = decode_tool_call(b) /\ Trimmed(5, b) = b
    BY DecodedAs, TrimmedAs
<1> QED BY <1>4, <1>7, <1>13, <1>15, <1>16, Whole, Zenon

------------------------------------------------------------------------------
(* The vectors, list by list *)

\* The addresses of the vectors: sessions 1, 3 and 5, and the connection.
LEMMA AddressedAs ==
    /\ \A stream_id \in {1, 3, 5}, op \in 1..14, flags \in {0, 1} :
           Addressed(stream_id, op, flags)
    /\ \A op \in {9, 15, 16, 17} : Addressed(0, op, 0)
<1>1. /\ 0 <= U16Max /\ 1 <= U16Max /\ 3 <= U16Max /\ 5 <= U16Max
    BY Numbers
<1>2. ASSUME NEW stream_id \in {1, 3, 5}, NEW op \in 1..14, NEW flags \in {0, 1}
      PROVE  Addressed(stream_id, op, flags)
    BY <1>1 DEF Addressed, Opcodes
<1>3. ASSUME NEW op \in {9, 15, 16, 17}
      PROVE  Addressed(0, op, 0)
    BY <1>1 DEF Addressed, Opcodes
<1> QED BY <1>2, <1>3, Zenon

\* A well-formed text of so many bytes.
Wording(s, n) == s \in Seq(Octet) /\ WellFormed(s) /\ Len(s) = n /\ n \in Nat

\* Letters, and a character of several bytes.
LEMMA Words ==
    /\ \A n \in Nat : Wording(Text(n), n)
    /\ Wording(<<>>, 0)
    /\ \A c : IsCharacter(c) => Wording(c, Len(c))
<1>1. ASSUME NEW n \in Nat
      PROVE  Wording(Text(n), n)
    BY TextAscii, AsciiWellFormed, Zenon DEF Wording
<1>2. Wording(<<>>, 0)
  <2>1. <<>> \in Seq(Ascii) /\ Len(<<>>) = 0 /\ 0 \in Nat
      OBVIOUS
  <2> QED BY <2>1, AsciiWellFormed, Zenon DEF Wording
<1>3. ASSUME NEW c, IsCharacter(c)
      PROVE  Wording(c, Len(c))
  <2>1. Len(c) \in Nat
      BY <1>3 DEF IsCharacter
  <2> QED BY <1>3, <2>1, CharacterWellFormed, Zenon DEF Wording
<1> QED BY <1>1, <1>2, <1>3, Zenon

\* Texts one behind the other.
LEMMA WordingJoin ==
    ASSUME NEW s, NEW t, NEW m, NEW n, Wording(s, m), Wording(t, n)
    PROVE  Wording(s \o t, m + n)
<1>1. s \in Seq(Octet) /\ t \in Seq(Octet) /\ WellFormed(s) /\ WellFormed(t)
    BY Zenon DEF Wording
<1>2. s \o t \in Seq(Octet) /\ WellFormed(s \o t)
    BY <1>1, CharacterBehind, Zenon
<1>3. Len(s \o t) = m + n /\ m + n \in Nat
  <2>1. Sized(s, m) /\ Sized(t, n)
      BY Zenon DEF Wording, Sized
  <2>2. Sized(s \o t, m + n)
      BY <2>1, SizedJoin, Zenon
  <2> QED BY <2>2, Zenon DEF Sized
<1> QED BY <1>2, <1>3, Zenon DEF Wording

\* A text in a frame of CONTENT or REASONING, whatever choice it is for.
LEMMA TextIntact ==
    ASSUME NEW op \in {3, 4}, NEW choice \in Octet, NEW flags, NEW s, NEW n,
           Wording(s, n), n < MAX_PAYLOAD_SIZE
    PROVE  <<choice>> \o s \in IntactOf(op, flags)
<1>1. s \in Seq(Octet) /\ WellFormed(s) /\ Len(s) < MAX_PAYLOAD_SIZE
    BY Zenon DEF Wording
<1> QED BY <1>1, ContentIntact, Zenon

\* In particular one of letters, for the first choice.
LEMMA LettersIntact ==
    ASSUME NEW op \in {3, 4}, NEW flags, NEW n \in Nat, n < MAX_PAYLOAD_SIZE
    PROVE  Choice0(Text(n)) \in IntactOf(op, flags)
<1>1. Wording(Text(n), n)
    BY Words, Zenon
<1>2. 0 \in Octet
    BY DEF Octet
<1> QED BY <1>1, <1>2, TextIntact, Zenon DEF Choice0

\* The lengths of the vectors fit in a payload.
LEMMA Fits ==
    /\ \A n \in 0..1030 : n \in Nat /\ n < MAX_PAYLOAD_SIZE
    /\ 65526 \in Nat /\ 65526 < MAX_PAYLOAD_SIZE
  BY SMTT(20) DEF MAX_PAYLOAD_SIZE

\* Sequences of the same elements.
LEMMA SameElements ==
    ASSUME NEW S, NEW x \in Seq(S), NEW y \in Seq(S), NEW n \in Nat, Len(x) = n,
           Len(y) = n, \A i \in 1..n : x[i] = y[i]
    PROVE  x = y
  OBVIOUS

\* Two characters of three bytes.
LEMMA SixJoined ==
    ASSUME NEW a1 \in Octet, NEW a2 \in Octet, NEW a3 \in Octet,
           NEW a4 \in Octet, NEW a5 \in Octet, NEW a6 \in Octet
    PROVE  <<a1, a2, a3>> \o <<a4, a5, a6>> = <<a1, a2, a3, a4, a5, a6>>
<1> DEFINE x == <<a1, a2, a3>> \o <<a4, a5, a6>>
           y == <<a1, a2, a3, a4, a5, a6>>
<1>1. x \in Seq(Octet) /\ Len(x) = 6
    OBVIOUS
<1>2. y \in Seq(Octet) /\ Len(y) = 6
    OBVIOUS
<1>3. /\ x[1] = a1 /\ x[2] = a2 /\ x[3] = a3
      /\ x[4] = a4 /\ x[5] = a5 /\ x[6] = a6
    OBVIOUS
<1>4. /\ y[1] = a1 /\ y[2] = a2 /\ y[3] = a3
      /\ y[4] = a4 /\ y[5] = a5 /\ y[6] = a6
    OBVIOUS
<1> HIDE DEF x, y
<1>5. \A i \in 1..6 : x[i] = y[i]
    BY <1>3, <1>4
<1>6. x = y
  <2>1. 6 \in Nat
      OBVIOUS
  <2> QED BY <1>1, <1>2, <1>5, <2>1, SameElements, Zenon
<1> QED BY <1>6 DEF x, y

\* Two characters of four bytes.
LEMMA EightJoined ==
    ASSUME NEW a1 \in Octet, NEW a2 \in Octet, NEW a3 \in Octet, NEW a4 \in Octet,
           NEW a5 \in Octet, NEW a6 \in Octet, NEW a7 \in Octet, NEW a8 \in Octet
    PROVE  <<a1, a2, a3, a4>> \o <<a5, a6, a7, a8>> =
               <<a1, a2, a3, a4, a5, a6, a7, a8>>
<1> DEFINE x == <<a1, a2, a3, a4>> \o <<a5, a6, a7, a8>>
           y == <<a1, a2, a3, a4, a5, a6, a7, a8>>
<1>1. x \in Seq(Octet) /\ Len(x) = 8
    OBVIOUS
<1>2. y \in Seq(Octet) /\ Len(y) = 8
    OBVIOUS
<1>3. /\ x[1] = a1 /\ x[2] = a2 /\ x[3] = a3 /\ x[4] = a4
      /\ x[5] = a5 /\ x[6] = a6 /\ x[7] = a7 /\ x[8] = a8
    OBVIOUS
<1>4. /\ y[1] = a1 /\ y[2] = a2 /\ y[3] = a3 /\ y[4] = a4
      /\ y[5] = a5 /\ y[6] = a6 /\ y[7] = a7 /\ y[8] = a8
    OBVIOUS
<1> HIDE DEF x, y
<1>5. \A i \in 1..8 : x[i] = y[i]
    BY <1>3, <1>4
<1>6. x = y
  <2>1. 8 \in Nat
      OBVIOUS
  <2> QED BY <1>1, <1>2, <1>5, <2>1, SameElements, Zenon
<1> QED BY <1>6 DEF x, y

\* The characters of the vectors are texts.
LEMMA CharacterWords ==
    /\ Wording(<<195, 169>>, 2) /\ Wording(<<195, 167>>, 2)
    /\ Wording(<<226, 130, 172>>, 3)
    /\ Wording(<<228, 184, 150, 231, 149, 140>>, 6)
    /\ Wording(<<240, 159, 154, 128, 240, 159, 148, 165>>, 8)
    /\ Wording(<<240, 159, 140, 141>>, 4)
<1>1. ASSUME NEW c, NEW n, IsCharacter(c), Len(c) = n
      PROVE  Wording(c, n)
    BY <1>1, Words, Zenon
<1>2. ASSUME NEW c, NEW d, NEW m, NEW n, IsCharacter(c), IsCharacter(d), Len(c) = m,
             Len(d) = n
      PROVE  Wording(c \o d, m + n)
    BY <1>1, <1>2, WordingJoin, Zenon
<1>3. Wording(<<195, 169>>, 2)
  <2>1. Len(<<195, 169>>) = 2 /\ IsCharacter(<<195, 169>>)
      BY Characters
  <2> QED BY <1>1, <2>1
<1>4. Wording(<<195, 167>>, 2)
  <2>1. Len(<<195, 167>>) = 2 /\ IsCharacter(<<195, 167>>)
      BY Characters
  <2> QED BY <1>1, <2>1
<1>5. Wording(<<226, 130, 172>>, 3)
  <2>1. Len(<<226, 130, 172>>) = 3 /\ IsCharacter(<<226, 130, 172>>)
      BY Characters
  <2> QED BY <1>1, <2>1
<1>6. Wording(<<240, 159, 140, 141>>, 4)
  <2>1. Len(<<240, 159, 140, 141>>) = 4 /\ IsCharacter(<<240, 159, 140, 141>>)
      BY Characters
  <2> QED BY <1>1, <2>1
<1>7. Wording(<<228, 184, 150, 231, 149, 140>>, 6)
  <2>1. PICK c, d : c = <<228, 184, 150>> /\ d = <<231, 149, 140>>
      OBVIOUS
  <2>2. IsCharacter(c) /\ IsCharacter(d) /\ Len(c) = 3 /\ Len(d) = 3
      BY <2>1, Characters, SMT
  <2>3. 3 + 3 = 6 /\ 228 \in Octet /\ 184 \in Octet /\ 150 \in Octet
        /\ 231 \in Octet /\ 149 \in Octet /\ 140 \in Octet
      BY DEF Octet
  <2>4. c \o d = <<228, 184, 150, 231, 149, 140>>
      BY <2>1, <2>3, SixJoined, SMT
  <2>5. Wording(c \o d, 3 + 3)
      BY <1>2, <2>2, Zenon
  <2> QED BY <2>3, <2>4, <2>5, Zenon
<1>8. Wording(<<240, 159, 154, 128, 240, 159, 148, 165>>, 8)
  <2>1. PICK c, d : c = <<240, 159, 154, 128>> /\ d = <<240, 159, 148, 165>>
      OBVIOUS
  <2>2. IsCharacter(c) /\ IsCharacter(d) /\ Len(c) = 4 /\ Len(d) = 4
      BY <2>1, Characters, SMT
  <2>3. 4 + 4 = 8 /\ 240 \in Octet /\ 159 \in Octet /\ 154 \in Octet
        /\ 128 \in Octet /\ 148 \in Octet /\ 165 \in Octet
      BY DEF Octet
  <2>4. c \o d = <<240, 159, 154, 128, 240, 159, 148, 165>>
      BY <2>1, <2>3, EightJoined, SMT
  <2>5. Wording(c \o d, 4 + 4)
      BY <1>2, <2>2, Zenon
  <2> QED BY <2>3, <2>4, <2>5, Zenon
<1> QED BY <1>3, <1>4, <1>5, <1>6, <1>7, <1>8, Zenon

\* The texts of the golden vectors.
LEMMA TextsIntact ==
    /\ Choice0(<<>>) \in IntactOf(3, 1)
    /\ Choice0(Text(3) \o <<195, 169>>) \in IntactOf(3, 1)
    /\ Choice0(<<226, 130, 172>> \o Text(3)) \in IntactOf(3, 1)
    /\ Choice0(<<240, 159, 154, 128, 240, 159, 148, 165>>) \in IntactOf(3, 1)
    /\ Choice0(Text(6) \o <<228, 184, 150, 231, 149, 140>> \o Text(1)
               \o <<240, 159, 140, 141>>) \in IntactOf(3, 1)
    /\ <<1>> \o Text(11) \in IntactOf(3, 1)
<1>1. 3 \in {3, 4} /\ 0 \in Octet /\ 1 \in Octet
    BY DEF Octet
<1>2. ASSUME NEW s, NEW n \in 0..1000, Wording(s, n)
      PROVE  Choice0(s) \in IntactOf(3, 1)
  <2>1. n < MAX_PAYLOAD_SIZE
      BY Payloads1000 DEF Short
  <2> QED BY <1>1, <1>2, <2>1, TextIntact, Zenon DEF Choice0
<1>3. Choice0(<<>>) \in IntactOf(3, 1)
    BY <1>2, Words
<1>4. Wording(Text(3), 3) /\ Wording(Text(6), 6) /\ Wording(Text(1), 1)
      /\ Wording(Text(11), 11)
    BY Words
<1>5. Choice0(Text(3) \o <<195, 169>>) \in IntactOf(3, 1)
  <2>1. Wording(Text(3) \o <<195, 169>>, 3 + 2)
      BY <1>4, CharacterWords, WordingJoin
  <2>2. 3 + 2 \in 0..1000
      OBVIOUS
  <2> QED BY <1>2, <2>1, <2>2
<1>6. Choice0(<<226, 130, 172>> \o Text(3)) \in IntactOf(3, 1)
  <2>1. Wording(<<226, 130, 172>> \o Text(3), 3 + 3)
      BY <1>4, CharacterWords, WordingJoin
  <2>2. 3 + 3 \in 0..1000
      OBVIOUS
  <2> QED BY <1>2, <2>1, <2>2
<1>7. Choice0(<<240, 159, 154, 128, 240, 159, 148, 165>>) \in IntactOf(3, 1)
  <2>1. 8 \in 0..1000
      OBVIOUS
  <2> QED BY <1>2, <2>1, CharacterWords
<1>8. Choice0(Text(6) \o <<228, 184, 150, 231, 149, 140>> \o Text(1)
              \o <<240, 159, 140, 141>>) \in IntactOf(3, 1)
  <2>1. ASSUME NEW s, NEW t, NEW u, NEW v,
               Wording(s, 6), Wording(t, 6), Wording(u, 1), Wording(v, 4)
        PROVE  Wording(s \o t \o u \o v, 6 + 6 + 1 + 4)
    <3>1. Wording(s \o t, 6 + 6)
        BY <2>1, WordingJoin, Zenon
    <3>2. Wording(s \o t \o u, 6 + 6 + 1)
        BY <2>1, <3>1, WordingJoin, Zenon
    <3> QED BY <2>1, <3>2, WordingJoin, Zenon
  <2>2. 6 + 6 + 1 + 4 \in 0..1000
      OBVIOUS
  <2> QED BY <1>2, <1>4, <2>1, <2>2, CharacterWords
<1>9. <<1>> \o Text(11) \in IntactOf(3, 1)
  <2>1. 11 < MAX_PAYLOAD_SIZE
      BY Fits
  <2> QED BY <1>1, <1>4, <2>1, TextIntact
<1> QED BY <1>3, <1>5, <1>6, <1>7, <1>8, <1>9

\* Eight bytes, and the payloads of PING and PONG in the vectors.
LEMMA Eights ==
    /\ Sized(Zeros(8), 8) /\ Sized([i \in 1..8 |-> 255], 8)
    /\ Sized(<<0, 104, 229, 207, 139, 1, 0, 0>>, 8)
    /\ Sized(<<42>> \o Zeros(7), 8)
    /\ Sized(<<239, 205, 171, 144, 120, 86, 52, 18>>, 8)
    /\ Sized(<<239, 190, 173, 222, 190, 186, 254, 202>>, 8)
    /\ Sized(<<136, 119, 102, 85, 68, 51, 34, 17>>, 8)
<1>1. Sized(Zeros(8), 8) /\ Sized(Zeros(7), 7) /\ Sized([i \in 1..8 |-> 255], 8)
    BY DEF Sized, Zeros, Octet
<1>2. Sized(<<42>> \o Zeros(7), 1 + 7)
  <2>1. Sized(<<42>>, 1)
      BY DEF Sized, Octet
  <2> QED BY <1>1, <2>1, SizedJoin
<1>5. Sized(<<0, 104, 229, 207, 139, 1, 0, 0>>, 8)
    BY DEF Sized, Octet
<1>6. Sized(<<239, 205, 171, 144, 120, 86, 52, 18>>, 8)
    BY DEF Sized, Octet
<1>7. Sized(<<239, 190, 173, 222, 190, 186, 254, 202>>, 8)
    BY DEF Sized, Octet
<1>8. Sized(<<136, 119, 102, 85, 68, 51, 34, 17>>, 8)
    BY DEF Sized, Octet
<1>9. 1 + 7 = 8
    OBVIOUS
<1> QED BY <1>1, <1>2, <1>5, <1>6, <1>7, <1>8, <1>9

\* The numbers of the vectors have four bytes, or two.
LEMMA Fields ==
    ASSUME FourBytes
    PROVE  /\ \A n \in Nat : n <= 65535 => n \in 0..U16Max /\ n \in 0..U32Max
           /\ 1048576 \in 0..U32Max /\ 524288 \in 0..U32Max
           /\ 128000 \in 0..U32Max
           /\ \A m \in Nat, n \in Nat :
                  m <= 200000 /\ n <= 200000 => m + n <= U32Max
<1>1. U32Max \in Nat /\ 2000000 <= U32Max
  <2>1. U32Max \in Nat /\ U32Max = 4294967295
      BY U32Assumption, SMTT(20) DEF FourBytes
  <2> QED BY <2>1, SMTT(20)
<1>2. U16Max \in Nat /\ 65535 <= U16Max
    BY U16Value
<1> QED BY <1>1, <1>2, SMTT(20)

\* The frames of the vectors by their form: the payload decides.
LEMMA SessionFrame ==
    ASSUME FourBytes, NEW stream_id \in {1, 3, 5}, NEW op \in 1..14,
           NEW flags \in {0, 1}, NEW b \in IntactOf(op, flags)
    PROVE  make_frame(stream_id, op, flags, b) \in Survivors
  BY AddressedAs, MadeSurvives, Zenon

\* A frame made for each of several payloads.
LEMMA SessionFrames ==
    ASSUME FourBytes, NEW op \in 1..14, NEW flags \in {0, 1},
           NEW payloads \in Seq(IntactOf(op, flags))
    PROVE  Each(1, op, flags, payloads) \in Seq(Survivors)
<1>1. 1 \in {1, 3, 5}
    OBVIOUS
<1> QED BY <1>1, AddressedAs, EachSurvives, Zenon

\* And on the connection.
LEMMA ConnectionFrames ==
    ASSUME FourBytes, NEW op \in {9, 15, 16, 17}, NEW payloads \in Seq(IntactOf(op, 0))
    PROVE  Each(0, op, 0, payloads) \in Seq(Survivors)
  BY AddressedAs, EachSurvives, Zenon

\* OPEN, whose JSON is only letters here.
LEMMA OpenFrame ==
    ASSUME FourBytes, NEW stream_id \in {1, 3, 5}, NEW n \in Short
    PROVE  make_frame(stream_id, 1, 0, Text(n)) \in Survivors
<1>1. n \in Nat /\ n <= MAX_PAYLOAD_SIZE
    BY Payloads1000
<1>2. Text(n) \in Seq(Octet) /\ Len(Text(n)) = n
    BY <1>1, Words, Zenon DEF Wording
<1>3. Measured(1, Len(Text(n)))
    BY <1>1, <1>2, MeasuredAs
<1>4. Text(n) \in IntactOf(1, 0)
    BY <1>2, <1>3, OpaqueIntact
<1> QED BY <1>4, SessionFrame

\* CANCEL, PAUSE and RESUME have no payload.
LEMMA BareFrame ==
    ASSUME FourBytes, NEW stream_id \in {1, 3, 5}, NEW op \in {10, 11, 12}
    PROVE  make_frame(stream_id, op, 0, <<>>) \in Survivors
<1>1. <<>> \in Seq(Octet) /\ Len(<<>>) = 0
    OBVIOUS
<1>2. Measured(op, Len(<<>>))
    BY <1>1, MeasuredAs
<1>3. <<>> \in IntactOf(op, 0)
    BY <1>1, <1>2, OpaqueIntact
<1> QED BY <1>3, SessionFrame

\* OPEN_ACK.
LEMMA AckFrame ==
    ASSUME FourBytes, NEW stream_id \in {1, 3, 5}, NEW n \in Short
    PROVE  make_frame(stream_id, 2, 0, AckBytes(stream_id, n)) \in Survivors
<1>1. stream_id \in 0..U32Max
  <2>1. stream_id \in Nat /\ stream_id <= 65535
      OBVIOUS
  <2> QED BY <2>1, Fields
<1>2. AckBytes(stream_id, n) \in IntactOf(2, 0)
    BY <1>1, AckIntact
<1> QED BY <1>2, SessionFrame

\* CONTENT of letters.
LEMMA ContentFrame ==
    ASSUME FourBytes, NEW stream_id \in {1, 3, 5}, NEW op \in {3, 4}, NEW n \in Short
    PROVE  make_frame(stream_id, op, 1, Choice0(Text(n))) \in Survivors
<1>1. n \in Nat /\ n < MAX_PAYLOAD_SIZE
    BY Payloads1000
<1>2. Choice0(Text(n)) \in IntactOf(op, 1)
    BY <1>1, LettersIntact
<1> QED BY <1>2, SessionFrame

\* END of the first choice.
LEMMA EndFrame ==
    ASSUME FourBytes, NEW stream_id \in {1, 3, 5}
    PROVE  EndOf(stream_id) \in Survivors
<1>1. 0 \in 0..4 /\ 0 \in Octet
    BY DEF Octet
<1>2. <<0, 0>> \in IntactOf(8, 0)
    BY <1>1, EndIntact
<1> QED BY <1>2, SessionFrame DEF EndOf

\* A number of a text.
LEMMA Shorts == \A n \in 0..1000 : n \in Short
  BY DEF Short

\* The SETTINGS of most of them.
LEMMA DefaultIntact ==
    ASSUME FourBytes
    PROVE  DefaultSettings \in IntactOf(15, 0)
<1>1. /\ 65535 \in 0..U32Max /\ 1048576 \in 0..U32Max /\ 15000 \in 0..U32Max
      /\ 100 \in 0..U16Max
    BY Fields, SMT
<1>2. SettingsBytes(65535, 1048576, 15000, 100) \in IntactOf(15, 0)
    BY <1>1, SettingsIntact, SMT
<1> QED BY <1>2 DEF DefaultSettings

\* The golden vectors, in the order of their sections.
LEMMA SettingsVectors ==
    ASSUME FourBytes
    PROVE  Each(0, 15, 0, SettingsPayloads) \in Seq(Survivors)
<1>1. /\ 32768 \in 0..U32Max /\ 524288 \in 0..U32Max /\ 30000 \in 0..U32Max
      /\ 250 \in 0..U16Max
    BY Fields, SMT
<1>2. SettingsBytes(32768, 524288, 30000, 250) \in IntactOf(15, 0)
    BY <1>1, SettingsIntact, SMT
<1>3. SettingsPayloads \in Seq(IntactOf(15, 0))
    BY <1>2, DefaultIntact, SMT DEF SettingsPayloads
<1> QED BY <1>3, ConnectionFrames, SMT

\* PING and PONG.
LEMMA HeartbeatVectors ==
    ASSUME FourBytes
    PROVE  /\ Each(0, 16, 0, PingPayloads) \in Seq(Survivors)
           /\ Each(0, 17, 0, PongPayloads) \in Seq(Survivors)
<1>1. ASSUME NEW S, NEW a \in S, NEW b \in S
      PROVE  <<a, b>> \in Seq(S)
    OBVIOUS
<1>2. ASSUME NEW S, NEW a \in S, NEW b \in S, NEW c \in S
      PROVE  <<a, b, c>> \in Seq(S)
    OBVIOUS
<1>3. /\ Zeros(8) \in IntactOf(16, 0)
      /\ <<0, 104, 229, 207, 139, 1, 0, 0>> \in IntactOf(16, 0)
      /\ [i \in 1..8 |-> 255] \in IntactOf(16, 0)
    BY Eights, PingIntact
<1>4. PingPayloads \in Seq(IntactOf(16, 0))
    BY <1>2, <1>3, Zenon DEF PingPayloads
<1>5. /\ <<0, 104, 229, 207, 139, 1, 0, 0>> \in IntactOf(17, 0)
      /\ <<42>> \o Zeros(7) \in IntactOf(17, 0)
    BY Eights, PingIntact
<1>6. PongPayloads \in Seq(IntactOf(17, 0))
    BY <1>1, <1>5, Zenon DEF PongPayloads
<1> QED BY <1>4, <1>6, ConnectionFrames, SMT

\* OPEN and OPEN_ACK.
LEMMA OpenVectors ==
    ASSUME FourBytes
    PROVE  GoldenOpens \in Seq(Survivors)
<1>1. 19 \in Short /\ 102 \in Short /\ 59 \in Short /\ 6 \in Short /\ 26 \in Short
    BY Shorts
<1>2. /\ make_frame(1, 1, 0, Text(19)) \in Survivors
      /\ make_frame(3, 1, 0, Text(102)) \in Survivors
      /\ make_frame(5, 1, 0, Text(59)) \in Survivors
    BY <1>1, OpenFrame
<1>3. /\ make_frame(1, 2, 0, AckBytes(1, 6)) \in Survivors
      /\ make_frame(3, 2, 0, AckBytes(3, 26)) \in Survivors
    BY <1>1, AckFrame
<1> QED BY <1>2, <1>3 DEF GoldenOpens

\* CONTENT and REASONING.
LEMMA TextVectors ==
    ASSUME FourBytes
    PROVE  /\ Each(1, 3, 1, ContentPayloads) \in Seq(Survivors)
           /\ Each(1, 3, 0, CutPayloads) \in Seq(Survivors)
           /\ Each(1, 4, 1, ReasoningPayloads) \in Seq(Survivors)
           /\ Each(1, 3, 1, LongPayloads) \in Seq(Survivors)
<1>1. ContentPayloads \in Seq(IntactOf(3, 1))
  <2> DEFINE a == Choice0(<<>>)    b == Choice0(Text(1))    c == Choice0(Text(5))
             d == Choice0(Text(9)) e == Choice0(Text(3) \o <<195, 169>>)
             f == Choice0(<<226, 130, 172>> \o Text(3))
             g == Choice0(<<240, 159, 154, 128, 240, 159, 148, 165>>)
             h == Choice0(Text(6) \o <<228, 184, 150, 231, 149, 140>> \o Text(1)
                          \o <<240, 159, 140, 141>>)
             i == <<1>> \o Text(11)
             I == IntactOf(3, 1)
  <2>1. b \in I /\ c \in I /\ d \in I
      BY Fits, LettersIntact
  <2>2. a \in I /\ e \in I /\ f \in I /\ g \in I /\ h \in I /\ i \in I
      BY TextsIntact, Zenon
  <2>3. ContentPayloads = <<a, b, c, d, e, f, g, h, i>>
      BY Zenon DEF ContentPayloads
  <2> HIDE DEF a, b, c, d, e, f, g, h, i, I
  <2>4. ContentPayloads \in Seq(I)
      BY <2>1, <2>2, <2>3
  <2> QED BY <2>4 DEF I
<1>2. CutPayloads \in Seq(IntactOf(3, 0))
  <2>1. Text(7) \o <<226, 130>> \in Seq(Octet) /\ Len(Text(7) \o <<226, 130>>) = 9
    <3>1. Sized(Text(7), 7)
        BY Words DEF Wording, Sized
    <3>2. Sized(<<226, 130>>, 2)
        BY DEF Sized, Octet
    <3>3. Sized(Text(7) \o <<226, 130>>, 7 + 2)
        BY <3>1, <3>2, SizedJoin, Zenon
    <3>4. 7 + 2 = 9
        OBVIOUS
    <3> QED BY <3>3, <3>4, Zenon DEF Sized
  <2>2. Choice0(Text(7) \o <<226, 130>>) \in IntactOf(3, 0)
    <3>1. 9 < MAX_PAYLOAD_SIZE /\ 0 \in Octet
        BY Fits DEF Octet
    <3> QED BY <2>1, <3>1, ContentIntact DEF Choice0
  <2> QED BY <2>2 DEF CutPayloads
<1>3. ReasoningPayloads \in Seq(IntactOf(4, 1))
  <2>1. Choice0(Text(26)) \in IntactOf(4, 1) /\ Choice0(Text(19)) \in IntactOf(4, 1)
      BY Fits, LettersIntact
  <2> QED BY <2>1 DEF ReasoningPayloads
<1>4. LongPayloads \in Seq(IntactOf(3, 1))
  <2>1. /\ Choice0(Text(25)) \in IntactOf(3, 1) /\ Choice0(Text(20)) \in IntactOf(3, 1)
        /\ Choice0(Text(1023)) \in IntactOf(3, 1)
        /\ Choice0(Text(65526)) \in IntactOf(3, 1)
      BY Fits, LettersIntact, SMT
  <2> QED BY <2>1, SMT DEF LongPayloads
<1> QED BY <1>1, <1>2, <1>3, <1>4, SessionFrames, SMT

\* TOOL_CALL.
LEMMA ToolVectors ==
    ASSUME FourBytes
    PROVE  /\ Each(1, 5, 0, ToolPayloads) \in Seq(Survivors)
           /\ Each(1, 5, 0, SplitTools) \in Seq(Survivors)
<1>1. /\ ToolStart(0, 5, 11, 11, 32) \in IntactOf(5, 0)
      /\ ToolStart(1, 5, 7, 8, 0) \in IntactOf(5, 0)
      /\ ToolStart(0, 1, 8, 6, 10) \in IntactOf(5, 0)
      /\ ToolStart(0, 5, 0, 0, 2) \in IntactOf(5, 0)
  <2>1. 0 \in 0..U16Max /\ 1 \in 0..U16Max
      BY Fields
  <2>2. /\ 0 \in Short /\ 2 \in Short /\ 6 \in Short /\ 8 \in Short /\ 10 \in Short
        /\ 11 \in Short /\ 32 \in Short
      BY Shorts
  <2>3. /\ 0 \in 0..255 /\ 7 \in 0..255 /\ 8 \in 0..255 /\ 11 \in 0..255
        /\ 1 \in {1, 5} /\ 5 \in {1, 5}
      OBVIOUS
  <2>4. ToolStart(0, 5, 11, 11, 32) \in IntactOf(5, 0)
      BY <2>1, <2>2, <2>3, StartIntact, Zenon
  <2>5. ToolStart(1, 5, 7, 8, 0) \in IntactOf(5, 0)
      BY <2>1, <2>2, <2>3, StartIntact, Zenon
  <2>6. ToolStart(0, 1, 8, 6, 10) \in IntactOf(5, 0)
      BY <2>1, <2>2, <2>3, StartIntact, Zenon
  <2>7. ToolStart(0, 5, 0, 0, 2) \in IntactOf(5, 0)
      BY <2>1, <2>2, <2>3, StartIntact, Zenon
  <2> QED BY <2>4, <2>5, <2>6, <2>7
<1>2. ASSUME NEW flags \in {2, 4}, NEW n \in 0..1000
      PROVE  ToolMore(flags, n) \in IntactOf(5, 0)
    BY Shorts, MoreIntact
<1>3. ToolPayloads \in Seq(IntactOf(5, 0))
  <2>1. ToolMore(2, 17) \in IntactOf(5, 0) /\ ToolMore(4, 2) \in IntactOf(5, 0)
      BY <1>2
  <2> QED BY <1>1, <2>1 DEF ToolPayloads
<1>4. SplitTools \in Seq(IntactOf(5, 0))
  <2>1. /\ ToolMore(2, 13) \in IntactOf(5, 0) /\ ToolMore(4, 4) \in IntactOf(5, 0)
        /\ ToolMore(2, 6) \in IntactOf(5, 0) /\ ToolMore(4, 12) \in IntactOf(5, 0)
      BY <1>2
  <2> QED BY <1>1, <2>1 DEF SplitTools
<1> QED BY <1>3, <1>4, SessionFrames, SMT

\* USAGE and METRICS.
LEMMA NumberVectors ==
    ASSUME FourBytes
    PROVE  /\ Each(1, 6, 0, UsagePayloads) \in Seq(Survivors)
           /\ Each(1, 7, 0, MetricsPayloads) \in Seq(Survivors)
<1>1. ASSUME NEW prompt \in Nat, NEW completion \in Nat, NEW cached \in Nat,
             prompt <= 65535, completion <= 65535, cached <= 65535,
             NEW attempts \in Octet
      PROVE  UsageBytes(prompt, completion, cached, attempts, 0) \in IntactOf(6, 0)
  <2>1. /\ prompt \in 0..U32Max /\ completion \in 0..U32Max /\ cached \in 0..U32Max
        /\ prompt + completion <= U32Max
      BY <1>1, Fields, SMT
  <2> QED BY <2>1, UsageIntact, SMT
<1>2. 1 \in Octet /\ 3 \in Octet
    BY DEF Octet
<1>3. /\ UsageBytes(0, 0, 0, 1, 0) \in IntactOf(6, 0)
      /\ UsageBytes(150, 42, 32, 1, 0) \in IntactOf(6, 0)
      /\ UsageBytes(500, 100, 0, 3, 0) \in IntactOf(6, 0)
    BY <1>1, <1>2, SMT
<1>4. UsageBytes(128000, 4096, 64000, 1, 0) \in IntactOf(6, 0)
  <2>1. /\ 128000 \in 0..U32Max /\ 4096 \in 0..U32Max /\ 64000 \in 0..U32Max
        /\ 128000 + 4096 <= U32Max
      BY Fields, SMT
  <2> QED BY <1>2, <2>1, UsageIntact, SMT
<1>5. UsagePayloads \in Seq(IntactOf(6, 0))
    BY <1>3, <1>4, SMT DEF UsagePayloads
<1>6. ASSUME NEW ttft \in Nat, NEW duration \in Nat, NEW rate \in Nat, NEW key,
             ttft <= 65535, duration <= 65535, rate <= 65535, Sized(key, 8)
      PROVE  MetricsBytes(ttft, duration, rate, key) \in IntactOf(7, 0)
    BY <1>6, Fields, MetricsIntact, SMT
<1>7. MetricsPayloads \in Seq(IntactOf(7, 0))
  <2> DEFINE j == <<239, 205, 171, 144, 120, 86, 52, 18>>
             k == <<239, 190, 173, 222, 190, 186, 254, 202>>
             l == Zeros(8)
  <2>1. Sized(j, 8) /\ Sized(k, 8) /\ Sized(l, 8)
      BY Eights, Zenon
  <2>2. MetricsPayloads = <<MetricsBytes(45, 230, 8550, j),
                            MetricsBytes(1200, 9500, 2430, k), MetricsBytes(0, 10, 0, l)>>
      BY SMT DEF MetricsPayloads
  <2> HIDE DEF j, k, l
  <2>3. MetricsBytes(45, 230, 8550, j) \in IntactOf(7, 0)
      BY <1>6, <2>1, SMT
  <2>4. MetricsBytes(1200, 9500, 2430, k) \in IntactOf(7, 0)
      BY <1>6, <2>1, SMT
  <2>5. MetricsBytes(0, 10, 0, l) \in IntactOf(7, 0)
      BY <1>6, <2>1, SMT
  <2> QED BY <2>2, <2>3, <2>4, <2>5, SMT
<1> QED BY <1>5, <1>7, SessionFrames, SMT

\* END.
LEMMA EndVectors ==
    ASSUME FourBytes
    PROVE  Each(1, 8, 0, EndPayloads) \in Seq(Survivors)
<1>1. ASSUME NEW reason \in 0..4, NEW choice \in {0, 1}
      PROVE  <<reason, choice>> \in IntactOf(8, 0)
  <2>1. choice \in Octet
      BY DEF Octet
  <2> QED BY <2>1, EndIntact
<1>2. /\ <<0, 0>> \in IntactOf(8, 0) /\ <<1, 0>> \in IntactOf(8, 0)
      /\ <<2, 0>> \in IntactOf(8, 0) /\ <<3, 0>> \in IntactOf(8, 0)
      /\ <<4, 0>> \in IntactOf(8, 0) /\ <<0, 1>> \in IntactOf(8, 0)
    BY <1>1
<1>3. EndPayloads \in Seq(IntactOf(8, 0))
    BY <1>2 DEF EndPayloads
<1> QED BY <1>3, SessionFrames, SMT

\* The codes of errors.
LEMMA Codes ==
    /\ 1001 \in ErrorCodes /\ 1002 \in ErrorCodes /\ 1003 \in ErrorCodes
    /\ 1004 \in ErrorCodes /\ 1005 \in ErrorCodes /\ 1006 \in ErrorCodes
    /\ 1007 \in ErrorCodes /\ 1008 \in ErrorCodes /\ 1009 \in ErrorCodes
  BY SMT DEF ErrorCodes

\* ERROR.
LEMMA ErrorVectors ==
    ASSUME FourBytes
    PROVE  Each(1, 9, 0, ErrorPayloads) \in Seq(Survivors)
<1>1. ASSUME NEW code, NEW status, NEW scope, NEW n, code \in ErrorCodes,
             status \in Nat, status <= 1000, scope \in 0..1, n \in Nat, n <= 1000
      PROVE  ErrorBytes(code, status, scope, n, n) \in IntactOf(9, 0)
  <2>1. status \in Short /\ n \in Short /\ code \in ErrorCodes /\ scope \in 0..1
      BY <1>1 DEF Short
  <2> QED BY <2>1, ErrorIntact, Zenon
<1>2. /\ ErrorBytes(1001, 400, 0, 22, 22) \in IntactOf(9, 0)
      /\ ErrorBytes(1002, 401, 1, 29, 29) \in IntactOf(9, 0)
      /\ ErrorBytes(1003, 429, 0, 36, 36) \in IntactOf(9, 0)
    BY <1>1, Codes, SMT
<1>3. /\ ErrorBytes(1004, 503, 0, 21, 21) \in IntactOf(9, 0)
      /\ ErrorBytes(1005, 500, 0, 35, 35) \in IntactOf(9, 0)
      /\ ErrorBytes(1006, 0, 0, 30, 30) \in IntactOf(9, 0)
    BY <1>1, Codes, SMT
<1>4. /\ ErrorBytes(1007, 0, 0, 34, 34) \in IntactOf(9, 0)
      /\ ErrorBytes(1008, 0, 1, 28, 28) \in IntactOf(9, 0)
      /\ ErrorBytes(1009, 0, 0, 38, 38) \in IntactOf(9, 0)
    BY <1>1, Codes, SMT
<1>5. ErrorPayloads \in Seq(IntactOf(9, 0))
    BY <1>2, <1>3, <1>4, SMT DEF ErrorPayloads
<1> QED BY <1>5, SessionFrames, SMT

\* CANCEL, PAUSE and RESUME.
LEMMA SignalVectors ==
    ASSUME FourBytes
    PROVE  GoldenSignals \in Seq(Survivors)
<1>1. ASSUME NEW stream_id \in {1, 3, 5}, NEW op \in {10, 11, 12}
      PROVE  make_frame(stream_id, op, 0, <<>>) \in Survivors
    BY BareFrame
<1>2. /\ make_frame(1, 10, 0, <<>>) \in Survivors /\ make_frame(3, 10, 0, <<>>) \in Survivors
      /\ make_frame(1, 11, 0, <<>>) \in Survivors /\ make_frame(5, 11, 0, <<>>) \in Survivors
      /\ make_frame(1, 12, 0, <<>>) \in Survivors /\ make_frame(5, 12, 0, <<>>) \in Survivors
    BY <1>1
<1> QED BY <1>2 DEF GoldenSignals

\* STEER with a text of so many bytes.
LEMMA SteerFrame ==
    ASSUME FourBytes, NEW stream_id \in {1, 3, 5}, NEW s, NEW n \in Short, Wording(s, n)
    PROVE  make_frame(stream_id, 13, 0, LE2(n) \o s) \in Survivors
<1>1. LE2(n) \o s \in IntactOf(13, 0)
    BY SteerIntact, Zenon DEF Wording
<1> QED BY <1>1, SessionFrame, SMT

\* STEER.
LEMMA SteerVectors ==
    ASSUME FourBytes
    PROVE  GoldenSteers \in Seq(Survivors)
<1>1. Wording(Text(10), 10) /\ Wording(Text(51), 51) /\ Wording(Text(1), 1)
      /\ Wording(Text(13), 13) /\ Wording(Text(3), 3)
    BY Words
<1>2. Wording(Text(1) \o <<195, 169>> \o Text(13) \o <<195, 167>> \o Text(3), 21)
  <2>1. ASSUME NEW s, NEW t, NEW u, NEW v, NEW w,
               Wording(s, 1), Wording(t, 2), Wording(u, 13), Wording(v, 2), Wording(w, 3)
        PROVE  Wording(s \o t \o u \o v \o w, 1 + 2 + 13 + 2 + 3)
    <3>1. Wording(s \o t, 1 + 2)
        BY <2>1, WordingJoin, Zenon
    <3>2. Wording(s \o t \o u, 1 + 2 + 13)
        BY <2>1, <3>1, WordingJoin, Zenon
    <3>3. Wording(s \o t \o u \o v, 1 + 2 + 13 + 2)
        BY <2>1, <3>2, WordingJoin, Zenon
    <3> QED BY <2>1, <3>3, WordingJoin, Zenon
  <2>2. 1 + 2 + 13 + 2 + 3 = 21
      OBVIOUS
  <2> QED BY <1>1, <2>1, <2>2, CharacterWords
<1>3. 10 \in Short /\ 21 \in Short /\ 51 \in Short /\ 1 \in {1, 3, 5} /\ 3 \in {1, 3, 5}
    BY Shorts
<1>4. make_frame(1, 13, 0, LE2(10) \o Text(10)) \in Survivors
    BY <1>1, <1>3, SteerFrame, Zenon
<1>5. make_frame(1, 13, 0, LE2(21) \o (Text(1) \o <<195, 169>> \o Text(13)
                                       \o <<195, 167>> \o Text(3))) \in Survivors
    BY <1>2, <1>3, SteerFrame, ZenonT(40)
<1>6. make_frame(3, 13, 0, LE2(51) \o Text(51)) \in Survivors
    BY <1>1, <1>3, SteerFrame, Zenon
<1>7. ASSUME NEW S, NEW a \in S, NEW b \in S, NEW c \in S
      PROVE  <<a, b, c>> \in Seq(S)
    OBVIOUS
<1> QED BY <1>4, <1>5, <1>6, <1>7, Zenon DEF GoldenSteers

\* REWIND.
LEMMA RewindVectors ==
    ASSUME FourBytes
    PROVE  Each(1, 14, 0, RewindPayloads) \in Seq(Survivors)
<1>1. ASSUME NEW target \in 1..17, NEW offset \in Nat, offset <= 1000
      PROVE  RewindBytes(target, 0, offset) \in IntactOf(14, 0)
  <2>1. offset \in 0..U32Max
      BY <1>1, Fields, SMTT(30)
  <2> QED BY <2>1, RewindIntact, SMTT(30)
<1>2. /\ RewindBytes(3, 0, 0) \in IntactOf(14, 0) /\ RewindBytes(3, 0, 48) \in IntactOf(14, 0)
      /\ RewindBytes(4, 0, 120) \in IntactOf(14, 0) /\ RewindBytes(5, 0, 0) \in IntactOf(14, 0)
  <2>1. RewindBytes(3, 0, 0) \in IntactOf(14, 0) /\ RewindBytes(5, 0, 0) \in IntactOf(14, 0)
      BY <1>1, SMTT(30)
  <2>2. RewindBytes(3, 0, 48) \in IntactOf(14, 0)
      BY <1>1, SMTT(30)
  <2>3. RewindBytes(4, 0, 120) \in IntactOf(14, 0)
      BY <1>1, SMTT(30)
  <2> QED BY <2>1, <2>2, <2>3
<1>3. RewindPayloads \in Seq(IntactOf(14, 0))
    BY <1>2 DEF RewindPayloads
<1> QED BY <1>3, SessionFrames, SMT

\* All golden vectors.
LEMMA GoldenSurvives ==
    ASSUME FourBytes
    PROVE  Golden \in Seq(Survivors)
  BY SettingsVectors, HeartbeatVectors, OpenVectors, TextVectors, ToolVectors,
     NumberVectors, EndVectors, ErrorVectors, SignalVectors, SteerVectors,
     RewindVectors, JoinedSurvive, SMT DEF Golden

\* A frame whose text may end within a character.
LEMMA CutFrame ==
    ASSUME FourBytes, NEW s, NEW n, Sized(s, n), n < MAX_PAYLOAD_SIZE
    PROVE  make_frame(1, 3, 0, Choice0(s)) \in Survivors
<1>1. s \in Seq(Octet) /\ Len(s) < MAX_PAYLOAD_SIZE /\ 0 \in Octet
    BY DEF Sized, Octet
<1>2. Choice0(s) \in IntactOf(3, 0)
    BY <1>1, ContentIntact DEF Choice0
<1> QED BY <1>2, SessionFrame

\* A frame whose text goes on a character that was cut.
LEMMA RestFrame ==
    ASSUME FourBytes, NEW x \in 128..191, NEW s, NEW n \in Nat, Sized(s, n),
           n + 1 < MAX_PAYLOAD_SIZE
    PROVE  make_frame(1, 3, 1, Choice0(<<x>> \o s)) \in Survivors
<1>1. <<x>> \o s \in Seq(Octet) /\ Len(<<x>> \o s) < MAX_PAYLOAD_SIZE /\ 0 \in Octet
  <2>1. Sized(<<x>>, 1)
      BY DEF Sized, Octet
  <2>2. Sized(<<x>> \o s, 1 + n)
      BY <2>1, SizedJoin, Zenon
  <2> QED BY <2>2, PayloadLimit DEF Sized, Octet
<1>2. <<x>> \o s # <<>> /\ (<<x>> \o s)[1] = x /\ IsCont(x)
    BY DEF Sized, IsCont
<1>3. Choice0(<<x>> \o s) \in IntactOf(3, 1)
    BY <1>1, <1>2, ContentIntact DEF Choice0
<1> QED BY <1>3, SessionFrame

\* Two bytes.
LEMMA PairJoined ==
    ASSUME NEW a \in Octet, NEW b \in Octet
    PROVE  <<a>> \o <<b>> = <<a, b>>
<1> DEFINE x == <<a>> \o <<b>>
           y == <<a, b>>
<1>1. x \in Seq(Octet) /\ Len(x) = 2 /\ x[1] = a /\ x[2] = b
    OBVIOUS
<1>2. y \in Seq(Octet) /\ Len(y) = 2 /\ y[1] = a /\ y[2] = b
    OBVIOUS
<1> HIDE DEF x, y
<1>3. \A i \in 1..2 : x[i] = y[i]
    BY <1>1, <1>2
<1>4. x = y
  <2>1. 2 \in Nat
      OBVIOUS
  <2> QED BY <1>1, <1>2, <1>3, <2>1, SameElements, Zenon
<1> QED BY <1>4 DEF x, y

\* The vectors that cut a character.
LEMMA SplitVectors ==
    ASSUME FourBytes
    PROVE  SplitCharacters \in Seq(Survivors)
<1>1. \A n \in Short : /\ n \in Nat /\ n + 1 \in Nat
                         /\ n < MAX_PAYLOAD_SIZE /\ n + 1 < MAX_PAYLOAD_SIZE
    BY Payloads1000
<1>2. ASSUME NEW n \in Short
      PROVE  Sized(Text(n), n)
    BY <1>1, Words, Zenon DEF Wording, Sized
<1>3. ASSUME NEW x \in Octet
      PROVE  Sized(<<x>>, 1)
    BY DEF Sized
<1>4. ASSUME NEW n \in Short, NEW x \in Octet
      PROVE  make_frame(1, 3, 0, Choice0(Text(n) \o <<x>>)) \in Survivors
  <2>1. Sized(Text(n), n) /\ Sized(<<x>>, 1)
      BY <1>2, <1>3
  <2>2. Sized(Text(n) \o <<x>>, n + 1)
      BY <2>1, SizedJoin, Zenon
  <2> QED BY <1>1, <2>2, CutFrame, Zenon
<1>5. ASSUME NEW x \in Octet
      PROVE  make_frame(1, 3, 0, Choice0(<<x>>)) \in Survivors
  <2>1. 1 < MAX_PAYLOAD_SIZE
      BY Fits
  <2> QED BY <1>3, <2>1, CutFrame, Zenon
<1>6. ASSUME NEW n \in Short, NEW x \in 128..191
      PROVE  make_frame(1, 3, 1, Choice0(<<x>> \o Text(n))) \in Survivors
    BY <1>1, <1>2, RestFrame, Zenon
<1>7. /\ make_frame(1, 3, 0, Choice0(Text(3) \o <<195>>)) \in Survivors
      /\ make_frame(1, 3, 0, Choice0(Text(6) \o <<226>>)) \in Survivors
  <2>1. 3 \in Short /\ 6 \in Short /\ 195 \in Octet /\ 226 \in Octet
      BY Shorts DEF Octet
  <2> QED BY <1>4, <2>1, Zenon
<1>8. make_frame(1, 3, 1, Choice0(<<169>> \o Text(6))) \in Survivors
  <2>1. 6 \in Short /\ 169 \in 128..191
      BY Shorts
  <2> QED BY <1>6, <2>1, Zenon
<1>9. make_frame(1, 3, 1, Choice0(<<130, 172>> \o Text(2))) \in Survivors
  <2>1. Sized(<<172>>, 1) /\ Sized(<<130>>, 1) /\ Sized(Text(2), 2)
      BY <1>2, <1>3, Shorts, SMTT(30) DEF Octet
  <2>2. Sized(<<172>> \o Text(2), 1 + 2)
      BY <2>1, SizedJoin, Zenon
  <2>3. <<130, 172>> \o Text(2) = <<130>> \o (<<172>> \o Text(2))
    <3> DEFINE t == Text(2)
               p == <<130>>
               q == <<172>>
               u == p \o q
               v == <<130, 172>>
               w == p \o (q \o t)
    <3>1. u = v
      <4>1. 130 \in Octet /\ 172 \in Octet
          BY DEF Octet
      <4> QED BY <4>1, PairJoined, Zenon
    <3>2. u \o t = w
      <4>1. p \in Seq(Octet) /\ q \in Seq(Octet) /\ t \in Seq(Octet)
          BY <2>1, Zenon DEF Sized
      <4> HIDE DEF t, p, q
      <4> QED BY <4>1, Reassociated, Zenon
    <3> HIDE DEF t, u, v, w
    <3>3. v \o t = w
        BY <3>1, <3>2
    <3> QED BY <3>3 DEF p, q, t, v, w
  <2>4. 130 \in 128..191 /\ 1 + 2 \in Nat /\ (1 + 2) + 1 < MAX_PAYLOAD_SIZE
    <3>1. 1 + 2 = 3 /\ 3 \in Short
        BY Shorts
    <3> QED BY <1>1, <3>1
  <2>5. make_frame(1, 3, 1, Choice0(<<130>> \o (<<172>> \o Text(2)))) \in Survivors
      BY <2>2, <2>4, RestFrame, Zenon
  <2> QED BY <2>3, <2>5, Zenon
<1>10. /\ make_frame(1, 3, 0, Choice0(<<226>>)) \in Survivors
       /\ make_frame(1, 3, 0, Choice0(<<130>>)) \in Survivors
       /\ make_frame(1, 3, 0, Choice0(<<240>>)) \in Survivors
       /\ make_frame(1, 3, 0, Choice0(<<159>>)) \in Survivors
  <2>1. 226 \in Octet /\ 130 \in Octet /\ 240 \in Octet /\ 159 \in Octet
      BY DEF Octet
  <2> QED BY <1>5, <2>1, Zenon
<1>11. make_frame(1, 3, 1, Choice0(<<172>>)) \in Survivors
  <2>1. Sized(<<>>, 0) /\ <<172>> \o <<>> = <<172>>
      BY DEF Sized
  <2>2. 172 \in 128..191 /\ 0 \in Nat /\ 0 + 1 < MAX_PAYLOAD_SIZE
      BY <1>1, Shorts
  <2> QED BY <2>1, <2>2, RestFrame
<1>12. make_frame(1, 3, 1, Choice0(<<153, 128>>)) \in Survivors
  <2>1. Sized(<<128>>, 1) /\ <<153>> \o <<128>> = <<153, 128>>
    <3>1. 128 \in Octet /\ 153 \in Octet
        BY DEF Octet
    <3> QED BY <1>3, <3>1, PairJoined, Zenon
  <2>2. 153 \in 128..191 /\ 1 \in Nat /\ 1 + 1 < MAX_PAYLOAD_SIZE
      BY <1>1, Shorts
  <2>3. make_frame(1, 3, 1, Choice0(<<153>> \o <<128>>)) \in Survivors
      BY <2>1, <2>2, RestFrame, Zenon
  <2> QED BY <2>1, <2>3, Zenon
<1> QED BY <1>7, <1>8, <1>9, <1>10, <1>11, <1>12 DEF SplitCharacters

\* The vectors at the limits.
LEMMA LimitVectors ==
    ASSUME FourBytes
    PROVE  EdgeLimits \in Seq(Survivors)
<1>1. /\ make_frame(1, 3, 1, Choice0(<<>>)) \in Survivors
      /\ make_frame(1, 4, 1, Choice0(<<>>)) \in Survivors
  <2>1. 0 < MAX_PAYLOAD_SIZE /\ 0 \in Octet
      BY Fits DEF Octet
  <2>2. Choice0(<<>>) \in IntactOf(3, 1) /\ Choice0(<<>>) \in IntactOf(4, 1)
      BY <2>1, Words, TextIntact DEF Choice0
  <2> QED BY <2>2, SessionFrame
<1>2. make_frame(1, 3, 0, Choice0(Text(1000) \o <<240, 159>>)) \in Survivors
  <2>1. Sized(Text(1000), 1000)
    <3>1. 1000 \in Nat
        BY SMT
    <3>2. Wording(Text(1000), 1000)
        BY <3>1, Words, SMT
    <3> QED BY <3>2, SMT DEF Wording, Sized
  <2> DEFINE s == <<240, 159>>
  <2>2. Sized(s, 2)
      BY DEF Sized, Octet
  <2> HIDE DEF s
  <2>3. Sized(Text(1000) \o s, 1000 + 2)
      BY <2>1, <2>2, SizedJoin, SMT
  <2>4. 1000 + 2 < MAX_PAYLOAD_SIZE
      BY SMTT(20) DEF MAX_PAYLOAD_SIZE
  <2>5. make_frame(1, 3, 0, Choice0(Text(1000) \o s)) \in Survivors
      BY <2>3, <2>4, CutFrame, SMT
  <2> QED BY <2>5 DEF s
<1>3. make_frame(1, 5, 0, ToolStart(65535, 5, 2, 4, 2)) \in Survivors
  <2> DEFINE call == 65535
  <2>1. call \in 0..U16Max
      BY Fields, SMT
  <2> HIDE DEF call
  <2>2. 2 \in Short /\ 4 \in Short /\ 5 \in {1, 5} /\ 2 \in 0..255
      BY Shorts
  <2>3. ToolStart(call, 5, 2, 4, 2) \in IntactOf(5, 0)
      BY <2>1, <2>2, StartIntact, Zenon
  <2>4. make_frame(1, 5, 0, ToolStart(call, 5, 2, 4, 2)) \in Survivors
    <3>1. 1 \in {1, 3, 5} /\ 5 \in 1..14 /\ 0 \in {0, 1}
        OBVIOUS
    <3> QED BY <2>3, <3>1, SessionFrame, Zenon
  <2> QED BY <2>4, SMT DEF call
<1>4. make_frame(1, 3, 1, <<255>> \o Text(15)) \in Survivors
  <2>1. Wording(Text(15), 15) /\ 255 \in Octet
      BY Words DEF Octet
  <2>2. 15 < MAX_PAYLOAD_SIZE
      BY Shorts, Payloads1000
  <2>3. <<255>> \o Text(15) \in IntactOf(3, 1)
      BY <2>1, <2>2, TextIntact
  <2> QED BY <2>3, SessionFrame
<1>5. /\ make_frame(1, 5, 0, ToolMore(2, 16)) \in Survivors
      /\ make_frame(1, 5, 0, ToolMore(4, 8)) \in Survivors
  <2>1. 16 \in Short /\ 8 \in Short
      BY Shorts
  <2>2. ToolMore(2, 16) \in IntactOf(5, 0) /\ ToolMore(4, 8) \in IntactOf(5, 0)
      BY <2>1, MoreIntact
  <2> QED BY <2>2, SessionFrame
<1> QED BY <1>1, <1>2, <1>3, <1>4, <1>5, SMT DEF EdgeLimits

\* All edge vectors.
LEMMA EdgeSurvives ==
    ASSUME FourBytes
    PROVE  Edge \in Seq(Survivors)
  BY SplitVectors, ToolVectors, LimitVectors, JoinedSurvive DEF Edge

------------------------------------------------------------------------------
(* The steps of the scenarios *)

\* The steps whose frame decode_frame accepts.
Accepted == [to : {"server", "client"}, raw : Survivors]

\* In both directions.
LEMMA Directed ==
    ASSUME NEW raw \in Survivors
    PROVE  ToClient(raw) \in Accepted /\ ToServer(raw) \in Accepted
  BY DEF ToClient, ToServer, Accepted

\* Several steps.
LEMMA StepsJoined ==
    ASSUME NEW s \in Seq(Accepted), NEW t \in Seq(Accepted)
    PROVE  s \o t \in Seq(Accepted)
  OBVIOUS

\* The frames they share: letters, ends, and the signals of the client.
LEMMA SharedFrames ==
    ASSUME FourBytes
    PROVE  /\ \A stream_id \in {1, 3, 5} :
                  /\ EndOf(stream_id) \in Survivors
                  /\ \A n \in Short : /\ ContentOf(stream_id, n) \in Survivors
                                      /\ make_frame(stream_id, 1, 0, Text(n)) \in Survivors
                                      /\ make_frame(stream_id, 2, 0, AckBytes(stream_id, n))
                                             \in Survivors
           /\ make_frame(1, 11, 0, <<>>) \in Survivors
           /\ make_frame(1, 12, 0, <<>>) \in Survivors
<1>1. ASSUME NEW stream_id \in {1, 3, 5}, NEW n \in Short
      PROVE  ContentOf(stream_id, n) \in Survivors
  <2>1. 3 \in {3, 4}
      OBVIOUS
  <2> QED BY <2>1, ContentFrame, Zenon DEF ContentOf
<1>2. make_frame(1, 11, 0, <<>>) \in Survivors /\ make_frame(1, 12, 0, <<>>) \in Survivors
    BY BareFrame
<1> QED BY <1>1, <1>2, EndFrame, OpenFrame, AckFrame, Zenon

\* Scenario 1.
LEMMA HappySteps ==
    ASSUME FourBytes
    PROVE  Happy \in Seq(Accepted)
<1>1. 18 \in Short /\ 6 \in Short /\ 19 \in Short /\ 11 \in Short /\ 8 \in Short
    BY Shorts
<1> DEFINE a == make_frame(0, 15, 0, DefaultSettings)
           b == make_frame(1, 1, 0, Text(18))
           c == make_frame(1, 2, 0, AckBytes(1, 6))
           d == make_frame(1, 4, 1, Choice0(Text(19)))
           e == make_frame(1, 5, 0, ToolStart(0, 1, 6, 11, 8))
           f == make_frame(1, 5, 0, ToolMore(4, 8))
           g == make_frame(1, 6, 0, UsageBytes(25, 14, 0, 1, 0))
           h == make_frame(1, 7, 0, MetricsBytes(95, 340, 9200,
                                        <<136, 119, 102, 85, 68, 51, 34, 17>>))
           i == EndOf(1)
<1>2. a \in Survivors
  <2>1. Addressed(0, 15, 0)
      BY AddressedAs
  <2> QED BY <2>1, DefaultIntact, MadeSurvives, Zenon
<1>3. 1 \in {1, 3, 5} /\ 0 \in {0, 1} /\ 5 \in 1..14 /\ 6 \in 1..14 /\ 7 \in 1..14
    OBVIOUS
<1>4. b \in Survivors /\ c \in Survivors /\ i \in Survivors
    BY <1>1, <1>3, SharedFrames, Zenon
<1>5. d \in Survivors
  <2>1. 4 \in {3, 4}
      OBVIOUS
  <2> QED BY <1>1, <1>3, <2>1, ContentFrame, Zenon
<1>6. e \in Survivors /\ f \in Survivors
  <2>1. 0 \in 0..U16Max
      BY Fields
  <2>2. 1 \in {1, 5} /\ 6 \in 0..255
      OBVIOUS
  <2>3. ToolStart(0, 1, 6, 11, 8) \in IntactOf(5, 0)
      BY <1>1, <2>1, <2>2, StartIntact, Zenon
  <2>4. ToolMore(4, 8) \in IntactOf(5, 0)
      BY <1>1, MoreIntact
  <2> QED BY <1>3, <2>3, <2>4, SessionFrame, Zenon
<1>7. g \in Survivors
  <2>1. /\ 25 \in 0..U32Max /\ 14 \in 0..U32Max /\ 0 \in 0..U32Max
        /\ 25 + 14 <= U32Max
      BY Fields
  <2>2. 1 \in Octet
      BY DEF Octet
  <2>3. UsageBytes(25, 14, 0, 1, 0) \in IntactOf(6, 0)
      BY <2>1, <2>2, UsageIntact, ZenonT(40)
  <2> QED BY <1>3, <2>3, SessionFrame, Zenon
<1>8. h \in Survivors
  <2> DEFINE key == <<136, 119, 102, 85, 68, 51, 34, 17>>
             rate == 9200
  <2>1. 95 \in 0..U32Max /\ 340 \in 0..U32Max /\ rate \in 0..U32Max
      BY Fields, SMT
  <2>2. Sized(key, 8)
      BY Eights, Zenon
  <2> HIDE DEF key, rate
  <2>3. MetricsBytes(95, 340, rate, key) \in IntactOf(7, 0)
      BY <2>1, <2>2, MetricsIntact, ZenonT(40)
  <2>4. make_frame(1, 7, 0, MetricsBytes(95, 340, rate, key)) \in Survivors
      BY <1>3, <2>3, SessionFrame, ZenonT(40)
  <2> QED BY <2>4, SMT DEF key, rate
<1>9. Happy = <<ToClient(a), ToServer(b),
                ToClient(c), ToClient(d), ToClient(e),
                ToClient(f), ToClient(g),
                ToClient(h), ToClient(i)>>
    BY SMT DEF Happy
<1> HIDE DEF a, b, c, d, e, f, g, h, i
<1>10. /\ ToClient(a) \in Accepted /\ ToServer(b) \in Accepted
       /\ ToClient(c) \in Accepted /\ ToClient(d) \in Accepted
       /\ ToClient(e) \in Accepted /\ ToClient(f) \in Accepted
       /\ ToClient(g) \in Accepted
       /\ ToClient(h) \in Accepted
       /\ ToClient(i) \in Accepted
    BY <1>2, <1>4, <1>5, <1>6, <1>7, <1>8, Directed
<1> QED BY <1>9, <1>10

\* Scenarios 2 to 4.
LEMMA PauseSteps ==
    ASSUME FourBytes
    PROVE  /\ PauseResume \in Seq(Accepted)
           /\ PauseError(1006, 8) \in Seq(Accepted)
           /\ PauseError(1009, 15) \in Seq(Accepted)
<1>1. 7 \in Short /\ 8 \in Short /\ 15 \in Short /\ 1 \in {1, 3, 5}
    BY Shorts
<1> DEFINE pause == make_frame(1, 11, 0, <<>>)
           resume == make_frame(1, 12, 0, <<>>)
           text == ContentOf(1, 7)
           end == EndOf(1)
<1>2. pause \in Survivors /\ resume \in Survivors /\ text \in Survivors /\ end \in Survivors
    BY <1>1, SharedFrames, Zenon
<1>3. PauseResume \in Seq(Accepted)
  <2>1. PauseResume = <<ToClient(text), ToServer(pause),
                        ToServer(resume), ToClient(text),
                        ToClient(end)>>
      BY DEF PauseResume
  <2> HIDE DEF text, pause, resume, end
  <2>2. /\ ToClient(text) \in Accepted /\ ToServer(pause) \in Accepted
        /\ ToServer(resume) \in Accepted
        /\ ToClient(end) \in Accepted
      BY <1>2, Directed
  <2> QED BY <2>1, <2>2
<1>4. ASSUME NEW code \in ErrorCodes, NEW n \in Short
      PROVE  PauseError(code, n) \in Seq(Accepted)
  <2> DEFINE error == make_frame(1, 9, 0, ErrorBytes(code, 0, 0, n, n))
  <2>1. error \in Survivors
    <3>1. 0 \in Short /\ 0 \in 0..1 /\ 9 \in 1..14 /\ 0 \in {0, 1}
        BY Shorts
    <3>2. ErrorBytes(code, 0, 0, n, n) \in IntactOf(9, 0)
        BY <3>1, ErrorIntact, Zenon
    <3> QED BY <1>1, <3>1, <3>2, SessionFrame, Zenon
  <2>2. PauseError(code, n) = <<ToServer(pause), ToClient(error)>>
      BY Zenon DEF PauseError
  <2> HIDE DEF pause, error
  <2>3. ToServer(pause) \in Accepted /\ ToClient(error) \in Accepted
      BY <1>2, <2>1, Directed
  <2> QED BY <2>2, <2>3
<1>5. PauseError(1006, 8) \in Seq(Accepted) /\ PauseError(1009, 15) \in Seq(Accepted)
  <2>1. 1006 \in ErrorCodes /\ 1009 \in ErrorCodes
      BY Codes, SMT
  <2> QED BY <1>1, <1>4, <2>1, SMT
<1> QED BY <1>3, <1>5, SMT

\* Scenarios 5 to 7.
LEMMA SteeredSteps ==
    ASSUME FourBytes
    PROVE  /\ Steering \in Seq(Accepted)
           /\ Failover \in Seq(Accepted)
           /\ Interleaved \in Seq(Accepted)
<1>1. /\ 27 \in Short /\ 10 \in Short /\ 35 \in Short /\ 8 \in Short /\ 5 \in Short
      /\ 17 \in Short /\ 18 \in Short /\ 6 \in Short /\ 14 \in Short
    BY Shorts
<1>2. 1 \in {1, 3, 5} /\ 3 \in {1, 3, 5} /\ 0 \in {0, 1} /\ 5 \in 1..14 /\ 14 \in 1..14
    OBVIOUS
<1>3. Steering \in Seq(Accepted)
  <2> DEFINE a == ContentOf(1, 27)  b == make_frame(1, 13, 0, LE2(10) \o Text(10))
             c == ContentOf(1, 35)  d == EndOf(1)
  <2>1. a \in Survivors /\ c \in Survivors /\ d \in Survivors
      BY <1>1, <1>2, SharedFrames, Zenon
  <2>2. b \in Survivors
    <3>1. Wording(Text(10), 10)
        BY Words
    <3> QED BY <1>1, <1>2, <3>1, SteerFrame, Zenon
  <2>3. Steering = <<ToClient(a), ToServer(b),
                     ToClient(c), ToClient(d)>>
      BY Zenon DEF Steering
  <2> HIDE DEF a, b, c, d
  <2>4. /\ ToClient(a) \in Accepted /\ ToServer(b) \in Accepted
        /\ ToClient(c) \in Accepted /\ ToClient(d) \in Accepted
      BY <2>1, <2>2, Directed
  <2> QED BY <2>3, <2>4
<1>4. Failover \in Seq(Accepted)
  <2> DEFINE a == make_frame(1, 5, 0, ToolStart(0, 1, 6, 8, 5))
             b == make_frame(1, 14, 0, RewindBytes(5, 0, 0))
             c == ContentOf(1, 17)  d == EndOf(1)
  <2>1. c \in Survivors /\ d \in Survivors
      BY <1>1, <1>2, SharedFrames, Zenon
  <2>2. a \in Survivors
    <3>1. 0 \in 0..U16Max
        BY Fields
    <3>2. 1 \in {1, 5} /\ 6 \in 0..255
        OBVIOUS
    <3>3. ToolStart(0, 1, 6, 8, 5) \in IntactOf(5, 0)
        BY <1>1, <3>1, <3>2, StartIntact, Zenon
    <3> QED BY <1>2, <3>3, SessionFrame, Zenon
  <2>3. b \in Survivors
    <3>1. 0 \in 0..U32Max /\ 5 \in 1..17
        BY Fields
    <3>2. RewindBytes(5, 0, 0) \in IntactOf(14, 0)
        BY <3>1, RewindIntact, Zenon
    <3> QED BY <1>2, <3>2, SessionFrame, Zenon
  <2>4. Failover = <<ToClient(a), ToClient(b),
                     ToClient(c), ToClient(d)>>
      BY Zenon DEF Failover
  <2> HIDE DEF a, b, c, d
  <2>5. /\ ToClient(a) \in Accepted /\ ToClient(b) \in Accepted
        /\ ToClient(c) \in Accepted /\ ToClient(d) \in Accepted
      BY <2>1, <2>2, <2>3, Directed
  <2> QED BY <2>4, <2>5
<1>5. Interleaved \in Seq(Accepted)
  <2> DEFINE a == make_frame(1, 1, 0, Text(18))        b == make_frame(3, 1, 0, Text(18))
             c == make_frame(1, 2, 0, AckBytes(1, 6))  d == make_frame(3, 2, 0, AckBytes(3, 6))
             e == ContentOf(1, 14)  f == ContentOf(3, 14)
             g == EndOf(1)          h == EndOf(3)
  <2>1. /\ a \in Survivors /\ b \in Survivors /\ c \in Survivors /\ d \in Survivors
        /\ e \in Survivors /\ f \in Survivors /\ g \in Survivors /\ h \in Survivors
      BY <1>1, <1>2, SharedFrames, Zenon
  <2>2. Interleaved = <<ToServer(a), ToServer(b),
                        ToClient(c), ToClient(d),
                        ToClient(e), ToClient(f),
                        ToClient(g), ToClient(h)>>
      BY Zenon DEF Interleaved
  <2> HIDE DEF a, b, c, d, e, f, g, h
  <2>3. /\ ToServer(a) \in Accepted /\ ToServer(b) \in Accepted
        /\ ToClient(c) \in Accepted /\ ToClient(d) \in Accepted
        /\ ToClient(e) \in Accepted /\ ToClient(f) \in Accepted
        /\ ToClient(g) \in Accepted /\ ToClient(h) \in Accepted
      BY <2>1, Directed
  <2> QED BY <2>2, <2>3
<1> QED BY <1>3, <1>4, <1>5

\* The steps before the last scenario.
Opening == Happy \o PauseResume \o PauseError(1006, 8) \o PauseError(1009, 15)
           \o Steering \o Failover \o Interleaved

\* All of them are accepted.
LEMMA OpeningAccepted ==
    ASSUME FourBytes
    PROVE  Opening \in Seq(Accepted)
  BY HappySteps, PauseSteps, SteeredSteps, StepsJoined, SMT DEF Opening

\* The step after these.
LEMMA TeardownFrames ==
    ASSUME FourBytes
    PROVE  /\ decode_frame(Teardown[1].raw) = Violation /\ Teardown[1].to = "server"
           /\ Teardown[2] \in Accepted /\ Teardown[2].to = "client"
           /\ LET answer == decode_frame(Teardown[2].raw)
              IN  /\ Returns(answer)
                  /\ answer.value.header.opcode = Opcode.ERROR
                  /\ answer.value.header.stream_id = 0
                  /\ decode_error(answer.value.payload).value.code =
                         PROTOCOL_VIOLATION
           /\ Len(Teardown) = 2
<1> DEFINE p == Choice0(Text(8))
           raw == make_frame(1, 3, 8, p)
           code == 1008
           b == ErrorBytes(code, 0, 1, 18, 18)
           answer == make_frame(0, 9, 0, b)
<1>1. /\ Teardown[1] = ToServer(raw)
      /\ Teardown[2] = ToClient(answer)
      /\ Len(Teardown) = 2
    BY SMT DEF Teardown
<1>2. decode_frame(raw) = Violation
  <2>1. Fitting(1, 3, 8, p)
    <3>1. Choice0(Text(8)) \in IntactOf(3, 1)
        BY Fits, LettersIntact
    <3>2. p \in Seq(Octet) /\ Len(p) \in Nat /\ Len(p) <= MAX_PAYLOAD_SIZE
        BY <3>1, Zenon DEF IntactOf, Measured
    <3>3. p \in Seq(Octet) /\ Len(p) <= U16Max
        BY <3>2, Payloads1000, U16Nat
    <3> QED BY <3>3 DEF Fitting, Octet, U16Max
  <2>2. PICK h : h = Header(1, 3, 8, Len(p))
      OBVIOUS
  <2>3. Refused(h)
    <3>1. h.flags = 8
        BY <2>2 DEF Header
    <3>2. ReservedFlags(8)
        BY DEF ReservedFlags
    <3> QED BY <3>1, <3>2, Zenon DEF Refused
  <2>4. Made(raw, h, p)
      BY <2>1, <2>2, MadeFrame, Zenon
  <2> QED BY <2>3, <2>4, Zenon DEF Made, Yields
<1>3. code \in ErrorCodes /\ code = PROTOCOL_VIOLATION
    BY Codes, SMT DEF PROTOCOL_VIOLATION
<1> HIDE DEF p, raw, code
<1>4. /\ b \in IntactOf(9, 0) /\ decode_error(b).value.code = code
  <2>1. 0 \in Short /\ 18 \in Short /\ 1 \in 0..1
      BY Shorts
  <2> QED BY <1>3, <2>1, ErrorIntact, ZenonT(40)
<1>5. Addressed(0, 9, 0)
    BY AddressedAs
<1> HIDE DEF b
<1>6. answer \in Survivors
    BY <1>4, <1>5, MadeSurvives, Zenon
<1>7. PICK h : h = Header(0, 9, 0, Len(b))
    OBVIOUS
<1>8. decode_frame(answer) = Ok(Frame(h, b))
  <2>1. b \in Seq(Octet) /\ Measured(9, Len(b))
      BY <1>4, Zenon DEF IntactOf
  <2>2. Taken(answer, h, b)
      BY <1>5, <1>7, <2>1, MadeTaken, Zenon
  <2> QED BY <2>2, Zenon DEF Taken
<1> HIDE DEF answer
<1>9. /\ Returns(decode_frame(answer))
      /\ decode_frame(answer).value.header.opcode = 9
      /\ decode_frame(answer).value.header.stream_id = 0
      /\ decode_frame(answer).value.payload = b
    BY <1>7, <1>8 DEF Ok, Returns, Frame, Header
<1>10. /\ ToServer(raw).raw = raw /\ ToServer(raw).to = "server"
       /\ ToClient(answer).raw = answer
       /\ ToClient(answer).to = "client"
    BY DEF ToServer, ToClient
<1>11. ToClient(answer) \in Accepted
    BY <1>6, Directed
<1>12. Opcode.ERROR = 9
    BY DEF Opcode
<1> QED BY <1>1, <1>2, <1>3, <1>4, <1>9, <1>10, <1>11, <1>12, Zenon

\* Two elements behind others.
LEMMA TwoBehind ==
    ASSUME NEW S, NEW s \in Seq(S), NEW t \in Seq(S), Len(t) = 2
    PROVE  /\ Len(s \o t) = Len(s) + 2
           /\ \A j \in 1..Len(s) : (s \o t)[j] = s[j]
           /\ (s \o t)[Len(s) + 1] = t[1] /\ (s \o t)[Len(s) + 2] = t[2]
<1>1. PICK m \in Nat : m = Len(s)
    OBVIOUS
<1>2. PICK c : c = s \o t
    OBVIOUS
<1>3. Len(c) = m + 2 /\ \A i \in 1..(m + 2) : c[i] = IF i <= m THEN s[i] ELSE t[i - m]
  <2>1. /\ Len(s \o t) = Len(s) + Len(t)
        /\ \A i \in 1..(Len(s) + Len(t)) : (s \o t)[i] =
               IF i <= Len(s) THEN s[i] ELSE t[i - Len(s)]
      BY ConcatProperties, Zenon
  <2> QED BY <1>1, <1>2, <2>1, Zenon
<1>4. Len(s \o t) = Len(s) + 2
    BY <1>1, <1>2, <1>3, Zenon
<1>5. \A j \in 1..m : c[j] = s[j]
  <2>1. \A j \in 1..m : j \in 1..(m + 2) /\ j <= m
      OBVIOUS
  <2> QED BY <1>3, <2>1, Zenon
<1>6. /\ m + 1 \in 1..(m + 2) /\ ~(m + 1 <= m) /\ (m + 1) - m = 1
      /\ m + 2 \in 1..(m + 2) /\ ~(m + 2 <= m) /\ (m + 2) - m = 2
    OBVIOUS
<1>7. c[m + 1] = t[1] /\ c[m + 2] = t[2]
    BY <1>3, <1>6, Zenon
<1> QED BY <1>1, <1>2, <1>4, <1>5, <1>7, Zenon

\* A step is accepted, or is the last but one.
LEMMA StepsByPlace ==
    ASSUME FourBytes, NEW i \in Nat \ {0}, i <= Len(ScenarioSteps)
    PROVE  \/ ScenarioSteps[i] \in Accepted
           \/ /\ i < Len(ScenarioSteps)
              /\ ScenarioSteps[i] = Teardown[1]
              /\ ScenarioSteps[i + 1] = Teardown[2]
<1> DEFINE n == Len(Opening)
<1>1. ScenarioSteps = Opening \o Teardown
    BY ZenonT(40) DEF ScenarioSteps, Opening
<1>2. Opening \in Seq(Accepted) /\ n \in Nat
    BY OpeningAccepted
<1>3. Len(Teardown) = 2 /\ Teardown[2] \in Accepted
    BY TeardownFrames, Zenon
<1>4. PICK S : Teardown \in Seq(S) /\ Opening \in Seq(S)
  <2> DEFINE x == ToServer(make_frame(1, 3, 8, Choice0(Text(8))))
             y == ToClient(make_frame(0, 9, 0, ErrorBytes(1008, 0, 1, 18, 18)))
  <2>1. Teardown = <<x, y>>
      BY SMT DEF Teardown
  <2> HIDE DEF x, y
  <2>2. PICK S : Accepted \subseteq S /\ x \in S /\ y \in S
    <3>1. Accepted \subseteq Accepted \cup {x, y}
        OBVIOUS
    <3> QED BY <3>1
  <2>3. <<x, y>> \in Seq(S)
      BY <2>2
  <2>4. Opening \in Seq(S)
      BY <1>2, <2>2
  <2> QED BY <2>1, <2>3, <2>4, Zenon
<1>5. /\ Len(ScenarioSteps) = n + 2
      /\ \A j \in 1..n : ScenarioSteps[j] = Opening[j]
      /\ ScenarioSteps[n + 1] = Teardown[1] /\ ScenarioSteps[n + 2] = Teardown[2]
    BY <1>1, <1>3, <1>4, TwoBehind, ZenonT(40)
<1> HIDE DEF n
<1>6. CASE i \in 1..n
  <2>1. Opening[i] \in Accepted
      BY <1>2, <1>6 DEF n
  <2> QED BY <1>5, <1>6, <2>1
<1>7. CASE i = n + 1
    BY <1>2, <1>5, <1>7
<1>8. CASE i = n + 2
    BY <1>3, <1>5, <1>8
<1>9. i \in 1..n \/ i = n + 1 \/ i = n + 2
    BY <1>2, <1>5
<1> QED BY <1>6, <1>7, <1>8, <1>9

\* Every payload of the four manifests is what encoding its decoded form gives,
\* with numbers of four bytes in their full range, which TLC does not reach; the
\* run vectors shows it with smaller ones.
THEOREM PayloadsIntact ==
    ASSUME FourBytes
    PROVE  Spec => []PayloadsSurvive
<1>1. AtVector => PayloadsSurvive
  <2> SUFFICES ASSUME AtVector, phase # "invalid",
                      NEW raw \in {Current[i] : i \in DOMAIN Current},
                      Returns(decode_frame(raw))
               PROVE  Survivor(raw)
      BY Zenon DEF PayloadsSurvive, Survivor
  <2>1. \A r \in Survivors : Survivor(r)
      BY Zenon DEF Survivors
  <2>2. PICK i \in DOMAIN Current : raw = Current[i]
      OBVIOUS
  <2>3. vec \in Nat \ {0} /\ \A n \in Nat : vec <= n => vec \in 1..n
      BY DEF AtVector
  <2>4. CASE phase = "golden" /\ vec <= Len(Golden)
    <3>1. Golden[vec] \in Survivors
        BY <2>3, <2>4, GoldenSurvives
    <3>2. Current = <<Golden[vec]>>
        BY <2>4 DEF Current
    <3>3. raw = Golden[vec]
        BY <2>2, <3>2
    <3> QED BY <2>1, <3>1, <3>3, Zenon
  <2>5. CASE phase = "edge" /\ vec <= Len(Edge)
    <3>1. Edge[vec] \in Survivors
        BY <2>3, <2>5, EdgeSurvives
    <3>2. Current = <<Edge[vec]>>
        BY <2>5 DEF Current
    <3>3. raw = Edge[vec]
        BY <2>2, <3>2
    <3> QED BY <2>1, <3>1, <3>3, Zenon
  <2>6. CASE phase = "scenarios" /\ vec <= Len(ScenarioSteps)
    <3>1. Current = <<ScenarioSteps[vec].raw>>
        BY <2>6 DEF Current
    <3>2. raw = ScenarioSteps[vec].raw
        BY <2>2, <3>1
    <3>3. decode_frame(Teardown[1].raw) = Violation /\ ~Returns(Violation)
      <4>1. ~Returns(Violation)
          BY DEF Returns, Violation, Raise
      <4> QED BY <4>1, TeardownFrames, Zenon
    <3>4. ScenarioSteps[vec] \in Accepted
        BY <2>3, <2>6, <3>2, <3>3, StepsByPlace, Zenon
    <3>5. raw \in Survivors
        BY <3>2, <3>4 DEF Accepted
    <3> QED BY <2>1, <3>5, Zenon
  <2>7. CASE /\ ~(phase = "golden" /\ vec <= Len(Golden))
             /\ ~(phase = "edge" /\ vec <= Len(Edge))
             /\ ~(phase = "scenarios" /\ vec <= Len(ScenarioSteps))
    <3>1. Current = <<>>
        BY <2>7, Zenon DEF Current
    <3> QED BY <2>2, <3>1
  <2> QED BY <2>4, <2>5, <2>6, <2>7
<1> QED BY <1>1, AlwaysAtVector, PTL

\* The only step that decode_frame refuses is one of the client, and the step
\* behind it is the ERROR of the connection, with PROTOCOL_VIOLATION.
THEOREM RefusalAnswered ==
    ASSUME FourBytes
    PROVE  Spec => []RefusedStepAnswered
<1>1. AtVector => RefusedStepAnswered
  <2> SUFFICES ASSUME AtVector, phase = "scenarios", vec <= Len(ScenarioSteps),
                      ~Returns(decode_frame(ScenarioSteps[vec].raw))
               PROVE  RefusedStepAnswered
      BY Zenon DEF RefusedStepAnswered
  <2>1. ScenarioSteps[vec] \notin Accepted
    <3>1. \A step \in Accepted : step.raw \in Survivors
        BY DEF Accepted
    <3>2. \A r \in Survivors : Returns(decode_frame(r))
        BY Zenon DEF Survivors, Survivor
    <3> QED BY <3>1, <3>2, Zenon
  <2>2. /\ vec < Len(ScenarioSteps)
        /\ ScenarioSteps[vec] = Teardown[1] /\ ScenarioSteps[vec + 1] = Teardown[2]
      BY <2>1, StepsByPlace, Zenon DEF AtVector
  <2> QED BY <2>2, TeardownFrames, Zenon DEF RefusedStepAnswered
<1> QED BY <1>1, AlwaysAtVector, PTL

------------------------------------------------------------------------------
(* The invalid vectors *)

\* Frames that are refused with the error the runner expects.
Refusals == {raw \in Seq(Octet) : RefusedAsExpected(raw) = "running"}

\* Those that decode_frame refuses are among them.
LEMMA FrameRefusals ==
    ASSUME NEW raw \in Seq(Octet), decode_frame(raw) = Violation
    PROVE  raw \in Refusals
<1>1. ~Returns(Violation)
    BY DEF Returns, Violation, Raise
<1> QED BY <1>1 DEF RefusedAsExpected, Refusals

\* So are those whose payload is, of the three opcodes the runner decodes.
LEMMA PayloadRefusals ==
    ASSUME FourBytes, NEW op \in {6, 9, 14}, NEW b \in Seq(Octet),
           Measured(op, Len(b)), Decoded(op, b) = Violation
    PROVE  make_frame(1, op, 0, b) \in Refusals
<1>1. PICK raw, h : raw = make_frame(1, op, 0, b) /\ h = Header(1, op, 0, Len(b))
    BY Zenon
<1>2. Addressed(1, op, 0)
  <2>1. 1 \in {1, 3, 5} /\ op \in 1..14 /\ 0 \in {0, 1}
      OBVIOUS
  <2> QED BY <2>1, AddressedAs, Zenon
<1>3. Taken(raw, h, b)
    BY <1>1, <1>2, MadeTaken, Zenon
<1>4. /\ Returns(decode_frame(raw)) /\ decode_frame(raw).value = Frame(h, b)
      /\ raw \in Seq(Octet)
    BY <1>3 DEF Taken, Ok, Returns
<1>5. PayloadCheck(Frame(h, b)) = Decoded(op, b)
  <2>1. Frame(h, b).payload = b /\ Frame(h, b).header.opcode = op
      BY <1>1 DEF Frame, Header
  <2>2. CASE op = 6
      BY <2>1, <2>2, DecodedAs DEF PayloadCheck, Opcode
  <2>3. CASE op = 9
      BY <2>1, <2>3, DecodedAs DEF PayloadCheck, Opcode
  <2>4. CASE op = 14
      BY <2>1, <2>4, DecodedAs DEF PayloadCheck, Opcode
  <2> QED BY <2>2, <2>3, <2>4
<1>6. ~Returns(Violation)
    BY DEF Returns, Violation, Raise
<1>7. RefusedAsExpected(raw) = "running"
    BY <1>4, <1>5, <1>6 DEF RefusedAsExpected
<1> QED BY <1>1, <1>4, <1>7, Zenon DEF Refusals

\* What the headers of most invalid vectors are refused for.
Odd(stream_id, opcode, flags, n) ==
    /\ stream_id \in {0, 1} /\ opcode \in 0..47 /\ flags \in {0, 1, 2, 4, 128}
    /\ n \in Short
    /\ \/ flags \in {2, 4, 128}
       \/ opcode \in {0, 32, 47}
       \/ stream_id = 0 /\ opcode = 3
       \/ stream_id = 1 /\ opcode = 15
       \/ n \notin FixedLength(opcode)

\* They are refused.
LEMMA OddRefused ==
    ASSUME NEW stream_id, NEW opcode, NEW flags, NEW n, Odd(stream_id, opcode, flags, n),
           NEW h, h = Header(stream_id, opcode, flags, n)
    PROVE  Refused(h)
<1>1. h.stream_id = stream_id /\ h.opcode = opcode /\ h.flags = flags /\ h.length = n
    BY DEF Header
<1>2. CASE flags \in {2, 4, 128}
  <2>1. ReservedFlags(2) /\ ReservedFlags(4) /\ ReservedFlags(128)
      BY DEF ReservedFlags
  <2>2. ReservedFlags(h.flags)
      BY <1>1, <1>2, <2>1
  <2> QED BY <2>2, Zenon DEF Refused
<1>3. CASE opcode \in {0, 32, 47}
  <2>1. h.opcode \notin Opcodes /\ h.opcode <= 47
      BY <1>1, <1>3 DEF Opcodes
  <2> QED BY <2>1, Zenon DEF Refused
<1>4. CASE stream_id = 0 /\ opcode = 3
  <2>1. h.stream_id = 0 /\ h.opcode \notin ConnectionOnly \cup {Opcode.ERROR}
      BY <1>1, <1>4 DEF ConnectionOnly, Opcode
  <2> QED BY <2>1, Zenon DEF Refused
<1>5. CASE stream_id = 1 /\ opcode = 15
  <2>1. h.stream_id # 0 /\ h.opcode \in ConnectionOnly
      BY <1>1, <1>5 DEF ConnectionOnly, Opcode
  <2> QED BY <2>1, Zenon DEF Refused
<1>6. CASE n \notin FixedLength(opcode)
    BY <1>1, <1>6, Zenon DEF Refused
<1> QED BY <1>2, <1>3, <1>4, <1>5, <1>6 DEF Odd

\* And so are the frames.
LEMMA OddFrame ==
    ASSUME FourBytes, NEW stream_id, NEW opcode, NEW flags, NEW n,
           Odd(stream_id, opcode, flags, n), NEW b, Sized(b, n)
    PROVE  make_frame(stream_id, opcode, flags, b) \in Refusals
<1>1. Fitting(stream_id, opcode, flags, b)
  <2>1. n \in Nat /\ n \in 0..U16Max
      BY Numbers DEF Odd
  <2>2. b \in Seq(Octet) /\ Len(b) <= U16Max
      BY <2>1 DEF Sized
  <2>3. stream_id \in Nat /\ stream_id <= U16Max
      BY Numbers DEF Odd
  <2>4. opcode \in Octet /\ flags \in Octet
      BY DEF Odd, Octet
  <2> QED BY <2>2, <2>3, <2>4, Zenon DEF Fitting
<1>2. PICK raw, h : /\ raw = make_frame(stream_id, opcode, flags, b)
                    /\ h = Header(stream_id, opcode, flags, Len(b))
    BY Zenon
<1>3. Made(raw, h, b)
    BY <1>1, <1>2, MadeFrame, Zenon
<1>4. Refused(h)
    BY <1>2, OddRefused, Zenon DEF Sized
<1>5. raw \in Seq(Octet) /\ decode_frame(raw) = Violation
    BY <1>3, <1>4, Zenon DEF Made, Yields
<1> QED BY <1>2, <1>5, FrameRefusals, Zenon

\* The headers of the vectors.
LEMMA OddHeaders ==
    /\ Odd(1, 3, 2, 5) /\ Odd(1, 3, 4, 5) /\ Odd(1, 3, 128, 5) /\ Odd(0, 3, 1, 5)
    /\ Odd(1, 0, 0, 0) /\ Odd(1, 32, 0, 4) /\ Odd(1, 47, 0, 4)
    /\ Odd(1, 15, 0, 18) /\ Odd(0, 15, 0, 17)
    /\ Odd(1, 6, 0, 19) /\ Odd(1, 7, 0, 19)
    /\ Odd(1, 10, 0, 13) /\ Odd(1, 11, 0, 9) /\ Odd(1, 12, 0, 10)
<1>1. /\ 0 \in Short /\ 4 \in Short /\ 5 \in Short /\ 9 \in Short /\ 10 \in Short
      /\ 13 \in Short /\ 17 \in Short /\ 18 \in Short /\ 19 \in Short
    BY Shorts
<1>2. Odd(1, 3, 2, 5) /\ Odd(1, 3, 4, 5) /\ Odd(1, 3, 128, 5) /\ Odd(0, 3, 1, 5)
    BY <1>1 DEF Odd
<1>3. Odd(1, 0, 0, 0) /\ Odd(1, 32, 0, 4) /\ Odd(1, 47, 0, 4) /\ Odd(1, 15, 0, 18)
    BY <1>1 DEF Odd
<1>4. /\ 17 \notin FixedLength(15) /\ 19 \notin FixedLength(6)
      /\ 19 \notin FixedLength(7) /\ 13 \notin FixedLength(10)
      /\ 9 \notin FixedLength(11) /\ 10 \notin FixedLength(12)
    BY FixedLengths
<1>5. Odd(0, 15, 0, 17) /\ Odd(1, 6, 0, 19) /\ Odd(1, 7, 0, 19)
    BY <1>1, <1>4 DEF Odd
<1>6. Odd(1, 10, 0, 13) /\ Odd(1, 11, 0, 9) /\ Odd(1, 12, 0, 10)
    BY <1>1, <1>4 DEF Odd
<1> QED BY <1>2, <1>3, <1>5, <1>6

\* A frame longer than any, by its header.
LEMMA LongRefused ==
    ASSUME FourBytes
    PROVE  make_header(1, 3, 1, 65528) \o Zeros(10) \in Refusals
<1> DEFINE length == 65528
           rest == Zeros(10)
           raw == make_header(1, 3, 1, length) \o rest
<1>1. length \in 0..U16Max /\ length > MAX_PAYLOAD_SIZE
    BY SMTT(30) DEF U16Max, MAX_PAYLOAD_SIZE
<1>2. Sized(rest, 10)
    BY DEF Sized, Zeros, Octet
<1> HIDE DEF length, rest
<1>3. PICK h : h = Header(1, 3, 1, length)
    OBVIOUS
<1>4. h.stream_id = 1 /\ h.opcode = 3 /\ h.flags = 1 /\ h.length = length
    BY <1>3 DEF Header
<1>5. raw = HeaderBytes(h) \o rest
    BY <1>4, Zenon DEF make_header, HeaderBytes
<1>6. Unpackable(h)
  <2>1. 1 \in Nat /\ 1 <= U32Max /\ 3 \in Octet /\ 1 \in Octet
      BY U32Assumption, U16Nat, Numbers DEF Octet
  <2> QED BY <1>1, <1>3, <2>1, Zenon DEF Unpackable
<1>7. /\ HeaderBytes(h) \in Seq(Octet) /\ Len(HeaderBytes(h)) = 8
      /\ HeaderOf(raw) = h /\ rest \in Seq(Octet)
  <2>1. rest \in Seq(Octet)
      BY <1>2 DEF Sized
  <2> QED BY <1>5, <1>6, <2>1, Unpacked, Zenon
<1>8. raw \in Seq(Octet) /\ ~(Len(raw) < HEADER_SIZE)
  <2>1. raw \in Seq(Octet) /\ Len(raw) = 8 + Len(rest) /\ Len(rest) \in Nat
    <3>1. Len(rest) \in Nat
        BY <1>7
    <3>2. PICK front : front = HeaderBytes(h)
        OBVIOUS
    <3>3. front \in Seq(Octet) /\ Len(front) = 8 /\ rest \in Seq(Octet)
        BY <1>7, <3>2, Zenon
    <3>4. front \o rest \in Seq(Octet) /\ Len(front \o rest) = 8 + Len(rest)
        BY <3>3, HeaderInFront
    <3>5. raw = front \o rest
        BY <1>5, <3>2, Zenon
    <3> HIDE DEF raw
    <3> QED BY <3>1, <3>4, <3>5, Zenon
  <2> HIDE DEF raw
  <2> QED BY <2>1 DEF HEADER_SIZE
<1> HIDE DEF raw
<1>9. Refused(h)
    BY <1>1, <1>4, Zenon DEF Refused
<1>10. decode_frame(raw) = Violation
  <2>1. decode_header(raw) = Violation /\ ~Returns(Violation)
    <3>1. ~Returns(Violation)
        BY DEF Returns, Violation, Raise
    <3> QED BY <1>7, <1>8, <1>9, <3>1, Zenon DEF decode_header, HeaderOf
  <2> QED BY <2>1, Zenon DEF decode_frame
<1>11. raw \in Refusals
    BY <1>8, <1>10, FrameRefusals, Zenon
<1> QED BY <1>11, SMT DEF raw, length, rest

\* Payloads that do not keep what they say, or use what is reserved.
LEMMA PayloadsRefused ==
    ASSUME FourBytes
    PROVE  /\ make_frame(1, 9, 0, ErrorBytes(1001, 400, 0, 20, 5)) \in Refusals
           /\ make_frame(1, 6, 0, UsageBytes(10, 10, 0, 1, 255)) \in Refusals
           /\ make_frame(1, 14, 0, RewindBytes(3, 65535, 10)) \in Refusals
<1>1. make_frame(1, 9, 0, ErrorBytes(1001, 400, 0, 20, 5)) \in Refusals
  <2> DEFINE code == 1001
             b == ErrorBytes(code, 400, 0, 20, 5)
  <2>1. code \in ErrorCodes
      BY Codes, SMT
  <2> HIDE DEF code
  <2>2. 400 \in Short /\ 20 \in Short /\ 5 \in Short /\ 0 \in 0..1
      BY Shorts
  <2>3. ErrorRead(b, code, 0, 20, 5)
      BY <2>1, <2>2, ErrorFields, ZenonT(40)
  <2> HIDE DEF b
  <2>4. b \in Seq(Octet) /\ Len(b) = 13 /\ U16(b, 7) = 20
      BY <2>3 DEF ErrorRead
  <2>5. decode_error(b) = Violation
      BY <2>4 DEF decode_error
  <2>6. Measured(9, Len(b))
    <3>1. 13 <= MAX_PAYLOAD_SIZE
        BY Payloads1000
    <3> QED BY <2>4, <3>1, MeasuredAs
  <2>7. Decoded(9, b) = Violation
      BY <2>5, DecodedAs
  <2>8. make_frame(1, 9, 0, b) \in Refusals
      BY <2>4, <2>6, <2>7, PayloadRefusals
  <2> QED BY <2>8, SMT DEF b, code
<1>2. make_frame(1, 6, 0, UsageBytes(10, 10, 0, 1, 255)) \in Refusals
  <2> DEFINE b == UsageBytes(10, 10, 0, 1, 255)
  <2>1. /\ 10 \in 0..U32Max /\ 0 \in 0..U32Max /\ 10 + 10 <= U32Max
        /\ 1 \in Octet /\ 255 \in Octet
      BY Fields DEF Octet
  <2>2. UsageRead(b, 255)
      BY <2>1, UsageFields, Zenon
  <2> HIDE DEF b
  <2>3. b \in Seq(Octet) /\ Len(b) = 20 /\ b[18] = 255
      BY <2>2 DEF UsageRead, Sized
  <2>4. decode_usage(b) = Violation
      BY <2>3 DEF decode_usage
  <2>5. Decoded(6, b) = Violation /\ Measured(6, Len(b))
      BY <2>3, <2>4, DecodedAs, MeasuredAs
  <2>6. make_frame(1, 6, 0, b) \in Refusals
    <3>1. 6 \in {6, 9, 14}
        OBVIOUS
    <3> QED BY <2>3, <2>5, <3>1, PayloadRefusals, ZenonT(40)
  <2> QED BY <2>6 DEF b
<1>3. make_frame(1, 14, 0, RewindBytes(3, 65535, 10)) \in Refusals
  <2> DEFINE reserved == 65535
             b == RewindBytes(3, reserved, 10)
  <2>1. reserved \in 0..U16Max /\ reserved # 0
      BY Fields, SMT
  <2> HIDE DEF reserved
  <2>2. 3 \in 1..17 /\ 10 \in 0..U32Max
      BY Fields
  <2>3. Sized(b, 8) /\ U16(b, 3) = reserved
      BY <2>1, <2>2, RewindFields
  <2> HIDE DEF b
  <2>4. b \in Seq(Octet) /\ Len(b) = 8
      BY <2>3 DEF Sized
  <2>5. decode_rewind(b) = Violation
      BY <2>1, <2>3, <2>4 DEF decode_rewind
  <2>6. Decoded(14, b) = Violation /\ Measured(14, Len(b))
      BY <2>4, <2>5, DecodedAs, MeasuredAs
  <2>7. make_frame(1, 14, 0, b) \in Refusals
      BY <2>4, <2>6, PayloadRefusals
  <2> QED BY <2>7, SMT DEF b, reserved
<1> QED BY <1>1, <1>2, <1>3, SMT

\* All invalid vectors.
LEMMA InvalidRefused ==
    ASSUME FourBytes
    PROVE  Invalid \in Seq(Refusals)
<1>1. Sized(Text(4), 4) /\ Sized(Text(13), 13) /\ Sized(Text(9), 9) /\ Sized(Text(10), 10)
    BY Words DEF Wording, Sized
<1>2. Sized(Choice0(Text(4)), 5)
  <2>1. Sized(<<0>>, 1)
      BY DEF Sized, Octet
  <2>2. Sized(<<0>> \o Text(4), 1 + 4)
      BY <1>1, <2>1, SizedJoin, Zenon
  <2>3. 1 + 4 = 5
      OBVIOUS
  <2> QED BY <2>2, <2>3, Zenon DEF Choice0
<1>3. /\ Sized(<<>>, 0) /\ Sized(Zeros(19), 19)
      /\ Sized([i \in 1..17 |-> 1], 17)
    BY DEF Sized, Zeros, Octet
<1>4. Sized(DefaultSettings, 18)
  <2>1. DefaultSettings \in Seq(Octet) /\ Len(DefaultSettings) = 18
      BY DefaultIntact, FixedLengths, Zenon DEF IntactOf, Measured
  <2> QED BY <2>1 DEF Sized
<1> DEFINE a == make_header(1, 3, 1, 65528) \o Zeros(10)
           b == make_frame(1, 3, 2, Choice0(Text(4)))
           c == make_frame(1, 3, 4, Choice0(Text(4)))
           d == make_frame(1, 3, 128, Choice0(Text(4)))
           e == make_frame(1, 0, 0, <<>>)
           f == make_frame(1, 32, 0, Text(4))
           g == make_frame(1, 47, 0, Text(4))
           h == make_frame(0, 3, 1, Choice0(Text(4)))
           j == make_frame(1, 15, 0, DefaultSettings)
           k == make_frame(0, 15, 0, [i \in 1..17 |-> 1])
           l == make_frame(1, 6, 0, Zeros(19))
           m == make_frame(1, 7, 0, Zeros(19))
           n == make_frame(1, 10, 0, Text(13))
           o == make_frame(1, 11, 0, Text(9))
           p == make_frame(1, 12, 0, Text(10))
           q == make_frame(1, 9, 0, ErrorBytes(1001, 400, 0, 20, 5))
           r == make_frame(1, 6, 0, UsageBytes(10, 10, 0, 1, 255))
           s == make_frame(1, 14, 0, RewindBytes(3, 65535, 10))
<1>5. a \in Refusals /\ q \in Refusals /\ r \in Refusals /\ s \in Refusals
    BY LongRefused, PayloadsRefused, SMT
<1>6. /\ b \in Refusals /\ c \in Refusals /\ d \in Refusals /\ h \in Refusals
    BY <1>2, OddHeaders, OddFrame, Zenon
<1>7. e \in Refusals /\ f \in Refusals /\ g \in Refusals
    BY <1>1, <1>3, OddHeaders, OddFrame, Zenon
<1>8. j \in Refusals /\ k \in Refusals /\ l \in Refusals /\ m \in Refusals
    BY <1>3, <1>4, OddHeaders, OddFrame, Zenon
<1>9. n \in Refusals /\ o \in Refusals /\ p \in Refusals
    BY <1>1, OddHeaders, OddFrame, Zenon
<1>10. Invalid = <<a, b, c, d, e, f, g, h, j, k, l, m, n, o, p, q, r, s>>
    BY SMT DEF Invalid
<1> HIDE DEF a, b, c, d, e, f, g, h, j, k, l, m, n, o, p, q, r, s
<1> QED BY <1>5, <1>6, <1>7, <1>8, <1>9, <1>10

------------------------------------------------------------------------------
(* The outcome of the suite *)

\* No vector fails and none raises what the runner does not expect, with numbers
\* of four bytes in their full range: the golden and the edge vectors are encoded
\* to the bytes they were, the invalid ones are refused with PROTOCOL_VIOLATION,
\* and the steps are accepted or refused with that.
THEOREM NothingFails ==
    ASSUME FourBytes
    PROVE  Spec => [](verdict \in {"running", "validated"})
<1> DEFINE Passing == verdict \in {"running", "validated"}
<1>1. Init => Passing
    BY DEF Init
<1>2. AtVector /\ Passing /\ [Next]_vars => Passing'
  <2> SUFFICES ASSUME AtVector, Passing, [Next]_vars
               PROVE  Passing'
      OBVIOUS
  <2>1. \A raw \in Survivors : Reencoded(raw) = "running" /\ Returns(decode_frame(raw))
      BY Zenon DEF Survivors, Survivor, Reencoded
  <2>2. \A manifest : Tested(manifest, "running") => Passing'
      BY DEF Tested
  <2>3. \A n \in Nat : vec <= n => vec \in 1..n
      BY DEF AtVector
  <2>4. CASE TestGolden
    <3>1. Golden[vec] \in Survivors
        BY <2>3, <2>4, GoldenSurvives DEF TestGolden
    <3> QED BY <2>1, <2>2, <2>4, <3>1, Zenon DEF TestGolden
  <2>5. CASE TestInvalid
    <3>1. Invalid[vec] \in Refusals
        BY <2>3, <2>5, InvalidRefused DEF TestInvalid
    <3>2. RefusedAsExpected(Invalid[vec]) = "running"
        BY <3>1, Zenon DEF Refusals
    <3> QED BY <2>2, <2>5, <3>2, Zenon DEF TestInvalid
  <2>6. CASE TestEdge
    <3>1. Edge[vec] \in Survivors
        BY <2>3, <2>6, EdgeSurvives DEF TestEdge
    <3> QED BY <2>1, <2>2, <2>6, <3>1, Zenon DEF TestEdge
  <2>7. CASE TestStep
    <3>1. \/ ScenarioSteps[vec] \in Accepted
          \/ ScenarioSteps[vec] = Teardown[1]
        BY <2>7, StepsByPlace, Zenon DEF TestStep, AtVector
    <3>2. \A step \in Accepted : step.raw \in Survivors
        BY DEF Accepted
    <3>3. \/ Returns(decode_frame(ScenarioSteps[vec].raw))
          \/ decode_frame(ScenarioSteps[vec].raw) = Violation
        BY <2>1, <3>1, <3>2, TeardownFrames, Zenon
    <3>4. Tested("scenarios", "running")
        BY <2>7, <3>3, Zenon DEF TestStep
    <3> QED BY <2>2, <3>4, Zenon
  <2>8. CASE OpenManifest
      BY <2>8 DEF OpenManifest, Opened
  <2>9. CASE UNCHANGED vars
      BY <2>9 DEF vars
  <2> QED BY <2>4, <2>5, <2>6, <2>7, <2>8, <2>9 DEF Next
<1> QED BY <1>1, <1>2, AlwaysAtVector, PTL DEF Spec

==============================================================================
