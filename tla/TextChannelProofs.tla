-------------------------- MODULE TextChannelProofs --------------------------
(***************************************************************************)
(* The text channel, for all texts and all ways of cutting them: under a   *)
(* gateway that rewinds over ASCII only and never from within a character, *)
(* the client loses nothing, shows nothing it should not, and implements   *)
(* ByteChannel.  The inductive invariant adds to the properties of         *)
(* TextChannel what the frames in flight may say (InFlightOK).             *)
(***************************************************************************)
EXTENDS TextChannel, Utf8AssemblerProofs

PlainRewinds == ~MultibyteRewinds /\ ~UnsettledRewinds

\* What the frames in flight may say: what the gateway means a channel to hold
\* is the beginning of a text, it is closed where the BOUNDARY flag claims so,
\* and a REWIND comes between two characters and goes back over ASCII.
InFlightOK ==
    \A i \in 1..Len(wire) :
        /\ Partial(wire[i].after)
        /\ NoBom(wire[i].after)
        /\ wire[i].boundary \/ wire[i].op = "REWIND" => WellFormed(wire[i].after)
        /\ wire[i].op = "REWIND" =>
              /\ WellFormed(Before(i))
              /\ wire[i].offset \in 0..Len(Before(i))
              /\ AllAscii(Before(i), wire[i].offset)

IInv == TypeOK /\ RenderedPromptly /\ NothingLost /\ InFlightOK

------------------------------------------------------------------------------
(* The steps of the gateway put another frame behind the ones in flight. *)

\* Nothing is in flight and nothing is shown when a session starts.
LEMMA InitInv == Init => IInv
<1> SUFFICES ASSUME Init PROVE IInv
  OBVIOUS
<1>1. /\ doc \in Seq(Byte) /\ doc \in Texts
      /\ SubSeq(doc, 1, sent) = <<>>
  BY TextsAssumption DEF Init, GatewayInit
<1>2. TypeOK
  BY <1>1, BoundsAssumption DEF Init, GatewayInit, TypeOK, GatewayTypeOK
<1>3. RenderedPromptly
  BY DEF Init, RenderedPromptly, WellFormed, Partial, Closed
<1>4. NothingLost /\ InFlightOK
  BY <1>1 DEF Init, GatewayInit, NothingLost, InFlightOK, Received, Sent
<1> QED BY <1>2, <1>3, <1>4 DEF IInv

\* What the gateway has sent is the beginning of a text of its choice.
LEMMA PrefixOfText ==
    ASSUME NEW t \in Texts, NEW m \in 0..Len(t)
    PROVE  /\ t \in Seq(Byte)
           /\ SubSeq(t, 1, m) \in Seq(Byte)
           /\ Len(SubSeq(t, 1, m)) = m
           /\ Partial(SubSeq(t, 1, m))
           /\ NoBom(SubSeq(t, 1, m))
<1>1. t \in Seq(Byte) /\ Partial(t) /\ NoBom(t)
  BY TextsAssumption DEF WellFormed
<1>2. /\ SubSeq(t, 1, m) \in Seq(Byte)
      /\ Len(SubSeq(t, 1, m)) = m
      /\ \A i \in 1..m : SubSeq(t, 1, m)[i] = t[i]
  BY <1>1
<1>3. NoBom(SubSeq(t, 1, m))
  BY <1>1, <1>2 DEF NoBom, BomAt
<1> QED BY <1>1, <1>2, <1>3, PrefixPartial

\* A frame that continues what was sent so far keeps the invariant.
LEMMA AppendKeepsInv ==
    ASSUME IInv, NEW f \in Frame,
           wire' = Append(wire, f),
           UNCHANGED <<contentAccumulator, pendingBytes>>,
           GatewayTypeOK',
           f.after = Sent',
           f.after = IF f.op = "CONTENT" THEN Sent \o f.data
                                         ELSE SubSeq(Sent, 1, f.offset),
           Partial(f.after), NoBom(f.after),
           f.boundary \/ f.op = "REWIND" => WellFormed(f.after),
           f.op = "REWIND" => /\ WellFormed(Sent)
                              /\ f.offset \in 0..Len(Sent)
                              /\ AllAscii(Sent, f.offset)
    PROVE  IInv'
<1> USE DEF IInv
<1>0. PICK n \in Nat : n = Len(wire)
  BY DEF TypeOK, GatewayTypeOK
<1>1. wire \in Seq(Frame) /\ n = Len(wire)
  BY <1>0 DEF TypeOK, GatewayTypeOK
<1>2. /\ Len(wire') = n + 1
      /\ \A i \in 1..n : wire'[i] = wire[i]
      /\ wire'[n + 1] = f
      /\ wire' # <<>>
  BY <1>1
<1>3. Received' = Received
  BY DEF Received
<1>4. \A i \in 1..n : Before(i)' = Before(i)
  BY <1>1, <1>2, <1>3 DEF Before
<1>5. ASSUME NEW i \in Nat, i = n + 1
      PROVE  Before(i)' = Sent
  <2>1. CASE wire = <<>>
    <3>1. n = 0
      BY <1>1, <2>1
    <3>2. i = 1
      BY <1>5, <3>1
    <3> QED BY <1>3, <2>1, <3>2 DEF NothingLost, Before
  <2>2. CASE wire # <<>>
    <3>1. n \in 1..n /\ i - 1 = n /\ i # 1
      BY <1>1, <1>5, <2>2
    <3>2. wire[n].after = Sent
      BY <1>1, <2>2 DEF NothingLost
    <3>3. wire'[i - 1] = wire[n]
      BY <1>2, <3>1
    <3>4. Before(i)' = wire'[i - 1].after
      BY <3>1 DEF Before
    <3> QED BY <3>2, <3>3, <3>4
  <2> QED BY <2>1, <2>2
<1>6. TypeOK'
  BY DEF TypeOK
<1>7. RenderedPromptly'
  BY DEF RenderedPromptly
<1>8. NothingLost'
  <2>1. ASSUME NEW i \in 1..Len(wire')
        PROVE  wire'[i].after = IF wire'[i].op = "CONTENT"
                                THEN Before(i)' \o wire'[i].data
                                ELSE SubSeq(Before(i)', 1, wire'[i].offset)
    <3>1. CASE i = n + 1
      BY <1>2, <1>5, <3>1
    <3>2. CASE i # n + 1
      <4>1. i \in 1..n
        BY <1>1, <1>2, <3>2
      <4> QED BY <1>1, <1>2, <1>4, <4>1 DEF NothingLost
    <3> QED BY <3>1, <3>2
  <2>2. wire'[Len(wire')].after = Sent'
    BY <1>2
  <2> QED BY <1>2, <2>1, <2>2 DEF NothingLost
<1>9. InFlightOK'
  <2> SUFFICES ASSUME NEW i \in 1..Len(wire')
               PROVE  /\ Partial(wire'[i].after)
                      /\ NoBom(wire'[i].after)
                      /\ wire'[i].boundary \/ wire'[i].op = "REWIND"
                            => WellFormed(wire'[i].after)
                      /\ wire'[i].op = "REWIND" =>
                            /\ WellFormed(Before(i)')
                            /\ wire'[i].offset \in 0..Len(Before(i)')
                            /\ AllAscii(Before(i)', wire'[i].offset)
    BY DEF InFlightOK
  <2>1. CASE i = n + 1
    BY <1>2, <1>5, <2>1
  <2>2. CASE i # n + 1
    <3>1. i \in 1..n
      BY <1>1, <1>2, <2>2
    <3> QED BY <1>1, <1>2, <1>4, <3>1 DEF InFlightOK
  <2> QED BY <2>1, <2>2
<1> QED BY <1>6, <1>7, <1>8, <1>9

\* A CONTENT frame cut at any byte keeps the invariant.
LEMMA SendKeepsInv ==
    ASSUME IInv, NEW n \in 0..(Len(doc) - sent), NEW boundary \in BOOLEAN,
           Send(n, boundary), UNCHANGED <<contentAccumulator, pendingBytes>>
    PROVE  IInv'
<1> DEFINE after == SubSeq(doc, 1, sent + n)
           part  == SubSeq(doc, sent + 1, sent + n)
           f     == Content(boundary, part, after)
<1>1. /\ doc \in Texts /\ doc \in Seq(Byte)
      /\ sent \in 0..Len(doc) /\ sent + n \in 0..Len(doc) /\ sent <= sent + n
      /\ rewinds \in 0..MaxRewinds /\ wire \in Seq(Frame)
  BY TextsAssumption DEF IInv, TypeOK, GatewayTypeOK
<1>2. /\ after \in Seq(Byte) /\ Partial(after) /\ NoBom(after)
      /\ Sent' = after
      /\ wire' = Append(wire, f)
      /\ boundary => WellFormed(after)
      /\ sent' = sent + n /\ UNCHANGED <<doc, rewinds>>
  BY <1>1, PrefixOfText DEF Send, Sent
<1>3. part \in Seq(Byte)
  BY <1>1, SubSeqAt
<1>4. after = Sent \o part
  BY <1>1, AdjacentParts DEF Sent
<1> HIDE DEF after, part
<1>5. /\ f \in Frame
      /\ f.op = "CONTENT" /\ f.data = part /\ f.after = after
      /\ f.boundary = boundary
  BY <1>2, <1>3 DEF Frame, Content
<1> HIDE DEF f
<1>6. GatewayTypeOK'
  BY <1>1, <1>2, <1>5 DEF GatewayTypeOK
<1> QED BY <1>2, <1>4, <1>5, <1>6, AppendKeepsInv

\* So does a failover to another text that agrees up to the offset.
LEMMA RewindKeepsInv ==
    ASSUME PlainRewinds, IInv, NEW k \in 0..sent, NEW t \in Texts,
           Rewind(k, t), UNCHANGED <<contentAccumulator, pendingBytes>>
    PROVE  IInv'
<1> DEFINE after == SubSeq(doc, 1, k)
           f     == RewindTo(k, after)
<1>1. /\ doc \in Texts /\ doc \in Seq(Byte)
      /\ sent \in 0..Len(doc) /\ k \in 0..Len(doc) /\ k \in 0..Len(t)
      /\ rewinds \in 0..MaxRewinds /\ wire \in Seq(Frame)
      /\ t \in Seq(Byte)
  BY TextsAssumption DEF IInv, TypeOK, GatewayTypeOK, Rewind
<1>2. /\ after \in Seq(Byte) /\ Partial(after) /\ NoBom(after)
      /\ WellFormed(after) /\ AllAscii(after, k)
      /\ Sent' = after
      /\ wire' = Append(wire, f)
      /\ sent' = k /\ doc' = t /\ rewinds' = rewinds + 1 /\ rewinds < MaxRewinds
      /\ WellFormed(Sent)
  BY <1>1, PrefixOfText DEF Rewind, Sent, PlainRewinds
<1>3. /\ Len(Sent) = sent /\ Sent \in Seq(Byte)
      /\ SubSeq(Sent, 1, k) = after
      /\ AllAscii(Sent, k)
  <2>1. /\ Len(Sent) = sent /\ Sent \in Seq(Byte)
        /\ SubSeq(Sent, 1, k) = after
    BY <1>1 DEF Sent
  <2>2. \A i \in 1..k : Sent[i] = after[i]
    BY <1>1 DEF Sent
  <2> QED BY <1>2, <2>1, <2>2 DEF AllAscii
<1> HIDE DEF after
<1>4. /\ f \in Frame
      /\ f.op = "REWIND" /\ f.offset = k /\ f.after = after
  BY <1>1, <1>2 DEF Frame, RewindTo
<1> HIDE DEF f
<1>5. GatewayTypeOK'
  BY <1>1, <1>2, <1>4, BoundsAssumption DEF GatewayTypeOK
<1>6. f.offset \in 0..Len(Sent)
  BY <1>3, <1>4
<1> QED BY <1>2, <1>3, <1>4, <1>5, <1>6, AppendKeepsInv

------------------------------------------------------------------------------
(* The steps of the client take the oldest frame off the wire. *)

\* The bytes the client holds after a frame are the ones the gateway meant.
LEMMA ReceiveAsMeant ==
    ASSUME IInv, Receive
    PROVE  /\ contentAccumulator' \in Seq(Byte)
           /\ pendingBytes' \in Seq(Byte)
           /\ RenderedPromptly'
           /\ Received' = Head(wire).after
           /\ Received' = IF Head(wire).op = "CONTENT"
                          THEN Received \o Head(wire).data
                          ELSE SubSeq(Received, 1, Head(wire).offset)
<1> DEFINE f == Head(wire)
<1>1. /\ f \in Frame /\ f = wire[1] /\ 1 \in 1..Len(wire)
  BY DEF IInv, TypeOK, GatewayTypeOK, Receive
<1>2. /\ contentAccumulator \in Seq(Byte) /\ pendingBytes \in Seq(Byte)
      /\ WellFormed(contentAccumulator)
      /\ pendingBytes # <<>> => Len(pendingBytes) <= Need(pendingBytes[1])
      /\ Partial(pendingBytes)
  BY DEF IInv, TypeOK, RenderedPromptly
<1>3. /\ Before(1) = Received
      /\ f.after = IF f.op = "CONTENT" THEN Received \o f.data
                                       ELSE SubSeq(Received, 1, f.offset)
  BY <1>1 DEF IInv, NothingLost, Before
<1>4. /\ Partial(f.after) /\ NoBom(f.after)
      /\ f.boundary \/ f.op = "REWIND" => WellFormed(f.after)
      /\ f.op = "REWIND" => /\ WellFormed(Received)
                            /\ f.offset \in 0..Len(Received)
                            /\ AllAscii(Received, f.offset)
  BY <1>1, <1>3 DEF IInv, InFlightOK
<1>5. /\ f.data \in Seq(Byte) /\ f.boundary \in BOOLEAN
      /\ f.op \in {"CONTENT", "REWIND"}
  BY <1>1 DEF Frame
<1>6. CASE HandleContent(f)
  <2>1. /\ f.op = "CONTENT"
        /\ contentAccumulator' = contentAccumulator
               \o Decode(Rendered(pendingBytes, f.boundary, f.data))
        /\ pendingBytes' = Kept(pendingBytes, f.boundary, f.data)
    BY <1>6 DEF HandleContent
  <2>2. /\ Partial((contentAccumulator \o pendingBytes) \o f.data)
        /\ NoBom((contentAccumulator \o pendingBytes) \o f.data)
        /\ f.boundary
             => WellFormed((contentAccumulator \o pendingBytes) \o f.data)
    BY <1>3, <1>4, <2>1 DEF Received
  <2>c. Continues(contentAccumulator, pendingBytes, f.boundary, f.data)
    BY <1>2, <1>5, <2>2 DEF Continues
  <2> HIDE DEF f
  <2>3. /\ contentAccumulator' \in Seq(Byte)
        /\ pendingBytes' \in Seq(Byte)
        /\ WellFormed(contentAccumulator')
        /\ Partial(pendingBytes')
        /\ pendingBytes' # <<>> => Len(pendingBytes') <= Need(pendingBytes'[1])
        /\ Joined(contentAccumulator', pendingBytes',
                  (contentAccumulator \o pendingBytes) \o f.data)
    BY <2>1, <2>c, ContentKeepsBytes
  <2>4. Received' = Received \o f.data
    BY <2>3 DEF Received, Joined
  <2> QED BY <1>3, <2>1, <2>3, <2>4 DEF RenderedPromptly, f
<1>7. CASE HandleRewind(f)
  <2>1. /\ f.op = "REWIND"
        /\ contentAccumulator' = Slice(contentAccumulator, f.offset)
        /\ pendingBytes' = pendingBytes
    BY <1>7 DEF HandleRewind
  <2> HIDE DEF f
  <2>2. /\ pendingBytes = <<>>
        /\ contentAccumulator' = SubSeq(Received, 1, f.offset)
    BY <1>2, <1>4, <2>1, RewindKeepsBytes DEF Received
  <2>3. contentAccumulator' = f.after
    BY <1>3, <2>1, <2>2
  <2>4. f.after \in Seq(Byte)
    BY <1>1 DEF Frame
  <2>5. Received' = contentAccumulator'
    BY <2>1, <2>2, <2>3, <2>4, ConcatEmptySeq DEF Received
  <2>6. RenderedPromptly'
    <3>1. WellFormed(contentAccumulator') /\ pendingBytes' = <<>>
      BY <1>4, <2>1, <2>2, <2>3
    <3>2. Partial(<<>>)
      BY DEF Partial
    <3> QED BY <3>1, <3>2 DEF RenderedPromptly
  <2>7. pendingBytes' \in Seq(Byte)
    BY <1>2, <2>1
  <2> QED BY <1>3, <2>1, <2>3, <2>4, <2>5, <2>6, <2>7 DEF f
<1> QED BY <1>6, <1>7 DEF Receive

\* handleFrame keeps the invariant, for CONTENT and for REWIND.
LEMMA ReceiveKeepsInv ==
    ASSUME IInv, Receive
    PROVE  IInv'
<1>0. PICK n \in Nat : n = Len(wire)
  BY DEF IInv, TypeOK, GatewayTypeOK
<1>1. /\ wire \in Seq(Frame) /\ n = Len(wire) /\ n > 0 /\ wire # <<>>
      /\ wire' = Tail(wire) /\ UNCHANGED <<doc, sent, rewinds>>
  BY <1>0 DEF IInv, TypeOK, GatewayTypeOK, Receive
<1>2. /\ wire' \in Seq(Frame)
      /\ Len(wire') = n - 1
      /\ \A i \in 1..(n - 1) : wire'[i] = wire[i + 1]
  BY <1>1
<1>3. /\ contentAccumulator' \in Seq(Byte)
      /\ pendingBytes' \in Seq(Byte)
      /\ RenderedPromptly'
      /\ Received' = wire[1].after
  BY <1>1, ReceiveAsMeant
<1>4. ASSUME NEW i \in 1..(n - 1)
      PROVE  Before(i)' = Before(i + 1)
  <2>1. CASE i = 1
    BY <1>3, <2>1 DEF Before
  <2>2. CASE i # 1
    <3>1. i - 1 \in 1..(n - 1) /\ (i - 1) + 1 = i /\ i + 1 # 1 /\ (i + 1) - 1 = i
      BY <2>2
    <3> QED BY <1>2, <2>2, <3>1 DEF Before
  <2> QED BY <2>1, <2>2
<1>5. TypeOK'
  BY <1>1, <1>2, <1>3 DEF IInv, TypeOK, GatewayTypeOK
<1>6. NothingLost'
  <2>1. ASSUME NEW i \in 1..(n - 1)
        PROVE  wire'[i].after = IF wire'[i].op = "CONTENT"
                                THEN Before(i)' \o wire'[i].data
                                ELSE SubSeq(Before(i)', 1, wire'[i].offset)
    <3>1. i + 1 \in 1..n
      OBVIOUS
    <3> QED BY <1>1, <1>2, <1>4, <3>1 DEF IInv, NothingLost
  <2>2. wire[n].after = Sent /\ Sent' = Sent
    BY <1>1 DEF IInv, NothingLost, Sent
  <2>3. CASE wire' = <<>>
    <3>0. Len(wire') = 0
      BY <2>3
    <3>1. n = 1
      BY <1>2, <3>0
    <3>2. Received' = Sent'
      BY <1>3, <2>2, <3>1
    <3> QED BY <2>3, <3>2 DEF NothingLost
  <2>4. CASE wire' # <<>>
    <3>1. n - 1 \in 1..(n - 1) /\ (n - 1) + 1 = n
      BY <1>2, <2>4
    <3>3. wire'[n - 1].after = Sent'
      BY <1>2, <2>2, <3>1
    <3> QED BY <1>2, <2>1, <2>4, <3>3 DEF NothingLost
  <2> QED BY <2>3, <2>4
<1>7. InFlightOK'
  <2> SUFFICES ASSUME NEW i \in 1..(n - 1)
               PROVE  /\ Partial(wire'[i].after)
                      /\ NoBom(wire'[i].after)
                      /\ wire'[i].boundary \/ wire'[i].op = "REWIND"
                            => WellFormed(wire'[i].after)
                      /\ wire'[i].op = "REWIND" =>
                            /\ WellFormed(Before(i)')
                            /\ wire'[i].offset \in 0..Len(Before(i)')
                            /\ AllAscii(Before(i)', wire'[i].offset)
    BY <1>2 DEF InFlightOK
  <2>1. i + 1 \in 1..n
    OBVIOUS
  <2> QED BY <1>1, <1>2, <1>4, <2>1 DEF IInv, InFlightOK
<1> QED BY <1>3, <1>5, <1>6, <1>7 DEF IInv

------------------------------------------------------------------------------
(* The theorems. *)

\* Every step of gateway and client keeps the invariant.
LEMMA NextKeepsInv ==
    ASSUME PlainRewinds, IInv, [Next]_vars
    PROVE  IInv'
<1>1. CASE GatewayStep
  <2>1. ASSUME NEW n \in 0..(Len(doc) - sent), NEW boundary \in BOOLEAN,
               Send(n, boundary)
        PROVE  IInv'
    BY <1>1, <2>1, SendKeepsInv DEF GatewayStep
  <2>2. ASSUME NEW k \in 0..sent, NEW t \in Texts, Rewind(k, t)
        PROVE  IInv'
    BY <1>1, <2>2, RewindKeepsInv DEF GatewayStep
  <2> QED BY <1>1, <2>1, <2>2 DEF GatewayStep, GatewayNext
<1>2. CASE Receive
  BY <1>2, ReceiveKeepsInv
<1>3. CASE UNCHANGED vars
  <2>1. UNCHANGED <<doc, sent, wire, rewinds, contentAccumulator, pendingBytes>>
    BY <1>3 DEF vars, gatewayVars
  <2> QED BY <2>1 DEF IInv, TypeOK, GatewayTypeOK, RenderedPromptly, NothingLost,
                      InFlightOK, Before, Received, Sent
<1> QED BY <1>1, <1>2, <1>3 DEF Next

------------------------------------------------------------------------------
(* What a step of the client does to the raw bytes of the channel *)

\* Every step is a step of the raw buffer, or none: sending leaves it alone, and
\* receiving does to it what the frame says.
LEMMA StepOfBuffer ==
    ASSUME PlainRewinds, IInv, [Next]_vars
    PROVE  [Abstract!ByteNext]_(Abstract!byteVars)
<1>1. CASE GatewayStep
  <2>1. GatewayNext /\ UNCHANGED Received
    BY <1>1 DEF GatewayStep, Received
  <2>2. /\ \A s : Abstract!WellFormed(s) <=> WellFormed(s)
        /\ \A s, n : Abstract!AllAscii(s, n) <=> AllAscii(s, n)
    BY DEF Abstract!WellFormed, WellFormed, Abstract!Partial, Partial,
           Abstract!Closed, Closed, Abstract!Need, Need,
           Abstract!IsCont, IsCont, Abstract!AllAscii, AllAscii
  <2>3. ASSUME NEW n \in 0..(Len(doc) - sent), NEW boundary \in BOOLEAN,
               Send(n, boundary)
        PROVE  Abstract!Send(n, boundary)
    BY <2>2, <2>3 DEF Abstract!Send, Send, Abstract!Content, Content
  <2>4. ASSUME NEW k \in 0..sent, NEW t \in Texts, Rewind(k, t)
        PROVE  Abstract!Rewind(k, t)
    BY <2>2, <2>4 DEF Abstract!Rewind, Rewind, Abstract!RewindTo, RewindTo,
                      Abstract!Sent, Sent
  <2>5. Abstract!GatewayNext
    BY <2>1, <2>3, <2>4 DEF Abstract!GatewayNext, GatewayNext
  <2> QED BY <2>1, <2>5 DEF Abstract!ByteNext
<1>2. CASE Receive
  <2>1. /\ wire # <<>> /\ wire' = Tail(wire) /\ UNCHANGED <<doc, sent, rewinds>>
    BY <1>2 DEF Receive
  <2>2. Received' = IF Head(wire).op = "CONTENT"
                    THEN Received \o Head(wire).data
                    ELSE SubSeq(Received, 1, Head(wire).offset)
    BY <1>2, ReceiveAsMeant
  <2> QED BY <2>1, <2>2 DEF Abstract!ByteNext, Abstract!ByteReceive,
                            Abstract!Applied
<1>3. CASE UNCHANGED vars
  BY <1>3 DEF vars, gatewayVars, Abstract!byteVars, Abstract!gatewayVars, Received
<1> QED BY <1>1, <1>2, <1>3 DEF Next

\* A frame that is taken off the wire has been received, and a REWIND then leaves
\* its ByteOffset of bytes.
LEMMA StepOfRewind ==
    ASSUME PlainRewinds, IInv, [Next]_vars, wire # <<>>, wire' = Tail(wire),
           Head(wire).op = "REWIND"
    PROVE  Received' = SubSeq(Received, 1, Head(wire).offset)
<1>1. wire \in Seq(Frame) /\ wire' # wire
  BY DEF IInv, TypeOK, GatewayTypeOK
<1>2. ~GatewayStep
  <2>1. ASSUME NEW f, wire' = Append(wire, f)
        PROVE  FALSE
    BY <1>1, <2>1
  <2> QED BY <2>1 DEF GatewayStep, GatewayNext, Send, Rewind
<1>3. Receive
  BY <1>1, <1>2 DEF Next, vars, gatewayVars
<1> QED BY <1>3, ReceiveAsMeant

\* With nothing in flight, what is shown is the beginning of what was sent.
LEMMA NothingStale ==
    ASSUME IInv
    PROVE  ShownWasSent
<1>1. ASSUME wire = <<>>
      PROVE  /\ Len(contentAccumulator) <= sent
             /\ contentAccumulator = SubSeq(Sent, 1, Len(contentAccumulator))
  <2>1. /\ contentAccumulator \in Seq(Byte)
        /\ pendingBytes \in Seq(Byte)
        /\ doc \in Seq(Byte) /\ sent \in 0..Len(doc)
    BY TextsAssumption DEF IInv, TypeOK, GatewayTypeOK
  <2>2. contentAccumulator \o pendingBytes = Sent
    BY <1>1 DEF IInv, NothingLost, Received
  <2>3. Len(Sent) = sent
    BY <2>1 DEF Sent
  <2>4. SubSeq(contentAccumulator \o pendingBytes, 1, Len(contentAccumulator))
          = contentAccumulator
    BY <2>1
  <2>5. Len(contentAccumulator \o pendingBytes)
          = Len(contentAccumulator) + Len(pendingBytes)
    BY <2>1
  <2> QED BY <2>1, <2>2, <2>3, <2>4, <2>5
<1> QED BY <1>1 DEF ShownWasSent

------------------------------------------------------------------------------
(* What a channel promises *)

\* The safety part of Spec: none of the promises needs that frames are received.
Safety == Init /\ [][Next]_vars

\* What does not change with time, and what no step may do.
AlwaysGood == TypeOK /\ NothingLost /\ RenderedPromptly /\ ShownWasSent

Promises == []AlwaysGood /\ ImplementsByteChannel /\ RewindTruncates

\* The strengthening of the safety properties below is an invariant: gateway,
\* wire and client agree byte by byte on what the channel holds.
THEOREM Invariance ==
    ASSUME PlainRewinds
    PROVE  Safety => []IInv
<1>1. IInv /\ [Next]_vars => IInv'
  BY NextKeepsInv
<1> QED BY InitInv, <1>1, PTL DEF Safety

\* A channel keeps all its promises, whether its frames are ever received or not:
\* also one of a session, where other channels hold them up.
THEOREM PromisesKept ==
    ASSUME PlainRewinds
    PROVE  Safety => Promises
<1>1. IInv => AlwaysGood
  BY NothingStale DEF IInv, AlwaysGood
<1>2. Init => Abstract!ByteInit
  BY DEF Init, Abstract!ByteInit, Abstract!GatewayInit, GatewayInit, Received
<1>3. IInv /\ [Next]_vars => [Abstract!ByteNext]_(Abstract!byteVars)
  BY StepOfBuffer
<1>4. IInv /\ [Next]_vars =>
        [wire # <<>> /\ wire' = Tail(wire) /\ Head(wire).op = "REWIND"
           => Received' = SubSeq(Received, 1, Head(wire).offset)]_vars
  BY StepOfRewind
<1> QED BY <1>1, <1>2, <1>3, <1>4, Invariance, PTL
        DEF Safety, Promises, ImplementsByteChannel, Abstract!ByteSpec,
            RewindTruncates

\* A session of one channel is one.
LEMMA SpecPromises ==
    ASSUME PlainRewinds
    PROVE  Spec => Promises
BY PromisesKept, PTL DEF Spec, Safety

\* The variables keep their types, whatever the texts and the chunks.
THEOREM TypeCorrect ==
    ASSUME PlainRewinds
    PROVE  Spec => []TypeOK
<1>1. AlwaysGood => TypeOK
  BY DEF AlwaysGood
<1> QED BY SpecPromises, <1>1, PTL DEF Promises

\* LMStreamSession.handleFrame loses, adds and reorders no byte of the channel.
THEOREM NeverLost ==
    ASSUME PlainRewinds
    PROVE  Spec => []NothingLost
<1>1. AlwaysGood => NothingLost
  BY DEF AlwaysGood
<1> QED BY SpecPromises, <1>1, PTL DEF Promises

\* Utf8BoundaryAssembler.process never renders half a character, and keeps no
\* byte that it could render.
THEOREM AlwaysPrompt ==
    ASSUME PlainRewinds
    PROVE  Spec => []RenderedPromptly
<1>1. AlwaysGood => RenderedPromptly
  BY DEF AlwaysGood
<1> QED BY SpecPromises, <1>1, PTL DEF Promises

\* The string shown and the bytes kept implement the raw buffer of the channel.
THEOREM Refinement ==
    ASSUME PlainRewinds
    PROVE  Spec => ImplementsByteChannel
BY SpecPromises, PTL DEF Promises

\* handleFrame, on REWIND, leaves the first ByteOffset bytes of the channel, as
\* long as these are ASCII and no character is pending.
THEOREM RewindExact ==
    ASSUME PlainRewinds
    PROVE  Spec => RewindTruncates
BY SpecPromises, PTL DEF Promises

\* A byte taken back by a REWIND is never shown again: with nothing in flight,
\* contentAccumulator is a prefix of what was sent.
THEOREM NeverStale ==
    ASSUME PlainRewinds
    PROVE  Spec => []ShownWasSent
<1>1. AlwaysGood => ShownWasSent
  BY DEF AlwaysGood
<1> QED BY SpecPromises, <1>1, PTL DEF Promises

==============================================================================
