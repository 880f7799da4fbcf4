------------------------- MODULE ClientSessionProofs -------------------------
(***************************************************************************)
(* A session, for any texts, any cuts and any number of frames in flight:  *)
(* under a gateway that does not rewind REASONING, whoever waited for the  *)
(* end finds everything there.  As for tool calls, the inductive invariant *)
(* is that the frames in flight are a course of states of the client, from *)
(* the present one to the one the gateway means; END is its last step.     *)
(* And each text channel, seen by itself, is a TextChannel: what the wire  *)
(* carries of one is shown by induction to be the queue of that one.  What *)
(* TextChannelProofs proves of a TextChannel is proved of both thereby.    *)
(***************************************************************************)
EXTENDS ClientSession, Utf8AssemblerProofs

\* The client, and what a frame makes of it.
Client(acc, pend, act, done, noted) ==
    [acc |-> acc, pend |-> pend, act |-> act, done |-> done, noted |-> noted]

Now == Client(accumulated, pending, active, completedTools, seen)

TextAfter(s, ch, frame) ==
    IF frame.op = "CONTENT"
    THEN Client([s.acc EXCEPT ![ch] = @ \o Decode(Rendered(s.pend[ch],
                                                  frame.boundary, frame.data))],
                [s.pend EXCEPT ![ch] = Kept(s.pend[ch], frame.boundary,
                                            frame.data)],
                s.act, s.done, s.noted)
    ELSE Client(IF ch = "CONTENT"
                THEN [s.acc EXCEPT ![ch] = Slice(@, frame.offset)] ELSE s.acc,
                s.pend, s.act, s.done, s.noted)

ToolAfter(s, frame) ==
    IF frame.op = "TOOL_CALL"
    THEN Client(s.acc, s.pend, ActiveTS(s.act, frame),
                s.done \o CompletedBy(s.act, frame), s.noted)
    ELSE Client(s.acc, s.pend,
                IF frame.offset = 0 THEN Discarded(s.act, frame.key[1]) ELSE s.act,
                s.done, s.noted)

After(s, m) ==
    IF m.channel \in TextChannels THEN TextAfter(s, m.channel, m.body)
    ELSE IF m.channel = "TOOL_CALL" THEN ToolAfter(s, m.body)
    ELSE Client(s.acc, s.pend, s.act, s.done, s.noted \cup {m.body.op})

\* What holds of the client before and after every frame in flight.
Call == [id : Nat, args : Seq(STRING)]

Sound(s) == /\ s = Client(s.acc, s.pend, s.act, s.done, s.noted)
            /\ s.acc \in [TextChannels -> Seq(Byte)]
            /\ s.pend \in [TextChannels -> Seq(Byte)]
            /\ DOMAIN s.act \subseteq {Key}
            /\ s.act \in [DOMAIN s.act -> Call]
            /\ s.noted \subseteq SessionFields

\* s is what the gateway means the client to hold: each text, in whole characters
\* and at most a part of one; the call, as far as it was sent; and the accounts.
Held(acc, pend, said) ==
    /\ acc \in Seq(Byte) /\ pend \in Seq(Byte)
    /\ WellFormed(acc)
    /\ pend # <<>> => Len(pend) <= Need(pend[1])
    /\ acc \o pend = said

NoCall == [key \in {} |-> <<>>]

CallSoFar(n) ==
    [key \in {Key} |-> [id |-> Id, args |-> SubSeq(Args, 1, Carried(n))]]

ActiveAt(n) == IF n \in {0, Len(Cuts)} THEN NoCall ELSE CallSoFar(n)

DoneAt(n) == IF n = Len(Cuts) THEN <<[key |-> Key, id |-> Id, args |-> Args]>>
                              ELSE <<>>

Meant(s) == /\ \A ch \in TextChannels : Held(s.acc[ch], s.pend[ch], Said(ch))
            /\ s.act = ActiveAt(toolsSent)
            /\ s.done = DoneAt(toolsSent)
            /\ s.noted = told

\* The states of the client before each frame in flight, and after the last; the
\* end has come in the last one, if at all.
Course(tr) ==
    /\ tr = [i \in 0..Len(wire) |-> tr[i]]
    /\ tr[0] = Now
    /\ \A i \in 1..Len(wire) : tr[i] = After(tr[i - 1], wire[i])
    /\ \A i \in 0..Len(wire) : Sound(tr[i])
    /\ \A i \in 0..(Len(wire) - 1) : "END" \notin tr[i].noted
    /\ Meant(tr[Len(wire)])

\* A frame of the session itself takes nothing back.
Sorted(m) == m.channel = "SESSION" => m.body.op \in SessionFields

GatewayOK == /\ sent \in [TextChannels -> Nat]
             /\ \A ch \in TextChannels : sent[ch] <= Len(Text[ch])
             /\ toolsSent \in 0..Len(Cuts)
             /\ told \subseteq SessionFields
             /\ wire \in Seq(Frame)
             /\ \A i \in 1..Len(wire) : Sorted(wire[i])
             /\ waiting = ("END" \notin seen)

IInv == GatewayOK /\ \E tr : Course(tr)

------------------------------------------------------------------------------
(* A frame is put on the wire: the course goes on. *)

\* A frame sent lengthens the course by what it makes of the last state.
LEMMA CourseGoesOn ==
    ASSUME NEW tr, Course(tr), GatewayOK, "END" \notin told,
           NEW m, wire' = Append(wire, m), UNCHANGED clientVars,
           NEW n, n = Len(wire),
           NEW s, s = After(tr[n], m),
           Sound(s), Meant(s)'
    PROVE  \E next : Course(next)'
<1> DEFINE next == [i \in 0..(n + 1) |-> IF i <= n THEN tr[i] ELSE s]
<1>1. n \in Nat /\ Len(wire)' = n + 1
      /\ (\A i \in 1..n : wire'[i] = wire[i]) /\ wire'[n + 1] = m
  BY DEF GatewayOK
<1>2. Now' = Now
  BY DEF Now, clientVars
<1>3. /\ \A i \in 0..n : next[i] = tr[i]
      /\ next[n + 1] = s
      /\ next = [i \in 0..(n + 1) |-> next[i]]
  BY <1>1
<1> HIDE DEF next
<1>4. next[0] = Now'
  BY <1>1, <1>2, <1>3 DEF Course
<1>5. ASSUME NEW i \in 1..(n + 1) PROVE next[i] = After(next[i - 1], wire'[i])
  <2>1. CASE i <= n
    <3>1. i \in 1..n /\ i - 1 \in 0..n
      BY <1>1, <2>1
    <3>2. i \in 0..n
      BY <1>1, <2>1
    <3>3. next[i] = tr[i] /\ next[i - 1] = tr[i - 1]
      BY <1>3, <3>1, <3>2, Zenon
    <3>4. wire'[i] = wire[i] /\ tr[i] = After(tr[i - 1], wire[i])
      BY <1>1, <3>1, Zenon DEF Course
    <3> QED BY <3>3, <3>4, Zenon
  <2>2. CASE i = n + 1
    <3>1. i - 1 = n /\ n \in 0..n
      BY <1>1, <2>2
    <3>2. next[i] = s /\ next[i - 1] = tr[n] /\ wire'[i] = m
      BY <1>1, <1>3, <2>2, <3>1
    <3> QED BY <3>1, <3>2
  <2> QED BY <1>1, <2>1, <2>2
<1>6. ASSUME NEW i \in 0..(n + 1) PROVE Sound(next[i])
  <2>1. CASE i <= n
    <3>1. i \in 0..n
      BY <1>1, <2>1
    <3>2. Sound(tr[i]) /\ next[i] = tr[i]
      BY <1>3, <3>1 DEF Course
    <3> QED BY <3>2
  <2>2. CASE i = n + 1
    BY <1>3, <2>2
  <2> QED BY <1>1, <2>1, <2>2
<1>7. ASSUME NEW i \in 0..n PROVE "END" \notin next[i].noted
  <2>1. next[i] = tr[i]
    BY <1>3
  <2>2. CASE i = n
    BY <2>1, <2>2 DEF Course, Meant
  <2>3. CASE i # n
    <3>1. i \in 0..(n - 1)
      BY <1>1, <2>3
    <3> QED BY <2>1, <3>1 DEF Course
  <2> QED BY <2>2, <2>3
<1>8. Meant(next[n + 1])'
  BY <1>3 DEF Meant
<1>9. (n + 1) - 1 = n
  BY <1>1
<1>10. Course(next)'
  BY <1>1, <1>3, <1>4, <1>5, <1>6, <1>7, <1>8, <1>9 DEF Course
<1> QED BY <1>10

------------------------------------------------------------------------------
(* What the gateway sends on a text channel *)

\* What it has sent of a text is the beginning of one.
LEMMA PartOfText ==
    ASSUME NEW ch \in TextChannels, NEW k \in 0..Len(Text[ch])
    PROVE  /\ SubSeq(Text[ch], 1, k) \in Seq(Byte)
           /\ Len(SubSeq(Text[ch], 1, k)) = k
           /\ Partial(SubSeq(Text[ch], 1, k))
           /\ NoBom(SubSeq(Text[ch], 1, k))
<1> DEFINE t == Text[ch]
<1>1. t \in Seq(Byte) /\ Partial(t) /\ NoBom(t)
  BY SessionAssumption DEF WellFormed
<1> HIDE DEF t
<1>2. k \in 0..Len(t)
  BY DEF t
<1>3. /\ SubSeq(t, 1, k) \in Seq(Byte)
      /\ Len(SubSeq(t, 1, k)) = k
      /\ \A i \in 1..k : SubSeq(t, 1, k)[i] = t[i]
  BY <1>1, <1>2
<1>4. NoBom(SubSeq(t, 1, k))
  BY <1>1, <1>2, <1>3 DEF NoBom, BomAt
<1> QED BY <1>1, <1>2, <1>3, <1>4, PrefixPartial DEF t

\* A part of it leaves the client with all that was sent.
LEMMA HeldAfterPart ==
    ASSUME NEW acc, NEW pend, NEW said \in Seq(Byte), NEW data \in Seq(Byte),
           NEW boundary \in BOOLEAN,
           Held(acc, pend, said),
           Partial(said \o data), NoBom(said \o data),
           boundary => WellFormed(said \o data)
    PROVE  Held(acc \o Decode(Rendered(pend, boundary, data)),
                Kept(pend, boundary, data), said \o data)
<1>1. PICK shown : shown = acc \o Decode(Rendered(pend, boundary, data))
  OBVIOUS
<1>2. PICK kept : kept = Kept(pend, boundary, data)
  OBVIOUS
<1>3. acc \in Seq(Byte) /\ pend \in Seq(Byte) /\ WellFormed(acc)
  BY DEF Held
<1>4. acc \o pend = said
  BY DEF Held
<1>5. Continues(acc, pend, boundary, data)
  BY <1>3, <1>4 DEF Continues
<1>6. /\ shown \in Seq(Byte) /\ kept \in Seq(Byte) /\ WellFormed(shown)
      /\ kept # <<>> => Len(kept) <= Need(kept[1])
      /\ Joined(shown, kept, (acc \o pend) \o data)
  BY <1>1, <1>2, <1>5, ContentKeepsBytes
<1>7. Held(shown, kept, said \o data)
  BY <1>4, <1>6 DEF Held, Joined
<1> QED BY <1>1, <1>2, <1>7

\* A REWIND leaves it with what the gateway goes back to.
LEMMA HeldAfterRewind ==
    ASSUME NEW acc, NEW pend, NEW said \in Seq(Byte), Held(acc, pend, said),
           WellFormed(said), NEW k \in 0..Len(said), AllAscii(said, k),
           WellFormed(SubSeq(said, 1, k))
    PROVE  Held(Slice(acc, k), pend, SubSeq(said, 1, k))
<1>1. /\ acc \in Seq(Byte) /\ pend \in Seq(Byte) /\ WellFormed(acc)
      /\ acc \o pend = said
      /\ pend # <<>> => Len(pend) <= Need(pend[1])
  BY DEF Held
<1>2. pend = <<>> /\ Slice(acc, k) = SubSeq(said, 1, k)
  BY <1>1, RewindKeepsBytes
<1>3. SubSeq(said, 1, k) \in Seq(Byte)
  OBVIOUS
<1> QED BY <1>1, <1>2, <1>3, ConcatEmptySeq DEF Held

\* A text sent in whole characters is shown in full.
LEMMA HeldWhole ==
    ASSUME NEW acc, NEW pend, NEW said \in Seq(Byte), Held(acc, pend, said),
           WellFormed(said)
    PROVE  acc = said
<1>1. /\ acc \in Seq(Byte) /\ pend \in Seq(Byte) /\ WellFormed(acc)
      /\ acc \o pend = said
      /\ pend # <<>> => Len(pend) <= Need(pend[1])
  BY DEF Held
<1>2. 0 \in 0..Len(said) /\ AllAscii(said, 0)
  BY DEF AllAscii
<1>3. pend = <<>>
  BY <1>1, <1>2, RewindKeepsBytes
<1> QED BY <1>1, <1>3, ConcatEmptySeq

------------------------------------------------------------------------------
(* Every step of the gateway keeps the invariant. *)

\* After frame m the client will hold what the gateway now means it to hold.
Leads(m) == \A s : Sound(s) /\ Meant(s)
                     => Sound(After(s, m)) /\ Meant(After(s, m))'

\* The gateway takes up more of a text.
LEMMA PushKeepsInv ==
    ASSUME IInv, "END" \notin told,
           NEW m \in Frame, Sorted(m), Leads(m),
           wire' = Append(wire, m), UNCHANGED clientVars,
           sent' \in [TextChannels -> Nat],
           \A ch \in TextChannels : sent'[ch] <= Len(Text[ch]),
           toolsSent' \in 0..Len(Cuts),
           told' \subseteq SessionFields
    PROVE  IInv'
<1>1. PICK tr : Course(tr)
  BY DEF IInv
<1>2. PICK n : n = Len(wire)
  OBVIOUS
<1>3. GatewayOK /\ n \in Nat
  BY <1>2 DEF IInv, GatewayOK
<1>4. PICK s : s = After(tr[n], m)
  OBVIOUS
<1>5. Sound(tr[n]) /\ Meant(tr[n])
  BY <1>1, <1>2, <1>3 DEF Course
<1>6. Sound(s) /\ Meant(s)'
  <2>1. Sound(After(tr[n], m)) /\ Meant(After(tr[n], m))'
    BY <1>5 DEF Leads
  <2> QED BY <1>4, <2>1 DEF Meant
<1>7. \E next : Course(next)'
  BY <1>1, <1>2, <1>3, <1>4, <1>6, CourseGoesOn
<1>8. GatewayOK'
  <2>1. wire' \in Seq(Frame) /\ \A i \in 1..Len(wire') : Sorted(wire'[i])
    <3>1. wire \in Seq(Frame) /\ \A i \in 1..n : Sorted(wire[i])
      BY <1>2, <1>3 DEF GatewayOK
    <3>2. /\ wire' \in Seq(Frame) /\ Len(wire') = n + 1
          /\ \A i \in 1..n : wire'[i] = wire[i]
          /\ wire'[n + 1] = m
      BY <1>2, <1>3, <3>1
    <3>3. ASSUME NEW i \in 1..(n + 1) PROVE Sorted(wire'[i])
      <4>1. CASE i \in 1..n
        BY <3>1, <3>2, <4>1
      <4>2. CASE i \notin 1..n
        BY <1>3, <3>2, <4>2
      <4> QED BY <4>1, <4>2
    <3> QED BY <3>2, <3>3
  <2>2. waiting' = ("END" \notin seen')
    BY <1>3 DEF GatewayOK, clientVars
  <2> QED BY <2>1, <2>2 DEF GatewayOK
<1> QED BY <1>7, <1>8 DEF IInv

\* A frame of one text channel: if it continues that text, nothing else changes.
LEMMA TextKeepsInv ==
    ASSUME IInv, told = {}, NEW ch \in TextChannels, NEW frame,
           NEW m, m = [channel |-> ch, body |-> frame], m \in Frame,
           wire' = Append(wire, m), UNCHANGED clientVars,
           NEW to \in 0..Len(Text[ch]), sent' = [sent EXCEPT ![ch] = to],
           UNCHANGED <<toolsSent, told>>,
           \A s : Sound(s) /\ Held(s.acc[ch], s.pend[ch], Said(ch))
                    => Held(TextAfter(s, ch, frame).acc[ch],
                            TextAfter(s, ch, frame).pend[ch], Said(ch)')
    PROVE  IInv'
<1>1. GatewayOK /\ SessionFields # {}
  BY DEF IInv, SessionFields
<1>2. Sorted(m)
  BY DEF Sorted, TextChannels
<1>3. ASSUME NEW s, Sound(s), Meant(s)
      PROVE  Sound(After(s, m)) /\ Meant(After(s, m))'
  <2>1. PICK r : r = TextAfter(s, ch, frame)
    OBVIOUS
  <2>2. After(s, m) = r
    BY <2>1 DEF After
  <2>3. /\ r = Client(r.acc, r.pend, s.act, s.done, s.noted)
        /\ r.act = s.act /\ r.done = s.done /\ r.noted = s.noted
        /\ DOMAIN r.acc = TextChannels /\ DOMAIN r.pend = TextChannels
        /\ r.acc = [c \in TextChannels |-> r.acc[c]]
        /\ r.pend = [c \in TextChannels |-> r.pend[c]]
        /\ \A c \in TextChannels \ {ch} : /\ r.acc[c] = s.acc[c]
                                           /\ r.pend[c] = s.pend[c]
    BY <1>3, <2>1 DEF TextAfter, Client, Sound
  <2>4. Held(r.acc[ch], r.pend[ch], Said(ch)')
    BY <1>3, <2>1 DEF Meant
  <2>5. ASSUME NEW c \in TextChannels
        PROVE  Held(r.acc[c], r.pend[c], Said(c)')
    <3>1. CASE c = ch
      BY <2>4, <3>1
    <3>2. CASE c # ch
      <4>1. Said(c)' = Said(c)
        BY <1>1, <3>2 DEF Said, GatewayOK
      <4>2. Held(s.acc[c], s.pend[c], Said(c))
        BY <1>3 DEF Meant
      <4> QED BY <2>3, <3>2, <4>1, <4>2
    <3> QED BY <3>1, <3>2
  <2>6. Sound(r)
    <3>1. \A c \in TextChannels : r.acc[c] \in Seq(Byte) /\ r.pend[c] \in Seq(Byte)
      BY <2>5 DEF Held
    <3> QED BY <1>3, <2>3, <3>1 DEF Sound
  <2>7. Meant(r)'
    BY <1>3, <2>3, <2>5 DEF Meant
  <2> QED BY <2>2, <2>6, <2>7 DEF Meant
<1>4. Leads(m)
  BY <1>3 DEF Leads
<1>5. /\ sent' \in [TextChannels -> Nat]
      /\ \A c \in TextChannels : sent'[c] <= Len(Text[c])
  <2>1. to \in Nat /\ to <= Len(Text[ch])
    BY SessionAssumption
  <2> QED BY <1>1, <2>1 DEF GatewayOK
<1>6. toolsSent' \in 0..Len(Cuts) /\ told' \subseteq SessionFields
  BY <1>1 DEF GatewayOK
<1> QED BY <1>2, <1>4, <1>5, <1>6, PushKeepsInv

\* A frame of text is sent, in bytes that continue what was sent.
LEMMA SendTextKeepsInv ==
    ASSUME IInv, NEW ch \in TextChannels, NEW n \in 1..(Len(Text[ch]) - sent[ch]),
           NEW boundary \in BOOLEAN, SendText(ch, n, boundary)
    PROVE  IInv'
<1> DEFINE to == sent[ch] + n
           after == SubSeq(Text[ch], 1, to)
           data == SubSeq(Text[ch], sent[ch] + 1, to)
           frame == [op |-> "CONTENT", boundary |-> boundary, data |-> data,
                     offset |-> 0, after |-> after]
           m == [channel |-> ch, body |-> frame]
<1>1. /\ Text[ch] \in Seq(Byte) /\ sent[ch] \in 0..Len(Text[ch])
      /\ to \in 0..Len(Text[ch]) /\ sent[ch] <= to
  <2>1. Text[ch] \in Seq(Byte) /\ Len(Text[ch]) \in Nat
    BY SessionAssumption
  <2>2. sent[ch] \in Nat /\ sent[ch] <= Len(Text[ch])
    BY DEF IInv, GatewayOK
  <2> QED BY <2>1, <2>2
<1>2. /\ told = {} /\ UNCHANGED <<toolsSent, told>> /\ UNCHANGED clientVars
      /\ wire' = Append(wire, m)
      /\ sent' = [sent EXCEPT ![ch] = to]
      /\ boundary => WellFormed(after)
  BY DEF SendText, Push
<1>3. /\ after \in Seq(Byte) /\ Partial(after) /\ NoBom(after)
      /\ Said(ch) \in Seq(Byte)
  BY <1>1, PartOfText DEF Said
<1>4. data \in Seq(Byte) /\ after = Said(ch) \o data
  BY <1>1, AdjacentParts, SubSeqAt DEF Said
<1>5. Said(ch)' = after
  BY <1>1, <1>2 DEF Said, IInv, GatewayOK
<1> HIDE DEF to, after, data
<1>6. m \in Frame
  BY <1>3, <1>4 DEF Frame
<1>7. ASSUME NEW s, Sound(s), Held(s.acc[ch], s.pend[ch], Said(ch))
      PROVE  Held(TextAfter(s, ch, frame).acc[ch],
                  TextAfter(s, ch, frame).pend[ch], Said(ch)')
  <2>1. Held(s.acc[ch] \o Decode(Rendered(s.pend[ch], boundary, data)),
             Kept(s.pend[ch], boundary, data), after)
    BY <1>2, <1>3, <1>4, <1>7, HeldAfterPart
  <2>2. ch \in DOMAIN s.acc /\ ch \in DOMAIN s.pend
    BY <1>7 DEF Sound
  <2>3. /\ TextAfter(s, ch, frame).acc[ch]
             = s.acc[ch] \o Decode(Rendered(s.pend[ch], boundary, data))
        /\ TextAfter(s, ch, frame).pend[ch] = Kept(s.pend[ch], boundary, data)
    BY <2>2 DEF TextAfter, Client
  <2> QED BY <1>5, <2>1, <2>3
<1> HIDE DEF frame
<1> QED BY <1>1, <1>2, <1>6, <1>7, TextKeepsInv

\* CONTENT only: a REWIND of REASONING would go unheard.
LEMMA RewindTextKeepsInv ==
    ASSUME "REASONING" \notin Rewindable, IInv,
           NEW ch \in TextChannels, NEW k \in 0..sent[ch], RewindText(ch, k)
    PROVE  IInv'
<1> DEFINE after == SubSeq(Text[ch], 1, k)
           frame == [op |-> "REWIND", boundary |-> FALSE, data |-> <<>>,
                     offset |-> k, after |-> after]
           m == [channel |-> ch, body |-> frame]
<1>1. /\ Text[ch] \in Seq(Byte) /\ sent[ch] \in 0..Len(Text[ch])
      /\ k \in 0..Len(Text[ch]) /\ k \in Nat
  BY SessionAssumption DEF IInv, GatewayOK
<1>2. /\ told = {} /\ UNCHANGED <<toolsSent, told>> /\ UNCHANGED clientVars
      /\ wire' = Append(wire, m)
      /\ sent' = [sent EXCEPT ![ch] = k]
      /\ AllAscii(after, k) /\ WellFormed(Said(ch))
      /\ ch \in Rewindable
  BY DEF RewindText, CountRewind, Push, Said
<1>3. ch = "CONTENT"
  BY <1>2 DEF TextChannels
<1>4. /\ after \in Seq(Byte) /\ Len(after) = k /\ Partial(after)
      /\ Said(ch) \in Seq(Byte) /\ Len(Said(ch)) = sent[ch]
  BY <1>1, PartOfText DEF Said
<1>5. WellFormed(after)
  <2>1. ASSUME NEW i \in 1..k PROVE Need(after[i]) = 0
    BY <1>2, <1>4, <2>1, NeedRange DEF AllAscii
  <2> QED BY <1>4, <2>1 DEF WellFormed, Closed
<1>6. after = SubSeq(Said(ch), 1, k) /\ AllAscii(Said(ch), k)
  <2>1. after = SubSeq(Said(ch), 1, k)
    BY <1>1 DEF Said
  <2>2. \A i \in 1..k : Said(ch)[i] = after[i]
    BY <1>1 DEF Said
  <2> QED BY <1>2, <2>1, <2>2 DEF AllAscii
<1>7. Said(ch)' = after
  BY <1>1, <1>2 DEF Said, IInv, GatewayOK
<1> HIDE DEF after
<1>8. m \in Frame
  BY <1>1, <1>4 DEF Frame
<1>9. ASSUME NEW s, Sound(s), Held(s.acc[ch], s.pend[ch], Said(ch))
      PROVE  Held(TextAfter(s, ch, frame).acc[ch],
                  TextAfter(s, ch, frame).pend[ch], Said(ch)')
  <2>1. k \in 0..Len(Said(ch))
    BY <1>4
  <2>2. Held(Slice(s.acc[ch], k), s.pend[ch], after)
    BY <1>2, <1>4, <1>5, <1>6, <1>9, <2>1, HeldAfterRewind
  <2>3. ch \in DOMAIN s.acc
    BY <1>9 DEF Sound
  <2>4. /\ TextAfter(s, ch, frame).acc[ch] = Slice(s.acc[ch], k)
        /\ TextAfter(s, ch, frame).pend[ch] = s.pend[ch]
    BY <1>3, <2>3 DEF TextAfter, Client
  <2> QED BY <1>7, <2>2, <2>4
<1> HIDE DEF frame
<1> QED BY <1>1, <1>2, <1>8, <1>9, TextKeepsInv

\* A frame of the session is sent; END comes last.
LEMMA SendSessionKeepsInv ==
    ASSUME IInv, NEW field \in SessionFields, SendSession(field)
    PROVE  IInv'
<1> DEFINE m == [channel |-> "SESSION", body |-> [op |-> field]]
<1>1. /\ "END" \notin told /\ told' = told \cup {field}
      /\ UNCHANGED <<sent, toolsSent>> /\ UNCHANGED clientVars
      /\ wire' = Append(wire, m) /\ GatewayOK
  BY DEF SendSession, Push, Terminated, IInv
<1>2. m \in Frame /\ Sorted(m)
  BY DEF Frame, Sorted
<1>3. ASSUME NEW s, Sound(s), Meant(s)
      PROVE  Sound(After(s, m)) /\ Meant(After(s, m))'
  <2>1. PICK r : r = Client(s.acc, s.pend, s.act, s.done, s.noted \cup {field})
    OBVIOUS
  <2>2. After(s, m) = r
    BY <2>1 DEF After, TextChannels
  <2>3. /\ r.acc = s.acc /\ r.pend = s.pend /\ r.act = s.act /\ r.done = s.done
        /\ r.noted = s.noted \cup {field}
        /\ r = Client(r.acc, r.pend, r.act, r.done, r.noted)
    BY <2>1 DEF Client
  <2>4. Sound(r)
    BY <1>3, <2>3 DEF Sound
  <2>5. Meant(r)'
    <3>1. \A ch \in TextChannels : Said(ch)' = Said(ch)
      BY <1>1 DEF Said
    <3> QED BY <1>1, <1>3, <2>3, <3>1 DEF Meant
  <2> QED BY <2>2, <2>4, <2>5 DEF Meant
<1>4. Leads(m)
  BY <1>3 DEF Leads
<1> HIDE DEF m
<1>5. /\ sent' \in [TextChannels -> Nat]
      /\ \A c \in TextChannels : sent'[c] <= Len(Text[c])
      /\ toolsSent' \in 0..Len(Cuts) /\ told' \subseteq SessionFields
  BY <1>1 DEF GatewayOK
<1> QED BY <1>1, <1>2, <1>4, <1>5, PushKeepsInv

------------------------------------------------------------------------------
(* The tool call *)

\* Each frame carries the arguments on from where the one before it ended.
LEMMA CallParts ==
    ASSUME NEW n \in 1..Len(Cuts)
    PROVE  /\ SubSeq(Args, 1, Carried(n - 1))
                \o SubSeq(Args, Carried(n - 1) + 1, Carried(n))
              = SubSeq(Args, 1, Carried(n))
           /\ SubSeq(Args, 1, Carried(n)) \in Seq(STRING)
           /\ n = Len(Cuts) => SubSeq(Args, 1, Carried(n)) = Args
<1>1. /\ Args \in Seq(STRING) /\ Len(Args) \in Nat
      /\ Cuts \in Seq(0..Len(Args)) /\ Len(Cuts) \in Nat
      /\ Cuts[Len(Cuts)] = Len(Args)
  BY SessionAssumption
<1>2. Carried(n - 1) \in 0..Len(Args) /\ Carried(n) \in Carried(n - 1)..Len(Args)
  <2>1. Carried(n) = Cuts[n] /\ Cuts[n] \in 0..Len(Args)
    BY <1>1 DEF Carried
  <2>2. CASE n = 1
    BY <1>1, <2>1, <2>2 DEF Carried
  <2>3. CASE n # 1
    <3>1. n - 1 \in 1..Len(Cuts) /\ n > 1
      BY <2>3
    <3>2. /\ Carried(n - 1) = Cuts[n - 1] /\ Cuts[n - 1] \in 0..Len(Args)
          /\ Cuts[n - 1] <= Cuts[n]
      <4>1. Carried(n - 1) = Cuts[n - 1]
        BY <3>1 DEF Carried
      <4>2. Cuts[n - 1] \in 0..Len(Args)
        BY <1>1, <3>1
      <4>3. Cuts[n - 1] <= Cuts[n]
        BY <3>1, SessionAssumption
      <4> QED BY <4>1, <4>2, <4>3
    <3> QED BY <1>1, <2>1, <3>2
  <2> QED BY <2>2, <2>3
<1>3. SubSeq(Args, 1, Carried(n)) \in Seq(STRING)
  BY <1>1, <1>2, SubSeqProperties
<1>4. SubSeq(Args, 1, Carried(n - 1)) \o SubSeq(Args, Carried(n - 1) + 1, Carried(n))
        = SubSeq(Args, 1, Carried(n))
  <2>1. PICK k : k = Carried(n - 1)
    OBVIOUS
  <2>2. PICK l : l = Carried(n)
    OBVIOUS
  <2>3. 1 \in 1..Len(Args) + 1 /\ k \in (1 - 1)..Len(Args) /\ l \in k..Len(Args)
    BY <1>1, <1>2, <2>1, <2>2
  <2>4. SubSeq(Args, 1, k) \o SubSeq(Args, k + 1, l) = SubSeq(Args, 1, l)
    BY <1>1, <2>3, ConcatAdjacentSubSeq
  <2> QED BY <2>1, <2>2, <2>4, Zenon
<1>5. n = Len(Cuts) => SubSeq(Args, 1, Carried(n)) = Args
  BY <1>1 DEF Carried
<1> QED BY <1>3, <1>4, <1>5

\* The assembler that holds what was sent collects what is sent next.
LEMMA CollectsNext ==
    ASSUME NEW n \in 1..Len(Cuts)
    PROVE  /\ ~Unknown(ActiveAt(n - 1), ToolFrame(n))
           /\ Collected(ActiveAt(n - 1), ToolFrame(n)) = CallSoFar(n)
<1> DEFINE f == ToolFrame(n)
           delta == SubSeq(Args, Carried(n - 1) + 1, Carried(n))
           now == SubSeq(Args, 1, Carried(n))
<1>1. f.key = Key /\ f.start = (n = 1) /\ f.id = Id /\ f.delta = delta
  BY DEF ToolFrame
<1>2. SubSeq(Args, 1, Carried(n - 1)) \o delta = now
  BY CallParts
<1>3. CallSoFar(n) = [key \in {Key} |-> [id |-> Id, args |-> now]]
  BY DEF CallSoFar
<1>4. CASE n = 1
  <2>1. ActiveAt(n - 1) = NoCall
    BY <1>4 DEF ActiveAt
  <2>2. delta = now
    BY <1>4 DEF Carried
  <2> HIDE DEF f, delta, now
  <2>3. Collected(NoCall, f) = Put(NoCall, Key, [id |-> Id, args |-> now])
    BY <1>1, <1>4, <2>2 DEF Collected
  <2>4. Put(NoCall, Key, [id |-> Id, args |-> now]) = CallSoFar(n)
    BY <1>3 DEF Put, NoCall
  <2>5. ~Unknown(NoCall, f)
    BY <1>1, <1>4 DEF Unknown
  <2> QED BY <2>1, <2>3, <2>4, <2>5 DEF f
<1>5. CASE n # 1
  <2>1. n - 1 \notin {0, Len(Cuts)}
    BY <1>5, SessionAssumption
  <2> DEFINE before == SubSeq(Args, 1, Carried(n - 1))
             m == [key \in {Key} |-> [id |-> Id, args |-> before]]
  <2>2. ActiveAt(n - 1) = m
    BY <2>1 DEF ActiveAt, CallSoFar
  <2> HIDE DEF f, delta, now, before
  <2>3. ~Unknown(m, f)
    BY <1>1 DEF Unknown
  <2>4. Collected(m, f) = [m EXCEPT ![Key].args = @ \o delta]
    BY <1>1, <1>5 DEF Collected
  <2>5. before \o delta = now
    BY <1>2 DEF before
  <2>6. [m EXCEPT ![Key].args = @ \o delta]
          = [key \in {Key} |-> [id |-> Id, args |-> now]]
    <3>1. PICK e : e = [id |-> Id, args |-> before]
      OBVIOUS
    <3>2. m[Key] = e /\ m = [key \in {Key} |-> e] /\ e.args = before
      BY <3>1
    <3> HIDE DEF m
    <3>3. [e EXCEPT !.args = now] = [id |-> Id, args |-> now]
      BY <3>1
    <3>4. [m EXCEPT ![Key].args = @ \o delta]
            = [key \in {Key} |-> [e EXCEPT !.args = now]]
      BY <2>5, <3>2
    <3> QED BY <3>3, <3>4
  <2> QED BY <1>3, <2>2, <2>3, <2>4, <2>6 DEF f
<1> QED BY <1>4, <1>5

\* So the call is complete with the frame that ends it, and not before.
LEMMA ToolAssembled ==
    ASSUME NEW n \in 1..Len(Cuts)
    PROVE  /\ ActiveTS(ActiveAt(n - 1), ToolFrame(n)) = ActiveAt(n)
           /\ DoneAt(n - 1) \o CompletedBy(ActiveAt(n - 1), ToolFrame(n))
                = DoneAt(n)
<1> DEFINE f == ToolFrame(n)
           m == ActiveAt(n - 1)
<1>1. f.key = Key /\ f.end = (n = Len(Cuts))
  BY DEF ToolFrame
<1>2. ~Unknown(m, f) /\ Collected(m, f) = CallSoFar(n)
  BY CollectsNext
<1> HIDE DEF f, m
<1>3. CallSoFar(n)[Key] = [id |-> Id, args |-> SubSeq(Args, 1, Carried(n))]
  BY DEF CallSoFar
<1>4. n # 0 /\ DoneAt(n - 1) = <<>>
  BY SessionAssumption DEF DoneAt
<1>5. CASE n = Len(Cuts)
  <2>1. SubSeq(Args, 1, Carried(n)) = Args
    BY <1>5, CallParts
  <2>2. Without(CallSoFar(n), Key) = NoCall
    BY DEF Without, Restrict, CallSoFar, NoCall
  <2>3. ActiveTS(m, f) = NoCall /\ ActiveAt(n) = NoCall
    BY <1>1, <1>2, <1>5, <2>2 DEF ActiveTS, ActiveAt
  <2>4. CompletedBy(m, f) = <<[key |-> Key, id |-> Id, args |-> Args]>>
    <3>1. CallSoFar(n)[Key].args = Args /\ CallSoFar(n)[Key].id = Id
      BY <1>3, <2>1
    <3>2. Completes(m, f)
      BY <1>1, <1>2, <1>5, <3>1, SessionAssumption DEF Completes
    <3> QED BY <1>1, <1>2, <3>1, <3>2 DEF CompletedBy
  <2>5. DoneAt(n) = <<[key |-> Key, id |-> Id, args |-> Args]>>
    BY <1>5 DEF DoneAt
  <2>6. \A call : <<>> \o <<call>> = <<call>>
    OBVIOUS
  <2>7. DoneAt(n - 1) \o CompletedBy(m, f) = DoneAt(n)
    BY <1>4, <2>4, <2>5, <2>6, Zenon
  <2> QED BY <2>3, <2>7 DEF f, m
<1>6. CASE n # Len(Cuts)
  <2>1. ActiveTS(m, f) = CallSoFar(n) /\ ActiveAt(n) = CallSoFar(n)
    BY <1>1, <1>2, <1>4, <1>6 DEF ActiveTS, ActiveAt
  <2>2. CompletedBy(m, f) = <<>> /\ DoneAt(n) = <<>>
    BY <1>1, <1>6 DEF CompletedBy, Completes, DoneAt
  <2> QED BY <1>4, <2>1, <2>2 DEF f, m
<1> QED BY <1>5, <1>6

\* However much of the call was sent, the map holds it and nothing else.
LEMMA ActiveIsMap ==
    ASSUME NEW n \in 0..Len(Cuts)
    PROVE  /\ DOMAIN ActiveAt(n) \subseteq {Key}
           /\ ActiveAt(n) \in [DOMAIN ActiveAt(n) -> Call]
<1>1. CASE n \in {0, Len(Cuts)}
  BY <1>1 DEF ActiveAt, NoCall
<1>2. CASE n \notin {0, Len(Cuts)}
  <2>1. n \in 1..Len(Cuts)
    BY <1>2, SessionAssumption
  <2>2. [id |-> Id, args |-> SubSeq(Args, 1, Carried(n))] \in Call
    BY <2>1, CallParts, SessionAssumption DEF Call
  <2> QED BY <1>2, <2>2 DEF ActiveAt, CallSoFar
<1> QED BY <1>1, <1>2

\* A frame of the tool call leaves the texts and the accounts alone.
LEMMA ToolKeepsInv ==
    ASSUME IInv, told = {}, NEW frame,
           NEW m, m = [channel |-> "TOOL_CALL", body |-> frame], m \in Frame,
           wire' = Append(wire, m), UNCHANGED clientVars,
           toolsSent' \in 0..Len(Cuts), UNCHANGED <<sent, told>>,
           NEW act, NEW done, act = ActiveAt(toolsSent'), done = DoneAt(toolsSent'),
           \A s : Sound(s) /\ s.act = ActiveAt(toolsSent) /\ s.done = DoneAt(toolsSent)
                  => ToolAfter(s, frame) = Client(s.acc, s.pend, act, done, s.noted)
    PROVE  IInv'
<1>1. GatewayOK
  BY DEF IInv
<1>2. Sorted(m)
  BY DEF Sorted
<1>3. ASSUME NEW s, Sound(s), Meant(s)
      PROVE  Sound(After(s, m)) /\ Meant(After(s, m))'
  <2>1. PICK r : r = Client(s.acc, s.pend, act, done, s.noted)
    OBVIOUS
  <2>2. After(s, m) = r
    BY <1>3, <2>1 DEF After, TextChannels, Meant
  <2>3. /\ r.acc = s.acc /\ r.pend = s.pend /\ r.act = act /\ r.done = done
        /\ r.noted = s.noted
        /\ r = Client(r.acc, r.pend, r.act, r.done, r.noted)
    BY <2>1 DEF Client
  <2>4. DOMAIN act \subseteq {Key} /\ act \in [DOMAIN act -> Call]
    BY ActiveIsMap
  <2>5. Sound(r)
    BY <1>3, <2>3, <2>4 DEF Sound
  <2>6. Meant(r)'
    <3>1. \A ch \in TextChannels : Said(ch)' = Said(ch)
      BY DEF Said
    <3>2. \A ch \in TextChannels : Held(r.acc[ch], r.pend[ch], Said(ch)')
      BY <1>3, <2>3, <3>1 DEF Meant
    <3>3. s.noted = told
      BY <1>3 DEF Meant
    <3> QED BY <2>3, <3>2, <3>3 DEF Meant
  <2> QED BY <2>2, <2>5, <2>6 DEF Meant
<1>4. Leads(m)
  BY <1>3 DEF Leads
<1>5. /\ sent' \in [TextChannels -> Nat]
      /\ \A c \in TextChannels : sent'[c] <= Len(Text[c])
      /\ told' \subseteq SessionFields
  BY <1>1 DEF GatewayOK
<1> QED BY <1>2, <1>4, <1>5, PushKeepsInv

\* A fragment of the call is sent.
LEMMA SendToolKeepsInv ==
    ASSUME IInv, SendTool
    PROVE  IInv'
<1> DEFINE n == toolsSent + 1
           frame == ToolFrame(n)
           m == [channel |-> "TOOL_CALL", body |-> frame]
<1>1. /\ n \in 1..Len(Cuts) /\ n - 1 = toolsSent /\ n \in 0..Len(Cuts)
      /\ told = {} /\ toolsSent' = n /\ UNCHANGED <<sent, told>>
      /\ wire' = Append(wire, m) /\ UNCHANGED clientVars
  BY SessionAssumption DEF SendTool, Push, IInv, GatewayOK
<1> HIDE DEF n
<1>2. m \in Frame
  BY <1>1 DEF Frame
<1>3. /\ ActiveTS(ActiveAt(toolsSent), frame) = ActiveAt(n)
      /\ DoneAt(toolsSent) \o CompletedBy(ActiveAt(toolsSent), frame) = DoneAt(n)
  BY <1>1, ToolAssembled
<1>4. frame.op = "TOOL_CALL"
  BY DEF ToolFrame
<1> HIDE DEF frame
<1>5. ASSUME NEW s, s.act = ActiveAt(toolsSent), s.done = DoneAt(toolsSent)
      PROVE  ToolAfter(s, frame)
               = Client(s.acc, s.pend, ActiveAt(n), DoneAt(n), s.noted)
  BY <1>3, <1>4, <1>5 DEF ToolAfter
<1> QED BY <1>1, <1>2, <1>5, ToolKeepsInv

\* The call is taken back.
LEMMA RewindToolKeepsInv ==
    ASSUME IInv, RewindTool
    PROVE  IInv'
<1> DEFINE frame == [op |-> "REWIND", key |-> Key, offset |-> 0]
           m == [channel |-> "TOOL_CALL", body |-> frame]
<1>1. /\ toolsSent \in 0..Len(Cuts) /\ toolsSent < Len(Cuts) /\ 0 \in 0..Len(Cuts)
      /\ told = {} /\ toolsSent' = 0 /\ UNCHANGED <<sent, told>>
      /\ wire' = Append(wire, m) /\ UNCHANGED clientVars
  BY SessionAssumption DEF RewindTool, CountRewind, Push, IInv, GatewayOK
<1>2. m \in Frame
  BY DEF Frame
<1>3. Discarded(ActiveAt(toolsSent), Key[1]) = ActiveAt(0)
  <2>1. DOMAIN ActiveAt(toolsSent) \subseteq {Key}
    BY <1>1, ActiveIsMap
  <2>2. {key \in DOMAIN ActiveAt(toolsSent) : key[1] # Key[1]} = {}
    BY <2>1
  <2>3. Restrict(ActiveAt(toolsSent), {}) = NoCall
    BY DEF Restrict, NoCall
  <2> QED BY <2>2, <2>3, Zenon DEF Discarded, ActiveAt
<1>4. DoneAt(toolsSent) = DoneAt(0)
  BY <1>1 DEF DoneAt
<1>5. ASSUME NEW s, s.act = ActiveAt(toolsSent), s.done = DoneAt(toolsSent)
      PROVE  ToolAfter(s, frame)
               = Client(s.acc, s.pend, ActiveAt(0), DoneAt(0), s.noted)
  BY <1>3, <1>4, <1>5 DEF ToolAfter
<1> HIDE DEF frame
<1> QED BY <1>1, <1>2, <1>5, ToolKeepsInv

------------------------------------------------------------------------------
(* So does every step of the client, and the session starts with it. *)

\* The client takes the first frame, and its state is the next of the course.
LEMMA ReceiveKeepsInv ==
    ASSUME IInv, Receive
    PROVE  IInv'
<1>1. PICK tr : Course(tr)
  BY DEF IInv
<1>2. /\ GatewayOK /\ UNCHANGED gatewayVars
      /\ wire # <<>> /\ wire' = Tail(wire) /\ waiting
  BY DEF Receive, IInv
<1>3. PICK n : n = Len(wire)
  OBVIOUS
<1>4. /\ n \in Nat /\ n >= 1 /\ 1 \in 1..n
      /\ wire' \in Seq(Frame) /\ Len(wire') = n - 1
      /\ \A i \in 1..(n - 1) : wire'[i] = wire[i + 1]
      /\ Head(wire) = wire[1]
  BY <1>2, <1>3 DEF GatewayOK
<1>5. /\ sent' = sent /\ toolsSent' = toolsSent /\ told' = told
  BY <1>2 DEF gatewayVars
<1>6. PICK m : m = Head(wire)
  OBVIOUS
<1>7. Sorted(m) /\ m \in Frame
  BY <1>2, <1>3, <1>4, <1>6 DEF GatewayOK
<1>8. /\ \/ HandleText(m.channel, m.body)
         \/ HandleToolCall(m.channel, m.body)
         \/ HandleRewind(m.channel, m.body)
         \/ HandleSession(m.channel, m.body)
      /\ waiting' = (m.body.op # "END")
  BY <1>6 DEF Receive, StillWaiting
<1>9. Now' = After(Now, m)
  <2>0. m.channel \in TextChannels \cup {"TOOL_CALL", "SESSION"}
    BY <1>7 DEF Frame
  <2>1. CASE HandleText(m.channel, m.body)
    BY <2>1 DEF HandleText, AssemblerOf, Now, After, TextAfter, Client
  <2>2. CASE HandleToolCall(m.channel, m.body)
    BY <2>2 DEF HandleToolCall, Now, After, ToolAfter, Client, TextChannels
  <2>3. CASE HandleRewind(m.channel, m.body)
    <3>1. m.channel \in TextChannels \cup {"TOOL_CALL"}
      BY <1>7, <2>0, <2>3 DEF HandleRewind, Sorted, SessionFields
    <3> QED BY <2>3, <3>1 DEF HandleRewind, Now, After, TextAfter, ToolAfter,
                              Client, TextChannels
  <2>4. CASE HandleSession(m.channel, m.body)
    BY <2>4 DEF HandleSession, Now, After, Client, TextChannels
  <2> QED BY <1>8, <2>1, <2>2, <2>3, <2>4
<1>10. waiting' = ("END" \notin seen')
  <2>1. "END" \notin seen
    BY <1>2 DEF GatewayOK
  <2>2. CASE HandleSession(m.channel, m.body)
    BY <1>8, <2>1, <2>2 DEF HandleSession
  <2>3. CASE ~HandleSession(m.channel, m.body)
    BY <1>8, <2>1, <2>3 DEF HandleText, HandleToolCall, HandleRewind
  <2> QED BY <2>2, <2>3
<1>11. GatewayOK'
  <2>1. \A i \in 1..(n - 1) : Sorted(wire'[i])
    <3>1. \A i \in 1..(n - 1) : i + 1 \in 1..n
      BY <1>4
    <3> QED BY <1>2, <1>3, <1>4, <3>1 DEF GatewayOK
  <2> QED BY <1>2, <1>4, <1>5, <1>10, <2>1 DEF GatewayOK
<1> DEFINE next == [i \in 0..(n - 1) |-> tr[i + 1]]
<1>12. /\ \A i \in 0..(n - 1) : next[i] = tr[i + 1]
       /\ next = [i \in 0..(n - 1) |-> next[i]]
  OBVIOUS
<1> HIDE DEF next
<1>13. next[0] = Now'
  <2>1. tr[0] = Now /\ \A i \in 1..n : tr[i] = After(tr[i - 1], wire[i])
    BY <1>1, <1>3, Zenon DEF Course
  <2>2. 1 \in 1..n /\ 1 - 1 = 0 /\ 0 \in 0..(n - 1) /\ 0 + 1 = 1
    BY <1>4
  <2>3. tr[1] = After(tr[0], wire[1])
    BY <2>1, <2>2
  <2>4. next[0] = tr[1]
    BY <1>12, <2>2
  <2> QED BY <1>4, <1>6, <1>9, <2>1, <2>3, <2>4, Zenon
<1>14. ASSUME NEW i \in 1..(n - 1) PROVE next[i] = After(next[i - 1], wire'[i])
  <2>1. i + 1 \in 1..n /\ (i + 1) - 1 = i /\ (i - 1) + 1 = i
        /\ i - 1 \in 0..(n - 1) /\ i \in 0..(n - 1)
    BY <1>4
  <2>2. tr[i + 1] = After(tr[(i + 1) - 1], wire[i + 1])
    BY <1>1, <1>3, <2>1 DEF Course
  <2>3. next[i] = tr[i + 1] /\ next[i - 1] = tr[(i - 1) + 1]
    BY <1>12, <2>1, Zenon
  <2>4. wire'[i] = wire[i + 1]
    BY <1>4
  <2> QED BY <2>1, <2>2, <2>3, <2>4, Zenon
<1>15. ASSUME NEW i \in 0..(n - 1)
       PROVE  Sound(next[i]) /\ (i \in 0..(n - 2) => "END" \notin next[i].noted)
  <2>1. i + 1 \in 0..n /\ (i \in 0..(n - 2) => i + 1 \in 0..(n - 1))
    BY <1>4
  <2>2. next[i] = tr[i + 1] /\ Sound(tr[i + 1])
    BY <1>1, <1>3, <1>12, <2>1 DEF Course
  <2>3. i \in 0..(n - 2) => "END" \notin tr[i + 1].noted
    BY <1>1, <1>3, <2>1 DEF Course
  <2> QED BY <2>2, <2>3
<1>16. Meant(next[n - 1])'
  <2>1. n - 1 \in 0..(n - 1) /\ (n - 1) + 1 = n
    BY <1>4
  <2>2. next[n - 1] = tr[n] /\ Meant(tr[n])
    BY <1>1, <1>3, <1>12, <2>1 DEF Course
  <2> QED BY <1>5, <2>2 DEF Meant, Said
<1>17. (n - 1) - 1 = n - 2
       /\ \A i \in 0..(n - 2) : i \in 0..(n - 1)
  BY <1>4
<1>18. Course(next)'
  BY <1>4, <1>12, <1>13, <1>14, <1>15, <1>16, <1>17 DEF Course
<1> QED BY <1>11, <1>18 DEF IInv

\* Nothing has been sent: the course is the first state alone.
LEMMA InitInv == Init => IInv
<1> SUFFICES ASSUME Init PROVE IInv
  OBVIOUS
<1> DEFINE tr == [i \in 0..0 |-> Now]
<1>1. /\ wire = <<>> /\ Len(wire) = 0 /\ toolsSent = 0 /\ told = {}
      /\ Now = Client(accumulated, pending, NoCall, <<>>, {})
      /\ accumulated = [ch \in TextChannels |-> <<>>]
      /\ pending = [ch \in TextChannels |-> <<>>]
      /\ sent = [ch \in TextChannels |-> 0]
  BY DEF Init, Now, NoCall
<1>2. GatewayOK
  <2>1. \A ch \in TextChannels : Len(Text[ch]) \in Nat
    BY SessionAssumption
  <2>2. Len(Cuts) \in Nat
    BY SessionAssumption
  <2>3. waiting = ("END" \notin seen)
    BY DEF Init
  <2>4. sent \in [TextChannels -> Nat] /\ \A ch \in TextChannels : sent[ch] = 0
    BY <1>1
  <2>5. wire \in Seq(Frame) /\ \A i \in 1..Len(wire) : Sorted(wire[i])
    BY <1>1
  <2>6. toolsSent \in 0..Len(Cuts) /\ told \subseteq SessionFields
    BY <1>1, <2>2
  <2> QED BY <2>1, <2>3, <2>4, <2>5, <2>6 DEF GatewayOK
<1>3. Sound(Now)
  BY <1>1 DEF Sound, Client, NoCall
<1>4. Meant(Now)
  <2>1. ASSUME NEW ch \in TextChannels PROVE Held(<<>>, <<>>, Said(ch))
    <3>1. Said(ch) = <<>>
      BY <1>1, SessionAssumption DEF Said
    <3>2. WellFormed(<<>>)
      BY DEF WellFormed, Partial, Closed
    <3> QED BY <3>1, <3>2 DEF Held
  <2>2. ActiveAt(0) = NoCall /\ DoneAt(0) = <<>>
    BY SessionAssumption DEF ActiveAt, DoneAt
  <2> QED BY <1>1, <2>1, <2>2 DEF Meant, Client
<1>5. tr = [i \in 0..0 |-> tr[i]] /\ tr[0] = Now
  OBVIOUS
<1> HIDE DEF tr
<1>6. Course(tr)
  BY <1>1, <1>3, <1>4, <1>5 DEF Course
<1> QED BY <1>2, <1>6 DEF IInv

\* No step leaves the invariant.
LEMMA NextKeepsInv ==
    ASSUME "REASONING" \notin Rewindable, IInv, [Next]_vars
    PROVE  IInv'
<1>1. CASE Receive
  BY <1>1, ReceiveKeepsInv
<1>2. CASE GatewayNext
  <2>1. CASE \E ch \in TextChannels, n \in Nat, boundary \in BOOLEAN :
                n \in 1..(Len(Text[ch]) - sent[ch]) /\ SendText(ch, n, boundary)
    BY <2>1, SendTextKeepsInv
  <2>2. CASE \E ch \in TextChannels : \E k \in 0..sent[ch] : RewindText(ch, k)
    BY <2>2, RewindTextKeepsInv
  <2>3. CASE SendTool
    BY <2>3, SendToolKeepsInv
  <2>4. CASE RewindTool
    BY <2>4, RewindToolKeepsInv
  <2>5. CASE \E field \in SessionFields : SendSession(field)
    BY <2>5, SendSessionKeepsInv
  <2> QED BY <1>2, <2>1, <2>2, <2>3, <2>4, <2>5 DEF GatewayNext
<1>3. CASE UNCHANGED vars
  <2>1. UNCHANGED <<sent, toolsSent, told, wire, accumulated, pending, active,
                    completedTools, seen, waiting>>
    BY <1>3 DEF vars, gatewayVars, clientVars
  <2>2. GatewayOK'
    BY <2>1 DEF IInv, GatewayOK
  <2>3. PICK tr : Course(tr)
    BY DEF IInv
  <2>4. Course(tr)'
    BY <2>1, <2>3 DEF Course, Meant, Said, Now
  <2> QED BY <2>2, <2>4 DEF IInv
<1> QED BY <1>1, <1>2, <1>3 DEF Next

\* There is always a course from what the client holds to what the gateway means
\* it to hold, through the frames in flight, on which END comes last.
THEOREM Invariance ==
    ASSUME "REASONING" \notin Rewindable
    PROVE  Spec => []IInv
<1>1. IInv /\ [Next]_vars => IInv'
  BY NextKeepsInv
<1> QED BY <1>1, InitInv, PTL DEF Spec

------------------------------------------------------------------------------
(* The frames of one channel among those of the session *)

Bodies == {m.body : m \in Frame}

Parts(ch, frames) == [i \in 1..Len(frames) |-> Own(ch, frames[i])]

\* Of one frame, its channel has one, and every other channel none.
LEMMA OwnParts ==
    ASSUME NEW frames \in Seq(Frame), NEW ch
    PROVE  Parts(ch, frames) \in [1..Len(frames) -> Seq(Bodies)]
<1> SUFFICES ASSUME NEW i \in 1..Len(frames)
             PROVE  Own(ch, frames[i]) \in Seq(Bodies)
  BY DEF Parts
<1>1. frames[i] \in Frame
  OBVIOUS
<1>2. frames[i].body \in Bodies
  BY <1>1 DEF Bodies
<1> HIDE DEF Bodies
<1> QED BY <1>2 DEF Own

\* WireOf is where the chain of these parts ends.
LEMMA WireChained ==
    ASSUME NEW frames \in Seq(Frame), NEW ch
    PROVE  \E c : /\ Chained(c, Len(frames), Parts(ch, frames))
                  /\ WireOf(ch, frames) = c[Len(frames)]
<1> DEFINE n == Len(frames)
           Runs(c) == c = [i \in 0..n |->
                              IF i = 0 THEN <<>>
                                       ELSE c[i - 1] \o Own(ch, frames[i])]
<1> n \in Nat
  OBVIOUS
<1>1. PICK c : Chained(c, n, Parts(ch, frames))
  <2> HIDE DEF n
  <2> QED BY ChainExists
<1>2. ASSUME NEW d PROVE Runs(d) <=> Chained(d, n, Parts(ch, frames))
  <2>1. ASSUME NEW i \in 0..n, i # 0
        PROVE  Own(ch, frames[i]) = Parts(ch, frames)[i]
    BY <2>1 DEF Parts
  <2>2. \A i \in 0..n : (IF i = 0 THEN <<>> ELSE d[i - 1] \o Own(ch, frames[i]))
                        = (IF i = 0 THEN <<>>
                                    ELSE d[i - 1] \o Parts(ch, frames)[i])
    BY <2>1
  <2> QED BY <2>2 DEF Chained
<1>3. WireOf(ch, frames) = (CHOOSE d : Runs(d))[n]
  BY DEF WireOf
<1> HIDE DEF Runs
<1>4. Runs(c)
  BY <1>1, <1>2
<1>5. Runs(CHOOSE d : Runs(d))
  BY <1>4
<1> QED BY <1>2, <1>3, <1>5

Agree(p, q, n) == \A i \in 1..n : p[i] = q[i]
Begins(c, n, d) == d[n] = c[n]

\* The chain of all parts but the last is the beginning of the chain of them all.
LEMMA ChainBegins ==
    ASSUME NEW n \in Nat, NEW p, NEW q, Agree(p, q, n),
           NEW c, Chained(c, n, p), NEW d, Chained(d, n + 1, q)
    PROVE  Begins(c, n, d)
<1> DEFINE Same == {j \in Nat : j <= n => c[j] = d[j]}
<1>1. 0 \in Same
  BY DEF Chained
<1>2. ASSUME NEW j \in Nat, j \in Same PROVE j + 1 \in Same
  <2> SUFFICES ASSUME j + 1 <= n PROVE c[j + 1] = d[j + 1]
    OBVIOUS
  <2>1. j + 1 \in 0..n /\ j + 1 \in 0..(n + 1) /\ j + 1 # 0 /\ (j + 1) - 1 = j
    OBVIOUS
  <2>2. c[j + 1] = c[j] \o p[j + 1]
    BY <2>1 DEF Chained
  <2>3. d[j + 1] = d[j] \o q[j + 1]
    BY <2>1 DEF Chained
  <2>4. c[j] = d[j] /\ p[j + 1] = q[j + 1]
    BY <1>2 DEF Agree
  <2> QED BY <2>2, <2>3, <2>4
<1>3. \A j \in Nat : j \in Same
  <2> HIDE DEF Same
  <2> QED BY <1>1, <1>2, Inductive
<1> QED BY <1>3 DEF Begins

\* The frames of a channel are some of all.
LEMMA WireTyped ==
    ASSUME NEW frames \in Seq(Frame), NEW ch
    PROVE  /\ WireOf(ch, frames) \in Seq(Bodies)
           /\ Len(WireOf(ch, frames)) <= Len(frames)
<1>1. PICK n \in Nat : n = Len(frames)
  OBVIOUS
<1>2. PICK c : Chained(c, n, Parts(ch, frames)) /\ WireOf(ch, frames) = c[n]
  BY <1>1, WireChained
<1>3. \A j \in 0..n : Joins(c, Parts(ch, frames), Bodies, j)
  BY <1>1, <1>2, OwnParts, ChainAt
<1> DEFINE Short == {j \in Nat : j <= n => Len(c[j]) <= j}
<1>4. 0 \in Short
  BY <1>2, Len(<<>>) = 0 DEF Chained
<1>5. ASSUME NEW j \in Nat, j \in Short PROVE j + 1 \in Short
  <2> SUFFICES ASSUME j + 1 <= n PROVE Len(c[j + 1]) <= j + 1
    OBVIOUS
  <2>1. /\ j + 1 \in 0..n /\ j + 1 > 0 /\ (j + 1) - 1 = j /\ j + 1 \in 1..n
        /\ j \in 0..n
    OBVIOUS
  <2>2. /\ Joins(c, Parts(ch, frames), Bodies, j + 1)
        /\ Joins(c, Parts(ch, frames), Bodies, j)
    BY <1>3, <2>1
  <2>3. Len(c[j + 1]) = Len(c[j]) + Len(Parts(ch, frames)[j + 1])
    BY <2>1, <2>2, Zenon DEF Joins
  <2>4. Len(Parts(ch, frames)[j + 1]) \in 0..1
    BY <1>1, <2>1 DEF Parts, Own
  <2>5. c[j] \in Seq(Bodies)
    BY <2>2, Zenon DEF Joins
  <2>6. Len(c[j]) \in Nat /\ Len(c[j]) <= j
    BY <1>5, <2>5
  <2>7. PICK a \in 0..j : a = Len(c[j])
    BY <2>6
  <2>8. PICK b \in 0..1 : b = Len(Parts(ch, frames)[j + 1])
    BY <2>4
  <2>9. Len(c[j + 1]) = a + b
    BY <2>3, <2>7, <2>8
  <2> QED BY <2>9
<1>6. \A j \in Nat : j \in Short
  <2> HIDE DEF Short
  <2> QED BY <1>4, <1>5, Inductive
<1>7. Len(c[n]) <= n
  BY <1>6
<1>8. c[n] \in Seq(Bodies)
  <2>1. Joins(c, Parts(ch, frames), Bodies, n)
    BY <1>3
  <2> QED BY <2>1, Zenon DEF Joins
<1> QED BY <1>1, <1>2, <1>7, <1>8

\* What is sent on a channel comes last there, and nowhere else.
LEMMA WireAppended ==
    ASSUME NEW frames \in Seq(Frame), NEW m \in Frame, NEW ch
    PROVE  WireOf(ch, Append(frames, m)) = WireOf(ch, frames) \o Own(ch, m)
<1>1. PICK n \in Nat : n = Len(frames)
  OBVIOUS
<1> DEFINE more == Append(frames, m)
<1>2. more \in Seq(Frame)
  OBVIOUS
<1>3. /\ Len(more) = n + 1 /\ more[n + 1] = m
      /\ \A i \in 1..n : more[i] = frames[i]
  BY <1>1
<1> HIDE DEF more
<1>4. PICK c : Chained(c, n, Parts(ch, frames)) /\ WireOf(ch, frames) = c[n]
  BY <1>1, WireChained
<1>5. PICK d : /\ Chained(d, n + 1, Parts(ch, more))
               /\ WireOf(ch, more) = d[n + 1]
  BY <1>2, <1>3, WireChained
<1>6. Agree(Parts(ch, frames), Parts(ch, more), n)
  BY <1>1, <1>3 DEF Parts, Agree
<1>7. c[n] = d[n]
  <2>1. Begins(c, n, d)
    BY <1>4, <1>5, <1>6, ChainBegins, Zenon
  <2> QED BY <2>1 DEF Begins
<1>8. d[n + 1] = d[n] \o Parts(ch, more)[n + 1]
  <2>1. n + 1 \in 0..(n + 1) /\ n + 1 # 0 /\ (n + 1) - 1 = n
    OBVIOUS
  <2> QED BY <1>5, <2>1 DEF Chained
<1>9. Parts(ch, more)[n + 1] = Own(ch, m)
  BY <1>3 DEF Parts
<1> QED BY <1>4, <1>5, <1>7, <1>8, <1>9 DEF more

\* Joining three parts of a channel, in either order.
LEMMA JoinBodies ==
    ASSUME NEW s \in Seq(Bodies), NEW t \in Seq(Bodies), NEW u \in Seq(Bodies)
    PROVE  Joined(s \o t, u, s \o (t \o u))
  BY ConcatAssociative DEF Joined

\* The first frame of all is the first of its channel.
LEMMA WireTail ==
    ASSUME NEW frames \in Seq(Frame), frames # <<>>, NEW ch
    PROVE  WireOf(ch, frames) = Own(ch, Head(frames)) \o WireOf(ch, Tail(frames))
<1>1. PICK n \in Nat : n + 1 = Len(frames)
  BY Len(frames) - 1 \in Nat
<1> DEFINE rest == Tail(frames)
<1>2. rest \in Seq(Frame)
  OBVIOUS
<1>3. Len(rest) = n /\ \A i \in 1..n : rest[i] = frames[i + 1]
  BY <1>1
<1> HIDE DEF rest
<1>4. PICK c : Chained(c, n, Parts(ch, rest)) /\ WireOf(ch, rest) = c[n]
  BY <1>2, <1>3, WireChained
<1>5. PICK d : /\ Chained(d, n + 1, Parts(ch, frames))
               /\ WireOf(ch, frames) = d[n + 1]
  BY <1>1, WireChained
<1>6. PICK h \in Seq(Bodies) : h = Own(ch, Head(frames))
  <2>1. Head(frames) = frames[1] /\ 1 \in 1..Len(frames)
    BY <1>1
  <2>2. Parts(ch, frames)[1] = Own(ch, Head(frames))
    BY <2>1 DEF Parts
  <2> QED BY <2>1, <2>2, OwnParts
<1>7. \A j \in 0..n : c[j] \in Seq(Bodies)
  <2>1. \A j \in 0..n : Joins(c, Parts(ch, rest), Bodies, j)
    BY <1>2, <1>3, <1>4, OwnParts, ChainAt
  <2> QED BY <2>1, Zenon DEF Joins
<1> DEFINE Same == {j \in Nat : j <= n => d[j + 1] = h \o c[j]}
<1>8. 0 \in Same
  <2>1. d[0] = <<>> /\ c[0] = <<>> /\ 1 \in 0..(n + 1)
    BY <1>4, <1>5 DEF Chained
  <2>2. d[1] = d[0] \o Parts(ch, frames)[1]
    BY <1>5, <2>1, 1 - 1 = 0, 1 # 0 DEF Chained
  <2>3. Parts(ch, frames)[1] = h
    BY <1>1, <1>6 DEF Parts
  <2>4. <<>> \o h = h \o <<>>
    BY ConcatEmptySeq
  <2> QED BY <2>1, <2>2, <2>3, <2>4
<1>9. ASSUME NEW j \in Nat, j \in Same PROVE j + 1 \in Same
  <2> SUFFICES ASSUME j + 1 <= n PROVE d[j + 2] = h \o c[j + 1]
    OBVIOUS
  <2>1. /\ j + 1 \in 1..n /\ j + 1 \in 0..n /\ j + 1 # 0 /\ (j + 1) - 1 = j
        /\ j + 2 \in 0..(n + 1) /\ j + 2 # 0 /\ (j + 2) - 1 = j + 1
        /\ j \in 0..n /\ j + 2 \in 1..(n + 1)
    OBVIOUS
  <2>2. d[j + 2] = d[j + 1] \o Parts(ch, frames)[j + 2]
    BY <1>5, <2>1 DEF Chained
  <2>3. c[j + 1] = c[j] \o Parts(ch, rest)[j + 1]
    BY <1>4, <2>1 DEF Chained
  <2>4. Parts(ch, frames)[j + 2] = Parts(ch, rest)[j + 1]
    BY <1>1, <1>3, <2>1 DEF Parts
  <2>5. PICK p \in Seq(Bodies) : p = Parts(ch, rest)[j + 1]
    BY <1>2, <1>3, <2>1, OwnParts
  <2>6. d[j + 1] = h \o c[j] /\ c[j] \in Seq(Bodies)
    BY <1>7, <1>9, <2>1
  <2>7. PICK g \in Seq(Bodies) : g = c[j]
    BY <2>6
  <2>8. (h \o g) \o p = h \o (g \o p)
    <3>1. Joined(h \o g, p, h \o (g \o p))
      BY JoinBodies, Zenon
    <3> QED BY <3>1 DEF Joined
  <2> QED BY <2>2, <2>3, <2>4, <2>5, <2>6, <2>7, <2>8
<1>10. \A j \in Nat : j \in Same
  <2> HIDE DEF Same
  <2> QED BY <1>8, <1>9, Inductive
<1>11. d[n + 1] = h \o c[n]
  BY <1>10
<1> QED BY <1>4, <1>5, <1>6, <1>11 DEF rest

------------------------------------------------------------------------------
(* What a step of the session is to one text channel *)

Sends(ch, n, boundary) ==
    LET after == SubSeq(Text[ch], 1, sent[ch] + n) IN
    /\ Len(WireOf(ch, wire)) < MaxWire
    /\ boundary => WellFormed(after)
    /\ WireOf(ch, wire') = Append(WireOf(ch, wire),
           [op |-> "CONTENT", boundary |-> boundary,
            data |-> SubSeq(Text[ch], sent[ch] + 1, sent[ch] + n),
            offset |-> 0, after |-> after])
    /\ sent'[ch] = sent[ch] + n
    /\ rewinds'[ch] = rewinds[ch]
    /\ accumulated'[ch] = accumulated[ch] /\ pending'[ch] = pending[ch]

Rewinds(ch, k) ==
    LET after == SubSeq(Text[ch], 1, k) IN
    /\ Len(WireOf(ch, wire)) < MaxWire
    /\ rewinds[ch] < MaxRewinds
    /\ AllAscii(after, k) /\ WellFormed(after) /\ WellFormed(Said(ch))
    /\ WireOf(ch, wire') = Append(WireOf(ch, wire),
           [op |-> "REWIND", boundary |-> FALSE, data |-> <<>>,
            offset |-> k, after |-> after])
    /\ sent'[ch] = k
    /\ rewinds'[ch] = rewinds[ch] + 1
    /\ accumulated'[ch] = accumulated[ch] /\ pending'[ch] = pending[ch]

TakesText(ch, frame) ==
    /\ frame.op = "CONTENT"
    /\ accumulated'[ch] = accumulated[ch]
           \o Decode(Rendered(pending[ch], frame.boundary, frame.data))
    /\ pending'[ch] = Kept(pending[ch], frame.boundary, frame.data)

TakesRewind(ch, frame) ==
    /\ frame.op = "REWIND"
    /\ ch \in Rewindable
    /\ accumulated'[ch] = IF ch = "CONTENT"
                          THEN Slice(accumulated[ch], frame.offset)
                          ELSE accumulated[ch]
    /\ pending'[ch] = pending[ch]

Takes(ch) ==
    /\ WireOf(ch, wire) # <<>>
    /\ WireOf(ch, wire') = Tail(WireOf(ch, wire))
    /\ \/ TakesText(ch, Head(WireOf(ch, wire)))
       \/ TakesRewind(ch, Head(WireOf(ch, wire)))
    /\ sent'[ch] = sent[ch] /\ rewinds'[ch] = rewinds[ch]

Rests(ch) ==
    /\ WireOf(ch, wire') = WireOf(ch, wire)
    /\ sent'[ch] = sent[ch] /\ rewinds'[ch] = rewinds[ch]
    /\ accumulated'[ch] = accumulated[ch] /\ pending'[ch] = pending[ch]

StepOf(ch) ==
    \/ \E n \in 1..(Len(Text[ch]) - sent[ch]), boundary \in BOOLEAN :
          Sends(ch, n, boundary)
    \/ \E k \in 0..sent[ch] : Rewinds(ch, k)
    \/ Takes(ch)
    \/ Rests(ch)

\* What the channels need to share the wire: only those are rewound that may be.
Known(m) ==
    m.channel \in TextChannels /\ m.body.op = "REWIND" => m.channel \in Rewindable

Sharing ==
    /\ sent \in [TextChannels -> Nat]
    /\ \A ch \in TextChannels : sent[ch] <= Len(Text[ch])
    /\ toolsSent \in 0..Len(Cuts)
    /\ rewinds \in [TextChannels \cup {"TOOL_CALL"} -> 0..MaxRewinds]
    /\ wire \in Seq(Frame)
    /\ \A i \in 1..Len(wire) : Known(wire[i])
    /\ accumulated = [ch \in TextChannels |-> accumulated[ch]]
    /\ pending = [ch \in TextChannels |-> pending[ch]]

Shared == Sharing' /\ \A ch \in TextChannels : StepOf(ch)

\* A frame that is sent is the last of its own channel.
LEMMA OwnWire ==
    ASSUME Sharing, NEW m \in Frame, wire' = Append(wire, m),
           Len(wire) < MaxWire, NEW ch \in TextChannels
    PROVE  /\ Len(WireOf(ch, wire)) < MaxWire
           /\ m.channel = ch
                => WireOf(ch, wire') = Append(WireOf(ch, wire), m.body)
           /\ m.channel # ch => WireOf(ch, wire') = WireOf(ch, wire)
<1>1. wire \in Seq(Frame) /\ MaxWire \in Nat
  BY SessionAssumption DEF Sharing
<1>2. PICK w \in Seq(Bodies) : w = WireOf(ch, wire)
  BY <1>1, WireTyped
<1>3. Len(w) <= Len(wire)
  BY <1>1, <1>2, WireTyped
<1>4. WireOf(ch, wire') = w \o Own(ch, m)
  BY <1>1, <1>2, WireAppended
<1>5. CASE m.channel = ch
  <2>1. m.body \in Bodies
    BY DEF Bodies
  <2>2. Own(ch, m) = <<m.body>>
    BY <1>5 DEF Own
  <2>3. PICK b \in Bodies : b = m.body
    BY <2>1
  <2>4. w \o <<b>> = Append(w, b)
    OBVIOUS
  <2>5. Len(w) < MaxWire
    BY <1>1, <1>2, <1>3
  <2> QED BY <1>2, <1>4, <1>5, <2>2, <2>3, <2>4, <2>5
<1>6. CASE m.channel # ch
  <2>1. Own(ch, m) = <<>>
    BY <1>6 DEF Own
  <2>2. w \o <<>> = w
    BY ConcatEmptySeq
  <2>3. Len(w) < MaxWire
    BY <1>1, <1>2, <1>3
  <2> QED BY <1>2, <1>4, <1>6, <2>1, <2>2, <2>3
<1> QED BY <1>5, <1>6

\* Sending a frame disturbs no more than what the gateway counts.
LEMMA PushShares ==
    ASSUME Sharing, NEW m \in Frame, Known(m), wire' = Append(wire, m),
           UNCHANGED clientVars,
           sent' \in [TextChannels -> Nat],
           \A ch \in TextChannels : sent'[ch] <= Len(Text[ch]),
           toolsSent' \in 0..Len(Cuts),
           rewinds' \in [TextChannels \cup {"TOOL_CALL"} -> 0..MaxRewinds]
    PROVE  Sharing'
<1>1. PICK n : n = Len(wire)
  OBVIOUS
<1>2. /\ wire \in Seq(Frame) /\ n \in Nat /\ \A i \in 1..n : Known(wire[i])
  BY <1>1 DEF Sharing
<1>3. /\ wire' \in Seq(Frame) /\ Len(wire') = n + 1
      /\ \A i \in 1..n : wire'[i] = wire[i]
      /\ wire'[n + 1] = m
  BY <1>1, <1>2
<1>4. ASSUME NEW i \in 1..(n + 1) PROVE Known(wire'[i])
  <2>1. CASE i \in 1..n
    BY <1>2, <1>3, <2>1
  <2>2. CASE i \notin 1..n
    BY <1>2, <1>3, <2>2
  <2> QED BY <2>1, <2>2
<1>5. accumulated' = accumulated /\ pending' = pending
  BY DEF clientVars
<1>6. /\ accumulated' = [ch \in TextChannels |-> accumulated'[ch]]
      /\ pending' = [ch \in TextChannels |-> pending'[ch]]
  BY <1>5 DEF Sharing
<1> QED BY <1>3, <1>4, <1>6 DEF Sharing

\* How far the gateway may be in a text.
LEMMA Bounded ==
    ASSUME Sharing, NEW ch \in TextChannels
    PROVE  /\ Text[ch] \in Seq(Byte) /\ Len(Text[ch]) \in Nat
           /\ sent[ch] \in Nat /\ sent[ch] <= Len(Text[ch])
<1>1. Text[ch] \in Seq(Byte)
  BY SessionAssumption, Zenon
<1>2. Len(Text[ch]) \in Nat
  BY <1>1
<1>3. sent \in [TextChannels -> Nat] /\ sent[ch] <= Len(Text[ch])
  BY Zenon DEF Sharing
<1> QED BY <1>1, <1>2, <1>3

SentUpTo(ch, to) ==
    /\ sent' \in [TextChannels -> Nat] /\ sent'[ch] = to
    /\ \A c \in TextChannels : c # ch => sent'[c] = sent[c]
    /\ \A c \in TextChannels : sent'[c] <= Len(Text[c])

\* The gateway moves on, or back, in one text.
LEMMA Moved ==
    ASSUME Sharing, NEW ch \in TextChannels, NEW to \in Nat, to <= Len(Text[ch]),
           sent' = [sent EXCEPT ![ch] = to]
    PROVE  SentUpTo(ch, to)
<1>1. /\ sent \in [TextChannels -> Nat]
      /\ \A c \in TextChannels : sent[c] <= Len(Text[c])
  BY DEF Sharing
<1>2. /\ sent' \in [TextChannels -> Nat] /\ sent'[ch] = to
      /\ \A c \in TextChannels : c # ch => sent'[c] = sent[c]
  BY <1>1
<1>3. ASSUME NEW c \in TextChannels PROVE sent'[c] <= Len(Text[c])
  BY <1>1, <1>2
<1> QED BY <1>2, <1>3 DEF SentUpTo

\* More of a text: its own channel sends, the others rest.
LEMMA SendTextShares ==
    ASSUME Sharing, NEW ch \in TextChannels,
           NEW n \in 1..(Len(Text[ch]) - sent[ch]), NEW boundary \in BOOLEAN,
           SendText(ch, n, boundary)
    PROVE  Shared
<1> DEFINE to == sent[ch] + n
           after == SubSeq(Text[ch], 1, to)
           data == SubSeq(Text[ch], sent[ch] + 1, to)
           frame == [op |-> "CONTENT", boundary |-> boundary, data |-> data,
                     offset |-> 0, after |-> after]
           m == [channel |-> ch, body |-> frame]
<1>1. /\ Text[ch] \in Seq(Byte) /\ sent[ch] \in 0..Len(Text[ch])
      /\ to \in 0..Len(Text[ch]) /\ to \in Nat /\ sent[ch] <= to
  <2>1. /\ Text[ch] \in Seq(Byte) /\ Len(Text[ch]) \in Nat
        /\ sent[ch] \in Nat /\ sent[ch] <= Len(Text[ch])
    BY Bounded
  <2> QED BY <2>1
<1>2. /\ UNCHANGED <<toolsSent, rewinds>> /\ UNCHANGED clientVars
      /\ Len(wire) < MaxWire /\ wire' = Append(wire, m)
      /\ sent' = [sent EXCEPT ![ch] = to]
      /\ boundary => WellFormed(after)
  BY DEF SendText, Push
<1>3. after \in Seq(Byte) /\ data \in Seq(Byte)
  BY <1>1, PartOfText, SubSeqAt
<1>4. m \in Frame
  <2> HIDE DEF to, after, data
  <2> QED BY <1>3 DEF Frame
<1>5. Known(m) /\ m.channel = ch /\ m.body = frame
  BY DEF Known
<1>6. /\ sent' \in [TextChannels -> Nat] /\ sent'[ch] = to
      /\ \A c \in TextChannels : c # ch => sent'[c] = sent[c]
      /\ \A c \in TextChannels : sent'[c] <= Len(Text[c])
  <2> HIDE DEF to
  <2>1. to \in Nat /\ to <= Len(Text[ch])
    BY <1>1
  <2>2. SentUpTo(ch, to)
    BY <1>2, <2>1, Moved, Zenon
  <2> QED BY <2>2 DEF SentUpTo
<1>7. accumulated' = accumulated /\ pending' = pending /\ rewinds' = rewinds
  BY <1>2 DEF clientVars
<1>8. toolsSent' \in 0..Len(Cuts)
      /\ rewinds' \in [TextChannels \cup {"TOOL_CALL"} -> 0..MaxRewinds]
  BY <1>2 DEF Sharing
<1> HIDE DEF m
<1>9. Sharing'
  BY <1>2, <1>4, <1>5, <1>6, <1>8, PushShares
<1>10. Sends(ch, n, boundary)
  <2>1. /\ Len(WireOf(ch, wire)) < MaxWire
        /\ WireOf(ch, wire') = Append(WireOf(ch, wire), frame)
    <3> HIDE DEF frame
    <3> QED BY <1>2, <1>4, <1>5, OwnWire
  <2> QED BY <1>2, <1>6, <1>7, <2>1 DEF Sends
<1>11. ASSUME NEW c \in TextChannels, c # ch PROVE Rests(c)
  <2>1. WireOf(c, wire') = WireOf(c, wire)
    BY <1>2, <1>4, <1>5, <1>11, OwnWire
  <2> QED BY <1>6, <1>7, <1>11, <2>1 DEF Rests
<1>12. \A c \in TextChannels : StepOf(c)
  BY <1>10, <1>11 DEF StepOf
<1> QED BY <1>9, <1>12 DEF Shared

\* A text is taken back: its own channel rewinds, the others rest.
LEMMA RewindTextShares ==
    ASSUME Sharing, NEW ch \in TextChannels, NEW k \in 0..sent[ch],
           RewindText(ch, k)
    PROVE  Shared
<1> DEFINE after == SubSeq(Text[ch], 1, k)
           frame == [op |-> "REWIND", boundary |-> FALSE, data |-> <<>>,
                     offset |-> k, after |-> after]
           m == [channel |-> ch, body |-> frame]
<1>1. /\ Text[ch] \in Seq(Byte) /\ sent[ch] \in 0..Len(Text[ch])
      /\ k \in 0..Len(Text[ch]) /\ k \in Nat
  BY Bounded
<1>2. /\ UNCHANGED toolsSent /\ UNCHANGED clientVars
      /\ Len(wire) < MaxWire /\ wire' = Append(wire, m)
      /\ sent' = [sent EXCEPT ![ch] = k]
      /\ AllAscii(after, k) /\ WellFormed(Said(ch))
      /\ ch \in Rewindable /\ rewinds[ch] < MaxRewinds
      /\ rewinds' = [rewinds EXCEPT ![ch] = @ + 1]
  BY DEF RewindText, CountRewind, Push, Said
<1>3. after \in Seq(Byte) /\ Len(after) = k /\ Partial(after)
  BY <1>1, PartOfText
<1>4. WellFormed(after)
  <2>1. ASSUME NEW i \in 1..k PROVE Need(after[i]) = 0
    BY <1>2, <1>3, <2>1, NeedRange DEF AllAscii
  <2> QED BY <1>3, <2>1 DEF WellFormed, Closed
<1>5. m \in Frame
  <2> HIDE DEF after
  <2> QED BY <1>1, <1>3 DEF Frame
<1>6. Known(m) /\ m.channel = ch /\ m.body = frame
  BY <1>2 DEF Known
<1>7. /\ sent' \in [TextChannels -> Nat] /\ sent'[ch] = k
      /\ \A c \in TextChannels : c # ch => sent'[c] = sent[c]
      /\ \A c \in TextChannels : sent'[c] <= Len(Text[c])
  <2>1. k \in Nat /\ k <= Len(Text[ch])
    BY <1>1
  <2>2. SentUpTo(ch, k)
    BY <1>2, <2>1, Moved, Zenon
  <2> QED BY <2>2 DEF SentUpTo
<1>8. /\ rewinds' \in [TextChannels \cup {"TOOL_CALL"} -> 0..MaxRewinds]
      /\ rewinds'[ch] = rewinds[ch] + 1
      /\ \A c \in TextChannels : c # ch => rewinds'[c] = rewinds[c]
  <2>1. MaxRewinds \in Nat /\ rewinds[ch] \in 0..MaxRewinds
    BY SessionAssumption DEF Sharing
  <2>2. rewinds[ch] + 1 \in 0..MaxRewinds
    BY <1>2, <2>1
  <2> QED BY <1>2, <2>2 DEF Sharing
<1>9. accumulated' = accumulated /\ pending' = pending
  BY <1>2 DEF clientVars
<1>10. toolsSent' \in 0..Len(Cuts)
  BY <1>2 DEF Sharing
<1> HIDE DEF m
<1>11. Sharing'
  BY <1>2, <1>5, <1>6, <1>7, <1>8, <1>10, PushShares
<1>12. Rewinds(ch, k)
  <2>1. /\ Len(WireOf(ch, wire)) < MaxWire
        /\ WireOf(ch, wire') = Append(WireOf(ch, wire), frame)
    <3> HIDE DEF frame
    <3> QED BY <1>2, <1>5, <1>6, OwnWire
  <2> QED BY <1>2, <1>4, <1>7, <1>8, <1>9, <2>1 DEF Rewinds
<1>13. ASSUME NEW c \in TextChannels, c # ch PROVE Rests(c)
  <2>1. WireOf(c, wire') = WireOf(c, wire)
    BY <1>2, <1>5, <1>6, <1>13, OwnWire
  <2> QED BY <1>7, <1>8, <1>9, <1>13, <2>1 DEF Rests
<1>14. \A c \in TextChannels : StepOf(c)
  BY <1>12, <1>13 DEF StepOf
<1> QED BY <1>11, <1>14 DEF Shared

\* Whatever else is sent, the text channels rest.
LEMMA OthersShare ==
    ASSUME Sharing, NEW m \in Frame, m.channel \notin TextChannels,
           Len(wire) < MaxWire, wire' = Append(wire, m), UNCHANGED clientVars,
           UNCHANGED sent, toolsSent' \in 0..Len(Cuts),
           rewinds' \in [TextChannels \cup {"TOOL_CALL"} -> 0..MaxRewinds],
           \A ch \in TextChannels : rewinds'[ch] = rewinds[ch]
    PROVE  Shared
<1>1. Known(m)
  BY DEF Known
<1>2. sent' \in [TextChannels -> Nat]
      /\ \A ch \in TextChannels : sent'[ch] <= Len(Text[ch])
  BY DEF Sharing
<1>3. Sharing'
  BY <1>1, <1>2, PushShares
<1>4. ASSUME NEW ch \in TextChannels PROVE StepOf(ch)
  <2>1. WireOf(ch, wire') = WireOf(ch, wire)
    BY OwnWire
  <2> QED BY <2>1 DEF StepOf, Rests, clientVars
<1> QED BY <1>3, <1>4 DEF Shared

\* Any frame the gateway sends belongs to one channel only.
LEMMA GatewayShares ==
    ASSUME Sharing, GatewayNext
    PROVE  Shared
<1>1. /\ toolsSent \in 0..Len(Cuts) /\ Len(Cuts) \in Nat
      /\ rewinds \in [TextChannels \cup {"TOOL_CALL"} -> 0..MaxRewinds]
      /\ MaxRewinds \in Nat
  BY SessionAssumption DEF Sharing
<1>2. CASE \E ch \in TextChannels, n \in Nat, boundary \in BOOLEAN :
              n \in 1..(Len(Text[ch]) - sent[ch]) /\ SendText(ch, n, boundary)
  BY <1>2, SendTextShares
<1>3. CASE \E ch \in TextChannels : \E k \in 0..sent[ch] : RewindText(ch, k)
  BY <1>3, RewindTextShares
<1>4. CASE SendTool
  <2> DEFINE m == [channel |-> "TOOL_CALL", body |-> ToolFrame(toolsSent + 1)]
  <2>1. m \in Frame /\ m.channel \notin TextChannels
    <3>1. toolsSent + 1 \in 1..Len(Cuts)
      BY <1>1, <1>4 DEF SendTool
    <3> QED BY <3>1 DEF Frame, TextChannels
  <2>2. /\ wire' = Append(wire, m) /\ Len(wire) < MaxWire
        /\ UNCHANGED clientVars /\ UNCHANGED sent /\ UNCHANGED rewinds
        /\ toolsSent' \in 0..Len(Cuts)
    BY <1>1, <1>4 DEF SendTool, Push
  <2> HIDE DEF m
  <2> QED BY <1>1, <2>1, <2>2, OthersShare
<1>5. CASE RewindTool
  <2> DEFINE m == [channel |-> "TOOL_CALL",
                   body |-> [op |-> "REWIND", key |-> Key, offset |-> 0]]
  <2>1. m \in Frame /\ m.channel \notin TextChannels
    BY DEF Frame, TextChannels
  <2>2. /\ wire' = Append(wire, m) /\ Len(wire) < MaxWire
        /\ UNCHANGED clientVars /\ UNCHANGED sent
        /\ toolsSent' \in 0..Len(Cuts)
        /\ rewinds["TOOL_CALL"] < MaxRewinds
        /\ rewinds' = [rewinds EXCEPT !["TOOL_CALL"] = @ + 1]
    BY <1>1, <1>5 DEF RewindTool, CountRewind, Push
  <2>3. /\ rewinds' \in [TextChannels \cup {"TOOL_CALL"} -> 0..MaxRewinds]
        /\ \A ch \in TextChannels : rewinds'[ch] = rewinds[ch]
    <3>1. rewinds["TOOL_CALL"] + 1 \in 0..MaxRewinds
      BY <1>1, <2>2
    <3> QED BY <1>1, <2>2, <3>1 DEF TextChannels
  <2> HIDE DEF m
  <2> QED BY <2>1, <2>2, <2>3, OthersShare
<1>6. CASE \E field \in SessionFields : SendSession(field)
  <2>1. PICK field \in SessionFields : SendSession(field)
    BY <1>6
  <2> DEFINE m == [channel |-> "SESSION", body |-> [op |-> field]]
  <2>2. m \in Frame /\ m.channel \notin TextChannels
    BY DEF Frame, TextChannels
  <2>3. /\ wire' = Append(wire, m) /\ Len(wire) < MaxWire
        /\ UNCHANGED clientVars /\ UNCHANGED sent /\ UNCHANGED rewinds
        /\ toolsSent' \in 0..Len(Cuts)
    BY <1>1, <2>1 DEF SendSession, Push
  <2> HIDE DEF m
  <2> QED BY <1>1, <2>2, <2>3, OthersShare
<1> QED BY <1>2, <1>3, <1>4, <1>5, <1>6 DEF GatewayNext

\* The client takes the first frame of all, the first of its own channel; the
\* other channels rest.
LEMMA ReceiveShares ==
    ASSUME Sharing, Receive
    PROVE  Shared
<1> DEFINE m == Head(wire)
           rest == Tail(wire)
<1>1. /\ wire \in Seq(Frame) /\ wire # <<>> /\ wire' = rest
      /\ UNCHANGED <<sent, toolsSent, told, rewinds>>
  BY DEF Sharing, Receive, gatewayVars
<1>2. /\ m \in Frame /\ rest \in Seq(Frame) /\ Known(m)
      /\ \A i \in 1..Len(rest) : Known(rest[i])
  <2>1. PICK n \in Nat : n = Len(wire)
    BY <1>1
  <2>2. /\ m = wire[1] /\ 1 \in 1..n /\ m \in Frame
        /\ rest \in Seq(Frame) /\ Len(rest) = n - 1
        /\ \A i \in 1..(n - 1) : i + 1 \in 1..n /\ rest[i] = wire[i + 1]
    BY <1>1, <2>1
  <2>3. \A i \in 1..n : Known(wire[i])
    BY <2>1 DEF Sharing
  <2> QED BY <2>2, <2>3
<1>3. \/ HandleText(m.channel, m.body)
      \/ HandleToolCall(m.channel, m.body)
      \/ HandleRewind(m.channel, m.body)
      \/ HandleSession(m.channel, m.body)
  BY DEF Receive
<1>4. \A ch \in TextChannels :
         WireOf(ch, wire) = Own(ch, m) \o WireOf(ch, wire')
  BY <1>1, WireTail
<1> HIDE DEF m, rest
<1>5. /\ accumulated' = [ch \in TextChannels |-> accumulated'[ch]]
      /\ pending' = [ch \in TextChannels |-> pending'[ch]]
  <2>1. CASE HandleText(m.channel, m.body)
    BY <2>1 DEF HandleText, Sharing
  <2>2. CASE ~HandleText(m.channel, m.body)
    BY <1>3, <2>2 DEF HandleToolCall, HandleRewind, HandleSession, Sharing
  <2> QED BY <2>1, <2>2
<1>6. Sharing'
  BY <1>1, <1>2, <1>5 DEF Sharing
<1>7. ASSUME NEW ch \in TextChannels PROVE StepOf(ch)
  <2>1. PICK later \in Seq(Bodies) : later = WireOf(ch, wire')
    BY <1>1, <1>2, WireTyped
  <2>2. sent'[ch] = sent[ch] /\ rewinds'[ch] = rewinds[ch]
    BY <1>1
  <2>3. CASE m.channel = ch
    <3>1. PICK b \in Bodies : b = m.body
      BY <1>2 DEF Bodies
    <3>2. WireOf(ch, wire) = <<b>> \o later
      BY <1>4, <2>1, <2>3, <3>1 DEF Own
    <3>3. /\ <<b>> \o later # <<>> /\ Head(<<b>> \o later) = b
          /\ Tail(<<b>> \o later) = later
      OBVIOUS
    <3>4. \/ TakesText(ch, b)
          \/ TakesRewind(ch, b)
      <4>1. CASE HandleText(m.channel, m.body)
        BY <2>3, <3>1, <4>1 DEF HandleText, AssemblerOf, TakesText, Sharing
      <4>2. CASE HandleRewind(m.channel, m.body)
        <5>1. ch \in Rewindable
          BY <1>2, <2>3, <4>2 DEF Known, HandleRewind
        <5> QED BY <2>3, <3>1, <4>2, <5>1 DEF HandleRewind, TakesRewind, Sharing
      <4> QED BY <1>3, <2>3, <4>1, <4>2
              DEF HandleToolCall, HandleSession, TextChannels
    <3>5. Takes(ch)
      BY <2>1, <2>2, <3>2, <3>3, <3>4 DEF Takes
    <3> QED BY <3>5 DEF StepOf
  <2>4. CASE m.channel # ch
    <3>1. WireOf(ch, wire) = WireOf(ch, wire')
      <4>1. Own(ch, m) = <<>> /\ <<>> \o later = later
        BY <2>4, ConcatEmptySeq DEF Own
      <4> QED BY <1>4, <2>1, <4>1
    <3>2. accumulated'[ch] = accumulated[ch] /\ pending'[ch] = pending[ch]
      <4>1. CASE HandleText(m.channel, m.body)
        BY <2>4, <4>1 DEF HandleText, AssemblerOf, Sharing
      <4>2. CASE ~HandleText(m.channel, m.body)
        BY <1>3, <2>4, <4>2 DEF HandleToolCall, HandleRewind, HandleSession,
                                Sharing
      <4> QED BY <4>1, <4>2
    <3> QED BY <2>2, <3>1, <3>2 DEF StepOf, Rests
  <2> QED BY <2>3, <2>4
<1> QED BY <1>6, <1>7 DEF Shared

\* So in every step each text channel takes one of its own.
LEMMA NextShares ==
    ASSUME Sharing, [Next]_vars
    PROVE  Shared
<1>1. CASE UNCHANGED vars
  <2>1. UNCHANGED <<sent, toolsSent, rewinds, wire, accumulated, pending>>
    BY <1>1 DEF vars, gatewayVars, clientVars
  <2>2. Sharing'
    BY <2>1 DEF Sharing
  <2> QED BY <2>1, <2>2 DEF Shared, StepOf, Rests
<1> QED BY <1>1, GatewayShares, ReceiveShares DEF Next

\* At first nothing is on the wire.
LEMMA InitShares == Init => Sharing
<1> SUFFICES ASSUME Init PROVE Sharing
  OBVIOUS
<1>1. /\ MaxRewinds \in Nat /\ Len(Cuts) \in Nat
      /\ \A ch \in TextChannels : Len(Text[ch]) \in Nat
  BY SessionAssumption
<1>2. wire \in Seq(Frame) /\ \A i \in 1..Len(wire) : Known(wire[i])
  BY DEF Init
<1>3. /\ sent \in [TextChannels -> Nat] /\ \A ch \in TextChannels : sent[ch] = 0
      /\ rewinds \in [TextChannels \cup {"TOOL_CALL"} -> 0..MaxRewinds]
      /\ toolsSent \in 0..Len(Cuts)
  BY <1>1 DEF Init
<1>4. /\ accumulated = [ch \in TextChannels |-> accumulated[ch]]
      /\ pending = [ch \in TextChannels |-> pending[ch]]
  BY DEF Init
<1> QED BY <1>1, <1>2, <1>3, <1>4 DEF Sharing

\* The channels always share the wire: no assumption is needed.
LEMMA AlwaysShared == Spec => []Sharing
<1>1. Sharing /\ [Next]_vars => Sharing'
  BY NextShares DEF Shared
<1> QED BY <1>1, InitShares, PTL DEF Spec

------------------------------------------------------------------------------
(* Each text channel is a TextChannel *)

\* The operators that Content instantiates are those of the session.
LEMMA SameContent ==
    /\ \A s : Content!WellFormed(s) <=> WellFormed(s)
    /\ \A s, n : Content!AllAscii(s, n) <=> AllAscii(s, n)
    /\ \A s : Content!Decode(s) = Decode(s)
    /\ \A p, b, d : /\ Content!Rendered(p, b, d) = Rendered(p, b, d)
                    /\ Content!Kept(p, b, d) = Kept(p, b, d)
    /\ \A s, n : Content!Slice(s, n) = Slice(s, n)
<1>1. /\ \A s : Content!WellFormed(s) <=> WellFormed(s)
      /\ \A s, n : Content!AllAscii(s, n) <=> AllAscii(s, n)
  BY DEF Content!WellFormed, WellFormed, Content!Partial, Partial,
         Content!Closed, Closed, Content!Need, Need, Content!IsCont, IsCont,
         Content!AllAscii, AllAscii
<1>2. \A s : Content!Replaced(s) = Replaced(s)
  <2>1. \A s, i : Content!DecodedAt(s, i) = DecodedAt(s, i)
    BY DEF Content!DecodedAt, DecodedAt, Content!LeadsWhole, LeadsWhole,
           Content!FollowsBy, FollowsBy, Content!Need, Need,
           Content!IsCont, IsCont, Content!Replacement, Replacement
  <2> QED BY <2>1 DEF Content!Replaced, Replaced
<1>3. \A s : Content!Decode(s) = Decode(s)
  BY <1>1, <1>2 DEF Content!Decode, Decode, Content!WithoutBom, WithoutBom,
                    Content!BomAt, BomAt
<1>4. \A buf : Content!ValidLen(buf) = ValidLen(buf)
  BY DEF Content!ValidLen, ValidLen, Content!CutShort, CutShort,
         Content!ScanStops, ScanStops, Content!Need, Need, Content!IsCont, IsCont
<1>5. \A p, b, d : /\ Content!Rendered(p, b, d) = Rendered(p, b, d)
                   /\ Content!Kept(p, b, d) = Kept(p, b, d)
  BY <1>4 DEF Content!Rendered, Rendered, Content!Kept, Kept
<1>6. \A s, n : Content!Slice(s, n) = Slice(s, n)
  BY DEF Content!Slice, Slice, Content!UnitsUpTo, UnitsUpTo,
         Content!UnitStarts, UnitStarts, Content!Cardinality, Cardinality,
         Content!Need, Need, Content!IsCont, IsCont
<1> QED BY <1>1, <1>3, <1>5, <1>6

\* Each kind of step of the channel is one of a TextChannel.
LEMMA StepOfContent ==
    ASSUME StepOf("CONTENT"), Sharing
    PROVE  [Content!Next]_(Content!vars)
<1>1. ASSUME NEW n \in 1..(Len(Text["CONTENT"]) - sent["CONTENT"]),
             NEW boundary \in BOOLEAN, Sends("CONTENT", n, boundary)
      PROVE  Content!Next
  <2>1. Content!Send(n, boundary)
    BY <1>1, SameContent DEF Sends, Content!Send, Content!Content
  <2>2. n \in 0..(Len(Text["CONTENT"]) - sent["CONTENT"])
    OBVIOUS
  <2>3. Content!GatewayNext
    BY <2>1, <2>2 DEF Content!GatewayNext
  <2> QED BY <1>1, <2>3 DEF Sends, Content!Next, Content!GatewayStep
<1>2. ASSUME NEW k \in 0..sent["CONTENT"], Rewinds("CONTENT", k)
      PROVE  Content!Next
  <2>1. k <= Len(Text["CONTENT"])
    <3>1. "CONTENT" \in TextChannels
      BY DEF TextChannels
    <3>2. /\ sent["CONTENT"] \in Nat /\ Len(Text["CONTENT"]) \in Nat
          /\ sent["CONTENT"] <= Len(Text["CONTENT"])
      BY <3>1, Bounded
    <3> QED BY <3>2
  <2>2. Content!Rewind(k, Text["CONTENT"])
    BY <1>2, <2>1, SameContent DEF Rewinds, Said, Content!Rewind,
                              Content!RewindTo, Content!Sent
  <2>3. Content!GatewayNext
    BY <2>2 DEF Content!GatewayNext
  <2> QED BY <1>2, <2>3 DEF Rewinds, Content!Next, Content!GatewayStep
<1>3. ASSUME Takes("CONTENT")
      PROVE  Content!Next
  <2> DEFINE frame == Head(WireOf("CONTENT", wire))
  <2>1. CASE TakesText("CONTENT", frame)
    <3>1. Content!HandleContent(frame)
      BY <2>1, SameContent DEF TakesText, Content!HandleContent
    <3> QED BY <1>3, <3>1 DEF Takes, Content!Next, Content!Receive
  <2>2. CASE TakesRewind("CONTENT", frame)
    <3>1. Content!HandleRewind(frame)
      BY <2>2, SameContent DEF TakesRewind, Content!HandleRewind
    <3> QED BY <1>3, <3>1 DEF Takes, Content!Next, Content!Receive
  <2> QED BY <1>3, <2>1, <2>2 DEF Takes
<1>4. ASSUME Rests("CONTENT")
      PROVE  UNCHANGED Content!vars
  BY <1>4 DEF Rests, Content!vars, Content!gatewayVars
<1> QED BY <1>1, <1>2, <1>3, <1>4 DEF StepOf

\* The operators that Reasoning instantiates are those of the session.
LEMMA SameReasoning ==
    /\ \A s : Reasoning!WellFormed(s) <=> WellFormed(s)
    /\ \A s, n : Reasoning!AllAscii(s, n) <=> AllAscii(s, n)
    /\ \A s : Reasoning!Decode(s) = Decode(s)
    /\ \A p, b, d : /\ Reasoning!Rendered(p, b, d) = Rendered(p, b, d)
                    /\ Reasoning!Kept(p, b, d) = Kept(p, b, d)
    /\ \A s, n : Reasoning!Slice(s, n) = Slice(s, n)
<1>1. /\ \A s : Reasoning!WellFormed(s) <=> WellFormed(s)
      /\ \A s, n : Reasoning!AllAscii(s, n) <=> AllAscii(s, n)
  BY DEF Reasoning!WellFormed, WellFormed, Reasoning!Partial, Partial,
         Reasoning!Closed, Closed, Reasoning!Need, Need, Reasoning!IsCont, IsCont,
         Reasoning!AllAscii, AllAscii
<1>2. \A s : Reasoning!Replaced(s) = Replaced(s)
  <2>1. \A s, i : Reasoning!DecodedAt(s, i) = DecodedAt(s, i)
    BY DEF Reasoning!DecodedAt, DecodedAt, Reasoning!LeadsWhole, LeadsWhole,
           Reasoning!FollowsBy, FollowsBy, Reasoning!Need, Need,
           Reasoning!IsCont, IsCont, Reasoning!Replacement, Replacement
  <2> QED BY <2>1 DEF Reasoning!Replaced, Replaced
<1>3. \A s : Reasoning!Decode(s) = Decode(s)
  BY <1>1, <1>2 DEF Reasoning!Decode, Decode, Reasoning!WithoutBom, WithoutBom,
                    Reasoning!BomAt, BomAt
<1>4. \A buf : Reasoning!ValidLen(buf) = ValidLen(buf)
  BY DEF Reasoning!ValidLen, ValidLen, Reasoning!CutShort, CutShort,
         Reasoning!ScanStops, ScanStops, Reasoning!Need, Need, Reasoning!IsCont, IsCont
<1>5. \A p, b, d : /\ Reasoning!Rendered(p, b, d) = Rendered(p, b, d)
                   /\ Reasoning!Kept(p, b, d) = Kept(p, b, d)
  BY <1>4 DEF Reasoning!Rendered, Rendered, Reasoning!Kept, Kept
<1>6. \A s, n : Reasoning!Slice(s, n) = Slice(s, n)
  BY DEF Reasoning!Slice, Slice, Reasoning!UnitsUpTo, UnitsUpTo,
         Reasoning!UnitStarts, UnitStarts, Reasoning!Cardinality, Cardinality,
         Reasoning!Need, Need, Reasoning!IsCont, IsCont
<1> QED BY <1>1, <1>3, <1>5, <1>6

\* Each kind of step of the channel is one of a TextChannel.
LEMMA StepOfReasoning ==
    ASSUME StepOf("REASONING"), Sharing, "REASONING" \notin Rewindable
    PROVE  [Reasoning!Next]_(Reasoning!vars)
<1>1. ASSUME NEW n \in 1..(Len(Text["REASONING"]) - sent["REASONING"]),
             NEW boundary \in BOOLEAN, Sends("REASONING", n, boundary)
      PROVE  Reasoning!Next
  <2>1. Reasoning!Send(n, boundary)
    BY <1>1, SameReasoning DEF Sends, Reasoning!Send, Reasoning!Content
  <2>2. n \in 0..(Len(Text["REASONING"]) - sent["REASONING"])
    OBVIOUS
  <2>3. Reasoning!GatewayNext
    BY <2>1, <2>2 DEF Reasoning!GatewayNext
  <2> QED BY <1>1, <2>3 DEF Sends, Reasoning!Next, Reasoning!GatewayStep
<1>2. ASSUME NEW k \in 0..sent["REASONING"], Rewinds("REASONING", k)
      PROVE  Reasoning!Next
  <2>1. k <= Len(Text["REASONING"])
    <3>1. "REASONING" \in TextChannels
      BY DEF TextChannels
    <3>2. /\ sent["REASONING"] \in Nat /\ Len(Text["REASONING"]) \in Nat
          /\ sent["REASONING"] <= Len(Text["REASONING"])
      BY <3>1, Bounded
    <3> QED BY <3>2
  <2>2. Reasoning!Rewind(k, Text["REASONING"])
    BY <1>2, <2>1, SameReasoning DEF Rewinds, Said, Reasoning!Rewind,
                              Reasoning!RewindTo, Reasoning!Sent
  <2>3. Reasoning!GatewayNext
    BY <2>2 DEF Reasoning!GatewayNext
  <2> QED BY <1>2, <2>3 DEF Rewinds, Reasoning!Next, Reasoning!GatewayStep
<1>3. ASSUME Takes("REASONING")
      PROVE  Reasoning!Next
  <2> DEFINE frame == Head(WireOf("REASONING", wire))
  <2>1. CASE TakesText("REASONING", frame)
    <3>1. Reasoning!HandleContent(frame)
      BY <2>1, SameReasoning DEF TakesText, Reasoning!HandleContent
    <3> QED BY <1>3, <3>1 DEF Takes, Reasoning!Next, Reasoning!Receive
  <2>2. CASE TakesRewind("REASONING", frame)
    <3>1. Reasoning!HandleRewind(frame)
      BY <2>2, SameReasoning DEF TakesRewind, Reasoning!HandleRewind
    <3> QED BY <1>3, <3>1 DEF Takes, Reasoning!Next, Reasoning!Receive
  <2> QED BY <1>3, <2>1, <2>2 DEF Takes
<1>4. ASSUME Rests("REASONING")
      PROVE  UNCHANGED Reasoning!vars
  BY <1>4 DEF Rests, Reasoning!vars, Reasoning!gatewayVars
<1> QED BY <1>1, <1>2, <1>3, <1>4 DEF StepOf

\* With nothing sent, no channel has a frame.
LEMMA NoWire ==
    ASSUME NEW ch
    PROVE  WireOf(ch, <<>>) = <<>>
<1>1. <<>> \in Seq(Frame) /\ Len(<<>>) = 0
  OBVIOUS
<1>2. PICK c : Chained(c, 0, Parts(ch, <<>>)) /\ WireOf(ch, <<>>) = c[0]
  BY <1>1, WireChained
<1> QED BY <1>2 DEF Chained

\* The session's CONTENT channel, among whatever other frames, does what a
\* TextChannel does and nothing else: so what is proved of one holds of it.
THEOREM ContentChannel == Spec => ContentIsTextChannel
<1>1. Init => Content!Init
  BY NoWire DEF Init, TextChannels, Content!Init, Content!GatewayInit
<1>2. Sharing /\ [Next]_vars => [Content!Next]_(Content!vars)
  BY NextShares, StepOfContent DEF Shared, TextChannels
<1> QED BY <1>1, <1>2, AlwaysShared, PTL DEF Spec, ContentIsTextChannel

\* So does REASONING, unless it is rewound: handleFrame does not hear of that.
THEOREM ReasoningChannel ==
    ASSUME "REASONING" \notin Rewindable
    PROVE  Spec => ReasoningIsTextChannel
<1>1. Init => Reasoning!Init
  BY NoWire DEF Init, TextChannels, Reasoning!Init, Reasoning!GatewayInit
<1>2. Sharing /\ [Next]_vars => [Reasoning!Next]_(Reasoning!vars)
  BY NextShares, StepOfReasoning DEF Shared, TextChannels
<1> QED BY <1>1, <1>2, AlwaysShared, PTL DEF Spec, ReasoningIsTextChannel

------------------------------------------------------------------------------
(* What a TextChannel promises holds of the channels of a session *)

\* What TextChannelProofs proves, for the channel CONTENT of a session.
OfContent == INSTANCE TextChannelProofs WITH
    Texts <- {Text["CONTENT"]}, MultibyteRewinds <- FALSE,
    UnsettledRewinds <- FALSE, doc <- Text["CONTENT"],
    sent <- sent["CONTENT"], wire <- WireOf("CONTENT", wire),
    rewinds <- rewinds["CONTENT"],
    contentAccumulator <- accumulated["CONTENT"],
    pendingBytes <- pending["CONTENT"]

\* Its operators are those of the session as well.
LEMMA SameOfContent ==
    /\ \A s : OfContent!WellFormed(s) <=> WellFormed(s)
    /\ \A s : OfContent!NoBom(s) <=> NoBom(s)
    /\ \A s, n : OfContent!AllAscii(s, n) <=> AllAscii(s, n)
    /\ \A s : OfContent!Decode(s) = Decode(s)
    /\ \A p, b, d : /\ OfContent!Rendered(p, b, d) = Rendered(p, b, d)
                    /\ OfContent!Kept(p, b, d) = Kept(p, b, d)
    /\ \A s, n : OfContent!Slice(s, n) = Slice(s, n)
<1>1. /\ \A s : OfContent!WellFormed(s) <=> WellFormed(s)
      /\ \A s : OfContent!NoBom(s) <=> NoBom(s)
      /\ \A s, n : OfContent!AllAscii(s, n) <=> AllAscii(s, n)
  BY DEF OfContent!WellFormed, WellFormed, OfContent!Partial, Partial,
         OfContent!Closed, Closed, OfContent!Need, Need, OfContent!IsCont,
         IsCont, OfContent!NoBom, NoBom, OfContent!BomAt, BomAt,
         OfContent!AllAscii, AllAscii
<1>2. \A s : OfContent!Replaced(s) = Replaced(s)
  <2>1. \A s, i : OfContent!DecodedAt(s, i) = DecodedAt(s, i)
    BY DEF OfContent!DecodedAt, DecodedAt, OfContent!LeadsWhole, LeadsWhole,
           OfContent!FollowsBy, FollowsBy, OfContent!Need, Need,
           OfContent!IsCont, IsCont, OfContent!Replacement, Replacement
  <2> QED BY <2>1 DEF OfContent!Replaced, Replaced
<1>3. \A s : OfContent!Decode(s) = Decode(s)
  BY <1>1, <1>2 DEF OfContent!Decode, Decode, OfContent!WithoutBom, WithoutBom,
                    OfContent!BomAt, BomAt
<1>4. \A buf : OfContent!ValidLen(buf) = ValidLen(buf)
  BY DEF OfContent!ValidLen, ValidLen, OfContent!CutShort, CutShort,
         OfContent!ScanStops, ScanStops, OfContent!Need, Need,
         OfContent!IsCont, IsCont
<1>5. \A p, b, d : /\ OfContent!Rendered(p, b, d) = Rendered(p, b, d)
                   /\ OfContent!Kept(p, b, d) = Kept(p, b, d)
  BY <1>4 DEF OfContent!Rendered, Rendered, OfContent!Kept, Kept
<1>6. \A s, n : OfContent!Slice(s, n) = Slice(s, n)
  BY DEF OfContent!Slice, Slice, OfContent!UnitsUpTo, UnitsUpTo,
         OfContent!UnitStarts, UnitStarts, OfContent!Cardinality, Cardinality,
         OfContent!Need, Need, OfContent!IsCont, IsCont
<1> QED BY <1>1, <1>3, <1>5, <1>6

\* The text of a channel is one that the proofs are about.
LEMMA TextOfContent ==
    OfContent!TextsAssumption /\ OfContent!BoundsAssumption
    /\ OfContent!PlainRewinds
<1>1. Byte = OfContent!Byte
  BY Zenon DEF Byte, OfContent!Byte
<1>2. /\ Text["CONTENT"] \in Seq(Byte)
      /\ WellFormed(Text["CONTENT"]) /\ NoBom(Text["CONTENT"])
  BY SessionAssumption DEF TextChannels
<1>3. OfContent!TextsAssumption
  BY <1>1, <1>2, SameOfContent DEF OfContent!TextsAssumption
<1>4. OfContent!BoundsAssumption
  BY SessionAssumption DEF OfContent!BoundsAssumption
<1> QED BY <1>3, <1>4 DEF OfContent!PlainRewinds

\* Nor does a step of the channel differ.
LEMMA StepInContent ==
    ASSUME [Content!Next]_(Content!vars)
    PROVE  [OfContent!Next]_(OfContent!vars)
<1>1. ASSUME NEW n \in 0..(Len(Text["CONTENT"]) - sent["CONTENT"]),
             NEW boundary \in BOOLEAN, Content!Send(n, boundary)
      PROVE  OfContent!Send(n, boundary)
  BY <1>1, SameContent, SameOfContent
     DEF Content!Send, OfContent!Send, Content!Content, OfContent!Content
<1>2. ASSUME NEW k \in 0..sent["CONTENT"], NEW t \in {Text["CONTENT"]},
             Content!Rewind(k, t)
      PROVE  OfContent!Rewind(k, t)
  BY <1>2, SameContent, SameOfContent
     DEF Content!Rewind, OfContent!Rewind, Content!RewindTo, OfContent!RewindTo,
         Content!Sent, OfContent!Sent
<1>3. CASE Content!GatewayStep
  <2>1. OfContent!GatewayNext
    BY <1>1, <1>2, <1>3 DEF Content!GatewayStep, Content!GatewayNext,
       OfContent!GatewayNext
  <2> QED BY <1>3, <2>1 DEF Content!GatewayStep, OfContent!GatewayStep,
             OfContent!Next
<1>4. CASE Content!Receive
  <2> DEFINE frame == Head(WireOf("CONTENT", wire))
  <2>1. Content!HandleContent(frame) => OfContent!HandleContent(frame)
    BY SameContent, SameOfContent DEF Content!HandleContent,
       OfContent!HandleContent
  <2>2. Content!HandleRewind(frame) => OfContent!HandleRewind(frame)
    BY SameContent, SameOfContent DEF Content!HandleRewind,
       OfContent!HandleRewind
  <2> QED BY <1>4, <2>1, <2>2 DEF Content!Receive, OfContent!Receive,
             OfContent!Next
<1>5. CASE UNCHANGED Content!vars
  BY <1>5 DEF Content!vars, Content!gatewayVars, OfContent!vars,
     OfContent!gatewayVars
<1> QED BY <1>3, <1>4, <1>5 DEF Content!Next

\* What TextChannelProofs proves, for the channel REASONING of a session.
OfReasoning == INSTANCE TextChannelProofs WITH
    Texts <- {Text["REASONING"]}, MultibyteRewinds <- FALSE,
    UnsettledRewinds <- FALSE, doc <- Text["REASONING"],
    sent <- sent["REASONING"], wire <- WireOf("REASONING", wire),
    rewinds <- rewinds["REASONING"],
    contentAccumulator <- accumulated["REASONING"],
    pendingBytes <- pending["REASONING"]

\* Its operators are those of the session as well.
LEMMA SameOfReasoning ==
    /\ \A s : OfReasoning!WellFormed(s) <=> WellFormed(s)
    /\ \A s : OfReasoning!NoBom(s) <=> NoBom(s)
    /\ \A s, n : OfReasoning!AllAscii(s, n) <=> AllAscii(s, n)
    /\ \A s : OfReasoning!Decode(s) = Decode(s)
    /\ \A p, b, d : /\ OfReasoning!Rendered(p, b, d) = Rendered(p, b, d)
                    /\ OfReasoning!Kept(p, b, d) = Kept(p, b, d)
    /\ \A s, n : OfReasoning!Slice(s, n) = Slice(s, n)
<1>1. /\ \A s : OfReasoning!WellFormed(s) <=> WellFormed(s)
      /\ \A s : OfReasoning!NoBom(s) <=> NoBom(s)
      /\ \A s, n : OfReasoning!AllAscii(s, n) <=> AllAscii(s, n)
  BY DEF OfReasoning!WellFormed, WellFormed, OfReasoning!Partial, Partial,
         OfReasoning!Closed, Closed, OfReasoning!Need, Need,
         OfReasoning!IsCont, IsCont,
         OfReasoning!NoBom, NoBom, OfReasoning!BomAt, BomAt,
         OfReasoning!AllAscii, AllAscii
<1>2. \A s : OfReasoning!Replaced(s) = Replaced(s)
  <2>1. \A s, i : OfReasoning!DecodedAt(s, i) = DecodedAt(s, i)
    BY DEF OfReasoning!DecodedAt, DecodedAt, OfReasoning!LeadsWhole, LeadsWhole,
           OfReasoning!FollowsBy, FollowsBy, OfReasoning!Need, Need,
           OfReasoning!IsCont, IsCont, OfReasoning!Replacement, Replacement
  <2> QED BY <2>1 DEF OfReasoning!Replaced, Replaced
<1>3. \A s : OfReasoning!Decode(s) = Decode(s)
  BY <1>1, <1>2 DEF OfReasoning!Decode, Decode, OfReasoning!WithoutBom,
     WithoutBom,
                    OfReasoning!BomAt, BomAt
<1>4. \A buf : OfReasoning!ValidLen(buf) = ValidLen(buf)
  BY DEF OfReasoning!ValidLen, ValidLen, OfReasoning!CutShort, CutShort,
         OfReasoning!ScanStops, ScanStops, OfReasoning!Need, Need,
         OfReasoning!IsCont, IsCont
<1>5. \A p, b, d : /\ OfReasoning!Rendered(p, b, d) = Rendered(p, b, d)
                   /\ OfReasoning!Kept(p, b, d) = Kept(p, b, d)
  BY <1>4 DEF OfReasoning!Rendered, Rendered, OfReasoning!Kept, Kept
<1>6. \A s, n : OfReasoning!Slice(s, n) = Slice(s, n)
  BY DEF OfReasoning!Slice, Slice, OfReasoning!UnitsUpTo, UnitsUpTo,
         OfReasoning!UnitStarts, UnitStarts, OfReasoning!Cardinality,
         Cardinality,
         OfReasoning!Need, Need, OfReasoning!IsCont, IsCont
<1> QED BY <1>1, <1>3, <1>5, <1>6

\* The text of a channel is one that the proofs are about.
LEMMA TextOfReasoning ==
    OfReasoning!TextsAssumption /\ OfReasoning!BoundsAssumption
    /\ OfReasoning!PlainRewinds
<1>1. Byte = OfReasoning!Byte
  BY Zenon DEF Byte, OfReasoning!Byte
<1>2. /\ Text["REASONING"] \in Seq(Byte)
      /\ WellFormed(Text["REASONING"]) /\ NoBom(Text["REASONING"])
  BY SessionAssumption DEF TextChannels
<1>3. OfReasoning!TextsAssumption
  BY <1>1, <1>2, SameOfReasoning DEF OfReasoning!TextsAssumption
<1>4. OfReasoning!BoundsAssumption
  BY SessionAssumption DEF OfReasoning!BoundsAssumption
<1> QED BY <1>3, <1>4 DEF OfReasoning!PlainRewinds

\* Nor does a step of the channel differ.
LEMMA StepInReasoning ==
    ASSUME [Reasoning!Next]_(Reasoning!vars)
    PROVE  [OfReasoning!Next]_(OfReasoning!vars)
<1>1. ASSUME NEW n \in 0..(Len(Text["REASONING"]) - sent["REASONING"]),
             NEW boundary \in BOOLEAN, Reasoning!Send(n, boundary)
      PROVE  OfReasoning!Send(n, boundary)
  BY <1>1, SameReasoning, SameOfReasoning
     DEF Reasoning!Send, OfReasoning!Send, Reasoning!Content, OfReasoning!Content
<1>2. ASSUME NEW k \in 0..sent["REASONING"], NEW t \in {Text["REASONING"]},
             Reasoning!Rewind(k, t)
      PROVE  OfReasoning!Rewind(k, t)
  BY <1>2, SameReasoning, SameOfReasoning
     DEF Reasoning!Rewind, OfReasoning!Rewind, Reasoning!RewindTo, OfReasoning!RewindTo,
         Reasoning!Sent, OfReasoning!Sent
<1>3. CASE Reasoning!GatewayStep
  <2>1. OfReasoning!GatewayNext
    BY <1>1, <1>2, <1>3 DEF Reasoning!GatewayStep, Reasoning!GatewayNext,
       OfReasoning!GatewayNext
  <2> QED BY <1>3, <2>1 DEF Reasoning!GatewayStep, OfReasoning!GatewayStep,
             OfReasoning!Next
<1>4. CASE Reasoning!Receive
  <2> DEFINE frame == Head(WireOf("REASONING", wire))
  <2>1. Reasoning!HandleContent(frame) => OfReasoning!HandleContent(frame)
    BY SameReasoning, SameOfReasoning DEF Reasoning!HandleContent,
       OfReasoning!HandleContent
  <2>2. Reasoning!HandleRewind(frame) => OfReasoning!HandleRewind(frame)
    BY SameReasoning, SameOfReasoning DEF Reasoning!HandleRewind,
       OfReasoning!HandleRewind
  <2> QED BY <1>4, <2>1, <2>2 DEF Reasoning!Receive, OfReasoning!Receive,
             OfReasoning!Next
<1>5. CASE UNCHANGED Reasoning!vars
  BY <1>5 DEF Reasoning!vars, Reasoning!gatewayVars, OfReasoning!vars,
     OfReasoning!gatewayVars
<1> QED BY <1>3, <1>4, <1>5 DEF Reasoning!Next

\* So all that a TextChannel promises holds of the session's CONTENT channel,
\* whatever else the session carries, and whether its client still waits or not:
\* no byte is lost, text is shown promptly and in whole characters, bytes taken
\* back stay away, and a REWIND leaves its ByteOffset of bytes.
THEOREM ContentPromises == Spec => OfContent!Promises
<1>1. OfContent!Safety => OfContent!Promises
  BY TextOfContent, OfContent!PromisesKept, PTL DEF OfContent!PromisesKept
<1>2. Content!Init => OfContent!Init
  BY DEF Content!Init, OfContent!Init, Content!GatewayInit,
         OfContent!GatewayInit
<1>3. [Content!Next]_(Content!vars) => [OfContent!Next]_(OfContent!vars)
  BY StepInContent
<1> QED BY <1>1, <1>2, <1>3, ContentChannel, PTL
        DEF ContentIsTextChannel, OfContent!Safety

\* And of REASONING, unless it is rewound.
THEOREM ReasoningPromises ==
    ASSUME "REASONING" \notin Rewindable
    PROVE  Spec => OfReasoning!Promises
<1>1. OfReasoning!Safety => OfReasoning!Promises
  BY TextOfReasoning, OfReasoning!PromisesKept, PTL
     DEF OfReasoning!PromisesKept
<1>2. Reasoning!Init => OfReasoning!Init
  BY DEF Reasoning!Init, OfReasoning!Init, Reasoning!GatewayInit,
         OfReasoning!GatewayInit
<1>3. [Reasoning!Next]_(Reasoning!vars) => [OfReasoning!Next]_(OfReasoning!vars)
  BY StepInReasoning
<1> QED BY <1>1, <1>2, <1>3, ReasoningChannel, PTL
        DEF ReasoningIsTextChannel, OfReasoning!Safety

\* The raw bytes of a channel that the client holds.
Bytes(ch) == accumulated[ch] \o pending[ch]

\* A REWIND that is taken off the wire is one of CONTENT, and the first of the
\* frames of CONTENT; what the gateway means by it is that many bytes of those
\* the client holds.
LEMMA RewindTaken ==
    ASSUME "REASONING" \notin Rewindable, Sharing, OfContent!NothingLost,
           wire # <<>>, wire' = Tail(wire),
           Head(wire).channel \in TextChannels, Head(wire).body.op = "REWIND"
    PROVE  LET own == WireOf("CONTENT", wire)
               frame == Head(wire).body
           IN  /\ Head(wire).channel = "CONTENT"
               /\ own # <<>> /\ Head(own) = frame
               /\ WireOf("CONTENT", wire') = Tail(own)
               /\ frame.after = SubSeq(Bytes("CONTENT"), 1, frame.offset)
<1> DEFINE m == Head(wire)
           own == WireOf("CONTENT", wire)
<1>1. wire \in Seq(Frame) /\ m \in Frame /\ Known(m) /\ wire' \in Seq(Frame)
  <2>1. wire \in Seq(Frame) /\ 1 \in 1..Len(wire) /\ m = wire[1]
    BY DEF Sharing
  <2> QED BY <2>1 DEF Sharing
<1>2. m.channel = "CONTENT"
  BY <1>1 DEF Known, TextChannels
<1>3. PICK later \in Seq(Bodies) : later = WireOf("CONTENT", wire')
  BY <1>1, WireTyped
<1>4. PICK b \in Bodies : b = m.body
  BY <1>1 DEF Bodies
<1>5. own = <<b>> \o later
  <2>1. own = Own("CONTENT", m) \o WireOf("CONTENT", wire')
    BY <1>1, WireTail
  <2> QED BY <1>2, <1>3, <1>4, <2>1 DEF Own
<1>6. /\ <<b>> \o later # <<>> /\ Head(<<b>> \o later) = b
      /\ Tail(<<b>> \o later) = later /\ (<<b>> \o later)[1] = b
      /\ 1 \in 1..Len(<<b>> \o later)
  OBVIOUS
<1>7. own # <<>> /\ Head(own) = b /\ Tail(own) = later /\ own[1] = b
      /\ 1 \in 1..Len(own)
  BY <1>5, <1>6, Zenon
<1>8. b.after = SubSeq(Bytes("CONTENT"), 1, b.offset)
  <2>1. b.after = IF b.op = "CONTENT" THEN OfContent!Before(1) \o b.data
                  ELSE SubSeq(OfContent!Before(1), 1, b.offset)
    <3>1. /\ \A i \in 1..Len(own) :
                own[i].after = IF own[i].op = "CONTENT"
                               THEN OfContent!Before(i) \o own[i].data
                               ELSE SubSeq(OfContent!Before(i), 1,
                               own[i].offset)
      BY Zenon DEF OfContent!NothingLost
    <3> HIDE DEF own
    <3> QED BY <1>7, <3>1, Zenon
  <2>2. OfContent!Before(1) = Bytes("CONTENT")
    BY DEF OfContent!Before, OfContent!Received, Bytes
  <2>3. b.op # "CONTENT"
    BY <1>4
  <2> QED BY <2>1, <2>2, <2>3
<1> QED BY <1>2, <1>3, <1>4, <1>7, <1>8

\* handleFrame leaves, on a REWIND of either text channel, what the gateway means
\* it to; the run session_rewind shows that REASONING has to be left out.
THEOREM RewindObeyed ==
    ASSUME "REASONING" \notin Rewindable
    PROVE  Spec => RewindTruncates
<1> DEFINE own == WireOf("CONTENT", wire)
           Exact == own # <<>> /\ own' = Tail(own) /\ Head(own).op = "REWIND"
                      => OfContent!Received' =
                             SubSeq(OfContent!Received, 1, Head(own).offset)
           Obeyed == wire # <<>> /\ wire' = Tail(wire)
                       => LET ch == Head(wire).channel
                              frame == Head(wire).body
                          IN  ch \in TextChannels /\ frame.op = "REWIND"
                              => accumulated'[ch] \o pending'[ch] = frame.after
<1>1. Spec => [](OfContent!NothingLost)
  <2>1. OfContent!AlwaysGood => OfContent!NothingLost
    BY Zenon DEF OfContent!AlwaysGood
  <2> QED BY <2>1, ContentPromises, PTL DEF OfContent!Promises
<1>2. Spec => [][Exact]_(OfContent!vars)
  BY ContentPromises, PTL DEF OfContent!Promises, OfContent!RewindTruncates
<1>3. ASSUME Sharing, OfContent!NothingLost, [Exact]_(OfContent!vars)
      PROVE  Obeyed
  <2> SUFFICES ASSUME wire # <<>>, wire' = Tail(wire),
                      Head(wire).channel \in TextChannels,
                      Head(wire).body.op = "REWIND"
               PROVE  LET ch == Head(wire).channel
                      IN  accumulated'[ch] \o pending'[ch] = Head(wire).body.after
    OBVIOUS
  <2>1. /\ Head(wire).channel = "CONTENT"
        /\ own # <<>> /\ Head(own) = Head(wire).body /\ own' = Tail(own)
        /\ Head(wire).body.after =
               SubSeq(Bytes("CONTENT"), 1, Head(own).offset)
    BY <1>3, RewindTaken
  <2>2. own' # own
    <3>1. own \in Seq(Bodies)
      BY <1>3, WireTyped DEF Sharing
    <3> HIDE DEF own
    <3> QED BY <2>1, <3>1
  <2>3. Exact
    BY <1>3, <2>2 DEF OfContent!vars, OfContent!gatewayVars
  <2>4. OfContent!Received = Bytes("CONTENT")
    BY DEF OfContent!Received, Bytes
  <2>5. OfContent!Received' = Bytes("CONTENT")'
    BY DEF OfContent!Received, Bytes
  <2>6. OfContent!Received' = SubSeq(OfContent!Received, 1, Head(own).offset)
    <3> HIDE DEF own
    <3> QED BY <2>1, <2>3
  <2> QED BY <2>1, <2>4, <2>5, <2>6 DEF Bytes
<1>4. Sharing /\ OfContent!NothingLost
      /\ [Exact]_(OfContent!vars) => [Obeyed]_vars
  BY <1>3
<1> QED BY <1>1, <1>2, <1>4, AlwaysShared, PTL DEF RewindTruncates

------------------------------------------------------------------------------
(* What the caller may rely on *)

\* The variables of the gateway and of the client keep their types: each text is
\* bytes, and no call but the one of the session is ever open.
THEOREM TypeCorrect ==
    ASSUME "REASONING" \notin Rewindable
    PROVE  Spec => []TypeOK
<1>1. ASSUME IInv, Sharing PROVE TypeOK
  <2>1. PICK tr : Course(tr)
    BY <1>1 DEF IInv
  <2>2. GatewayOK
    BY <1>1 DEF IInv
  <2>3. Sound(Now)
    BY <2>1, <2>2 DEF Course, GatewayOK
  <2>4. /\ Now.acc = accumulated /\ Now.pend = pending /\ Now.act = active
        /\ Now.noted = seen
    BY DEF Now, Client
  <2>5. \A ch \in TextChannels : sent[ch] \in 0..Len(Text[ch])
    BY <2>2, SessionAssumption DEF GatewayOK
  <2>6. rewinds \in [TextChannels \cup {"TOOL_CALL"} -> 0..MaxRewinds]
    BY <1>1 DEF Sharing
  <2> QED BY <2>2, <2>3, <2>4, <2>5, <2>6 DEF TypeOK, GatewayOK, Sound, Call
<1>2. IInv /\ Sharing => TypeOK
  BY <1>1
<1> QED BY <1>2, Invariance, AlwaysShared, PTL

\* However the channels interleave, whatever is cut or taken back, and whatever is
\* still in flight: once the promise is resolved, everything is there.
THEOREM EndComplete ==
    ASSUME "REASONING" \notin Rewindable
    PROVE  Spec => []EndMeansComplete
<1>1. ASSUME IInv, ~waiting PROVE EndMeansComplete
  <2>1. PICK tr : Course(tr)
    BY <1>1 DEF IInv
  <2>2. GatewayOK
    BY <1>1 DEF IInv
  <2>3. Now.noted = seen
    BY DEF Now, Client
  <2>4. Len(wire) = 0
    <3>1. "END" \in seen
      BY <1>1, <2>2 DEF GatewayOK
    <3>2. CASE 0 \in 0..(Len(wire) - 1)
      BY <2>1, <2>3, <3>1, <3>2 DEF Course
    <3>3. CASE 0 \notin 0..(Len(wire) - 1)
      BY <2>2, <3>3 DEF GatewayOK
    <3> QED BY <3>2, <3>3
  <2>5. Meant(Now)
    BY <2>1, <2>4 DEF Course
  <2>6. /\ Now.acc = accumulated /\ Now.pend = pending /\ Now.act = active
        /\ Now.done = completedTools
    BY DEF Now, Client
  <2>7. ASSUME NEW ch \in TextChannels
        PROVE  /\ accumulated[ch] \o pending[ch] = Said(ch)
               /\ WellFormed(Said(ch)) => accumulated[ch] = Said(ch)
    <3>1. Held(accumulated[ch], pending[ch], Said(ch))
      BY <2>5, <2>6 DEF Meant
    <3>2. Said(ch) \in Seq(Byte)
      BY <2>2, PartOfText DEF Said, GatewayOK
    <3> QED BY <3>1, <3>2, HeldWhole DEF Held
  <2>8. /\ Len(completedTools) = toolsSent \div Len(Cuts)
        /\ completedTools # <<>> => active = [key \in {} |-> <<>>]
    <3>1. /\ active = ActiveAt(toolsSent) /\ completedTools = DoneAt(toolsSent)
          /\ toolsSent \in 0..Len(Cuts) /\ Len(Cuts) \in Nat /\ Len(Cuts) > 0
      BY <2>2, <2>5, <2>6, SessionAssumption DEF Meant, GatewayOK
    <3>2. CASE toolsSent = Len(Cuts)
      BY <3>1, <3>2 DEF ActiveAt, DoneAt, NoCall
    <3>3. CASE toolsSent # Len(Cuts)
      BY <3>1, <3>3 DEF DoneAt
    <3> QED BY <3>2, <3>3
  <2>9. seen = told
    BY <2>3, <2>5 DEF Meant
  <2> QED BY <2>7, <2>8, <2>9 DEF EndMeansComplete
<1>2. IInv => EndMeansComplete
  BY <1>1 DEF EndMeansComplete
<1> QED BY <1>2, Invariance, PTL

==============================================================================
