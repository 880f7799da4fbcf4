--------------------------- MODULE ToolCallsProofs ---------------------------
(***************************************************************************)
(* Tool calls, for any keys, arguments, number of calls, rewinds and       *)
(* frames in flight: both clients complete exactly the calls the gateway   *)
(* finished.  The frames in flight say what both clients are going to      *)
(* hold; the inductive invariant is that there is such a course of states, *)
(* from the present one to the one the gateway means, and that no frame    *)
(* makes an assembler throw on it unless the gateway has given cause.      *)
(***************************************************************************)
EXTENDS ToolCalls, SequenceTheorems, TLAPS

\* Both clients, and what a frame makes of them.
Clients(ts, cts, py, cpy) == [ts |-> ts, cts |-> cts, py |-> py, cpy |-> cpy]

Now == Clients(activeTS, completedTS, activePy, completedPy)

After(s, frame) ==
    IF frame.op = "TOOL_CALL"
    THEN Clients(ActiveTS(s.ts, frame), s.cts \o CompletedBy(s.ts, frame),
                 ActivePy(s.py, frame), s.cpy \o CompletedBy(s.py, frame))
    ELSE Clients(IF frame.offset = 0 THEN Discarded(s.ts, frame.key[1]) ELSE s.ts,
                 s.cts, Discarded(s.py, frame.key[1]), s.cpy)

\* The frame makes an assembler throw.
Stops(s, frame) ==
    frame.op = "TOOL_CALL" /\ (Throws(s.ts, frame) \/ Throws(s.py, frame))

\* What the gateway is sending, as an assembler holds it.
Fragments == [key \in DOMAIN open |-> Fragment(open[key])]

\* What holds of the clients before and after every frame in flight.
Agreed(ts, py) ==
    /\ \A key \in DOMAIN ts : key \in DOMAIN py /\ py[key] = ts[key]
    /\ \A key \in DOMAIN py \ DOMAIN ts : ~Parses(py[key].args)

Typed(s) == /\ MapTo(s.ts, Entry) /\ MapTo(s.py, Entry)
            /\ s.cts \in Seq(Call) /\ s.cpy \in Seq(Call)

Sound(s) == /\ s = Clients(s.ts, s.cts, s.py, s.cpy)
            /\ Typed(s)
            /\ Agreed(s.ts, s.py)
            /\ s.cpy = s.cts
            /\ IsPrefix(s.cts, finished)

\* s is what the gateway means both clients to hold; Python holds no call that
\* was taken back, not even one it could not parse.
Meant(s) == /\ s.ts = Fragments
            /\ s.cts = finished
            /\ DOMAIN s.py \cap takenBack = {}

\* The states of the clients before each frame in flight, and after the last.
Course(tr) ==
    /\ tr = [i \in 0..Len(wire) |-> tr[i]]
    /\ tr[0] = Now
    /\ \A i \in 1..Len(wire) : tr[i] = After(tr[i - 1], wire[i])
    /\ \A i \in 0..Len(wire) : Sound(tr[i])
    /\ Meant(tr[Len(wire)])
    /\ ~provoked => \A i \in 1..Len(wire) : ~Stops(tr[i - 1], wire[i])

GatewayOK == /\ MapTo(open, Opened)
             /\ \A key \in DOMAIN open : open[key].sent <= Len(open[key].args)
             /\ finished \in Seq(Call)
             /\ starts \in 0..MaxStarts
             /\ rewinds \in 0..MaxRewinds
             /\ takenBack \subseteq Keys \ DOMAIN open
             /\ wire \in Seq(Frame)

\* The programs: while they run the assemblers agree, and they end for a cause.
ProgramsOK == /\ provoked \in BOOLEAN /\ catching \in BOOLEAN /\ ended \in BOOLEAN
              /\ ended => provoked
              /\ ~catching /\ ~ended => activePy = activeTS

IInv == GatewayOK /\ ProgramsOK /\ \E tr : Course(tr)

------------------------------------------------------------------------------
(* Maps of calls *)

\* An entry is put, and others stay.
LEMMA PutMap ==
    ASSUME NEW S, NEW m, MapTo(m, S), NEW key \in Keys, NEW e \in S
    PROVE  /\ MapTo(Put(m, key, e), S)
           /\ DOMAIN Put(m, key, e) = DOMAIN m \cup {key}
           /\ Put(m, key, e)[key] = e
           /\ \A k \in DOMAIN m \ {key} : Put(m, key, e)[k] = m[k]
  BY DEF MapTo, Put

\* An entry is taken out, and others stay.
LEMMA WithoutMap ==
    ASSUME NEW S, NEW m, MapTo(m, S), NEW key
    PROVE  /\ MapTo(Without(m, key), S)
           /\ DOMAIN Without(m, key) = DOMAIN m \ {key}
           /\ \A k \in DOMAIN m \ {key} : Without(m, key)[k] = m[k]
  BY DEF MapTo, Without, Restrict

------------------------------------------------------------------------------
(* Frames of calls at an assembler *)

\* Two adjacent parts of the arguments, joined, are the part that spans both.
LEMMA JoinedParts ==
    ASSUME NEW s \in Seq(STRING), NEW m \in 0..Len(s), NEW n \in m..Len(s)
    PROVE  /\ SubSeq(s, 1, m) \o SubSeq(s, m + 1, n) = SubSeq(s, 1, n)
           /\ SubSeq(s, 1, n) \in Seq(STRING)
           /\ SubSeq(s, m + 1, n) \in Seq(STRING)
<1>1. CASE m = n
  <2>1. SubSeq(s, m + 1, n) = <<>>
    BY <1>1, SubSeqEmpty
  <2>2. SubSeq(s, 1, n) \in Seq(STRING)
    BY SubSeqProperties
  <2> QED BY <1>1, <2>1, <2>2, ConcatEmptySeq
<1>2. CASE m < n
  <2>1. SubSeq(s, 1, m) \o SubSeq(s, m + 1, n) = SubSeq(s, 1, n)
    BY <1>2, ConcatAdjacentSubSeq
  <2> QED BY <2>1, SubSeqProperties
<1> QED BY <1>1, <1>2

\* The arguments of an entry replaced.
LEMMA ReplacedArgs ==
    \A id \in 1..MaxStarts, a \in Seq(STRING), b \in Seq(STRING) :
        \A e : e = [id |-> id, args |-> a]
              => [e EXCEPT !.args = b] = [id |-> id, args |-> b]
<1>1. SUFFICES ASSUME NEW id \in 1..MaxStarts, NEW a \in Seq(STRING),
                      NEW b \in Seq(STRING), NEW e, e = [id |-> id, args |-> a]
               PROVE  [e EXCEPT !.args = b] = [id |-> id, args |-> b]
  OBVIOUS
<1>2. e \in Entry /\ [e EXCEPT !.args = b] \in Entry
  BY <1>1 DEF Entry
<1> QED BY <1>1, <1>2 DEF Entry

\* The assembler m holds the part of a call already sent, or is given its first
\* frame.
Expects(m, key, start, call, upTo) ==
    /\ MapTo(m, Entry) /\ key \in Keys /\ start \in BOOLEAN
    /\ call.id \in 1..MaxStarts /\ call.args \in Seq(STRING)
    /\ call.sent \in 0..Len(call.args) /\ upTo \in call.sent..Len(call.args)
    /\ IF start THEN call.sent = 0
       ELSE key \in DOMAIN m /\ m[key] = Fragment(call)

\* In f the assembler m is given what makes e of the call under key.
Collects(m, f, key, e) ==
    /\ MapTo(m, Entry) /\ key \in Keys /\ e \in Entry
    /\ f.key = key /\ f.end \in BOOLEAN
    /\ ~Unknown(m, f)
    /\ Collected(m, f) = Put(m, key, e)

CallFrame(key, start, end, call, upTo) ==
    ToolFrame(key, start, end, call.id,
              SubSeq(call.args, call.sent + 1, upTo))

UpTo(call, n) == [id |-> call.id, args |-> SubSeq(call.args, 1, n)]

\* Such an assembler collects the call up to the frame.
LEMMA CollectsCall ==
    ASSUME NEW m, NEW key, NEW start, NEW end \in BOOLEAN, NEW call, NEW upTo,
           Expects(m, key, start, call, upTo)
    PROVE  Collects(m, CallFrame(key, start, end, call, upTo), key,
                    UpTo(call, upTo))
<1> DEFINE f == CallFrame(key, start, end, call, upTo)
           e == UpTo(call, upTo)
           part == SubSeq(call.args, 1, call.sent)
<1>1. /\ MapTo(m, Entry) /\ key \in Keys /\ start \in BOOLEAN
      /\ call.id \in 1..MaxStarts /\ call.args \in Seq(STRING)
      /\ call.sent \in 0..Len(call.args) /\ upTo \in call.sent..Len(call.args)
  BY DEF Expects
<1>2. /\ part \o SubSeq(call.args, call.sent + 1, upTo)
           = SubSeq(call.args, 1, upTo)
      /\ SubSeq(call.args, 1, upTo) \in Seq(STRING)
      /\ part \in Seq(STRING)
  <2>1. part \in Seq(STRING)
    BY <1>1, SubSeqProperties
  <2>2. /\ part \o SubSeq(call.args, call.sent + 1, upTo)
             = SubSeq(call.args, 1, upTo)
        /\ SubSeq(call.args, 1, upTo) \in Seq(STRING)
    BY <1>1, JoinedParts
  <2> QED BY <2>1, <2>2
<1>3. e \in Entry
  BY <1>1, <1>2 DEF UpTo, Entry
<1>4. /\ f.start = start /\ f.key = key /\ f.id = call.id /\ f.end = end
      /\ f.delta = SubSeq(call.args, call.sent + 1, upTo)
  BY DEF CallFrame, ToolFrame
<1>5. e = [id |-> call.id, args |-> SubSeq(call.args, 1, upTo)]
  BY DEF UpTo
<1> HIDE DEF f, e, part
<1>6. ~Unknown(m, f)
  BY <1>4 DEF Unknown, Expects
<1>7. Collected(m, f) = Put(m, key, e)
  <2>1. CASE start
    <3>1. call.sent + 1 = 1
      BY <2>1 DEF Expects
    <3>2. f.delta = SubSeq(call.args, 1, upTo)
      BY <1>4, <3>1, Zenon
    <3>3. [id |-> f.id, args |-> f.delta] = e
      BY <1>4, <1>5, <3>2, Zenon
    <3>4. Collected(m, f) = Put(m, f.key, [id |-> f.id, args |-> f.delta])
      BY <1>4, <2>1, Zenon DEF Collected
    <3> QED BY <1>4, <3>3, <3>4, Zenon
  <2>2. CASE ~start
    <3>1. key \in DOMAIN m /\ m[key] = [id |-> call.id, args |-> part]
      BY <2>2 DEF Expects, Fragment, part
    <3>2. m = [k \in DOMAIN m |-> m[k]] /\ DOMAIN m \cup {key} = DOMAIN m
      BY <1>1, <3>1 DEF MapTo
    <3>3. Collected(m, f) = [m EXCEPT ![key].args = @ \o f.delta]
      BY <1>4, <2>2 DEF Collected
    <3>4. [m[key] EXCEPT !.args = @ \o f.delta] = e
      <4>1. m[key].args = part
        BY <3>1
      <4>2. m[key].args \o f.delta = SubSeq(call.args, 1, upTo)
        BY <1>2, <1>4, <4>1, Zenon
      <4> DEFINE r == m[key]
      <4>3. r = [id |-> call.id, args |-> part]
        BY <3>1
      <4> HIDE DEF r
      <4>4. [r EXCEPT !.args = SubSeq(call.args, 1, upTo)] = e
        BY ONLY <1>1, <1>2, <1>5, <4>3, ReplacedArgs, Zenon
      <4> QED BY <4>2, <4>4 DEF r
    <3> QED BY <3>2, <3>3, <3>4 DEF Put
  <2> QED BY <1>1, <2>1, <2>2
<1> QED BY <1>1, <1>3, <1>4, <1>6, <1>7 DEF Collects, f, e

\* What both assemblers make of such a frame.
LEMMA HandlesCall ==
    ASSUME NEW m, NEW f, NEW key, NEW e, Collects(m, f, key, e)
    PROVE  /\ ActiveTS(m, f) = IF f.end THEN Without(m, key) ELSE Put(m, key, e)
           /\ ActivePy(m, f) = IF f.end /\ Parses(e.args) THEN Without(m, key)
                               ELSE Put(m, key, e)
           /\ CompletedBy(m, f) = IF f.end /\ Parses(e.args)
                                  THEN <<[key |-> key, id |-> e.id,
                                          args |-> e.args]>>
                                  ELSE <<>>
           /\ Throws(m, f) <=> f.end /\ ~Parses(e.args)
<1>1. /\ f.key = key /\ f.end \in BOOLEAN
      /\ ~Unknown(m, f) /\ Collected(m, f) = Put(m, key, e)
  BY DEF Collects
<1>2. Put(m, key, e)[key] = e
  BY DEF Put
<1>3. Completes(m, f) <=> f.end /\ Parses(e.args)
  BY <1>1, <1>2 DEF Completes
<1>4. Without(Put(m, key, e), key) = Without(m, key)
  BY DEF Put, Without, Restrict
<1> QED BY <1>1, <1>2, <1>3, <1>4 DEF ActiveTS, ActivePy, CompletedBy, Throws

\* Where nothing is thrown both assemblers make the same of a frame.
LEMMA SameUnlessThrown ==
    ASSUME NEW m, NEW f, f.end \in BOOLEAN, ~Throws(m, f)
    PROVE  ActivePy(m, f) = ActiveTS(m, f)
  BY DEF Throws, ActivePy, ActiveTS, Completes

\* Appending a call keeps prefixes.
LEMMA PrefixGrows ==
    ASSUME NEW s \in Seq(Call), NEW t \in Seq(Call), NEW call \in Call
    PROVE  /\ Append(t, call) \in Seq(Call)
           /\ Append(t, call) = t \o <<call>>
           /\ IsPrefix(s, t) => IsPrefix(s, Append(t, call))
           /\ IsPrefix(t, t)
           /\ t \o <<>> = t
<1>1. /\ Append(t, call) \in Seq(Call)
      /\ Len(Append(t, call)) = Len(t) + 1
      /\ Append(t, call) = t \o <<call>>
  BY AppendIsConcat
<1>2. ASSUME IsPrefix(s, t) PROVE IsPrefix(s, Append(t, call))
  <2>1. Len(s) <= Len(t) /\ SubSeq(s, 1, Len(s)) = SubSeq(t, 1, Len(s))
    BY <1>2 DEF IsPrefix
  <2>2. SubSeq(Append(t, call), 1, Len(s)) = SubSeq(t, 1, Len(s))
    BY <2>1
  <2> QED BY <1>1, <2>1, <2>2 DEF IsPrefix
<1> QED BY <1>1, <1>2 DEF IsPrefix

------------------------------------------------------------------------------
(* A frame is put on the wire: the course goes on. *)

\* A frame sent lengthens the course by what it makes of the last state.
LEMMA CourseGoesOn ==
    ASSUME NEW tr, Course(tr), GatewayOK,
           NEW f, wire' = Append(wire, f),
           UNCHANGED clientVars,
           finished' = finished
             \/ \E call \in Call : finished' = Append(finished, call),
           NEW n, n = Len(wire),
           NEW s, s = After(tr[n], f),
           Sound(s)', Meant(s)',
           ~provoked' => ~provoked /\ ~Stops(tr[n], f)
    PROVE  \E next : Course(next)'
<1> DEFINE next == [i \in 0..(n + 1) |-> IF i <= n THEN tr[i] ELSE s]
<1>1. n \in Nat /\ Len(wire)' = n + 1
      /\ (\A i \in 1..n : wire'[i] = wire[i]) /\ wire'[n + 1] = f
  BY DEF GatewayOK
<1>2. Now' = Now
  BY DEF Now, clientVars
<1>3. ASSUME NEW i \in 0..n PROVE Sound(tr[i])'
  <2>1. Sound(tr[i])
    BY DEF Course
  <2>2. IsPrefix(tr[i].cts, finished')
    <3>1. tr[i].cts \in Seq(Call) /\ finished \in Seq(Call)
          /\ IsPrefix(tr[i].cts, finished)
      BY <2>1 DEF Sound, Typed, GatewayOK
    <3>2. ASSUME NEW call \in Call, finished' = Append(finished, call)
          PROVE  IsPrefix(tr[i].cts, finished')
      BY <3>1, <3>2, PrefixGrows
    <3>3. CASE finished' = finished
      BY <3>1, <3>3
    <3> QED BY <3>2, <3>3
  <2> QED BY <2>1, <2>2 DEF Sound
<1>4. /\ \A i \in 0..n : next[i] = tr[i]
      /\ next[n + 1] = s
      /\ next = [i \in 0..(n + 1) |-> next[i]]
  BY <1>1
<1> HIDE DEF next
<1>5. next[0] = Now'
  BY <1>1, <1>2, <1>4 DEF Course
<1>6. ASSUME NEW i \in 1..(n + 1) PROVE next[i] = After(next[i - 1], wire'[i])
  <2>1. CASE i <= n
    <3>1. i \in 1..n /\ i - 1 \in 0..n
      BY <1>1, <2>1
    <3>2. next[i] = tr[i] /\ next[i - 1] = tr[i - 1] /\ wire'[i] = wire[i]
      <4>1. i \in 0..n
        BY <1>1, <3>1
      <4> QED BY <1>1, <1>4, <3>1, <4>1, Zenon
    <3> QED BY <3>1, <3>2 DEF Course
  <2>2. CASE i = n + 1
    <3>1. i - 1 = n /\ n \in 0..n
      BY <1>1, <2>2
    <3>2. next[i] = s /\ next[i - 1] = tr[n] /\ wire'[i] = f
      BY <1>1, <1>4, <2>2, <3>1
    <3> QED BY <3>1, <3>2
  <2> QED BY <1>1, <2>1, <2>2
<1>7. ASSUME NEW i \in 0..(n + 1) PROVE Sound(next[i])'
  <2>1. CASE i <= n
    <3>1. i \in 0..n
      BY <1>1, <2>1
    <3>2. Sound(tr[i])' /\ next[i] = tr[i]
      BY <1>3, <1>4, <3>1
    <3> QED BY <3>2 DEF Sound
  <2>2. CASE i = n + 1
    BY <1>4, <2>2 DEF Sound
  <2> QED BY <1>1, <2>1, <2>2
<1>8. Meant(next[n + 1])'
  BY <1>4 DEF Meant
<1>9. ASSUME ~provoked', NEW i \in 1..(n + 1)
      PROVE  ~Stops(next[i - 1], wire'[i])
  <2>1. CASE i <= n
    <3>1. i \in 1..n /\ i - 1 \in 0..n
      BY <1>1, <2>1
    <3>2. next[i - 1] = tr[i - 1] /\ wire'[i] = wire[i]
      BY <1>1, <1>4, <3>1
    <3> QED BY <1>9, <3>1, <3>2 DEF Course
  <2>2. CASE i = n + 1
    <3>1. i - 1 = n /\ n \in 0..n
      BY <1>1, <2>2
    <3>2. next[i - 1] = tr[n] /\ wire'[i] = f
      BY <1>1, <1>4, <2>2, <3>1
    <3> QED BY <1>9, <3>2
  <2> QED BY <1>1, <2>1, <2>2
<1>10. Course(next)'
  BY <1>1, <1>4, <1>5, <1>6, <1>7, <1>8, <1>9 DEF Course
<1> QED BY <1>10

\* The gateway sends a frame of a call, new or going on.
Emits(key, call, n, start, end, upTo) ==
    /\ GatewayOK
    /\ key \in Keys /\ call \in Opened /\ n \in Nat
    /\ start \in BOOLEAN /\ end \in BOOLEAN
    /\ upTo = call.sent + n
    /\ IF start THEN call.sent = 0
                ELSE key \in DOMAIN open /\ open[key] = call
    /\ takenBack' = IF start THEN takenBack \ {key} ELSE takenBack
    /\ starts' \in 0..MaxStarts
    /\ Emit(key, call, n, start, end)

\* The gateway's side of a frame of a call.
LEMMA EmitKeepsGateway ==
    ASSUME NEW key, NEW call, NEW n, NEW start, NEW end, NEW upTo,
           Emits(key, call, n, start, end, upTo)
    PROVE  /\ GatewayOK'
           /\ call.id \in 1..MaxStarts /\ call.args \in Seq(STRING)
           /\ call.sent \in 0..Len(call.args)
           /\ upTo \in call.sent..Len(call.args)
           /\ wire' = Append(wire, CallFrame(key, start, end, call, upTo))
           /\ finished' = IF end /\ Parses(SubSeq(call.args, 1, upTo))
                          THEN Append(finished,
                                      [key |-> key, id |-> call.id,
                                       args |-> SubSeq(call.args, 1, upTo)])
                          ELSE finished
           /\ Fragments' = IF end THEN Without(Fragments, key)
                           ELSE Put(Fragments, key, UpTo(call, upTo))
<1>0. /\ GatewayOK
      /\ key \in Keys /\ call \in Opened /\ n \in Nat
      /\ start \in BOOLEAN /\ end \in BOOLEAN
      /\ upTo = call.sent + n
      /\ IF start THEN call.sent = 0
                  ELSE key \in DOMAIN open /\ open[key] = call
      /\ takenBack' = IF start THEN takenBack \ {key} ELSE takenBack
      /\ starts' \in 0..MaxStarts
      /\ Emit(key, call, n, start, end)
  BY DEF Emits
<1> DEFINE part == SubSeq(call.args, 1, upTo)
           later == [call EXCEPT !.sent = upTo]
<1>1. /\ call.id \in 1..MaxStarts
      /\ call.args \in Arguments /\ call.args \in Seq(STRING)
      /\ call.sent \in Nat
  BY <1>0, ToolAssumption DEF Opened
<1>2. upTo \in call.sent..Len(call.args) /\ call.sent \in 0..Len(call.args)
  <2>1. upTo <= Len(call.args)
    BY <1>0 DEF Emit
  <2>2. Len(call.args) \in Nat
    BY <1>1
  <2> QED BY <1>0, <1>1, <2>1, <2>2
<1>3. /\ part \in Seq(STRING)
      /\ SubSeq(call.args, call.sent + 1, upTo) \in Seq(STRING)
  BY <1>1, <1>2, JoinedParts
<1>4. /\ later \in Opened
      /\ later.id = call.id /\ later.args = call.args /\ later.sent = upTo
  BY <1>0, <1>1, <1>2 DEF Opened
<1>5. open' = IF end THEN Without(open, key) ELSE Put(open, key, later)
  BY <1>0 DEF Emit
<1>6. finished' = IF end /\ Parses(part)
                  THEN Append(finished, [key |-> key, id |-> call.id,
                                         args |-> part])
                  ELSE finished
  BY <1>0 DEF Emit
<1> HIDE DEF later, part
<1>7. /\ MapTo(open', Opened)
      /\ DOMAIN open' = IF end THEN DOMAIN open \ {key} ELSE DOMAIN open \cup {key}
      /\ \A k \in DOMAIN open \ {key} : open'[k] = open[k]
      /\ ~end => open'[key] = later
  <2>1. key \in Keys /\ MapTo(open, Opened)
    BY <1>0 DEF GatewayOK
  <2>2. CASE end
    BY <1>5, <2>1, <2>2, WithoutMap
  <2>3. CASE ~end
    BY <1>4, <1>5, <2>1, <2>3 DEF MapTo, Put
  <2> QED BY <2>2, <2>3
<1>8. \A k \in DOMAIN open' : open'[k].sent <= Len(open'[k].args)
  BY <1>0, <1>2, <1>4, <1>7 DEF GatewayOK
<1>9. finished' \in Seq(Call)
  <2>1. [key |-> key, id |-> call.id, args |-> part] \in Call
    BY <1>0, <1>1, <1>3 DEF Call
  <2> QED BY <1>0, <1>6, <2>1 DEF GatewayOK
<1>10. /\ wire' = Append(wire, CallFrame(key, start, end, call, upTo))
       /\ wire' \in Seq(Frame)
  <2>1. CallFrame(key, start, end, call, upTo) \in Frame
    <3>1. call.id \in 0..MaxStarts
      BY <1>1, ToolAssumption
    <3> QED BY <1>0, <1>3, <3>1 DEF CallFrame, ToolFrame, Frame
  <2>2. wire' = Append(wire, CallFrame(key, start, end, call, upTo))
    BY <1>0 DEF Emit, CallFrame
  <2> QED BY <1>0, <2>1, <2>2 DEF GatewayOK
<1>11. takenBack' \subseteq Keys \ DOMAIN open'
  BY <1>0, <1>7 DEF GatewayOK
<1>12. GatewayOK'
  BY <1>0, <1>7, <1>8, <1>9, <1>10, <1>11 DEF GatewayOK, Emit
<1>13. Fragments' = IF end THEN Without(Fragments, key)
                    ELSE Put(Fragments, key, UpTo(call, upTo))
  <2>1. Fragments' = [k \in DOMAIN open' |-> Fragment(open'[k])]
    BY DEF Fragments, Fragment
  <2>2. ~end => Fragment(open'[key]) = UpTo(call, upTo)
    BY <1>4, <1>7 DEF Fragment, UpTo
  <2>3. CASE end
    BY <1>7, <2>1, <2>3 DEF Fragments, Without, Restrict, Fragment
  <2>4. CASE ~end
    <3>1. \A k \in DOMAIN open' :
             Fragment(open'[k]) = IF k = key THEN UpTo(call, upTo)
                                  ELSE Fragments[k]
      BY <1>7, <2>2, <2>4 DEF Fragments
    <3>2. DOMAIN open' = DOMAIN Fragments \cup {key}
      BY <1>7, <2>4 DEF Fragments
    <3> QED BY <2>1, <2>4, <3>1, <3>2 DEF Put
  <2> QED BY <2>3, <2>4
<1> QED BY <1>1, <1>2, <1>6, <1>10, <1>12, <1>13 DEF part

\* Adding or dropping a call in both maps keeps them agreed.
LEMMA AgreedPut ==
    ASSUME NEW ts, MapTo(ts, Entry), NEW py, MapTo(py, Entry), Agreed(ts, py),
           NEW key \in Keys, NEW e \in Entry
    PROVE  /\ Agreed(Put(ts, key, e), Put(py, key, e))
           /\ Agreed(Without(ts, key), Without(py, key))
           /\ ~Parses(e.args) => Agreed(Without(ts, key), Put(py, key, e))
           /\ \A choice : Agreed(Discarded(ts, choice), Discarded(py, choice))
<1>1. /\ DOMAIN Put(ts, key, e) = DOMAIN ts \cup {key}
      /\ DOMAIN Put(py, key, e) = DOMAIN py \cup {key}
      /\ Put(ts, key, e)[key] = e /\ Put(py, key, e)[key] = e
      /\ \A k \in DOMAIN ts \ {key} : Put(ts, key, e)[k] = ts[k]
      /\ \A k \in DOMAIN py \ {key} : Put(py, key, e)[k] = py[k]
  BY DEF Put
<1>2. /\ DOMAIN Without(ts, key) = DOMAIN ts \ {key}
      /\ DOMAIN Without(py, key) = DOMAIN py \ {key}
      /\ \A k \in DOMAIN ts \ {key} : Without(ts, key)[k] = ts[k]
      /\ \A k \in DOMAIN py \ {key} : Without(py, key)[k] = py[k]
  BY WithoutMap
<1>3. Agreed(Put(ts, key, e), Put(py, key, e))
  BY <1>1 DEF Agreed
<1>4. Agreed(Without(ts, key), Without(py, key))
  BY <1>2 DEF Agreed
<1>5. ~Parses(e.args) => Agreed(Without(ts, key), Put(py, key, e))
  BY <1>1, <1>2 DEF Agreed
<1>6. ASSUME NEW choice
      PROVE  Agreed(Discarded(ts, choice), Discarded(py, choice))
  <2>1. /\ DOMAIN Discarded(ts, choice) = {k \in DOMAIN ts : k[1] # choice}
        /\ DOMAIN Discarded(py, choice) = {k \in DOMAIN py : k[1] # choice}
        /\ \A k \in DOMAIN ts : k[1] # choice => Discarded(ts, choice)[k] = ts[k]
        /\ \A k \in DOMAIN py : k[1] # choice => Discarded(py, choice)[k] = py[k]
    BY DEF Discarded, Restrict
  <2> QED BY <2>1 DEF Agreed
<1> QED BY <1>3, <1>4, <1>5, <1>6

\* The clients' side of a frame of a call: where they were what the gateway
\* meant, they are so again.
LEMMA EmitKeepsClients ==
    ASSUME NEW key, NEW call, NEW n, NEW start, NEW end, NEW upTo,
           Emits(key, call, n, start, end, upTo),
           NEW g, Sound(g), Meant(g),
           NEW f, f = CallFrame(key, start, end, call, upTo),
           NEW s, s = After(g, f)
    PROVE  /\ Sound(s)' /\ Meant(s)'
           /\ ~(end /\ ~Parses(SubSeq(call.args, 1, upTo))) => ~Stops(g, f)
<1> DEFINE e == UpTo(call, upTo)
           done == [key |-> key, id |-> e.id, args |-> e.args]
           completes == end /\ Parses(e.args)
           one == IF completes THEN <<done>> ELSE <<>>
<1>1. /\ call.id \in 1..MaxStarts /\ call.args \in Seq(STRING)
      /\ call.sent \in 0..Len(call.args)
      /\ upTo \in call.sent..Len(call.args)
      /\ finished' = IF end /\ Parses(SubSeq(call.args, 1, upTo))
                     THEN Append(finished,
                                 [key |-> key, id |-> call.id,
                                  args |-> SubSeq(call.args, 1, upTo)])
                     ELSE finished
      /\ Fragments' = IF end THEN Without(Fragments, key)
                      ELSE Put(Fragments, key, e)
  BY EmitKeepsGateway
<1>2. /\ key \in Keys /\ start \in BOOLEAN /\ end \in BOOLEAN
      /\ IF start THEN call.sent = 0
         ELSE key \in DOMAIN open /\ open[key] = call
      /\ takenBack' = IF start THEN takenBack \ {key} ELSE takenBack
      /\ GatewayOK
  BY DEF Emits
<1>3. /\ f.op = "TOOL_CALL" /\ f.end = end
  BY DEF CallFrame, ToolFrame
<1>4. /\ MapTo(g.ts, Entry) /\ MapTo(g.py, Entry)
      /\ Agreed(g.ts, g.py)
      /\ g.cts \in Seq(Call) /\ g.cpy = g.cts /\ g.cts = finished
      /\ g.ts = Fragments
  BY DEF Sound, Typed, Meant
<1>5. Expects(g.ts, key, start, call, upTo)
  BY <1>1, <1>2, <1>4 DEF Expects, Fragments
<1>6. Expects(g.py, key, start, call, upTo)
  BY <1>4, <1>5 DEF Expects, Agreed
<1>7. Collects(g.ts, f, key, e) /\ Collects(g.py, f, key, e)
  BY <1>2, <1>5, <1>6, CollectsCall
<1>8. /\ e \in Entry /\ done \in Call
      /\ e.id = call.id /\ e.args = SubSeq(call.args, 1, upTo)
  BY <1>2, <1>7 DEF Collects, Entry, Call, UpTo
<1>9. /\ ActiveTS(g.ts, f) = IF end THEN Without(g.ts, key) ELSE Put(g.ts, key, e)
      /\ CompletedBy(g.ts, f) = one
      /\ ActivePy(g.py, f) = IF completes THEN Without(g.py, key)
                             ELSE Put(g.py, key, e)
      /\ CompletedBy(g.py, f) = one
  BY <1>3, <1>7, HandlesCall
<1>19. ~(end /\ ~Parses(SubSeq(call.args, 1, upTo))) => ~Stops(g, f)
  <2>1. /\ Throws(g.ts, f) <=> f.end /\ ~Parses(e.args)
        /\ Throws(g.py, f) <=> f.end /\ ~Parses(e.args)
    BY <1>7, HandlesCall
  <2> HIDE DEF e
  <2> QED BY <1>3, <1>8, <2>1 DEF Stops
<1>10. finished' = IF completes THEN Append(finished, done) ELSE finished
  BY <1>1, <1>8
<1> HIDE DEF e, done
<1>11. /\ s.ts = IF end THEN Without(g.ts, key) ELSE Put(g.ts, key, e)
       /\ s.py = IF completes THEN Without(g.py, key) ELSE Put(g.py, key, e)
       /\ s.cts = g.cts \o one /\ s.cpy = g.cts \o one
       /\ s = Clients(s.ts, s.cts, s.py, s.cpy)
  BY <1>3, <1>4, <1>9 DEF After, Clients
<1>12. finished' = g.cts \o one /\ finished' \in Seq(Call)
       /\ IsPrefix(finished', finished')
  <2>1. finished' = g.cts \o one /\ finished' \in Seq(Call)
    BY <1>4, <1>8, <1>10, PrefixGrows
  <2>2. IsPrefix(finished', finished')
    BY <1>8, <2>1, PrefixGrows
  <2> QED BY <2>1, <2>2
<1> HIDE DEF one, completes
<1>13. Typed(s)'
  <2>1. MapTo(s.ts, Entry) /\ MapTo(s.py, Entry)
    <3>1. /\ MapTo(Put(g.ts, key, e), Entry) /\ MapTo(Without(g.ts, key), Entry)
          /\ MapTo(Put(g.py, key, e), Entry) /\ MapTo(Without(g.py, key), Entry)
      BY <1>2, <1>4, <1>8, PutMap, WithoutMap
    <3> QED BY <1>11, <3>1
  <2> QED BY <1>11, <1>12, <2>1 DEF Typed, MapTo
<1>14. Agreed(s.ts, s.py)
  BY <1>2, <1>4, <1>8, <1>11, AgreedPut DEF completes
<1>15. Sound(s)'
  BY <1>11, <1>12, <1>13, <1>14 DEF Sound, Agreed
<1>16. s.ts = Fragments'
  BY <1>1, <1>4, <1>11
<1>17. DOMAIN s.py \cap takenBack' = {}
  <2>1. DOMAIN s.py \subseteq DOMAIN g.py \cup {key}
    BY <1>11 DEF Put, Without, Restrict
  <2>2. key \notin takenBack' /\ takenBack' \subseteq takenBack
    BY <1>2 DEF GatewayOK
  <2> QED BY <2>1, <2>2 DEF Meant
<1>18. Meant(s)'
  BY <1>11, <1>12, <1>16, <1>17 DEF Meant
<1> QED BY <1>15, <1>18, <1>19

------------------------------------------------------------------------------
(* Every step keeps the invariant *)

\* Nothing has been sent: the course is the first state alone.
LEMMA InitInv == Init => IInv
<1> SUFFICES ASSUME Init PROVE IInv
  OBVIOUS
<1> DEFINE tr == [i \in 0..0 |-> Now]
<1>1. GatewayOK
  BY ToolAssumption DEF Init, GatewayOK, MapTo, NoCalls
<1>2. Sound(Now)
  <2>1. /\ MapTo(Now.ts, Entry) /\ MapTo(Now.py, Entry)
        /\ Now.cts = <<>> /\ Now.cpy = <<>>
        /\ DOMAIN Now.ts = {} /\ DOMAIN Now.py = {}
        /\ Now = Clients(Now.ts, Now.cts, Now.py, Now.cpy)
    BY DEF Init, Now, Clients, MapTo, NoCalls
  <2>2. finished = <<>> /\ IsPrefix(<<>>, <<>>)
    BY DEF Init, IsPrefix
  <2> QED BY <2>1, <2>2 DEF Sound, Typed, Agreed
<1>3. Meant(Now)
  BY DEF Init, Meant, Now, Clients, Fragments, NoCalls
<1>4. Len(wire) = 0
  BY DEF Init
<1>5. Course(tr)
  BY <1>2, <1>3, <1>4 DEF Course
<1>6. ProgramsOK
  BY DEF Init, ProgramsOK
<1> QED BY <1>1, <1>5, <1>6 DEF IInv

\* The gateway sends a frame that leaves the clients with what it means.
LEMMA EmitKeepsInv ==
    ASSUME IInv, NEW key, NEW call, NEW n, NEW start, NEW end, NEW upTo,
           Emits(key, call, n, start, end, upTo)
    PROVE  IInv'
<1>1. PICK tr : Course(tr)
  BY DEF IInv
<1>2. GatewayOK /\ UNCHANGED clientVars
  BY DEF Emits, Emit
<1> DEFINE f == CallFrame(key, start, end, call, upTo)
<1>3. PICK last : last = Len(wire)
  OBVIOUS
<1>4. last \in 0..Len(wire) /\ Sound(tr[last]) /\ Meant(tr[last])
  BY <1>1, <1>2, <1>3 DEF Course, GatewayOK
<1>5. PICK s : s = After(tr[last], f)
  OBVIOUS
<1>6. /\ Sound(s)' /\ Meant(s)'
      /\ ~(end /\ ~Parses(SubSeq(call.args, 1, upTo))) => ~Stops(tr[last], f)
  BY <1>4, <1>5, EmitKeepsClients
<1>10. provoked' = (provoked \/ (end /\ ~Parses(SubSeq(call.args, 1, upTo))))
  BY DEF Emits, Emit
<1>11. /\ ~provoked' => ~provoked /\ ~Stops(tr[last], f)
       /\ ProgramsOK'
  <2>1. ProgramsOK
    BY DEF IInv
  <2> QED BY <1>2, <1>6, <1>10, <2>1 DEF ProgramsOK, clientVars
<1>7. /\ GatewayOK'
      /\ wire' = Append(wire, f)
      /\ finished' = finished
           \/ finished' = Append(finished,
                                 [key |-> key, id |-> call.id,
                                  args |-> SubSeq(call.args, 1, upTo)])
  BY EmitKeepsGateway
<1>8. finished' = finished
        \/ \E c \in Call : finished' = Append(finished, c)
  <2>1. /\ key \in Keys /\ call.id \in 1..MaxStarts
        /\ call.args \in Seq(STRING) /\ upTo \in 0..Len(call.args)
    <3>1. /\ call.id \in 1..MaxStarts /\ call.args \in Seq(STRING)
          /\ call.sent \in 0..Len(call.args)
          /\ upTo \in call.sent..Len(call.args)
      BY EmitKeepsGateway
    <3>2. key \in Keys
      BY DEF Emits
    <3> QED BY <3>1, <3>2
  <2>2. [key |-> key, id |-> call.id, args |-> SubSeq(call.args, 1, upTo)]
          \in Call
    BY <2>1, SubSeqProperties DEF Call
  <2> QED BY <1>7, <2>2
<1>9. \E next : Course(next)'
  BY <1>1, <1>2, <1>3, <1>5, <1>6, <1>7, <1>8, <1>11, CourseGoesOn
<1> QED BY <1>7, <1>9, <1>11 DEF IInv

\* A call starts.
LEMMA StartKeepsInv ==
    ASSUME IInv, NEW key \in Keys, NEW args \in Arguments,
           NEW n \in 0..Len(args), NEW end \in BOOLEAN,
           Start(key, args, n, end)
    PROVE  IInv'
<1> DEFINE call == [id |-> starts + 1, args |-> args, sent |-> 0]
<1>1. /\ GatewayOK /\ starts < MaxStarts
      /\ starts' = starts + 1 /\ takenBack' = takenBack \ {key}
      /\ Emit(key, call, n, TRUE, end)
  BY DEF Start, IInv
<1>2. starts + 1 \in 1..MaxStarts /\ starts' \in 0..MaxStarts
  BY <1>1, ToolAssumption DEF GatewayOK
<1>3. call \in Opened /\ call.sent = 0 /\ n \in Nat
  BY <1>2, ToolAssumption DEF Opened
<1> HIDE DEF call
<1>4. Emits(key, call, n, TRUE, end, call.sent + n)
  BY <1>1, <1>2, <1>3 DEF Emits
<1> QED BY <1>4, EmitKeepsInv

\* A call goes on, to its end or not.
LEMMA ContinueKeepsInv ==
    ASSUME IInv, NEW key \in Keys, key \in DOMAIN open,
           NEW n \in 0..Len(open[key].args), NEW end \in BOOLEAN,
           Continue(key, n, end)
    PROVE  IInv'
<1>1. PICK call : call = open[key]
  OBVIOUS
<1>2. /\ GatewayOK
      /\ starts' = starts /\ takenBack' = takenBack
      /\ Emit(key, call, n, FALSE, end)
  BY <1>1 DEF Continue, IInv
<1>3. call \in Opened /\ call.args \in Seq(STRING) /\ n \in Nat
  BY <1>1, <1>2, ToolAssumption DEF GatewayOK, MapTo, Opened
<1>4. Emits(key, call, n, FALSE, end, call.sent + n)
  BY <1>1, <1>2, <1>3 DEF Emits, GatewayOK
<1> QED BY <1>4, EmitKeepsInv

\* A REWIND drops the calls of one choice on both sides of the wire.
LEMMA RewindKeepsInv ==
    ASSUME IInv, NEW key \in Keys, RewindTools(key)
    PROVE  IInv'
<1> DEFINE f == [op |-> "REWIND", key |-> key, start |-> FALSE,
                 end |-> FALSE, id |-> 0, delta |-> <<>>, offset |-> 0]
<1>1. PICK tr : Course(tr)
  BY DEF IInv
<1>2. /\ GatewayOK /\ UNCHANGED <<finished, starts, provoked, clientVars>>
      /\ rewinds < MaxRewinds /\ rewinds' = rewinds + 1
      /\ open' = Discarded(open, key[1])
      /\ takenBack' = takenBack \cup (DOMAIN open \ DOMAIN open')
      /\ wire' = Append(wire, f)
  BY DEF RewindTools, IInv
<1>3. /\ MapTo(open', Opened)
      /\ DOMAIN open' = {k \in DOMAIN open : k[1] # key[1]}
      /\ \A k \in DOMAIN open' : open'[k] = open[k]
  <2>1. MapTo(open, Opened)
    BY <1>2 DEF GatewayOK
  <2> QED BY <1>2, <2>1 DEF MapTo, Discarded, Restrict
<1>4. GatewayOK'
  <2>1. f \in Frame
    BY ToolAssumption DEF Frame
  <2>2. wire' \in Seq(Frame)
    BY <1>2, <2>1 DEF GatewayOK
  <2>3. \A k \in DOMAIN open' : open'[k].sent <= Len(open'[k].args)
    BY <1>2, <1>3 DEF GatewayOK
  <2>4. takenBack' \subseteq Keys \ DOMAIN open'
    BY <1>2, <1>3 DEF GatewayOK, MapTo
  <2>5. rewinds' \in 0..MaxRewinds
    BY <1>2, ToolAssumption DEF GatewayOK
  <2> QED BY <1>2, <1>3, <2>2, <2>3, <2>4, <2>5 DEF GatewayOK
<1>5. PICK last : last = Len(wire)
  OBVIOUS
<1>6. last \in 0..Len(wire) /\ Sound(tr[last]) /\ Meant(tr[last])
  BY <1>1, <1>2, <1>5 DEF Course, GatewayOK
<1>7. PICK g : g = tr[last]
  OBVIOUS
<1>8. PICK s : s = After(g, f)
  OBVIOUS
<1>9. /\ MapTo(g.ts, Entry) /\ MapTo(g.py, Entry) /\ Agreed(g.ts, g.py)
      /\ g.cts \in Seq(Call) /\ g.cpy = g.cts /\ g.cts = finished
      /\ IsPrefix(g.cts, finished)
      /\ g.ts = Fragments /\ DOMAIN g.py \cap takenBack = {}
  BY <1>6, <1>7 DEF Sound, Typed, Meant
<1>10. /\ s.ts = Discarded(g.ts, key[1]) /\ s.py = Discarded(g.py, key[1])
       /\ s.cts = g.cts /\ s.cpy = g.cpy
       /\ s = Clients(s.ts, s.cts, s.py, s.cpy)
  BY <1>8 DEF After, Clients
<1> HIDE DEF f
<1>11. MapTo(s.ts, Entry) /\ MapTo(s.py, Entry) /\ Agreed(s.ts, s.py)
  <2>1. MapTo(s.ts, Entry) /\ MapTo(s.py, Entry)
    BY <1>9, <1>10 DEF MapTo, Discarded, Restrict
  <2>2. \A k \in DOMAIN s.ts : k \in DOMAIN s.py /\ s.py[k] = s.ts[k]
    BY <1>9, <1>10 DEF Agreed, Discarded, Restrict
  <2>3. \A k \in DOMAIN s.py \ DOMAIN s.ts : ~Parses(s.py[k].args)
    BY <1>9, <1>10 DEF Agreed, Discarded, Restrict
  <2> QED BY <2>1, <2>2, <2>3 DEF Agreed
<1>12. Sound(s)'
  BY <1>2, <1>9, <1>10, <1>11 DEF Sound, Typed, Agreed, MapTo
<1>13. s.ts = Fragments'
  <2>1. DOMAIN s.ts = DOMAIN open' /\ s.ts = [k \in DOMAIN s.ts |-> s.ts[k]]
    BY <1>3, <1>9, <1>10 DEF Fragments, Discarded, Restrict
  <2>2. \A k \in DOMAIN open' : s.ts[k] = Fragment(open'[k])
    BY <1>3, <1>9, <1>10 DEF Fragments, Discarded, Restrict
  <2>3. Fragments' = [k \in DOMAIN open' |-> Fragment(open'[k])]
    BY DEF Fragments, Fragment
  <2> QED BY <2>1, <2>2, <2>3
<1>14. DOMAIN s.py \cap takenBack' = {}
  BY <1>2, <1>3, <1>9, <1>10 DEF Discarded, Restrict
<1>15. Meant(s)'
  BY <1>2, <1>9, <1>10, <1>13, <1>14 DEF Meant
<1>16. finished' = finished
  BY <1>2
<1>18. /\ ~provoked' => ~provoked /\ ~Stops(tr[last], f)
       /\ ProgramsOK'
  <2>1. ProgramsOK /\ ~Stops(tr[last], f)
    BY DEF IInv, Stops, f
  <2> QED BY <1>2, <2>1 DEF ProgramsOK, clientVars
<1>17. \E next : Course(next)'
  BY <1>1, <1>2, <1>5, <1>7, <1>8, <1>12, <1>15, <1>16, <1>18, CourseGoesOn
<1> QED BY <1>4, <1>17, <1>18 DEF IInv

\* A fragment of a call taken back is refused by both clients.
LEMMA StraggleKeepsInv ==
    ASSUME IInv, NEW key \in Keys, NEW delta \in Seq(STRING),
           NEW end \in BOOLEAN, Straggle(key, delta, end)
    PROVE  IInv'
<1> DEFINE f == ToolFrame(key, FALSE, end, 0, delta)
<1>1. PICK tr : Course(tr)
  BY DEF IInv
<1>2. /\ GatewayOK
      /\ UNCHANGED <<open, finished, starts, rewinds, takenBack, clientVars>>
      /\ provoked' = TRUE /\ key \in takenBack
      /\ wire' = Append(wire, f)
  BY DEF Straggle, IInv
<1>3. GatewayOK'
  <2>1. f \in Frame
    BY ToolAssumption DEF ToolFrame, Frame
  <2> HIDE DEF f
  <2>2. wire' \in Seq(Frame)
    <3>1. wire \in Seq(Frame) /\ wire' = Append(wire, f)
      BY <1>2 DEF GatewayOK
    <3> QED BY <2>1, <3>1
  <2>3. /\ open' = open /\ finished' = finished /\ starts' = starts
        /\ rewinds' = rewinds /\ takenBack' = takenBack
    BY <1>2
  <2>4. MapTo(open', Opened) /\ takenBack' \subseteq Keys \ DOMAIN open'
        /\ \A k \in DOMAIN open' : open'[k].sent <= Len(open'[k].args)
    BY <1>2, <2>3 DEF GatewayOK
  <2>5. /\ finished' \in Seq(Call) /\ starts' \in 0..MaxStarts
        /\ rewinds' \in 0..MaxRewinds
    BY <1>2, <2>3 DEF GatewayOK
  <2> QED BY <2>2, <2>4, <2>5 DEF GatewayOK
<1>4. PICK last : last = Len(wire)
  OBVIOUS
<1>5. PICK g : g = tr[last]
  OBVIOUS
<1>6. Sound(g) /\ Meant(g)
  BY <1>1, <1>2, <1>4, <1>5 DEF Course, GatewayOK
<1>7. Unknown(g.ts, f) /\ Unknown(g.py, f)
  <2>1. DOMAIN g.ts = DOMAIN open /\ DOMAIN g.py \cap takenBack = {}
    BY <1>6 DEF Meant, Fragments
  <2>2. key \notin DOMAIN g.ts /\ key \notin DOMAIN g.py
    BY <1>2, <2>1 DEF GatewayOK
  <2> QED BY <2>2 DEF Unknown, ToolFrame
<1>8. /\ ActiveTS(g.ts, f) = g.ts /\ CompletedBy(g.ts, f) = <<>>
      /\ ActivePy(g.py, f) = g.py /\ CompletedBy(g.py, f) = <<>>
  BY <1>7 DEF ActiveTS, ActivePy, CompletedBy, Completes
<1>9. After(g, f) = g
  <2>1. f.op = "TOOL_CALL"
    BY DEF ToolFrame
  <2>2. g.cts \o <<>> = g.cts /\ g.cpy \o <<>> = g.cpy
        /\ g = Clients(g.ts, g.cts, g.py, g.cpy)
    BY <1>6 DEF Sound, Typed
  <2> QED BY <1>8, <2>1, <2>2 DEF After
<1>10. Sound(g)' /\ Meant(g)'
  BY <1>2, <1>6 DEF Sound, Typed, Agreed, MapTo, Meant, Fragments, Fragment
<1>11. /\ finished' = finished /\ UNCHANGED clientVars
       /\ ~provoked' => ~provoked /\ ~Stops(tr[last], f)
       /\ ProgramsOK'
  <2>1. ProgramsOK
    BY DEF IInv
  <2> QED BY <1>2, <2>1 DEF ProgramsOK, clientVars
<1> HIDE DEF f
<1>12. \E next : Course(next)'
  BY <1>1, <1>2, <1>4, <1>5, <1>9, <1>10, <1>11, CourseGoesOn
<1> QED BY <1>3, <1>11, <1>12 DEF IInv

\* The clients take the first frame, and their states are the next of the course.
LEMMA ReceiveKeepsInv ==
    ASSUME IInv, Receive
    PROVE  IInv'
<1>1. PICK tr : Course(tr)
  BY DEF IInv
<1>2. /\ GatewayOK /\ UNCHANGED <<gatewayVars, catching>>
      /\ wire # <<>> /\ ~ended /\ wire' = Tail(wire)
      /\ HandleToolCall(Head(wire)) \/ HandleRewind(Head(wire))
  BY DEF Receive, IInv
<1>3. PICK n : n = Len(wire)
  OBVIOUS
<1>4. /\ n \in Nat /\ n >= 1
      /\ wire' \in Seq(Frame) /\ Len(wire') = n - 1
      /\ \A i \in 1..(n - 1) : wire'[i] = wire[i + 1]
      /\ Head(wire) = wire[1]
  BY <1>2, <1>3 DEF GatewayOK
<1>5. /\ open' = open /\ finished' = finished /\ starts' = starts
      /\ rewinds' = rewinds /\ takenBack' = takenBack
      /\ provoked' = provoked /\ catching' = catching
  BY <1>2 DEF gatewayVars
<1>6. GatewayOK'
  BY <1>2, <1>4, <1>5 DEF GatewayOK
<1>7. Now' = After(Now, Head(wire))
  <2>1. CASE HandleToolCall(Head(wire))
    BY <2>1 DEF HandleToolCall, Now, After, Clients
  <2>2. CASE HandleRewind(Head(wire))
    BY <2>2 DEF HandleRewind, Now, After, Clients
  <2> QED BY <1>2, <2>1, <2>2
<1> DEFINE next == [i \in 0..(n - 1) |-> tr[i + 1]]
<1>8. /\ \A i \in 0..(n - 1) : next[i] = tr[i + 1]
      /\ next = [i \in 0..(n - 1) |-> next[i]]
  OBVIOUS
<1> HIDE DEF next
<1>9. next[0] = Now'
  <2>1. tr[0] = Now /\ \A i \in 1..n : tr[i] = After(tr[i - 1], wire[i])
    BY <1>1, <1>3, Zenon DEF Course
  <2>2. 1 \in 1..n /\ 1 - 1 = 0 /\ 0 \in 0..(n - 1) /\ 0 + 1 = 1
    BY <1>4
  <2>3. tr[1] = After(tr[0], wire[1])
    BY <2>1, <2>2
  <2>4. next[0] = tr[1]
    BY <1>8, <2>2
  <2> QED BY <1>4, <1>7, <2>1, <2>3, <2>4
<1>10. ASSUME NEW i \in 1..(n - 1) PROVE next[i] = After(next[i - 1], wire'[i])
  <2>1. i + 1 \in 1..n /\ (i + 1) - 1 = i /\ (i - 1) + 1 = i
        /\ i - 1 \in 0..(n - 1) /\ i \in 0..(n - 1)
    BY <1>4
  <2>2. tr[i + 1] = After(tr[(i + 1) - 1], wire[i + 1])
    BY <1>1, <1>3, <2>1 DEF Course
  <2>3. next[i] = tr[i + 1] /\ next[i - 1] = tr[(i - 1) + 1]
    BY <1>8, <2>1
  <2> QED BY <1>4, <2>1, <2>2, <2>3
<1>11. ASSUME NEW i \in 0..(n - 1) PROVE Sound(next[i])'
  <2>1. i + 1 \in 0..n
    BY <1>4
  <2>2. Sound(tr[i + 1]) /\ next[i] = tr[i + 1]
    BY <1>1, <1>3, <1>8, <2>1 DEF Course
  <2> QED BY <1>5, <2>2 DEF Sound, Typed, Agreed, MapTo
<1>12. Meant(next[n - 1])'
  <2>1. n - 1 \in 0..(n - 1) /\ (n - 1) + 1 = n
    BY <1>4
  <2>2. next[n - 1] = tr[n] /\ Meant(tr[n])
    BY <1>1, <1>3, <1>8, <2>1 DEF Course
  <2> QED BY <1>5, <2>2 DEF Meant, Fragments, Fragment
<1>14. ASSUME ~provoked', NEW i \in 1..(n - 1)
       PROVE  ~Stops(next[i - 1], wire'[i])
  <2>1. i + 1 \in 1..n /\ (i + 1) - 1 = i /\ (i - 1) + 1 = i
        /\ i - 1 \in 0..(n - 1)
    BY <1>4
  <2>2. ~Stops(tr[(i + 1) - 1], wire[i + 1])
    BY <1>1, <1>3, <1>5, <1>14, <2>1 DEF Course
  <2>3. next[i - 1] = tr[(i - 1) + 1]
    BY <1>8, <2>1
  <2> QED BY <1>4, <2>1, <2>2, <2>3
<1>13. Course(next)'
  BY <1>4, <1>8, <1>9, <1>10, <1>11, <1>12, <1>14 DEF Course
<1>15. ProgramsOK'
  <2>1. /\ Sound(Now) /\ Now = tr[0]
        /\ ~provoked => ~Stops(Now, Head(wire))
    <3>1. 0 \in 0..n /\ 1 \in 1..n /\ 1 - 1 = 0
      BY <1>4
    <3> QED BY <1>1, <1>3, <1>4, <3>1 DEF Course
  <2>2. Now.ts = activeTS /\ Now.py = activePy
    BY DEF Now, Clients
  <2>3. ProgramsOK
    BY DEF IInv
  <2>4. CASE HandleToolCall(Head(wire))
    <3>1. Head(wire) \in Frame
      BY <1>2, <1>4 DEF GatewayOK
    <3>2. /\ Head(wire).op = "TOOL_CALL" /\ Head(wire).end \in BOOLEAN
          /\ activeTS' = ActiveTS(activeTS, Head(wire))
          /\ activePy' = ActivePy(activePy, Head(wire))
          /\ ended' = (~catching /\ Stops(Now, Head(wire)))
      BY <2>2, <2>4, <3>1 DEF HandleToolCall, Stops, Frame
    <3>3. ended' => provoked
      BY <2>1, <3>2
    <3>4. ASSUME ~catching, ~ended' PROVE activePy' = activeTS'
      <4>1. activePy = activeTS /\ ~Throws(activeTS, Head(wire))
        BY <1>2, <2>2, <2>3, <3>2, <3>4 DEF ProgramsOK, Stops
      <4> QED BY <3>2, <4>1, SameUnlessThrown
    <3>5. ended' \in BOOLEAN /\ provoked' \in BOOLEAN /\ catching' \in BOOLEAN
      BY <1>5, <2>3, <3>2 DEF ProgramsOK
    <3> QED BY <1>5, <3>3, <3>4, <3>5 DEF ProgramsOK
  <2>5. CASE HandleRewind(Head(wire))
    <3>1. Head(wire) \in Frame
      BY <1>2, <1>4 DEF GatewayOK
    <3>2. Head(wire).offset = 0
      BY <3>1 DEF Frame
    <3> QED BY <1>2, <1>5, <2>3, <2>5, <3>2 DEF HandleRewind, ProgramsOK
  <2> QED BY <1>2, <2>4, <2>5
<1> QED BY <1>6, <1>13, <1>15 DEF IInv

\* No step leaves the invariant.
LEMMA NextKeepsInv == IInv /\ [Next]_vars => IInv'
<1> SUFFICES ASSUME IInv, [Next]_vars PROVE IInv'
  OBVIOUS
<1>1. CASE Receive
  BY <1>1, ReceiveKeepsInv
<1>2. CASE GatewayNext
  <2>1. PICK key \in Keys, end \in BOOLEAN :
           \/ \E args \in Arguments : \E n \in 0..Len(args) :
                 Start(key, args, n, end)
           \/ key \in DOMAIN open /\ \E n \in 0..Len(open[key].args) :
                 Continue(key, n, end)
           \/ RewindTools(key)
           \/ \E args \in Arguments : Straggle(key, SubSeq(args, 2, Len(args)), end)
    BY <1>2 DEF GatewayNext
  <2>2. CASE \E args \in Arguments : \E n \in 0..Len(args) :
                Start(key, args, n, end)
    BY <2>2, StartKeepsInv
  <2>3. CASE key \in DOMAIN open /\ \E n \in 0..Len(open[key].args) :
                Continue(key, n, end)
    BY <2>3, ContinueKeepsInv
  <2>4. CASE RewindTools(key)
    BY <2>4, RewindKeepsInv
  <2>5. CASE \E args \in Arguments :
                Straggle(key, SubSeq(args, 2, Len(args)), end)
    <3>1. PICK args \in Arguments : Straggle(key, SubSeq(args, 2, Len(args)), end)
      BY <2>5
    <3>2. SubSeq(args, 2, Len(args)) \in Seq(STRING)
      BY ToolAssumption
    <3> QED BY <3>1, <3>2, StraggleKeepsInv
  <2> QED BY <2>1, <2>2, <2>3, <2>4, <2>5
<1>3. CASE UNCHANGED vars
  <2>1. UNCHANGED <<open, finished, starts, rewinds, takenBack, provoked, wire,
                    activeTS, completedTS, activePy, completedPy, catching, ended>>
    BY <1>3 DEF vars, gatewayVars, clientVars
  <2>2. GatewayOK'
    BY <2>1 DEF IInv, GatewayOK
  <2>3. PICK tr : Course(tr)
    BY DEF IInv
  <2>4. Course(tr)'
    BY <2>1, <2>3 DEF Course, Sound, Typed, Agreed, MapTo, Meant, Fragments,
                      Fragment, Now, Stops
  <2>5. ProgramsOK'
    BY <2>1 DEF IInv, ProgramsOK
  <2> QED BY <2>2, <2>4, <2>5 DEF IInv
<1> QED BY <1>1, <1>2, <1>3 DEF Next

\* There is always a course from what the clients hold to what the gateway means
\* them to hold, through the frames in flight.
THEOREM Invariance == Spec => []IInv
  BY InitInv, NextKeepsInv, PTL DEF Spec

------------------------------------------------------------------------------
(* What follows from it *)

\* The variables of the gateway and of both clients keep their types: an id, a
\* fragment or a call is never another's kind of value.
THEOREM TypeCorrect == Spec => []TypeOK
<1>1. ASSUME IInv PROVE TypeOK
  <2>1. PICK tr : Course(tr)
    BY <1>1 DEF IInv
  <2>2. GatewayOK
    BY <1>1 DEF IInv
  <2>3. Sound(Now)
    BY <2>1, <2>2 DEF Course, GatewayOK
  <2>4. /\ Now.ts = activeTS /\ Now.py = activePy
        /\ Now.cts = completedTS /\ Now.cpy = completedPy
    BY DEF Now, Clients
  <2>5. {provoked, catching, ended} \subseteq BOOLEAN
    BY <1>1 DEF IInv, ProgramsOK
  <2> QED BY <2>2, <2>3, <2>4, <2>5 DEF TypeOK, GatewayOK, Sound, Typed
<1>2. IInv => TypeOK
  BY <1>1
<1> QED BY <1>2, Invariance, PTL

\* However calls interleave, start anew, are rewound and end early, the calls the
\* TypeScript client completes are those the gateway finished.
THEOREM CallsAssembled == Spec => []AssembledAsSent
<1>1. ASSUME IInv PROVE AssembledAsSent
  <2>1. PICK tr : Course(tr)
    BY <1>1 DEF IInv
  <2>2. GatewayOK
    BY <1>1 DEF IInv
  <2>3. Sound(Now) /\ (wire = <<>> => Meant(Now))
    BY <2>1, <2>2 DEF Course, GatewayOK
  <2>4. Now.ts = activeTS /\ Now.cts = completedTS
    BY DEF Now, Clients
  <2> QED BY <2>3, <2>4 DEF AssembledAsSent, Sound, Meant, Fragments
<1>2. IInv => AssembledAsSent
  BY <1>1
<1> QED BY <1>2, Invariance, PTL

\* The Python client completes the same calls, and holds on top of what the
\* TypeScript client holds only calls that could not be parsed.
THEOREM PythonAgrees == Spec => []PythonKeepsOnlyFailures
<1>1. ASSUME IInv PROVE PythonKeepsOnlyFailures
  <2>1. PICK tr : Course(tr)
    BY <1>1 DEF IInv
  <2>2. Sound(Now)
    <3>1. tr[0] = Now /\ 0 \in 0..Len(wire)
      BY <1>1, <2>1 DEF Course, IInv, GatewayOK
    <3>2. \A i \in 0..Len(wire) : Sound(tr[i])
      BY <2>1, Zenon DEF Course
    <3> QED BY <3>1, <3>2, Zenon
  <2>3. /\ Now.ts = activeTS /\ Now.py = activePy
        /\ Now.cts = completedTS /\ Now.cpy = completedPy
    BY DEF Now, Clients
  <2> QED BY <2>2, <2>3 DEF PythonKeepsOnlyFailures, Sound, Agreed
<1>2. IInv => PythonKeepsOnlyFailures
  BY <1>1
<1> QED BY <1>2, Invariance, PTL

\* No interleaving, restart or rewind of calls ends a program: an assembler only
\* throws when the gateway has sent a fragment of a call it had taken back, or the
\* END of a call whose arguments do not parse.
THEOREM ProgramsEndForCause == Spec => []EndsOnlyProvoked
<1>1. IInv => EndsOnlyProvoked
  BY DEF IInv, ProgramsOK, EndsOnlyProvoked
<1> QED BY <1>1, Invariance, PTL

\* As long as nothing was thrown the two languages hold the same calls.
THEOREM LanguagesAgree == Spec => []ProgramsAgree
<1>1. ASSUME IInv PROVE ProgramsAgree
  <2>1. PICK tr : Course(tr)
    BY <1>1 DEF IInv
  <2>2. Sound(Now)
    <3>1. tr[0] = Now /\ 0 \in 0..Len(wire)
      BY <1>1, <2>1 DEF Course, IInv, GatewayOK
    <3>2. \A i \in 0..Len(wire) : Sound(tr[i])
      BY <2>1, Zenon DEF Course
    <3> QED BY <3>1, <3>2, Zenon
  <2>3. completedPy = completedTS
    BY <2>2 DEF Now, Clients, Sound
  <2> QED BY <1>1, <2>3 DEF IInv, ProgramsOK, ProgramsAgree, ClientsAgree
<1>2. IInv => ProgramsAgree
  BY <1>1
<1> QED BY <1>2, Invariance, PTL

==============================================================================
