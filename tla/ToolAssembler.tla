---------------------------- MODULE ToolAssembler ----------------------------
(***************************************************************************)
(* The tool-call assemblers of the TypeScript and the Python client as     *)
(* functions of their map of active calls.  Both collect the fragments of  *)
(* a call's arguments under (ChoiceIndex, CallIndex) and parse them once,  *)
(* on END; they differ in what a parse error leaves behind.                *)
(*                                                                         *)
(* A fragment is a sequence of tokens, so that joining fragments is \o.    *)
(* The name of a tool travels with its id and is left out.                 *)
(***************************************************************************)
EXTENDS Integers, Sequences, Functions

CONSTANT Json       \* the argument texts that parse

\* The map with entry under key, and the map without key.
Put(active, key, entry) ==
    [k \in DOMAIN active \cup {key} |-> IF k = key THEN entry ELSE active[k]]

Without(active, key) == Restrict(active, DOMAIN active \ {key})

\* A continuation of a call never started, or ended, or discarded: the
\* assembler throws and its map stays as it is.
Unknown(active, frame) == ~frame.start /\ frame.key \notin DOMAIN active

\* (mutant) a fragment takes the place of those before it
CollectedLast(active, frame) ==
    IF frame.start
    THEN Put(active, frame.key, [id |-> frame.id, args |-> frame.delta])
    ELSE [active EXCEPT ![frame.key].args = frame.delta]

\* START opens the call, over one still open under its key; any other frame
\* adds its fragment.
Collected(active, frame) ==
    IF frame.start
    THEN Put(active, frame.key, [id |-> frame.id, args |-> frame.delta])
    ELSE [active EXCEPT ![frame.key].args = @ \o frame.delta]

\* No text at all stands for {}.
Parses(args) == args = <<>> \/ args \in Json

\* (mutant) a call complete in its only frame is overlooked
CompletesLaterOnly(active, frame) ==
    /\ frame.end /\ ~frame.start
    /\ frame.key \in DOMAIN active
    /\ Parses(Collected(active, frame)[frame.key].args)

Completes(active, frame) ==
    /\ frame.end
    /\ ~Unknown(active, frame)
    /\ Parses(Collected(active, frame)[frame.key].args)

\* process throws: the call is not known, or its arguments do not parse.
Throws(active, frame) ==
    \/ Unknown(active, frame)
    \/ frame.end /\ ~Parses(Collected(active, frame)[frame.key].args)

\* What process returns: the call completed by the frame, if it completes one.
CompletedBy(active, frame) ==
    IF Completes(active, frame)
    THEN LET call == Collected(active, frame)[frame.key]
         IN  <<[key |-> frame.key, id |-> call.id, args |-> call.args]>>
    ELSE <<>>

\* (mutant) a fragment of an unknown call opens one
ActiveTSOpensUnknown(active, frame) ==
    IF Unknown(active, frame)
    THEN Put(active, frame.key, [id |-> frame.id, args |-> frame.delta])
    ELSE IF frame.end THEN Without(Collected(active, frame), frame.key)
    ELSE Collected(active, frame)

\* TypeScript: the call leaves the map before its arguments are parsed.
ActiveTS(active, frame) ==
    IF Unknown(active, frame) THEN active
    ELSE IF frame.end THEN Without(Collected(active, frame), frame.key)
    ELSE Collected(active, frame)

\* (mutant) START is ignored for a key in use, as by dict.setdefault
ActivePyFirstWins(active, frame) ==
    IF frame.start /\ frame.key \in DOMAIN active THEN active
    ELSE IF Unknown(active, frame) THEN active
    ELSE IF Completes(active, frame)
         THEN Without(Collected(active, frame), frame.key)
    ELSE Collected(active, frame)

\* Python: the arguments are parsed first; on an error the call stays.
ActivePy(active, frame) ==
    IF Unknown(active, frame) THEN active
    ELSE IF Completes(active, frame)
         THEN Without(Collected(active, frame), frame.key)
    ELSE Collected(active, frame)

\* (mutant) the entries are cleared, not deleted
DiscardedByClearing(active, choice) ==
    [key \in DOMAIN active |-> IF key[1] = choice THEN <<>> ELSE active[key]]

\* discardForChoice, discard_for_choice
Discarded(active, choice) ==
    Restrict(active, {key \in DOMAIN active : key[1] # choice})

==============================================================================
