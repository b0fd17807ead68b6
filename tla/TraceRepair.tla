----------------------------- MODULE TraceRepair -----------------------------
(***************************************************************************)
(* The repair of a trace (structs.c, fixNullsInJSON, parseKey).  dReach    *)
(* writes null for a step it could not integrate, and the viewer cannot    *)
(* show such a file.  The repair drops these steps and numbers the others  *)
(* anew: in the field step, and in the key of each variable,               *)
(* <name>_<step>_<id>, which it takes apart at its numbers.                *)
(*                                                                         *)
(* A name is a sequence of parts, as underscores separate them.  What      *)
(* begins with a digit counts as a number.  Text is measured in            *)
(* characters.                                                             *)
(***************************************************************************)
EXTENDS Integers, Sequences, FiniteSets

CONSTANTS
  Names,        \* the variables of the automaton
  MaxSteps,     \* bound of the steps of a trace
  Null,         \* JSON's null
  Unreadable    \* no such file, or no JSON

ASSUME NamesAssumption ==
  \A x \in Names : x \in Seq([number: BOOLEAN, len: Nat \ {0}]) /\ x # << >> /\ ~x[1].number

ASSUME StepsAssumption == MaxSteps \in Nat

\* A step of a trace: the variables listed, each with its values or null.
Steps == [Names -> {"values", Null}] \union {Null}

VARIABLES
  traces,        \* the file read: what dReach made of every step
  stepIterator,  \* the step in hand
  expectedStep,  \* its number in the new file
  out,           \* the steps written
  pc             \* "load", "steps", "closed"

vars == <<traces, stepIterator, expectedStep, out, pc>>

-------------------------------------------------------------------------------
\* Keys

Length(name) ==
  LET upto[k \in 0 .. Len(name)] == IF k = 0 THEN 0 ELSE upto[k - 1] + name[k].len + 1
  IN upto[Len(name)]

\* The parts of the key of x in step s.
NoStep == -1

Key(x, s) ==
  [k \in 1 .. Len(x) |-> [number |-> x[k].number, len |-> x[k].len, val |-> 0]]
    \o <<[number |-> TRUE, len |-> 1, val |-> s], [number |-> TRUE, len |-> 1, val |-> 0]>>

\* What is known of a key when its first parts are read.
Unread == [prefix |-> 0, step |-> NoStep, id |-> NoStep, read |-> 0]

\* Part k of a key and the underscore behind it.
Through(key, p, k) == p.read + key[k].len + IF k = Len(key) THEN 0 ELSE 1

\* A number.
ReadNumber(key, p, k) ==
  CASE p.step = NoStep -> [p EXCEPT !.step = key[k].val, !.read = Through(key, p, k)]
    [] p.step # NoStep /\ k = Len(key) ->
         [p EXCEPT !.id = key[k].val, !.read = Through(key, p, k)]
    [] OTHER ->
         [p EXCEPT !.prefix = p.read + 1, !.step = key[k].val, !.read = Through(key, p, k)]

\* Mutant: the underscore after a word is not part of the prefix.
ReadPartWordsOnly(key, p, k) ==
  IF key[k].number THEN ReadNumber(key, p, k)
  ELSE [Unread EXCEPT !.prefix = p.read + key[k].len, !.read = Through(key, p, k)]

\* A word makes all that was read the prefix.  Of the numbers behind it the last
\* is the id and the one before it the step; any other one has the prefix end with
\* the first character of the next.
ReadPart(key, p, k) ==
  IF key[k].number THEN ReadNumber(key, p, k)
  ELSE [Unread EXCEPT !.prefix = Through(key, p, k), !.read = Through(key, p, k)]

\* parseKey, part by part.
ParseKey(key) ==
  LET parse[k \in 0 .. Len(key)] ==
        IF k = 0 THEN Unread ELSE ReadPart(key, parse[k - 1], k)
  IN parse[Len(key)]

\* The key written for x of step s: it stays as it is unless its step is a later
\* one than expected.
NewKey(x, s, expected) ==
  LET parsed == ParseKey(Key(x, s)) IN
  IF parsed.step > expected
  THEN [prefix |-> parsed.prefix, step |-> expected, id |-> parsed.id]
  ELSE [prefix |-> Length(x), step |-> s, id |-> 0]

-------------------------------------------------------------------------------
\* The file

Init ==
  /\ traces = Unreadable \/ \E n \in 0..MaxSteps : traces \in [1..n -> Steps]
  /\ stepIterator = 0 /\ expectedStep = 0
  /\ out = << >>
  /\ pc = "load"

\* A file that does not load leaves an empty trace.
Load ==
  /\ pc = "load"
  /\ pc' = IF traces \in {Unreadable, << >>} THEN "closed" ELSE "steps"
  /\ UNCHANGED <<traces, stepIterator, expectedStep, out>>

Step == traces[stepIterator + 1]

IsEnd == stepIterator + 1 = Len(traces)

\* Mutant: a dropped step keeps its number.
SkipStepCounted ==
  /\ pc = "steps" /\ Step = Null
  /\ stepIterator' = stepIterator + 1
  /\ expectedStep' = expectedStep + 1
  /\ pc' = IF IsEnd THEN "closed" ELSE pc
  /\ UNCHANGED <<traces, out>>

\* Mutant: the repair ends at a null.
SkipStepEnds ==
  /\ pc = "steps" /\ Step = Null
  /\ stepIterator' = stepIterator + 1
  /\ pc' = "closed"
  /\ UNCHANGED <<traces, expectedStep, out>>

SkipStep ==
  /\ pc = "steps" /\ Step = Null
  /\ stepIterator' = stepIterator + 1
  /\ pc' = IF IsEnd THEN "closed" ELSE pc
  /\ UNCHANGED <<traces, expectedStep, out>>

\* The variables of the step, their values, and the comma after the step.
Written(comma) ==
  [comma |-> comma,
   step |-> expectedStep,
   keys |-> [x \in Names |-> NewKey(x, stepIterator, expectedStep)],
   values |-> {x \in Names : Step[x] # Null}]

\* Mutant: the comma is that of the new number.
WriteStepByNumber ==
  /\ pc = "steps" /\ Step # Null
  /\ out' = Append(out, Written(expectedStep + 1 # Len(traces)))
  /\ stepIterator' = stepIterator + 1
  /\ expectedStep' = expectedStep + 1
  /\ pc' = IF IsEnd THEN "closed" ELSE pc
  /\ UNCHANGED traces

WriteStep ==
  /\ pc = "steps" /\ Step # Null
  /\ out' = Append(out, Written(~IsEnd))
  /\ stepIterator' = stepIterator + 1
  /\ expectedStep' = expectedStep + 1
  /\ pc' = IF IsEnd THEN "closed" ELSE pc
  /\ UNCHANGED traces

Closed == pc = "closed" /\ UNCHANGED vars

Next == Load \/ SkipStep \/ WriteStep \/ Closed

Spec == Init /\ [][Next]_vars

-------------------------------------------------------------------------------
\* Properties

TypeOK ==
  /\ traces = Unreadable \/ (traces \in Seq(Steps) /\ stepIterator \in 0 .. Len(traces))
  /\ expectedStep \in 0..stepIterator
  /\ Len(out) = expectedStep
  /\ \A n \in DOMAIN out :
       /\ out[n].comma \in BOOLEAN /\ out[n].step \in Nat /\ out[n].values \subseteq Names
       /\ \A x \in Names : out[n].keys[x] \in [prefix: Nat, step: Nat, id: Nat]
  /\ pc \in {"load", "steps", "closed"}

\* A name with a number in it takes a digit of the old step into its key when the
\* key is taken apart.
Plain(x) == \A k \in DOMAIN x : ~x[k].number

\* The steps of the new file are numbered without a gap, in the field step and
\* in the keys, and every key still names its variable, however many steps were
\* dropped before.  It is known to fail for names with a number in them.
Renumbered ==
  \A n \in DOMAIN out :
    /\ out[n].step = n - 1
    /\ \A x \in Names :
         Plain(x) => out[n].keys[x] = [prefix |-> Length(x), step |-> n - 1, id |-> 0]

\* The steps written so far are those of the first m steps that are not null, in
\* the same order: place says which step of the old file each of them was.
KeptOf(m) ==
  \E place \in [1 .. Len(out) -> 1..m] :
    /\ \A j, k \in 1 .. Len(out) : j < k => place[j] < place[k]
    /\ \A k \in 1..m : traces[k] # Null => \E n \in 1 .. Len(out) : place[n] = k
    /\ \A n \in 1 .. Len(out) :
         /\ traces[place[n]] # Null
         /\ out[n].values = {x \in Names : traces[place[n]][x] # Null}

\* Every step dReach integrated is in the new file, in the old order and with
\* its own values: nothing but nulls is dropped.
StepsKept ==
  pc = "closed" /\ traces # Unreadable => KeptOf(Len(traces))

\* The new file is JSON, as far as its steps go: a comma between two of them
\* and none at the end.
WellFormed ==
  \A n \in DOMAIN out : out[n].comma = (n # Len(out))

\* Nulls before the last step do no harm to the new file.
Separated ==
  (pc = "closed" /\ traces \notin {Unreadable, << >>}
    /\ traces[Len(traces)] # Null) => WellFormed

\* The repaired file can be shown, whatever steps were null.
TracesReadable ==
  pc = "closed" /\ traces # Unreadable => WellFormed
===============================================================================
