------------------------------ MODULE ParamEntry ------------------------------
(***************************************************************************)
(* The parameters of a feature (structs.c, getParamValueFromIO and what it *)
(* calls).  A dialogue asks for the number of a parameter, then for its    *)
(* value, until the number 0 finds all values set, and writes what it      *)
(* accepts to the run file, from which a session can be repeated.  Then    *)
(* the values replace the names in the texts of the feature.               *)
(*                                                                         *)
(* Input is read with scanf, which leaves in place what it cannot read, or *)
(* the part of it that the conversion could not have begun with.  A text   *)
(* is a sequence of characters; values are texts as %lf prints them.       *)
(***************************************************************************)
EXTENDS Integers, SequencesExt

CONSTANTS
  Features,   \* features as parsed: parameters, sub-expressions
  Ids,        \* the numbers a user may type
  Values,     \* the values a user may type, or that are found in memory
  MaxLines,   \* bound of the lines in the run file
  MaxStr,     \* MAX_STR_LENGTH
  Unset,      \* a parameter without a value
  NoEvent     \* a sub-expression without an event

\* A text is given as its tokens: names, numbers and operators.
Texts == Seq(Seq(STRING) \ {<< >>})

\* A sub-expression has an event, with a text on either side, and the texts of
\* the predicates in its DNF.
ASSUME FeaturesAssumption ==
  \A f \in Features :
    /\ f.params \in Seq(Seq(STRING) \ {<< >>})
    /\ \A n \in DOMAIN f.seq :
         /\ f.seq[n].event = NoEvent \/ f.seq[n].event \in Texts \X Texts
         /\ f.seq[n].dnf \in Seq(Texts)

ASSUME InputAssumption ==
  /\ Ids \subseteq Int /\ 0 \in Ids
  /\ Values \subseteq Seq(STRING) \ {<< >>}
  /\ Unset \notin Values
  /\ MaxLines \in Nat /\ MaxStr \in Nat

VARIABLES
  feature,      \* the feature, as parsed
  paramValues,  \* per parameter its value
  flag,         \* the dialogue may end
  id,           \* the number last read
  input,        \* what is typed and not read yet
  runFile,      \* the lines written to the run file, those still buffered too
  texts,        \* the texts of the feature with its values
  pc            \* "menu", "choose", "enter", "update", "done", "crashed", "exited"

vars == <<feature, paramValues, flag, id, input, runFile, texts, pc>>

-------------------------------------------------------------------------------
\* Input

\* What is there to be read: a number; one with a fraction; 0x, of which %lf makes
\* nothing; a fraction alone; a sign without a number; the beginning of a real
\* number without the rest of it, a point or the letter n; any other word; the end.
Numbers == [kind: {"int", "frac"}, n: Ids] \union {[kind |-> "hex", n |-> 0]}

Tokens == Numbers \union [kind: {"point", "sign", "part", "word", "eof"}]

\* Nothing is known of it: it is not typed yet, or was behind what has been read.
Fresh == [kind |-> "fresh"]

Pending == IF input = Fresh THEN Tokens ELSE {input}

\* scanf("%d"): a number up to its fraction, or nothing, not even a sign.
ScanInt(t, old) == IF t \in Numbers THEN t.n ELSE old

\* Mutant: the number is read, and left to be read again.
AfterIntPeeks(t) == {t}

AfterInt(t) ==
  CASE t.kind \in {"int", "sign"} -> {Fresh}
    [] t.kind = "frac"            -> [kind: {"point", "part"}]
    [] t.kind = "hex"             -> {[kind |-> "word"]}
    [] OTHER                      -> {t}

\* scanf("%lf"): a real number.  Of what only begins like one it takes the beginning,
\* and nothing is read.
ReadsReal(t) == t.kind \in {"int", "frac", "point"}

AfterReal(t) == IF t.kind \in {"word", "eof"} THEN t ELSE Fresh

-------------------------------------------------------------------------------
\* Substitution

\* Mutant: the search goes on one character behind the start of a match.
ReplaceSlow(text, pattern, replacement) ==
  LET at(k) == SubSeq(text, k, k + Len(pattern) - 1)
      occurs(k) == k + Len(pattern) - 1 <= Len(text) /\ at(k) = pattern
      from[k \in 1 .. Len(text) + 1] ==
        IF k > Len(text) THEN << >>
        ELSE (IF occurs(k) THEN replacement ELSE <<text[k]>>) \o from[k + 1]
  IN from[1]

Replace(text, pattern, replacement) ==
  LET at(k) == SubSeq(text, k, k + Len(pattern) - 1)
      occurs(k) == k + Len(pattern) - 1 <= Len(text) /\ at(k) = pattern
      from[k \in 1 .. Len(text) + 1] ==
        IF k > Len(text) THEN << >>
        ELSE IF occurs(k) THEN replacement \o from[k + Len(pattern)]
        ELSE <<text[k]>> \o from[k + 1]
  IN from[1]

Count == Len(feature.params)

\* A text with the first parameters replaced, one after the other.
Substitute(tokens) ==
  LET upto[n \in 0..Count] ==
        IF n = 0 THEN FlattenSeq(tokens)
        ELSE Replace(upto[n - 1], feature.params[n], paramValues[n])
  IN upto

\* The texts of a sub-expression that has an event.
TextsOf(e) == <<e.event[1], e.event[2]>> \o e.dnf

\* No value has a character that a name begins with, and of two tokens in a row
\* the one does not end and the other begin with characters of names.
NameChars(f) == UNION {ToSet(f.params[m]) : m \in DOMAIN f.params}

ASSUME TokensAssumption ==
  \A f \in Features :
    /\ \A m \in DOMAIN f.params : \A v \in Values : f.params[m][1] \notin ToSet(v)
    /\ \A n \in DOMAIN f.seq : f.seq[n].event # NoEvent =>
         \A k \in DOMAIN TextsOf(f.seq[n]) :
           LET text == TextsOf(f.seq[n])[k] IN
           \A i \in 1 .. Len(text) - 1 :
             Last(text[i]) \notin NameChars(f) \/ text[i + 1][1] \notin NameChars(f)

-------------------------------------------------------------------------------
\* The dialogue

Init ==
  /\ feature \in Features
  /\ paramValues = [n \in 1..Count |-> Unset]
  /\ flag = FALSE /\ id = 0
  /\ input = Fresh
  /\ runFile = << >> /\ texts = << >>
  /\ pc = IF Count = 0 THEN "done" ELSE "menu"

AllSet == \A n \in 1..Count : paramValues[n] # Unset

\* Mutant: the flag is set with the first value only.
MenuOnce ==
  /\ pc = "menu"
  /\ flag' = (flag \/ Len(runFile) = 2)
  /\ id' = 0
  /\ pc' = "choose"
  /\ UNCHANGED <<feature, paramValues, input, runFile, texts>>

\* The values set are shown.
Menu ==
  /\ pc = "menu"
  /\ flag' = (flag \/ \E n \in 1..Count : paramValues[n] # Unset)
  /\ id' = 0
  /\ pc' = "choose"
  /\ UNCHANGED <<feature, paramValues, input, runFile, texts>>

\* The number of a parameter is read; one out of range is asked for again.
Read ==
  /\ pc = "choose"
  /\ \E t \in Pending : id' = ScanInt(t, id) /\ input' \in AfterInt(t)
  /\ UNCHANGED <<feature, paramValues, texts>>

Reject == Read /\ id' \notin 0..Count /\ UNCHANGED <<flag, runFile, pc>>

\* A line of the run file.
Log(line) == Len(runFile) < MaxLines /\ runFile' = Append(runFile, line)

Choose == Read /\ id' \in 1..Count /\ Log(id') /\ pc' = "enter" /\ UNCHANGED flag

Finish ==
  /\ Read /\ id' = 0 /\ Log(0)
  /\ flag' = (flag /\ AllSet)
  /\ pc' = IF flag' THEN "update" ELSE "menu"

\* Memory for a value is taken before the value is read: the value may be what was
\* found there.  An earlier one stays if none is read.
Enter ==
  /\ pc = "enter"
  /\ \E t \in Pending, v \in Values :
       /\ input' = AfterReal(t)
       /\ paramValues' = IF ReadsReal(t) \/ paramValues[id] = Unset
                         THEN [paramValues EXCEPT ![id] = v] ELSE paramValues
  /\ Log(paramValues'[id])
  /\ pc' = "menu"
  /\ UNCHANGED <<feature, flag, id, texts>>

-------------------------------------------------------------------------------
\* The values replace the names

\* A text that would get too long ends the program.
Fits(e) ==
  \A text \in ToSet(TextsOf(e)) : \A n \in 1..Count : Len(Substitute(text)[n]) <= MaxStr

\* The event of a sub-expression is taken for granted.
Updatable(e) == e.event # NoEvent /\ Fits(e)

\* The first sub-expression that cannot be updated ends the program.
StopsAt(n) ==
  /\ pc = "update" /\ n \in DOMAIN feature.seq
  /\ ~Updatable(feature.seq[n])
  /\ \A m \in 1 .. n - 1 : Updatable(feature.seq[m])

\* A text too long: exit, which writes out what is buffered.
UpdateFails ==
  /\ \E n \in DOMAIN feature.seq : StopsAt(n) /\ feature.seq[n].event # NoEvent
  /\ pc' = "exited"
  /\ UNCHANGED <<feature, paramValues, flag, id, input, runFile, texts>>

\* No event: a crash, which loses what is buffered.  A line cut counts as lost.
UpdateCrashes ==
  /\ \E n \in DOMAIN feature.seq : StopsAt(n) /\ feature.seq[n].event = NoEvent
  /\ pc' = "crashed"
  /\ \E n \in 0 .. Len(runFile) : runFile' = SubSeq(runFile, 1, n)
  /\ UNCHANGED <<feature, paramValues, flag, id, input, texts>>

Update ==
  /\ pc = "update"
  /\ \A n \in DOMAIN feature.seq : Updatable(feature.seq[n])
  /\ texts' = [n \in DOMAIN feature.seq |->
                 LET old == TextsOf(feature.seq[n]) IN
                 [k \in DOMAIN old |-> Substitute(old[k])[Count]]]
  /\ pc' = "done"
  /\ UNCHANGED <<feature, paramValues, flag, id, input, runFile>>

\* The run file may be at its bound.
Stopped == (pc \in {"done", "crashed", "exited"} \/ Len(runFile) = MaxLines) /\ UNCHANGED vars

Next ==
  \/ Menu \/ Reject \/ Choose \/ Finish \/ Enter
  \/ UpdateFails \/ UpdateCrashes \/ Update
  \/ Stopped

Spec == Init /\ [][Next]_vars

-------------------------------------------------------------------------------
\* Properties

\* A number is never left in place.
TypeOK ==
  /\ feature \in Features
  /\ paramValues \in [1..Count -> {Unset} \union Values]
  /\ flag \in BOOLEAN
  /\ id \in Ids
  /\ input \in [kind: {"fresh", "point", "part", "word", "eof"}]
  /\ Len(runFile) \in 0..MaxLines
  /\ pc \in {"menu", "choose", "enter", "update", "done", "crashed", "exited"}

\* The dialogue, fed with a line of the run file: the values, the parameter whose
\* value is next (0 for none), and whether the dialogue has ended.
ReplayStart == [values |-> [k \in 1..Count |-> Unset], chosen |-> 0, ended |-> FALSE]

ReplayLine(r, line) ==
  IF r.chosen # 0 THEN [r EXCEPT !.values[r.chosen] = line, !.chosen = 0]
  ELSE IF line # 0 THEN [r EXCEPT !.chosen = line]
  ELSE [r EXCEPT !.ended = \A k \in 1..Count : r.values[k] # Unset]

\* Where it stands after each line.
Replayed ==
  LET replay[n \in 0..Len(runFile)] ==
        IF n = 0 THEN ReplayStart ELSE ReplayLine(replay[n - 1], runFile[n])
  IN replay

\* A session repeated from its run file takes the same values for the parameters
\* and leaves the dialogue where this one left it, not before and not later,
\* whatever was typed wrong or found in memory on the way; but not
\* if the program crashed (structs.c, getParamValueFromIO, updateFeatureParamList).
Replays ==
  pc # "crashed" =>
    LET last == Replayed[Len(runFile)] IN
    /\ last.values = paramValues
    /\ \A n \in 0 .. Len(runFile) - 1 : ~Replayed[n].ended
    /\ Count # 0 => last.ended = (pc \in {"update", "done", "exited"})

\* No name of a parameter is part of another name.
Apart ==
  \A p \in DOMAIN feature.params, n \in DOMAIN feature.seq :
    \A text \in ToSet(TextsOf(feature.seq[n])) : \A token \in ToSet(text) :
      feature.params[p] \in SubSeqs(token) => feature.params[p] = token

\* The text is what it would be with every name of a parameter read as a whole
\* and replaced by its value, all at once; of two parameters of one name the first.
ByTokens(text) ==
  LET value(token) ==
        IF token \notin ToSet(feature.params) THEN token
        ELSE LET n == CHOOSE m \in 1..Count :
                        feature.params[m] = token /\ \A l \in 1 .. m - 1 : feature.params[l] # token
             IN paramValues[n]
  IN FlattenSeq([k \in DOMAIN text |-> value(text[k])])

\* The texts searched are those of the feature with the values put in for its
\* parameters, everywhere and nowhere else, though it is done blindly by
\* characters and one parameter after the other.
Substituted ==
  pc = "done" /\ Count # 0 /\ Apart =>
    \A n \in DOMAIN feature.seq : \A k \in DOMAIN texts[n] :
      texts[n][k] = ByTokens(TextsOf(feature.seq[n])[k])
===============================================================================
