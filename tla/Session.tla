-------------------------------- MODULE Session --------------------------------
(***************************************************************************)
(* A whole session at the terminal (fbfvTool.c main; the menus of          *)
(* structs.c): the model is chosen, its parameters are edited, three       *)
(* numbers are given and a feature is chosen; the dialogue of ParamEntry   *)
(* sets the parameters of the feature.  The scenario, the depth and the    *)
(* precision, asked for after it, are left out.  Each accepted answer is a *)
(* line of the run file: head before the dialogue, runFile in it.          *)
(*                                                                         *)
(* What scanf leaves is there for the next prompt, which may read it with  *)
(* another conversion.  A menu whose number could not be read goes by *)
(* what is in memory.  A value of a parameter of the model is read as a    *)
(* word; words and real numbers are integers here.                         *)
(***************************************************************************)
EXTENDS ParamEntry

CONSTANTS
  FeatureLists,   \* per model the features of its library, a sequence
  ParamCount,     \* the number of parameters of a model
  Words,          \* values for the parameters of a model
  Reals,          \* numbers as typed
  Printed,        \* what a number, one of Reals or 0, is with six decimals
  MaxHead         \* bound of the lines before the dialogue

ASSUME SessionAssumption ==
  /\ Features # {} /\ FeatureLists \in Seq(Seq(Features))
  /\ ParamCount \in Nat /\ MaxHead \in Nat
  /\ Words \subseteq Int
  /\ Reals \subseteq Int
  /\ Printed \in [Reals \union {0} -> Reals \union {0}]
  /\ \A r \in Reals : Printed[Printed[r]] = Printed[r]

VARIABLES
  stage,    \* the prompt that is up
  asked,    \* the number asked for has been read or guessed before, out of range
  model,    \* the model chosen, 0 before that
  params,   \* the values of its parameters
  numbers,  \* timescale, horizon and maximum, as far as they are given
  head      \* the lines of the run file before the dialogue

sessionVars == <<stage, asked, model, params, numbers, head>>

allVars == <<vars, sessionVars>>

-------------------------------------------------------------------------------
\* Input

\* scanf("%d") into a variable of its own: if it cannot read, what was there.
Answers(t) == IF t \in Numbers THEN {t.n} ELSE IF asked THEN {id} ELSE Ids

\* scanf("%s") and scanf("%c") read whatever is there, a word or one character; what
\* is behind that may be anything.
AfterText(t) == IF t.kind = "eof" THEN t ELSE Fresh

Note(lines) == Len(head) + Len(lines) <= MaxHead /\ head' = head \o lines

-------------------------------------------------------------------------------
\* Before the dialogue

\* Any feature stands for none before one is chosen.
SessionInit ==
  /\ feature = CHOOSE f \in Features : TRUE
  /\ paramValues = [n \in 1..Count |-> Unset]
  /\ flag = FALSE /\ id = 0 /\ input = Fresh
  /\ runFile = << >> /\ texts = << >> /\ pc = "menu"
  /\ stage = "model" /\ asked = FALSE /\ model = 0
  /\ params = [k \in 1..ParamCount |-> 0]
  /\ numbers = << >> /\ head = << >>

\* A number is asked for until it is in range.
AskNumber(name, range) ==
  /\ stage = name
  /\ \E t \in Pending : input' \in AfterInt(t) /\ id' \in Answers(t)
  /\ asked' = (id' \notin range)
  /\ id' \notin range => stage' = stage
  /\ UNCHANGED <<flag, runFile, texts, params, numbers>>

\* requestModelChoice: 0 ends the program without a line.
ChooseModel ==
  /\ AskNumber("model", 0..Len(FeatureLists))
  /\ \/ asked' /\ UNCHANGED <<model, head>>
     \/ id' = 0 /\ stage' = "exited" /\ UNCHANGED <<model, head>>
     \/ id' \in DOMAIN FeatureLists /\ model' = id' /\ stage' = "param" /\ Note(<<id'>>)
  /\ UNCHANGED <<feature, paramValues, pc>>

\* Mutant: the 0 that ends the list is not written.
ChooseParamSilently ==
  /\ AskNumber("param", 0..ParamCount)
  /\ \/ asked' /\ UNCHANGED head
     \/ id' = 0 /\ stage' = "number" /\ UNCHANGED head
     \/ id' \in 1..ParamCount /\ stage' = "value" /\ Note(<<id'>>)
  /\ UNCHANGED <<feature, paramValues, pc, model>>

\* requestParamChoice and the line of main.
ChooseParam ==
  /\ AskNumber("param", 0..ParamCount)
  /\ \/ asked' /\ UNCHANGED head
     \/ ~asked' /\ stage' = (IF id' = 0 THEN "number" ELSE "value") /\ Note(<<id'>>)
  /\ UNCHANGED <<feature, paramValues, pc, model>>

\* editParameter: at the end of the input the value stays.
EditParam ==
  /\ stage = "value"
  /\ \E t \in Pending, w \in Words :
       /\ input' = AfterText(t)
       /\ params' = IF t.kind = "eof" THEN params ELSE [params EXCEPT ![id] = w]
  /\ Note(<<params'[id]>>)
  /\ stage' = "param"
  /\ UNCHANGED <<feature, paramValues, flag, id, runFile, texts, pc,
                 asked, model, numbers>>

\* Timescale, horizon and maximum; the lines are written when all are read, with
\* six decimals.  A number that cannot be read is 0.
GiveNumber ==
  /\ stage = "number"
  /\ \E t \in Pending, r \in Reals :
       /\ input' = AfterReal(t)
       /\ numbers' = Append(numbers, IF ReadsReal(t) THEN r ELSE 0)
  /\ IF Len(numbers') = 3
     THEN stage' = "feature" /\ Note([k \in 1..3 |-> Printed[numbers'[k]]])
     ELSE UNCHANGED <<stage, head>>
  /\ UNCHANGED <<feature, paramValues, flag, id, runFile, texts, pc,
                 asked, model, params>>

\* requestFeatureChoice: every number is written, those out of range and the 0 that
\* ends the program too.  The feature chosen is parsed.
ChooseFeature ==
  /\ AskNumber("feature", 0..Len(FeatureLists[model]))
  /\ Note(<<id'>>)
  /\ \/ asked' /\ UNCHANGED <<feature, paramValues, pc>>
     \/ id' = 0 /\ stage' = "exited" /\ UNCHANGED <<feature, paramValues, pc>>
     \/ /\ id' \in DOMAIN FeatureLists[model]
        /\ feature' = FeatureLists[model][id']
        /\ paramValues' = [k \in DOMAIN feature'.params |-> Unset]
        /\ pc' = IF feature'.params = << >> THEN "done" ELSE "menu"
        /\ stage' = "gap"
  /\ UNCHANGED model

Gap ==
  /\ stage = "gap"
  /\ input' = AfterText(input)
  /\ stage' = "dialogue"
  /\ UNCHANGED <<feature, paramValues, flag, id, runFile, texts, pc,
                 asked, model, params, numbers, head>>

-------------------------------------------------------------------------------
\* The dialogue

Dialogue ==
  /\ stage = "dialogue"
  /\ Menu \/ Reject \/ Choose \/ Finish \/ Enter \/ UpdateFails \/ Update
  /\ UNCHANGED sessionVars

\* In a crash the lines before the dialogue may be lost too.
Crash ==
  /\ stage = "dialogue"
  /\ UpdateCrashes
  /\ \/ UNCHANGED head
     \/ runFile' = << >> /\ \E n \in 0 .. Len(head) : head' = SubSeq(head, 1, n)
  /\ UNCHANGED <<stage, asked, model, params, numbers>>

Ended ==
  \/ stage = "exited"
  \/ stage = "dialogue" /\ pc \in {"done", "crashed", "exited"}
  \/ Len(runFile) = MaxLines \/ Len(head) + 3 > MaxHead

SessionNext ==
  \/ ChooseModel \/ ChooseParam \/ EditParam \/ GiveNumber \/ ChooseFeature \/ Gap
  \/ Dialogue \/ Crash
  \/ Ended /\ UNCHANGED allVars

SessionSpec == SessionInit /\ [][SessionNext]_allVars

-------------------------------------------------------------------------------
\* Properties

\* The menus, fed with the lines of the run file.
Start ==
  [stage |-> "model", model |-> 0, params |-> [k \in 1..ParamCount |-> 0],
   slot |-> 0, numbers |-> << >>, feature |-> 0]

Feed(s, line) ==
  CASE s.stage = "model" /\ line \in DOMAIN FeatureLists ->
         [s EXCEPT !.model = line, !.stage = "param"]
    [] s.stage = "param" /\ line \in 1..ParamCount -> [s EXCEPT !.slot = line, !.stage = "value"]
    [] s.stage = "param" /\ line = 0 -> [s EXCEPT !.stage = "number"]
    [] s.stage = "value" -> [s EXCEPT !.params[s.slot] = line, !.stage = "param"]
    [] s.stage = "number" ->
         [s EXCEPT !.numbers = Append(@, line), !.stage = IF Len(s.numbers) = 2 THEN "feature" ELSE @]
    [] s.stage = "feature" /\ line = 0 -> [s EXCEPT !.stage = "exited"]
    [] s.stage = "feature" /\ line \in DOMAIN FeatureLists[s.model] ->
         [s EXCEPT !.feature = line, !.stage = "dialogue"]
    [] OTHER -> s

\* Where they stand after the last of them.
Again ==
  LET fed[n \in 0..Len(head)] == IF n = 0 THEN Start ELSE Feed(fed[n - 1], head[n])
  IN fed[Len(head)]

\* A session repeated from its run file makes the choices of this one up to the
\* dialogue, whatever was typed wrong and whatever was found in memory; only the
\* numbers are those that six decimals leave, and leaving before a model is chosen
\* is not recorded; a crash loses lines.
SessionReplays ==
  pc # "crashed" =>
    /\ Again.model = model /\ Again.params = params
    /\ Again.numbers = IF Len(numbers) < 3 THEN << >> ELSE [k \in 1..3 |-> Printed[numbers[k]]]
    /\ Again.stage = CASE stage = "gap" -> "dialogue"
                       [] stage = "exited" /\ model = 0 -> "model"
                       [] OTHER -> stage
    /\ Again.stage = "dialogue" => feature = FeatureLists[model][Again.feature]
===============================================================================
