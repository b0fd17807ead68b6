------------------------------- MODULE Pipeline -------------------------------
(***************************************************************************)
(* main (fbfvTool.c) around the corner search: one session after another   *)
(* in one work directory.  A session builds the product for the feature    *)
(* chosen, has SpaceEx compute the range, parses it, has HyST translate    *)
(* the product, copies the translation up to its goal into the template,   *)
(* and searches.  SpaceEx and HyST are children whose exit status is not   *)
(* looked at; what they say, they say in files that no session removes.    *)
(*                                                                         *)
(* The contents of a file are who wrote it: session and feature.  The      *)
(* range of a feature may be missing from what SpaceEx wrote (reached).    *)
(***************************************************************************)
EXTENDS Integers

CONSTANTS
  Features,      \* the features of the model in hand
  MaxSessions,   \* bound of the sessions looked at
  None,          \* NULL
  Absent,        \* no such file
  Cut            \* a file whose writer died, or did not get to flush it

ASSUME SessionsAssumption == MaxSessions \in Nat \ {0}

ASSUME ContentsAssumption ==
  {None, Absent, Cut} \intersect [by: Nat, of: Features, reached: BOOLEAN] = {}

VARIABLES
  session,       \* the session in hand
  feature,       \* featureName
  pc,            \* where main is; "typeRange", "typeDrh": a parser reads the terminal
  sxOut,         \* sx.out
  drh,           \* drh_<model>_<feature>.drh of every feature
  template,      \* drhTemplate.drh
  featureRange,  \* the range and who computed it
  failed         \* whether a child of this session failed (history)

vars == <<session, feature, pc, sxOut, drh, template, featureRange, failed>>

files == <<sxOut, drh, template>>

Sessions == 1..MaxSessions

Written == [by: Sessions, of: Features, reached: BOOLEAN]

Output(reached) == [by |-> session, of |-> feature, reached |-> reached]

Init ==
  /\ session = 1 /\ feature = None /\ pc = "choose"
  /\ sxOut = Absent
  /\ drh = [f \in Features |-> Absent]
  /\ template = Absent
  /\ featureRange = None
  /\ failed = FALSE

-------------------------------------------------------------------------------
\* Up to the range

\* The feature is chosen, parsed, and the product written for SpaceEx.
Build ==
  /\ pc = "choose"
  /\ \E f \in Features : feature' = f
  /\ pc' = "spaceex"
  /\ UNCHANGED <<session, files, featureRange, failed>>

\* Its file is not there, or does not parse.
NoFeature ==
  /\ pc = "choose"
  /\ pc' = "ended"
  /\ UNCHANGED <<session, feature, files, featureRange, failed>>

\* Mutant: main does not wait for its child.
SpaceExWritesLate ==
  /\ pc = "spaceex"
  /\ \E reached \in BOOLEAN : sxOut' \in {sxOut, Output(reached)}
  /\ pc' = "range"
  /\ UNCHANGED <<session, feature, drh, template, featureRange, failed>>

SpaceExWrites ==
  /\ pc = "spaceex"
  /\ \E reached \in BOOLEAN : sxOut' = Output(reached)
  /\ pc' = "range"
  /\ UNCHANGED <<session, feature, drh, template, featureRange, failed>>

\* It was not started, or died before, while or after it wrote its file.
SpaceExDies ==
  /\ pc = "spaceex"
  /\ sxOut' \in {sxOut, Cut, Output(FALSE), Output(TRUE)}
  /\ failed' = TRUE
  /\ pc' = "range"
  /\ UNCHANGED <<session, feature, drh, template, featureRange>>

\* Mutant: whatever is found is taken for a range.
RangeReadAnything ==
  /\ pc = "range" /\ sxOut # Absent
  /\ featureRange' = sxOut
  /\ pc' = "hyst"
  /\ UNCHANGED <<session, feature, files, failed>>

RangeRead ==
  /\ pc = "range" /\ sxOut \in Written /\ sxOut.reached
  /\ featureRange' = sxOut
  /\ pc' = "hyst"
  /\ UNCHANGED <<session, feature, files, failed>>

\* No line for FINAL, or a syntax error: exit.
NoRange ==
  /\ pc = "range"
  /\ sxOut = Cut \/ (sxOut \in Written /\ ~sxOut.reached)
  /\ pc' = "ended"
  /\ UNCHANGED <<session, feature, files, featureRange, failed>>

\* Mutant: the file is not opened.
RangeFromStdinAlways ==
  /\ pc = "range"
  /\ pc' = "typeRange"
  /\ UNCHANGED <<session, feature, files, featureRange, failed>>

\* The scanner of a file that could not be opened reads the terminal instead.
RangeFromStdin ==
  /\ pc = "range" /\ sxOut = Absent
  /\ pc' = "typeRange"
  /\ UNCHANGED <<session, feature, files, featureRange, failed>>

-------------------------------------------------------------------------------
\* From the range to the search

\* Mutant: the translation is not named after the feature.
HystWritesAll ==
  /\ pc = "hyst"
  /\ drh' = [f \in Features |-> Output(TRUE)]
  /\ pc' = "template"
  /\ UNCHANGED <<session, feature, sxOut, template, featureRange, failed>>

HystWrites ==
  /\ pc = "hyst"
  /\ drh' = [drh EXCEPT ![feature] = Output(TRUE)]
  /\ pc' = "template"
  /\ UNCHANGED <<session, feature, sxOut, template, featureRange, failed>>

HystDies ==
  /\ pc = "hyst"
  /\ \E c \in {drh[feature], Cut, Output(TRUE)} : drh' = [drh EXCEPT ![feature] = c]
  /\ failed' = TRUE
  /\ pc' = "template"
  /\ UNCHANGED <<session, feature, sxOut, template, featureRange>>

\* The template is opened, which empties it, and holds the translation when it
\* is closed at the goal.  What follows the goal is written to the closed
\* stream: the session goes on or crashes.
Copy ==
  /\ pc = "template" /\ drh[feature] \in Written
  /\ template' = drh[feature]
  /\ pc' \in {"search", "ended"}
  /\ UNCHANGED <<session, feature, sxOut, drh, featureRange, failed>>

\* Without a goal the template is neither closed nor flushed before it is used;
\* with a syntax error main exits.
CopyCut ==
  /\ pc = "template" /\ drh[feature] = Cut
  /\ template' = Cut
  /\ pc' \in {"search", "ended"}
  /\ UNCHANGED <<session, feature, sxOut, drh, featureRange, failed>>

CopyFromStdin ==
  /\ pc = "template" /\ drh[feature] = Absent
  /\ template' = Cut
  /\ pc' = "typeDrh"
  /\ UNCHANGED <<session, feature, sxOut, drh, featureRange, failed>>

\* The answers to the next prompts, or no input at all, are no output of
\* SpaceEx: a syntax error.
TypeRange ==
  /\ pc = "typeRange"
  /\ pc' = "ended"
  /\ UNCHANGED <<session, feature, files, featureRange, failed>>

\* A number or no input is a syntax error, any other line is text to copy.
TypeDrh ==
  /\ pc = "typeDrh"
  /\ pc' \in {"search", "ended"}
  /\ UNCHANGED <<session, feature, files, featureRange, failed>>

\* The corner searches and the summary.
Search ==
  /\ pc = "search"
  /\ pc' = "ended"
  /\ UNCHANGED <<session, feature, files, featureRange, failed>>

\* The program is started again: its globals are cleared, the files are not.
NextSession ==
  /\ pc = "ended" /\ session < MaxSessions
  /\ session' = session + 1
  /\ feature' = None
  /\ pc' = "choose"
  /\ featureRange' = None
  /\ failed' = FALSE
  /\ UNCHANGED files

Ended == pc = "ended" /\ session = MaxSessions /\ UNCHANGED vars

Main ==
  \/ Build \/ NoFeature
  \/ SpaceExWrites \/ SpaceExDies
  \/ RangeRead \/ NoRange \/ RangeFromStdin
  \/ HystWrites \/ HystDies
  \/ Copy \/ CopyCut \/ CopyFromStdin
  \/ Search

Next == Main \/ TypeRange \/ TypeDrh \/ NextSession \/ Ended

\* One thread, and children that end.
Spec == Init /\ [][Next]_vars /\ WF_vars(Main)

-------------------------------------------------------------------------------
\* Properties

TypeOK ==
  /\ session \in Sessions
  /\ feature \in Features \union {None}
  /\ pc \in {"choose", "spaceex", "range", "hyst", "template", "search",
            "typeRange", "typeDrh", "ended"}
  /\ sxOut \in Written \union {Absent, Cut}
  /\ drh \in [Features -> Written \union {Absent, Cut}]
  /\ template \in Written \union {Absent, Cut}
  /\ featureRange \in Written \union {None}
  /\ failed \in BOOLEAN

\* As long as SpaceEx and HyST do their work, the corners are searched in this
\* session's automaton, over this session's range, although no file is removed.
SearchesOwn ==
  pc = "search" /\ ~failed =>
    /\ featureRange = Output(TRUE)
    /\ template = Output(TRUE)

\* Whatever fails, the automaton searched is one of the feature asked for, and
\* there is a range to search.
SearchesFeature ==
  pc = "search" =>
    /\ template = Cut \/ template.of = feature
    /\ featureRange # None /\ featureRange.reached

\* A session without a failure is not held up by a parser that waits for the
\* terminal: it searches or ends.
NotHeldUp == [](pc = "spaceex" => <>(pc \in {"search", "ended"} \/ failed))
===============================================================================
