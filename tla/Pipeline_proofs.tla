---------------------------- MODULE Pipeline_proofs ----------------------------
(***************************************************************************)
(* Proofs about the sessions of main: for any features and any number of   *)
(* sessions.                                                               *)
(***************************************************************************)
EXTENDS Pipeline, TLAPS

\* From the choice of a feature to the search there is a feature.
Chosen ==
  pc \in {"spaceex", "range", "hyst", "template", "search", "typeDrh"} => feature \in Features

\* A translation is always of the feature its file is named after, whoever
\* wrote it.
NamedAfter == \A f \in Features : drh[f] \in Written => drh[f].of = f

\* Beyond the parser of SpaceEx's output there is a range.
HasRange ==
  pc \in {"hyst", "template", "search", "typeDrh"} => featureRange \in Written /\ featureRange.reached

\* What the files say step by step, as long as no child has failed.
Stages ==
  ~failed =>
    /\ pc = "range" => sxOut \in {Output(TRUE), Output(FALSE)}
    /\ pc \in {"hyst", "template", "search"} => featureRange = Output(TRUE)
    /\ pc = "template" => drh[feature] = Output(TRUE)
    /\ pc = "search" => template = Output(TRUE)
    /\ pc # "typeDrh"

\* What is searched is of the feature asked for.
OfFeature ==
  /\ pc = "search" => template = Cut \/ (template \in Written /\ template.of = feature)
  /\ pc = "typeDrh" => template = Cut

IInv ==
  /\ TypeOK
  /\ Chosen
  /\ NamedAfter
  /\ HasRange
  /\ Stages
  /\ OfFeature

\* What the children write is a record of this session and feature, and a
\* marker is no such record.
LEMMA Outputs ==
  ASSUME session \in Sessions, feature \in Features, NEW r \in BOOLEAN
  PROVE  /\ Output(r) \in Written
         /\ Output(r).by = session /\ Output(r).of = feature /\ Output(r).reached = r
BY DEF Output, Written

LEMMA Markers == Cut \notin Written /\ Absent \notin Written /\ None \notin Written
<1>1. Written \subseteq [by: Nat, of: Features, reached: BOOLEAN]
  BY SessionsAssumption DEF Written, Sessions
<1> QED
  BY <1>1, ContentsAssumption

-------------------------------------------------------------------------------

LEMMA InitIInv == Init => IInv
<1> SUFFICES ASSUME Init PROVE IInv
  OBVIOUS
<1>1. 1 \in Sessions
  BY SessionsAssumption DEF Sessions
<1>2. TypeOK
  BY <1>1 DEF Init, TypeOK
<1>3. NamedAfter
  BY Markers DEF Init, NamedAfter
<1> QED
  BY <1>2, <1>3 DEF Init, IInv, Chosen, HasRange, Stages, OfFeature

\* Every step of main, of the user and of the next session keeps the invariant.
LEMMA StepIInv == IInv /\ [Next]_vars => IInv'
<1> SUFFICES ASSUME IInv, [Next]_vars PROVE IInv'
  OBVIOUS
<1> USE DEF IInv, files
<1>1. CASE Build
  BY <1>1 DEF Build, TypeOK, Chosen, NamedAfter, HasRange, Stages, OfFeature, Output
<1>2. CASE NoFeature
  BY <1>2 DEF NoFeature, TypeOK, Chosen, NamedAfter, HasRange, Stages, OfFeature
<1>3. CASE SpaceExWrites
  <2>1. feature \in Features /\ session \in Sessions
    BY <1>3 DEF SpaceExWrites, Chosen, TypeOK
  <2>2. PICK r \in BOOLEAN : sxOut' = Output(r)
    BY <1>3 DEF SpaceExWrites
  <2>3. sxOut' \in Written /\ sxOut' \in {Output(TRUE), Output(FALSE)}
    BY <2>1, <2>2, Outputs
  <2>4. TypeOK'
    BY <1>3, <2>3 DEF SpaceExWrites, TypeOK
  <2>5. Stages'
    BY <1>3, <2>3 DEF SpaceExWrites, Stages, Output
  <2> QED
    BY <1>3, <2>4, <2>5 DEF SpaceExWrites, Chosen, NamedAfter, HasRange, OfFeature
<1>4. CASE SpaceExDies
  <2>1. Output(TRUE) \in Written /\ Output(FALSE) \in Written
    BY <1>4, Outputs DEF SpaceExDies, Chosen, TypeOK
  <2> QED
    BY <1>4, <2>1 DEF SpaceExDies, TypeOK, Chosen, NamedAfter, HasRange, Stages, OfFeature
<1>5. CASE RangeRead
  <2>1. TypeOK'
    BY <1>5 DEF RangeRead, TypeOK
  <2>2. HasRange'
    BY <1>5 DEF RangeRead, HasRange
  <2>3. ASSUME ~failed PROVE sxOut = Output(TRUE)
    BY <1>5, <2>3, Outputs DEF RangeRead, Stages, Chosen, TypeOK
  <2>4. Stages'
    BY <1>5, <2>3 DEF RangeRead, Stages, Output
  <2> QED
    BY <1>5, <2>1, <2>2, <2>4 DEF RangeRead, Chosen, NamedAfter, OfFeature
<1>6. CASE NoRange
  BY <1>6 DEF NoRange, TypeOK, Chosen, NamedAfter, HasRange, Stages, OfFeature
<1>7. CASE RangeFromStdin
  BY <1>7 DEF RangeFromStdin, TypeOK, Chosen, NamedAfter, HasRange, Stages, OfFeature
<1>8. CASE HystWrites
  <2>1. feature \in Features /\ session \in Sessions
    BY <1>8 DEF HystWrites, Chosen, TypeOK
  <2>2. Output(TRUE) \in Written /\ Output(TRUE).of = feature
    BY <2>1, Outputs
  <2>3. TypeOK'
    BY <1>8, <2>2 DEF HystWrites, TypeOK
  <2>4. NamedAfter'
    BY <1>8, <2>2 DEF HystWrites, NamedAfter, TypeOK
  <2>5. Stages'
    BY <1>8, <2>1 DEF HystWrites, Stages, TypeOK, Output
  <2> QED
    BY <1>8, <2>3, <2>4, <2>5 DEF HystWrites, Chosen, HasRange, OfFeature
<1>9. CASE HystDies
  <2>1. PICK c \in {drh[feature], Cut, Output(TRUE)} : drh' = [drh EXCEPT ![feature] = c]
    BY <1>9 DEF HystDies
  <2>2. feature \in Features /\ session \in Sessions
    BY <1>9 DEF HystDies, Chosen, TypeOK
  <2>5. Output(TRUE) \in Written /\ Output(TRUE).of = feature
    BY <2>2, Outputs
  <2>3. TypeOK'
    BY <1>9, <2>1, <2>2, <2>5 DEF HystDies, TypeOK
  <2>4. NamedAfter'
    BY <2>1, <2>2, <2>5, Markers DEF NamedAfter, TypeOK
  <2> QED
    BY <1>9, <2>3, <2>4 DEF HystDies, Chosen, HasRange, Stages, OfFeature
<1>10. CASE Copy
  <2>1. feature \in Features /\ template' = drh[feature]
    BY <1>10 DEF Copy, Chosen
  <2>2. TypeOK'
    BY <1>10 DEF Copy, TypeOK
  <2>3. Stages'
    BY <1>10 DEF Copy, Stages, Output
  <2>4. OfFeature'
    BY <1>10, <2>1 DEF Copy, OfFeature, NamedAfter
  <2> QED
    BY <1>10, <2>2, <2>3, <2>4 DEF Copy, Chosen, NamedAfter, HasRange
<1>11. CASE CopyCut
  <2>1. feature \in Features /\ session \in Sessions
    BY <1>11 DEF CopyCut, Chosen, TypeOK
  <2>2. failed
    BY <1>11, <2>1, Outputs, Markers DEF CopyCut, Stages
  <2>3. TypeOK'
    BY <1>11 DEF CopyCut, TypeOK
  <2> QED
    BY <1>11, <2>2, <2>3 DEF CopyCut, Chosen, NamedAfter, HasRange, Stages, OfFeature
<1>12. CASE CopyFromStdin
  <2>1. feature \in Features /\ session \in Sessions
    BY <1>12 DEF CopyFromStdin, Chosen, TypeOK
  <2>2. failed
    BY <1>12, <2>1, Outputs, Markers DEF CopyFromStdin, Stages
  <2> QED
    BY <1>12, <2>2 DEF CopyFromStdin, TypeOK, Chosen, NamedAfter, HasRange, Stages, OfFeature
<1>13. CASE TypeRange
  BY <1>13 DEF TypeRange, TypeOK, Chosen, NamedAfter, HasRange, Stages, OfFeature
<1>17. CASE TypeDrh
  BY <1>17 DEF TypeDrh, TypeOK, Chosen, NamedAfter, HasRange, Stages, OfFeature
<1>14. CASE Search
  BY <1>14 DEF Search, TypeOK, Chosen, NamedAfter, HasRange, Stages, OfFeature
<1>15. CASE NextSession
  <2>1. session' \in Sessions
    BY <1>15, SessionsAssumption DEF NextSession, TypeOK, Sessions
  <2> QED
    BY <1>15, <2>1 DEF NextSession, TypeOK, Chosen, NamedAfter, HasRange, Stages, OfFeature
<1>16. CASE Ended \/ UNCHANGED vars
  BY <1>16 DEF Ended, vars, TypeOK, Chosen, NamedAfter, HasRange, Stages, OfFeature, Output
<1> QED
  BY <1>1, <1>2, <1>3, <1>4, <1>5, <1>6, <1>7, <1>8, <1>9, <1>10, <1>11, <1>12, <1>13,
     <1>14, <1>15, <1>16, <1>17 DEF Next, Main

\* The files, the globals and the place in main stay in their ranges.
THEOREM PipelineTypeCorrect == Spec => []TypeOK
<1>1. IInv => TypeOK
  BY DEF IInv
<1> QED
  BY InitIInv, StepIInv, <1>1, PTL DEF Spec

\* Without a failure of SpaceEx or HyST the corners are searched in this
\* session's automaton over this session's range, whatever earlier sessions
\* left in the work directory.
THEOREM OwnIsSearched == Spec => []SearchesOwn
<1>1. IInv => SearchesOwn
  BY DEF IInv, Stages, SearchesOwn
<1> QED
  BY InitIInv, StepIInv, <1>1, PTL DEF Spec

\* Whatever fails, the automaton searched is of the feature asked for.
THEOREM FeatureIsSearched == Spec => []SearchesFeature
<1>1. IInv => SearchesFeature
  BY Markers DEF IInv, OfFeature, HasRange, SearchesFeature
<1> QED
  BY InitIInv, StepIInv, <1>1, PTL DEF Spec
===============================================================================
