--------------------------- MODULE SatCheck_proofs ---------------------------
(***************************************************************************)
(* For every automaton and every number of queries: satCheck keeps its     *)
(* state well formed, and as long as none of its children fails it answers *)
(* truly and keeps each automaton beside its own witness.                  *)
(***************************************************************************)
EXTENDS SatCheck, TLAPS

\* What the files and the globals say between the steps of one query.  While
\* dReach runs, every path it has tried has an empty file; when it is done
\* without naming a sat path, all have.
AllEmpty == \A p \in Paths : json[p] = Empty

Solving ==
  /\ found = None
  /\ ~broken => out.k = None /\ \A p \in Paths \ untried : json[p] = Empty

Parsing ==
  ~broken =>
    /\ found = None => out.k = None /\ AllEmpty
    /\ found # None => out.k = found[1] /\ out.l = found[2] /\ json[found] = query

Reading ==
  ~broken =>
    /\ found = None => AllEmpty
    /\ found # None => kValue = found[1] /\ lValue = found[2] /\ json[found] = query

Stages ==
  /\ pc = "solve" => Solving
  /\ pc = "parse" => Parsing
  /\ pc \in {"extract", "fix", "keep"} => Reading
  /\ pc \in {"fix", "keep"} => Witness \notin {Absent, Empty}

\* In a clean directory only paths have files.
OnlyPaths == clean => \A s \in Slots \ Paths : json[s] = Absent

\* Every query adds at most one trace, and is the last goal of the automaton.
Counting ==
  /\ pc \in {"solve", "parse", "extract"} => traceCount < query
  /\ pc \in {"fix", "keep"} => traceCount > 0
  /\ pc \notin {"ask", "ended"} => query > 0 /\ goals # << >> /\ goals[Len(goals)] = query

IInv == TypeOK /\ Counting /\ OnlyPaths /\ Stages /\ AnswersTrue

\* A path is a slot, named by its two numbers.
LEMMA PathSlots ==
  /\ Paths \subseteq Slots
  /\ \A p \in Paths : p[1] \in Ks /\ p[2] \in Ls /\ p = <<p[1], p[2]>>
  /\ 0 \in Ks /\ 0 \in Ls
  /\ None \notin Ks /\ None \notin Ls
BY PathsAssumption, MarksAssumption DEF Ks, Ls, Slots

\* The marks of a file are no numbers, and differ.
LEMMA MarksApart ==
  /\ Absent \notin Nat /\ Empty \notin Nat /\ Earlier \notin Nat
  /\ Absent # Empty /\ Absent # Earlier /\ Empty # Earlier
  /\ None \notin Nat /\ None \notin Paths
BY MarksAssumption

LEMMA InitHolds == Init => IInv
<1> SUFFICES ASSUME Init PROVE IInv
  OBVIOUS
<1> USE PathSlots, MarksApart, LimitAssumption
<1>1. json \in [Slots -> {Absent, Earlier}]
  BY DEF Init
<1>2. TypeOK
  <2>1. /\ json \in [Slots -> Marks \union Nrs]
        /\ query \in 0..Limit
        /\ traceCount \in 0..query
        /\ unflushed \subseteq 1..traceCount
    BY <1>1 DEF Init, Marks
  <2>2. goals \in Seq(0..Limit)
    BY DEF Init
  <2>3. out \in [k: Ks \union {None}, l: Ls \union {None}]
    BY DEF Init
  <2>4. PICK old \in {Absent, Earlier} :
          /\ trace = [n \in Nrs |-> [of |-> old, text |-> old]]
          /\ auts = [n \in Nrs |-> old]
          /\ clean = (old = Absent /\ \A s \in Slots : json[s] = Absent)
    BY DEF Init
  <2>5. /\ trace \in [Nrs -> [of: Marks \union Nrs, text: Marks \union {"begun", "raw", "mixed", "whole"}]]
        /\ auts \in [Nrs -> Marks \union Nrs]
    BY <2>4 DEF Marks
  <2>6. clean \in BOOLEAN
    BY <2>4
  <2>7. QED
    BY <2>1, <2>2, <2>3, <2>5, <2>6 DEF Init, TypeOK
<1>3. OnlyPaths
  BY <1>1 DEF Init, OnlyPaths
<1>4. QED
  BY <1>2, <1>3 DEF Init, IInv, Counting, Stages, AnswersTrue, Returned

\* What is appended is the last element.
LEMMA LastOfAppend ==
  ASSUME NEW S, NEW s \in Seq(S), NEW x \in S
  PROVE  /\ Append(s, x) \in Seq(S)
         /\ Append(s, x) # << >>
         /\ Append(s, x)[Len(Append(s, x))] = x
OBVIOUS

\* One query begins.
LEMMA AskHolds == ASSUME IInv, NEW copied \in BOOLEAN, Ask(copied) PROVE IInv'
<1> USE PathSlots, MarksApart, LimitAssumption
<1>1. TypeOK /\ Counting /\ OnlyPaths
  BY DEF IInv
<1>2. query' \in 1..Limit /\ goals' \in Seq(0..Limit) /\ goals' # << >> /\ goals'[Len(goals')] = query'
  <2> DEFINE before == IF copied THEN <<Template>> ELSE goals
  <2>1. query' = query + 1 /\ query' \in 1..Limit /\ goals' = Append(before, query')
    BY <1>1 DEF Ask, TypeOK
  <2>2. before \in Seq(0..Limit)
    <3>1. Template \in 0..Limit
      BY DEF Template
    <3>2. <<Template>> \in Seq(0..Limit)
      BY <3>1
    <3>3. goals \in Seq(0..Limit)
      BY <1>1 DEF TypeOK
    <3>4. QED
      BY <3>2, <3>3
  <2> HIDE DEF before
  <2>3. QED
    BY <2>1, <2>2, LastOfAppend
<1>3. TypeOK'
  BY <1>1, <1>2 DEF Ask, TypeOK, files
<1>4. (Counting /\ OnlyPaths)'
  BY <1>1, <1>2 DEF Ask, TypeOK, Counting, OnlyPaths, files
<1>5. (Stages /\ AnswersTrue)'
  BY <1>1 DEF Ask, Stages, Solving, AnswersTrue, Returned, files
<1>6. QED
  BY <1>3, <1>4, <1>5 DEF IInv

\* The path dReach tries next is a slot.
LEMMA PathUnsatHolds == ASSUME IInv, PathUnsat PROVE IInv'
<1> USE PathSlots, MarksApart, LimitAssumption
<1>1. TypeOK /\ Counting /\ OnlyPaths /\ Solving
  BY DEF IInv, Stages, PathUnsat
<1>2. PICK p \in untried :
        /\ json' = [json EXCEPT ![p] = Empty]
        /\ out' = [out EXCEPT !.l = p[2]]
        /\ untried' = untried \ {p}
  BY DEF PathUnsat
<1>3. p \in Paths /\ p \in Slots /\ p[2] \in Ls
  BY <1>1, <1>2 DEF TypeOK
<1>4. TypeOK'
  BY <1>1, <1>2, <1>3 DEF PathUnsat, TypeOK, Marks, history
<1>5. (Counting /\ OnlyPaths)'
  BY <1>1, <1>2, <1>3 DEF PathUnsat, TypeOK, Counting, OnlyPaths, history
<1>6. (Stages /\ AnswersTrue)'
  BY <1>1, <1>2, <1>3 DEF PathUnsat, TypeOK, Stages, Solving, AnswersTrue, Returned, history
<1>7. QED
  BY <1>4, <1>5, <1>6 DEF IInv

LEMMA PathSatHolds == ASSUME IInv, PathSat PROVE IInv'
<1> USE PathSlots, MarksApart, LimitAssumption
<1>1. TypeOK /\ Counting /\ OnlyPaths /\ Solving
  BY DEF IInv, Stages, PathSat
<1>2. PICK p \in untried :
        /\ json' = [json EXCEPT ![p] = query]
        /\ out' = [k |-> p[1], l |-> p[2]]
        /\ found' = p
  BY DEF PathSat
<1>3. p \in Paths /\ p \in Slots /\ p[1] \in Ks /\ p[2] \in Ls /\ query \in Nrs
  BY <1>1, <1>2 DEF TypeOK, Counting, PathSat, Nrs
<1>4. TypeOK'
  BY <1>1, <1>2, <1>3 DEF PathSat, TypeOK
<1>5. (Counting /\ OnlyPaths)'
  BY <1>1, <1>2, <1>3 DEF PathSat, TypeOK, Counting, OnlyPaths
<1>6. (Stages /\ AnswersTrue)'
  BY <1>1, <1>2, <1>3 DEF PathSat, TypeOK, Stages, Parsing, AnswersTrue, Returned
<1>7. QED
  BY <1>4, <1>5, <1>6 DEF IInv

LEMMA SolverDiesHolds == ASSUME IInv, SolverDies PROVE IInv'
<1> USE PathSlots, MarksApart, LimitAssumption
<1>1. TypeOK /\ Counting /\ OnlyPaths /\ Solving
  BY DEF IInv, Stages, SolverDies
<1>2. PICK p \in untried :
        /\ json' \in {json, [json EXCEPT ![p] = Empty]}
        /\ out' = [out EXCEPT !.l = p[2]]
        /\ untried' = untried \ {p}
  BY DEF SolverDies
<1>3. p \in Paths /\ p \in Slots /\ p[2] \in Ls
  BY <1>1, <1>2 DEF TypeOK
<1>4. TypeOK'
  BY <1>1, <1>2, <1>3 DEF SolverDies, TypeOK, Marks
<1>5. (Counting /\ OnlyPaths)'
  BY <1>1, <1>2, <1>3 DEF SolverDies, TypeOK, Counting, OnlyPaths
<1>6. (Stages /\ AnswersTrue)'
  BY <1>1, <1>2, <1>3 DEF SolverDies, TypeOK, Stages, Solving, AnswersTrue, Returned
<1>7. QED
  BY <1>4, <1>5, <1>6 DEF IInv

LEMMA DReachStopsHolds == ASSUME IInv, DReachStops PROVE IInv'
<1> USE PathSlots, MarksApart, LimitAssumption
<1>1. TypeOK /\ Counting /\ OnlyPaths /\ Solving
  BY DEF IInv, Stages, DReachStops
<1>2. TypeOK'
  BY <1>1 DEF DReachStops, TypeOK, files
<1>3. (Counting /\ OnlyPaths)'
  BY <1>1 DEF DReachStops, TypeOK, Counting, OnlyPaths, files
<1>4. (Stages /\ AnswersTrue)'
  BY <1>1 DEF DReachStops, TypeOK, Stages, Solving, Parsing, AllEmpty, AnswersTrue, Returned, files
<1>5. QED
  BY <1>2, <1>3, <1>4 DEF IInv

\* The program may end at any step: nothing is claimed of its files then, but
\* their types.
LEMMA ExitTyped ==
  ASSUME TypeOK, Exit
  PROVE  /\ trace' \in [Nrs -> [of: Marks \union Nrs, text: Marks \union {"begun", "raw", "mixed", "whole"}]]
         /\ unflushed' = {}
         /\ pc' = "ended"
<1>1. ASSUME NEW n \in Nrs
      PROVE  Flushed(n) \in [of: Marks \union Nrs, text: Marks \union {"begun", "raw", "mixed", "whole"}]
  BY DEF TypeOK, Flushed
<1>2. QED
  BY <1>1 DEF Exit

LEMMA NoOutputHolds == ASSUME IInv, NoOutput PROVE IInv'
<1>1. TypeOK /\ Counting /\ OnlyPaths
  BY DEF IInv
<1>2. TypeOK'
  BY <1>1, ExitTyped DEF NoOutput, TypeOK
<1>3. (Counting /\ OnlyPaths)'
  BY <1>1 DEF NoOutput, Exit, Counting, OnlyPaths
<1>4. (Stages /\ AnswersTrue)'
  BY DEF NoOutput, Exit, Stages, AnswersTrue, Returned
<1>5. QED
  BY <1>2, <1>3, <1>4 DEF IInv

LEMMA ParseHolds == ASSUME IInv, Parse PROVE IInv'
<1> USE PathSlots, MarksApart, LimitAssumption
<1>1. TypeOK /\ Counting /\ OnlyPaths /\ Parsing
  BY DEF IInv, Stages, Parse
<1>2. TypeOK'
  BY <1>1 DEF Parse, TypeOK, files, history
<1>3. (Counting /\ OnlyPaths)'
  BY <1>1 DEF Parse, TypeOK, Counting, OnlyPaths, files, history
<1>4. Reading'
  <2>1. ~broken /\ found # None => out.k # None /\ out.l # None
    BY <1>1 DEF Parsing, TypeOK
  <2>2. QED
    BY <1>1, <2>1 DEF Parse, Parsing, Reading, AllEmpty, TypeOK, files, history
<1>5. (Stages /\ AnswersTrue)'
  BY <1>4 DEF Parse, Stages, AnswersTrue, Returned
<1>6. QED
  BY <1>2, <1>3, <1>5 DEF IInv

\* In a clean directory a path whose file is empty or absent was not sat.
LEMMA WitnessOfPath ==
  ASSUME TypeOK, OnlyPaths, Reading, ~broken
  PROVE  /\ found # None => Witness = query
         /\ found = None /\ clean => Witness \in {Absent, Empty}
<1> USE PathSlots, MarksApart
<1>1. <<kValue, lValue>> \in Slots
  BY DEF TypeOK, Slots
<1>2. CASE found # None
  <2>1. found = <<kValue, lValue>>
    BY <1>2 DEF Reading, TypeOK
  <2>2. QED
    BY <1>2, <2>1 DEF Reading, Witness
<1>3. CASE found = None
  BY <1>1, <1>3 DEF Reading, AllEmpty, OnlyPaths, Witness
<1>4. QED
  BY <1>2, <1>3

LEMMA NoWitnessHolds == ASSUME IInv, NoWitness PROVE IInv'
<1> USE MarksApart, LimitAssumption
<1>1. TypeOK /\ Counting /\ OnlyPaths /\ Reading
  BY DEF IInv, Stages, NoWitness
<1>2. TypeOK'
  BY <1>1 DEF NoWitness, TypeOK, files, history
<1>3. (Counting /\ OnlyPaths)'
  BY <1>1 DEF NoWitness, Counting, OnlyPaths, files, history
<1>4. ~broken => found = None
  BY <1>1, WitnessOfPath DEF NoWitness, TypeOK
<1>5. (Stages /\ AnswersTrue)'
  BY <1>4 DEF NoWitness, Stages, AnswersTrue, Truthful, Returned, history
<1>6. QED
  BY <1>2, <1>3, <1>5 DEF IInv

LEMMA NumberHolds == ASSUME IInv, Number PROVE IInv'
<1> USE MarksApart, LimitAssumption
<1>1. TypeOK /\ Counting /\ OnlyPaths /\ Reading
  BY DEF IInv, Stages, Number
<1>2. traceCount' = traceCount + 1 /\ traceCount' \in 1..query
  BY <1>1 DEF Number, TypeOK, Counting
<1>3. TypeOK'
  BY <1>1, <1>2 DEF Number, TypeOK, files, history
<1>4. (Counting /\ OnlyPaths)'
  BY <1>1, <1>2 DEF Number, Counting, OnlyPaths, files, history
<1>5. (Stages /\ AnswersTrue)'
  BY <1>1 DEF Number, Stages, Reading, AllEmpty, Witness, AnswersTrue, Returned, files, history
<1>6. QED
  BY <1>3, <1>4, <1>5 DEF IInv

\* Whatever fixNullsInJSON returns, only the trace of this number changes.
LEMMA FixHolds == ASSUME IInv, FixNulls \/ FixNullsZero PROVE IInv'
<1> USE MarksApart, LimitAssumption, PathSlots
<1>1. TypeOK /\ Counting /\ OnlyPaths /\ Reading /\ Witness \notin {Absent, Empty}
  BY DEF IInv, Stages, FixNulls, FixNullsZero
<1>2. traceCount \in Nrs /\ traceCount \in 1..traceCount
  BY <1>1 DEF TypeOK, Counting, FixNulls, FixNullsZero, Nrs
<1>3. Witness \in Marks \union Nrs
  BY <1>1 DEF TypeOK, Witness, Slots
<1>4. PICK part \in {"begun", "raw"} :
        /\ trace' = [trace EXCEPT ![traceCount] = [of |-> Witness, text |-> part]]
        /\ unflushed' = unflushed \union {traceCount}
        /\ pc = "fix" /\ pc' = "keep"
        /\ UNCHANGED <<query, goals, untried, out, kValue, lValue, traceCount, json, auts, answer, history>>
  BY DEF FixNulls, FixNullsZero
<1>5. trace' \in [Nrs -> [of: Marks \union Nrs, text: Marks \union {"begun", "raw", "mixed", "whole"}]]
  BY <1>1, <1>2, <1>3, <1>4 DEF TypeOK
<1>6. TypeOK'
  BY <1>1, <1>2, <1>4, <1>5 DEF TypeOK, history
<1>7. (Counting /\ OnlyPaths)'
  BY <1>1, <1>2, <1>4 DEF Counting, OnlyPaths, history
<1>8. (Stages /\ AnswersTrue)'
  BY <1>1, <1>4 DEF Stages, Reading, AllEmpty, Witness, AnswersTrue, Returned, history
<1>9. QED
  BY <1>6, <1>7, <1>8 DEF IInv

\* The answer is made of the witness in hand and the newest number.
LEMMA KeepHolds == ASSUME IInv, KeepAutomaton \/ AutomatonNotKept PROVE IInv'
<1> USE MarksApart, LimitAssumption, PathSlots
<1>1. TypeOK /\ Counting /\ OnlyPaths /\ Reading /\ Witness \notin {Absent, Empty}
  BY DEF IInv, Stages, KeepAutomaton, AutomatonNotKept
<1>2. traceCount \in Nrs
  BY <1>1 DEF TypeOK, Counting, KeepAutomaton, AutomatonNotKept, Nrs
<1>3. Witness \in Marks \union Nrs
  BY <1>1 DEF TypeOK, Witness, Slots
<1>4. CASE KeepAutomaton
  <2>1. auts' \in [Nrs -> Marks \union Nrs]
    <3>1. goals[Len(goals)] = query /\ query \in Nrs
      BY <1>1, <1>4 DEF Counting, KeepAutomaton, TypeOK, Nrs
    <3>2. QED
      BY <1>1, <1>4, <3>1 DEF KeepAutomaton, TypeOK
  <2>2. answer' = [of |-> Witness, id |-> traceCount]
    BY <1>4 DEF KeepAutomaton
  <2>3. TypeOK'
    BY <1>1, <1>2, <1>3, <1>4, <2>1, <2>2 DEF KeepAutomaton, TypeOK, history
  <2>4. (Counting /\ OnlyPaths)'
    BY <1>1, <1>4 DEF KeepAutomaton, Counting, OnlyPaths, history
  <2>5. Stages'
    BY <1>4 DEF KeepAutomaton, Stages
  <2>6. AnswersTrue'
    <3>1. ~broken => (found # None /\ Witness = query) \/ (found = None /\ ~clean)
      BY <1>1, WitnessOfPath
    <3>2. answer' # None
      BY <1>2, <1>3, <2>2, MarksAssumption DEF Marks, Nrs
    <3>3. QED
      BY <1>4, <2>2, <3>1, <3>2 DEF KeepAutomaton, AnswersTrue, Truthful, Returned, history
  <2>7. QED
    BY <2>3, <2>4, <2>5, <2>6 DEF IInv
<1>5. CASE AutomatonNotKept
  <2>1. TypeOK'
    <3>1. CASE auts[traceCount] = Absent
      BY <1>1, <1>5, <3>1, ExitTyped DEF AutomatonNotKept, TypeOK
    <3>2. CASE auts[traceCount] # Absent
      <4>1. answer' = [of |-> Witness, id |-> traceCount] /\ pc' = "ask"
        BY <1>5, <3>2 DEF AutomatonNotKept
      <4>2. QED
        BY <1>1, <1>2, <1>3, <1>5, <3>2, <4>1 DEF AutomatonNotKept, TypeOK
    <3>3. QED
      BY <3>1, <3>2
  <2>2. (Counting /\ OnlyPaths)'
    BY <1>1, <1>5 DEF AutomatonNotKept, Exit, Counting, OnlyPaths
  <2>3. (Stages /\ AnswersTrue)'
    BY <1>5 DEF AutomatonNotKept, Exit, Stages, AnswersTrue, Returned
  <2>4. QED
    BY <2>1, <2>2, <2>3 DEF IInv
<1>6. QED
  BY <1>4, <1>5

LEMMA FinishHolds == ASSUME IInv, Finish PROVE IInv'
<1>1. TypeOK /\ Counting /\ OnlyPaths
  BY DEF IInv
<1>2. TypeOK'
  BY <1>1, ExitTyped DEF Finish, TypeOK, history
<1>3. (Counting /\ OnlyPaths)'
  BY <1>1 DEF Finish, Exit, Counting, OnlyPaths, history
<1>4. (Stages /\ AnswersTrue)'
  BY DEF Finish, Exit, Stages, AnswersTrue, Returned
<1>5. QED
  BY <1>2, <1>3, <1>4 DEF IInv

LEMMA StutterHolds == ASSUME IInv, UNCHANGED vars PROVE IInv'
BY DEF IInv, vars, files, history, TypeOK, Counting, OnlyPaths, Stages, Solving, Parsing, Reading,
       AllEmpty, Witness, AnswersTrue, Truthful, Returned

\* The invariant holds in every state of every run.
LEMMA Invariance == Spec => []IInv
<1>1. IInv /\ [Next]_vars => IInv'
  <2> SUFFICES ASSUME IInv, [Next]_vars PROVE IInv'
    OBVIOUS
  <2>1. ASSUME NEW copied \in BOOLEAN, Ask(copied) PROVE IInv'
    BY <2>1, AskHolds
  <2>2. CASE Step
    BY <2>2, PathUnsatHolds, PathSatHolds, SolverDiesHolds, DReachStopsHolds, NoOutputHolds,
       ParseHolds, NoWitnessHolds, NumberHolds, FixHolds, KeepHolds DEF Step
  <2>3. CASE Finish
    BY <2>3, FinishHolds
  <2>4. CASE UNCHANGED vars
    BY <2>4, StutterHolds
  <2>5. QED
    BY <2>1, <2>2, <2>3, <2>4 DEF Next, Ended
<1>2. QED
  BY InitHolds, <1>1, PTL DEF Spec

\* Numbers, paths and files stay within their ranges: satCheck never keeps a
\* trace under a number no query has, whatever its children do.
THEOREM SatTypeCorrect == Spec => []TypeOK
<1>1. IInv => TypeOK
  BY DEF IInv
<1>2. QED
  BY Invariance, <1>1, PTL

\* As long as its own children do not fail, satCheck answers every query with
\* the witness of that query or with NULL, although nothing it reads is ever
\* cleared between two queries.
THEOREM AnswersAreTrue == Spec => []AnswersTrue
<1>1. IInv => AnswersTrue
  BY DEF IInv
<1>2. QED
  BY Invariance, <1>1, PTL

\* No query of this session has written a trace under a number not yet given
\* out, nor under the newest one before its trace is written.
Fresh ==
  \A n \in Nrs : n > traceCount \/ (pc = "fix" /\ n = traceCount) =>
    trace[n].of \in {Absent, Earlier}

\* The end of the program does not change whose witness a trace is.
LEMMA ExitKeeps ==
  ASSUME TypeOK, Exit, NEW n \in Nrs
  PROVE  trace'[n].of = trace[n].of
BY DEF TypeOK, Exit, Flushed

\* A step writes no trace, or the newest one after a witness has been numbered.
LEMMA OneTrace ==
  ASSUME TypeOK, Next
  PROVE  \/ pc # "fix" /\ \A n \in Nrs : trace'[n].of = trace[n].of
         \/ /\ pc = "fix" /\ pc' = "keep" /\ traceCount' = traceCount
            /\ \A n \in Nrs \ {traceCount} : trace'[n] = trace[n]
<1>1. CASE \E copied \in BOOLEAN : Ask(copied)
  BY <1>1 DEF Ask, files
<1>2. CASE PathUnsat \/ PathSat \/ SolverDies \/ DReachStops
  BY <1>2 DEF PathUnsat, PathSat, SolverDies, DReachStops, files
<1>3. CASE NoOutput \/ Finish
  BY <1>3, ExitKeeps DEF NoOutput, Finish
<1>4. CASE Parse \/ NoWitness \/ Number
  BY <1>4 DEF Parse, NoWitness, Number, files
<1>5. CASE FixNulls \/ FixNullsZero
  BY <1>5 DEF FixNulls, FixNullsZero, TypeOK
<1>6. CASE KeepAutomaton
  BY <1>6 DEF KeepAutomaton
<1>7. CASE AutomatonNotKept
  BY <1>7, ExitKeeps DEF AutomatonNotKept
<1>8. CASE Ended
  BY <1>8 DEF Ended, vars, files
<1>9. QED
  BY <1>1, <1>2, <1>3, <1>4, <1>5, <1>6, <1>7, <1>8 DEF Next, Step

\* The numbers only go up, and one is given out just before its trace is made.
LEMMA Numbering ==
  ASSUME TypeOK, Next, pc # "fix"
  PROVE  \/ traceCount' = traceCount /\ pc' # "fix"
         \/ traceCount' = traceCount + 1
BY DEF Next, Step, Ask, PathUnsat, PathSat, SolverDies, DReachStops, NoOutput, Finish, Parse,
       NoWitness, Number, KeepAutomaton, AutomatonNotKept, FixNulls, FixNullsZero, Exit, Ended,
       vars, files, history

LEMMA FreshInvariance == Spec => []Fresh
<1>1. Init => Fresh
  BY DEF Init, Fresh
<1>2. TypeOK /\ Fresh /\ [Next]_vars => Fresh'
  <2> SUFFICES ASSUME TypeOK, Fresh, [Next]_vars PROVE Fresh'
    OBVIOUS
  <2>1. traceCount \in Nat /\ Nrs \subseteq Nat
    BY DEF TypeOK, Nrs
  <2>2. CASE Next /\ pc = "fix"
    BY <2>1, <2>2, OneTrace DEF Fresh
  <2>3. CASE Next /\ pc # "fix"
    BY <2>1, <2>3, OneTrace, Numbering DEF Fresh
  <2>4. CASE UNCHANGED vars
    BY <2>4 DEF vars, files, Fresh
  <2>5. QED
    BY <2>2, <2>3, <2>4
<1>3. QED
  BY <1>1, <1>2, SatTypeCorrect, PTL DEF Spec

\* No trace of this session is ever written over by that of another query,
\* whatever the children of satCheck do.
THEOREM TracesAreKept == Spec => TracesSurvive
<1>1. TypeOK /\ Fresh /\ [Next]_vars =>
        [\A n \in Nrs : trace[n].of \in Nrs => trace'[n].of = trace[n].of]_vars
  <2> SUFFICES ASSUME TypeOK, Fresh, Next
               PROVE  \A n \in Nrs : trace[n].of \in Nrs => trace'[n].of = trace[n].of
    OBVIOUS
  <2>1. CASE pc # "fix"
    BY <2>1, OneTrace
  <2>2. CASE pc = "fix"
    BY <2>2, OneTrace, MarksApart DEF Fresh, Nrs
  <2>3. QED
    BY <2>1, <2>2
<1>2. QED
  BY <1>1, SatTypeCorrect, FreshInvariance, PTL DEF Spec, TracesSurvive

\* The traces kept under the numbers 1..m are those of q queries, each with its
\* automaton, in the order of the queries.
KeptTo(m, q) ==
  \A n \in 1..m :
    /\ trace[n].of \in 1..q
    /\ auts[n] = trace[n].of
    /\ n > 1 => trace[n - 1].of < trace[n].of

\* A query in hand is not among those kept: it is later than all of them until
\* its automaton is in its place.
InOrder ==
  /\ broken => spoilt
  /\ ~spoilt /\ clean =>
       /\ pc = "ask" => KeptTo(traceCount, query)
       /\ pc \in {"solve", "parse", "extract"} => KeptTo(traceCount, query - 1)
       /\ pc \in {"fix", "keep"} => KeptTo(traceCount - 1, query - 1)
       /\ pc = "keep" => trace[traceCount].of = query

\* What was kept of q queries was kept of more.
LEMMA KeptLonger ==
  ASSUME NEW m \in Nat, NEW p \in Int, NEW q \in Int, p <= q, KeptTo(m, p)
  PROVE  KeptTo(m, q)
BY DEF KeptTo

\* Without a failure the witness in hand is the one of this query.
LEMMA WitnessOfQuery ==
  ASSUME IInv, InOrder, ~spoilt, clean, pc \in {"fix", "keep"}
  PROVE  Witness = query
BY WitnessOfPath DEF IInv, InOrder, Stages

LEMMA InOrderInvariance == Spec => []InOrder
<1>1. Init => InOrder
  BY DEF Init, InOrder, KeptTo
<1>2. IInv /\ InOrder /\ [Next]_vars => InOrder'
  <2> SUFFICES ASSUME IInv, InOrder, [Next]_vars PROVE InOrder'
    OBVIOUS
  <2>1. /\ TypeOK /\ Counting
        /\ Limit \in Nat /\ query \in 0..Limit /\ traceCount \in 0..query
        /\ pc \in {"fix", "keep"} => traceCount > 0
    BY LimitAssumption DEF IInv, TypeOK, Counting
  <2> USE DEF InOrder
  <2>2. ASSUME NEW copied \in BOOLEAN, Ask(copied) PROVE InOrder'
    <3>1. query' - 1 = query
      BY <2>1, <2>2 DEF Ask
    <3>2. (broken => spoilt)' /\ (~spoilt' => ~spoilt)
      BY <2>2 DEF Ask
    <3> QED
      BY <2>1, <2>2, <3>1, <3>2 DEF Ask, KeptTo, files
  <2>3. CASE PathUnsat \/ PathSat
    BY <2>3 DEF PathUnsat, PathSat, KeptTo, history
  <2>4. CASE DReachStops
    <3>1. (broken => spoilt)' /\ (~spoilt' => ~spoilt)
      BY <2>4 DEF DReachStops
    <3> QED
      BY <2>4, <3>1 DEF DReachStops, KeptTo, files
  <2>5. CASE SolverDies \/ NoOutput \/ AutomatonNotKept
    BY <2>5 DEF SolverDies, NoOutput, AutomatonNotKept
  <2>6. CASE Parse
    BY <2>1, <2>6 DEF Parse, KeptTo, files, history
  <2>7. CASE NoWitness
    <3>1. ~spoilt /\ clean => KeptTo(traceCount, query)
      BY <2>1, <2>7, KeptLonger DEF NoWitness
    <3> QED
      BY <2>7, <3>1 DEF NoWitness, KeptTo, files, history
  <2>8. CASE Number
    <3>1. traceCount' - 1 = traceCount
      BY <2>1, <2>8 DEF Number
    <3> QED
      BY <2>1, <2>8, <3>1 DEF Number, KeptTo, files, history
  <2>9. CASE FixNulls \/ FixNullsZero
    <3>0. /\ UNCHANGED <<traceCount, query, auts, spoilt, clean, broken>>
          /\ pc = "fix" /\ pc' = "keep"
          /\ \E part \in {"begun", "raw"} :
               trace' = [trace EXCEPT ![traceCount] = [of |-> Witness, text |-> part]]
      BY <2>9 DEF FixNulls, FixNullsZero, history
    <3>1. /\ traceCount \in Nrs
          /\ trace'[traceCount].of = Witness
          /\ \A n \in Nrs \ {traceCount} : trace'[n].of = trace[n].of
      <4>1. traceCount \in Nrs
        BY <2>1, <3>0 DEF Nrs
      <4> QED
        BY <2>1, <3>0, <4>1 DEF TypeOK
    <3>2. ~spoilt /\ clean => Witness = query
      BY <3>0, WitnessOfQuery
    <3>3. \A n \in 1 .. traceCount - 1 : n \in Nrs \ {traceCount} /\ (n > 1 => n - 1 \in Nrs \ {traceCount})
      BY <2>1, <3>0 DEF Nrs
    <3> QED
      BY <2>1, <3>0, <3>1, <3>2, <3>3 DEF KeptTo
  <2>10. CASE KeepAutomaton
    <3>1. /\ UNCHANGED <<traceCount, query, trace, spoilt, clean, broken>>
          /\ pc = "keep" /\ pc' = "ask" /\ traceCount \in Nrs
          /\ auts'[traceCount] = query
          /\ \A n \in Nrs \ {traceCount} : auts'[n] = auts[n]
      BY <2>1, <2>10 DEF KeepAutomaton, history, TypeOK, Counting, Nrs
    <3>2. \A n \in 1 .. traceCount - 1 : n \in Nrs \ {traceCount}
      BY <2>1, <3>1 DEF Nrs
    <3>3. ASSUME ~spoilt, clean, NEW n \in 1 .. traceCount
          PROVE  /\ trace[n].of \in 1..query
                 /\ auts'[n] = trace[n].of
                 /\ n > 1 => trace[n - 1].of < trace[n].of
      <4>1. KeptTo(traceCount - 1, query - 1) /\ trace[traceCount].of = query
        BY <3>1, <3>3
      <4>2. CASE n = traceCount
        BY <2>1, <3>1, <4>1, <4>2 DEF KeptTo, Counting
      <4>3. CASE n # traceCount
        <5>1. n \in 1 .. traceCount - 1
          BY <2>1, <4>3
        <5> QED
          BY <2>1, <3>1, <3>2, <4>1, <5>1 DEF KeptTo
      <4> QED
        BY <4>2, <4>3
    <3> QED
      BY <3>1, <3>3 DEF KeptTo
  <2>11. CASE Finish \/ Ended \/ UNCHANGED vars
    BY <2>11 DEF Finish, Exit, Ended, vars, files, history, KeptTo
  <2> QED
    BY <2>2, <2>3, <2>4, <2>5, <2>6, <2>7, <2>8, <2>9, <2>10, <2>11 DEF Next, Step
<1>3. QED
  BY <1>1, <1>2, Invariance, PTL DEF Spec

\* If no child failed and the work directory was empty, each number names the
\* trace and the automaton of one query, and later queries have later numbers.
THEOREM TracesStayMatched == Spec => []TracesMatch
<1>1. InOrder => TracesMatch
  BY DEF InOrder, TracesMatch, Returned, KeptTo
<1>2. QED
  BY InOrderInvariance, <1>1, PTL
=============================================================================
