------------------------------- MODULE SatCheck -------------------------------
(***************************************************************************)
(* One reachability query after another (structs.c, satCheck) and the      *)
(* files it lives on.  satCheck copies the template of the automaton,      *)
(* appends the goal, runs dReach, reads from its output which path was     *)
(* sat, takes the witness from the file of that path and keeps copies of   *)
(* witness and automaton under a running number.  No exit status is looked *)
(* at, no file is ever removed and the globals kValue and lValue keep what *)
(* they had when the output does not name a path.                          *)
(*                                                                         *)
(* dReach (external) enumerates the paths <<k, l>>: the l-th of length k.  *)
(* The solver empties the file of a path when it starts on it and writes   *)
(* the witness if the path is sat.  A solver that dies counts as unsat.    *)
(*                                                                         *)
(* The contents of a file are the number of the query that wrote it,       *)
(* Earlier for what an earlier session left in the work directory, or one  *)
(* of Absent and Empty.                                                    *)
(***************************************************************************)
EXTENDS Integers, Sequences

CONSTANTS
  Paths,      \* the paths of the automaton, pairs <<k, l>>
  Limit,      \* bound of the queries looked at
  Leftover,   \* paths of which an earlier session may have left a witness
  Absent, Empty, Earlier,
  None        \* NULL

Nrs == 1..Limit

ASSUME PathsAssumption == Paths \subseteq Nat \X Nat
ASSUME LeftoverAssumption == Leftover \subseteq Nat \X Nat
ASSUME LimitAssumption == Limit \in Nat
ASSUME MarksAssumption ==
  /\ {Absent, Empty, Earlier} \intersect Nat = {}
  /\ Absent # Empty /\ Absent # Earlier /\ Empty # Earlier
  /\ None \notin Nat /\ None \notin Paths
  /\ None \notin [of: {Absent, Empty, Earlier} \union Nat, id: Nat]

VARIABLES
  pc,         \* "ask", "solve", "parse", "extract", "fix", "keep", "ended"
  query,      \* the number of the query in hand
  goals,      \* aut.drh: the template, and the goals behind it
  json,       \* aut_<k>_<l>.smt2.json
  untried,    \* the paths dReach has not tried
  out,        \* the last path and the last sat length named in drh.out
  kValue, lValue,
  traceCount,
  trace,      \* trace_<n>.json: whose witness, and how much of it is there
  unflushed,  \* the trace files whose last part is still buffered
  auts,       \* aut_<n>.drh
  answer,     \* what satCheck returned: NULL, or a range and its id
  found,      \* the path of this query that was sat (history)
  broken,     \* a child of this query failed (history)
  spoilt,     \* a child of some query failed (history)
  clean       \* the work directory was empty at the start (history)

files == <<json, trace, unflushed, auts>>

history == <<found, broken, spoilt, clean>>

vars == <<pc, query, goals, untried, out, kValue, lValue, traceCount, answer, files, history>>

\* drhTemplate.drh, in aut.drh.
Template == 0

\* What kValue and lValue can name: both start at 0.
Ks == {p[1] : p \in Paths} \union {0}

Ls == {p[2] : p \in Paths} \union {0}

Slots == Ks \X Ls

Before(p, q) == p[1] < q[1] \/ (p[1] = q[1] /\ p[2] < q[2])

Init ==
  /\ pc = "ask" /\ query = 0
  /\ goals = << >>
  /\ \E left \in SUBSET Leftover :
       json = [s \in Slots |-> IF s \in left THEN Earlier ELSE Absent]
  /\ untried = {} /\ out = [k |-> None, l |-> None]
  /\ kValue = 0 /\ lValue = 0
  /\ traceCount = 0
  /\ \E old \in {Absent, Earlier} :
       /\ trace = [n \in Nrs |-> [of |-> old, text |-> old]]
       /\ auts = [n \in Nrs |-> old]
       /\ clean = (old = Absent /\ \A s \in Slots : json[s] = Absent)
  /\ unflushed = {}
  /\ answer = None /\ found = None /\ broken = FALSE /\ spoilt = FALSE

-------------------------------------------------------------------------------
\* satCheck prepares the automaton: cp, then the goal is appended.  If cp fails
\* the goal is appended to what is there.

Ask(copied) ==
  /\ pc = "ask" /\ query < Limit
  /\ query' = query + 1
  /\ goals' = Append(IF copied THEN <<Template>> ELSE goals, query')
  /\ untried' = Paths
  /\ out' = [k |-> None, l |-> None]
  /\ found' = None /\ broken' = ~copied /\ spoilt' = (spoilt \/ ~copied)
  /\ pc' = "solve"
  /\ UNCHANGED <<kValue, lValue, traceCount, answer, files, clean>>

-------------------------------------------------------------------------------
\* dReach.  It needs an automaton with one goal; for anything else there is no
\* output the parser accepts, and neither is there if dReach cannot be started.

Usable == goals = <<Template, query>>

NextPath(p) == p \in untried /\ \A q \in untried : p = q \/ Before(p, q)

PathUnsat ==
  /\ pc = "solve" /\ Usable
  /\ \E p \in untried :
       /\ NextPath(p)
       /\ json' = [json EXCEPT ![p] = Empty]
       /\ out' = [out EXCEPT !.l = p[2]]
       /\ untried' = untried \ {p}
  /\ UNCHANGED <<pc, query, goals, kValue, lValue, traceCount, trace, unflushed, auts, answer, history>>

PathSat ==
  /\ pc = "solve" /\ Usable
  /\ \E p \in untried :
       /\ NextPath(p)
       /\ json' = [json EXCEPT ![p] = query]
       /\ out' = [k |-> p[1], l |-> p[2]]
       /\ found' = p
  /\ pc' = "parse"
  /\ UNCHANGED <<query, goals, untried, kValue, lValue, traceCount, trace, unflushed, auts, answer, broken, spoilt, clean>>

\* The solver dies on a path: dReach goes on with the next one.
SolverDies ==
  /\ pc = "solve" /\ Usable
  /\ \E p \in untried :
       /\ NextPath(p)
       /\ json' \in {json, [json EXCEPT ![p] = Empty]}
       /\ out' = [out EXCEPT !.l = p[2]]
       /\ untried' = untried \ {p}
  /\ broken' = TRUE /\ spoilt' = TRUE
  /\ UNCHANGED <<pc, query, goals, kValue, lValue, traceCount, trace, unflushed, auts, answer, found, clean>>

\* dReach itself dies, or has tried all paths.
DReachStops ==
  /\ pc = "solve" /\ Usable
  /\ broken' = (broken \/ untried # {}) /\ spoilt' = (spoilt \/ untried # {})
  /\ pc' = "parse"
  /\ UNCHANGED <<query, goals, untried, out, kValue, lValue, traceCount, answer, files, found, clean>>

-------------------------------------------------------------------------------
\* The process ends: exit writes what is still buffered, over what a copy may
\* have put there.
Flushed(n) ==
  IF n \notin unflushed THEN trace[n]
  ELSE [trace[n] EXCEPT !.text = IF @ = "raw" THEN "mixed" ELSE "whole"]

Exit ==
  /\ pc' = "ended"
  /\ trace' = [n \in Nrs |-> Flushed(n)]
  /\ unflushed' = {}

\* The parser of drh.out calls exit when it does not understand its input.
NoOutput ==
  /\ pc = "solve"
  /\ Exit
  /\ broken' = TRUE /\ spoilt' = TRUE
  /\ UNCHANGED <<query, goals, untried, out, kValue, lValue, traceCount, answer, json, auts, found, clean>>

\* Mutant: the output of dReach is not read to its end.
ParseNoPath ==
  /\ pc = "parse"
  /\ kValue' = IF out.k = None THEN kValue ELSE out.k
  /\ lValue' = lValue
  /\ pc' = "extract"
  /\ UNCHANGED <<query, goals, untried, out, traceCount, answer, files, history>>

\* A line that does not come leaves the global as it was.
Parse ==
  /\ pc = "parse"
  /\ kValue' = IF out.k = None THEN kValue ELSE out.k
  /\ lValue' = IF out.l = None THEN lValue ELSE out.l
  /\ pc' = "extract"
  /\ UNCHANGED <<query, goals, untried, out, traceCount, answer, files, history>>

-------------------------------------------------------------------------------
\* extractJSONFeatureInterval

Witness == json[<<kValue, lValue>>]

\* Mutant: dReach is asked again until it answers.
NoWitnessRetries ==
  /\ pc = "extract" /\ Witness \in {Absent, Empty}
  /\ untried' = Paths
  /\ pc' = "solve"
  /\ UNCHANGED <<query, goals, out, kValue, lValue, traceCount, answer, files, history>>

NoWitness ==
  /\ pc = "extract" /\ Witness \in {Absent, Empty}
  /\ answer' = None
  /\ pc' = "ask"
  /\ UNCHANGED <<query, goals, untried, out, kValue, lValue, traceCount, files, history>>

\* Mutant: the number is not stepped for a new trace.
NumberKept ==
  /\ pc = "extract" /\ Witness \notin {Absent, Empty}
  /\ traceCount' = IF traceCount = 0 THEN 1 ELSE traceCount
  /\ pc' = "fix"
  /\ UNCHANGED <<query, goals, untried, out, kValue, lValue, answer, files, history>>

\* Mutant: the number is stepped once for the id and once for the file name.
NumberTwice ==
  /\ pc = "extract" /\ Witness \notin {Absent, Empty}
  /\ traceCount' = traceCount + 2
  /\ pc' = "fix"
  /\ UNCHANGED <<query, goals, untried, out, kValue, lValue, answer, files, history>>

Number ==
  /\ pc = "extract" /\ Witness \notin {Absent, Empty}
  /\ traceCount' = traceCount + 1
  /\ pc' = "fix"
  /\ UNCHANGED <<query, goals, untried, out, kValue, lValue, answer, files, history>>

\* fixNullsInJSON writes the trace through a stream it never closes and falls
\* off its end: the value it returns is any.  If that is 0 the file of the path
\* is copied over the trace; the copy counts as made if the trace file exists.
FixNulls ==
  /\ pc = "fix"
  /\ trace' = [trace EXCEPT ![traceCount] = [of |-> Witness, text |-> "begun"]]
  /\ unflushed' = unflushed \union {traceCount}
  /\ pc' = "keep"
  /\ UNCHANGED <<query, goals, untried, out, kValue, lValue, traceCount, json, auts, answer, history>>

FixNullsZero ==
  /\ pc = "fix"
  /\ trace' = [trace EXCEPT ![traceCount] = [of |-> Witness, text |-> "raw"]]
  /\ unflushed' = unflushed \union {traceCount}
  /\ pc' = "keep"
  /\ UNCHANGED <<query, goals, untried, out, kValue, lValue, traceCount, json, auts, answer, history>>

\* Mutant: the number of the automaton is one behind.
KeepAutomatonBehind ==
  /\ pc = "keep"
  /\ auts' = [auts EXCEPT ![IF traceCount = 1 THEN 1 ELSE traceCount - 1] = goals[Len(goals)]]
  /\ answer' = [of |-> Witness, id |-> traceCount]
  /\ pc' = "ask"
  /\ UNCHANGED <<query, goals, untried, out, kValue, lValue, traceCount, json, trace, unflushed, history>>

\* The automaton is kept beside its trace.
KeepAutomaton ==
  /\ pc = "keep"
  /\ auts' = [auts EXCEPT ![traceCount] = goals[Len(goals)]]
  /\ answer' = [of |-> Witness, id |-> traceCount]
  /\ pc' = "ask"
  /\ UNCHANGED <<query, goals, untried, out, kValue, lValue, traceCount, json, trace, unflushed, history>>

\* A copy that fails is noticed only if no file of that name was there before.
AutomatonNotKept ==
  /\ pc = "keep"
  /\ broken' = TRUE /\ spoilt' = TRUE
  /\ IF auts[traceCount] = Absent
     THEN Exit /\ UNCHANGED answer
     ELSE /\ answer' = [of |-> Witness, id |-> traceCount]
          /\ pc' = "ask"
          /\ UNCHANGED <<trace, unflushed>>
  /\ UNCHANGED <<query, goals, untried, out, kValue, lValue, traceCount, json, auts, found, clean>>

\* main is done with the searches.
Finish ==
  /\ pc = "ask" /\ query > 0
  /\ Exit
  /\ UNCHANGED <<query, goals, untried, out, kValue, lValue, traceCount, answer, json, auts, history>>

Ended == pc = "ended" /\ UNCHANGED vars

Step ==
  \/ PathUnsat \/ PathSat \/ SolverDies \/ DReachStops \/ NoOutput
  \/ Parse \/ NoWitness \/ Number \/ FixNulls \/ FixNullsZero
  \/ KeepAutomaton \/ AutomatonNotKept

Next == (\E copied \in BOOLEAN : Ask(copied)) \/ Step \/ Finish \/ Ended

Spec == Init /\ [][Next]_vars

\* Every child is waited for, and dReach ends on every query.
FairSpec == Spec /\ WF_vars(Step)

-------------------------------------------------------------------------------
\* Properties

Marks == {Absent, Empty, Earlier}

TypeOK ==
  /\ pc \in {"ask", "solve", "parse", "extract", "fix", "keep", "ended"}
  /\ query \in 0..Limit
  /\ goals \in Seq(0..Limit)
  /\ json \in [Slots -> Marks \union Nrs]
  /\ untried \subseteq Paths
  /\ out \in [k: Ks \union {None}, l: Ls \union {None}]
  /\ kValue \in Ks /\ lValue \in Ls
  /\ traceCount \in 0..query
  /\ unflushed \subseteq 1..traceCount
  /\ trace \in [Nrs -> [of: Marks \union Nrs, text: Marks \union {"begun", "raw", "mixed", "whole"}]]
  /\ auts \in [Nrs -> Marks \union Nrs]
  /\ answer \in {None} \union [of: Marks \union Nrs, id: Nrs]
  /\ found \in Paths \union {None}
  /\ {broken, spoilt, clean} \subseteq BOOLEAN

Returned == pc = "ask" /\ query > 0

\* If no child failed, satCheck answers with the witness of this very query
\* under the newest number just when a path is sat, although the globals still
\* name a path of an earlier query when dReach names none, and the files of
\* earlier queries are still there.  Only the NULL needs a directory that holds
\* no witness of an earlier session.
Truthful ==
  IF found = None THEN answer = None
  ELSE /\ answer # None
       /\ answer.of = query
       /\ answer.id = traceCount

AnswersTrue == Returned /\ ~broken /\ (clean \/ found # None) => Truthful

\* The automaton kept under a number is the one whose witness is kept under it,
\* and the numbers follow the queries.
TracesMatch ==
  Returned /\ ~spoilt /\ clean =>
    \A n \in 1..traceCount :
      /\ trace[n].of \in 1..query
      /\ auts[n] = trace[n].of
      /\ n > 1 => trace[n - 1].of < trace[n].of

\* A trace, once written, is never replaced by that of another query.
TracesSurvive ==
  [][\A n \in Nrs : trace[n].of \in Nrs => trace'[n].of = trace[n].of]_vars

\* Every query is answered, or ends the program.
AnswersCome == pc = "solve" ~> pc \in {"ask", "ended"}

-------------------------------------------------------------------------------
\* What the comments and the ReadME say without exceptions

\* The trace files can be looked at when the tool is done.
TracesWhole ==
  pc = "ended" /\ ~spoilt /\ clean => \A n \in 1..traceCount : trace[n].text = "whole"
===============================================================================
