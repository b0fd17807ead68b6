-------------------------- MODULE ExtremeTraceSearch --------------------------
(***************************************************************************)
(* The search for the extreme values of a feature (structs.c,              *)
(* extremeTraceSearch) as fbfvTool.c drives it: the range that SpaceEx     *)
(* computed is widened, the left corner is searched, then the right one,   *)
(* and both are reported.  Each step of the search asks satCheck whether a *)
(* run of the automaton reaches FINAL with the feature inside a half of    *)
(* the interval that is left.                                              *)
(*                                                                         *)
(* Reals are scaled to integers: 1 stands for the distance of two adjacent *)
(* values of the computation, Unit for the real number 1.  The recursion   *)
(* of the code is a tail recursion whose frames only wait to replace a     *)
(* NULL by their own satResult; the innermost frame's is returned, so one  *)
(* variable, sat, stands for all of them.                                  *)
(*                                                                         *)
(* dReach, behind satCheck, is a delta-complete decision procedure: it     *)
(* never answers unsat when the goal is reachable, but an answer sat only  *)
(* says that a Delta-perturbation of the automaton reaches it; its         *)
(* enclosure of the feature is no wider than Delta.  It is deterministic:  *)
(* asked again with the same goal (the template, the depth and the         *)
(* precision never change) it gives the same verdict.                      *)
(***************************************************************************)
EXTENDS Integers, Sequences

CONSTANTS
  Values,     \* the values a feature may take
  Unit,       \* the number of steps in the real number 1
  Eps,        \* the precision limit typed by the user (e of the search)
  SolverDelta,\* the precision dReal falls back to when it is asked for 0
  JunkIds,    \* what an interval id that was never assigned may hold
  None,       \* the NULL pointer
  Pending     \* a corner that was not searched yet (abstract specification)

ASSUME ValuesAssumption == Values \subseteq Int
ASSUME UnitAssumption == Unit \in Nat \ {0}
ASSUME EpsAssumption == Eps \in Nat
ASSUME SolverDeltaAssumption == SolverDelta \in Nat
ASSUME JunkIdsAssumption == JunkIds \subseteq Int

Interval == [left: Int, right: Int, id: Int]

ASSUME NoneAssumption == None \notin Interval /\ None \notin Int
ASSUME PendingAssumption == Pending \notin Int /\ Pending # None

VARIABLES
  feasible,   \* the values the feature takes on runs within the path bound
  perturbed,  \* the values it takes on runs of the perturbed automaton
  range,      \* featureRangeX: the widened SpaceEx range
  dir,        \* -1: left corner search, 1: right corner search
  pc,         \* where the search stands
  given,      \* the interval argument of the innermost call
  sat,        \* satResult of the innermost frame that has one, or None
  traces,     \* the witnesses found so far: trace_1, trace_2, ...
  corner,     \* satLeftRange (-1) and satRightRange (1)
  verdicts    \* the goals asked so far, each with the answer sat or unsat

vars ==
  <<feasible, perturbed, range, dir, pc, given, sat, traces, corner, verdicts>>

-------------------------------------------------------------------------------
\* Intervals

Abs(x) == IF x < 0 THEN -x ELSE x

Floor(x) == (x \div Unit) * Unit

Ceil(x) == -Floor(-x)

\* The precision dReach works with: the search hands the limit on as an int.
Delta == IF Eps < Unit THEN SolverDelta ELSE Floor(Eps)

\* main accepts any number as the limit; this is what the search needs of it.
PrecisionUsable == Eps > 0 /\ Delta <= Eps

\* featureRangeX of main: the SpaceEx range, one precision limit wider on each
\* side and rounded outwards to whole numbers.  The id is copied from a range
\* the SpaceEx output parser allocates without initialising its id.
Widen(l, r, junk) ==
  [left |-> Floor(l - Eps), right |-> Ceil(r + Eps), id |-> junk]

\* Mutant: the search goes on until the two ends meet.
NarrowOnlyAtPoint(g) == g.left = g.right

\* The precision bound has been met: nothing more is searched.
Narrow(g) == Abs(g.left - g.right) <= 2 * Eps

Mid(g) == (g.left + g.right) \div 2

\* The half of the interval that is nearer to the corner, and the other one.
NearHalf(g) ==
  IF dir < 0 THEN [left |-> g.left, right |-> Mid(g)]
             ELSE [left |-> Mid(g), right |-> g.right]

\* Mutant: the right search asks for the right half twice.
FarHalfCopied(g) == [left |-> Mid(g), right |-> g.right]

FarHalf(g) ==
  IF dir < 0 THEN [left |-> Mid(g), right |-> g.right]
             ELSE [left |-> g.left, right |-> Mid(g)]

\* Mutants: the witness's id is not copied; the precision limit is not taken
\* off; the interval keeps the id it came with.
BeyondWithoutId(h, w) == [left |-> h.left, right |-> w.left - Eps]

BeyondAtWitness(h, w) ==
  IF dir < 0 THEN [left |-> h.left, right |-> w.left, id |-> w.id]
             ELSE [left |-> w.right, right |-> h.right, id |-> w.id]

BeyondKeepsId(h, w) ==
  IF dir < 0 THEN [left |-> h.left, right |-> w.left - Eps, id |-> given.id]
             ELSE [left |-> w.right + Eps, right |-> h.right, id |-> given.id]

\* givenRange of the recursive call, after witness w in the half h: what lies
\* beyond the witness, one precision limit away from it.
Beyond(h, w) ==
  IF dir < 0 THEN [left |-> h.left, right |-> w.left - Eps, id |-> w.id]
             ELSE [left |-> w.right + Eps, right |-> h.right, id |-> w.id]

-------------------------------------------------------------------------------
\* What satCheck answers for the goal "FINAL with the feature in h"

Reachable(h) == \E f \in feasible : h.left <= f /\ f <= h.right

\* dReach is asked for h and answers v, as it did when it was asked before.
Answer(h, v) ==
  /\ <<h, ~v>> \notin verdicts
  /\ verdicts' = verdicts \union {<<h, v>>}

\* An answer sat: an enclosure of a value of the perturbed automaton.
Witnesses(h) ==
  {w \in [left: (h.left - Delta)..(h.right + Delta),
          right: (h.left - Delta)..(h.right + Delta),
          id: {Len(traces) + 1}] :
     /\ w.left <= w.right
     /\ w.right - w.left <= Delta
     /\ \E f \in perturbed : w.left <= f /\ f <= w.right}

-------------------------------------------------------------------------------
\* The search

Init ==
  /\ perturbed \in SUBSET Values
  /\ feasible \in SUBSET perturbed
  /\ \E l, r \in Values, junk \in JunkIds : l <= r /\ range = Widen(l, r, junk)
  /\ dir = -1
  /\ pc = "call"
  /\ given = range
  /\ sat = None
  /\ traces = << >>
  /\ corner = [d \in {-1, 1} |-> None]
  /\ verdicts = {}

\* satCheck finds a witness in h: the search goes on beyond it.
Found(h) ==
  /\ Answer(h, TRUE)
  /\ \E w \in Witnesses(h) :
       /\ sat' = w
       /\ traces' = Append(traces, w)
       /\ given' = Beyond(h, w)
       /\ pc' = "call"
       /\ UNCHANGED <<feasible, perturbed, range, dir, corner>>

\* satCheck finds none.
Missed(h) ==
  /\ ~Reachable(h)
  /\ Answer(h, FALSE)

\* The outermost call of the corner search returns r: main goes on with the
\* search of the other corner, from the same range, or with the report.
Return(r) ==
  /\ corner' = [corner EXCEPT ![dir] = r]
  /\ given' = range
  /\ sat' = None
  /\ dir' = 1
  /\ pc' = IF dir < 0 THEN "call" ELSE "report"
  /\ UNCHANGED <<feasible, perturbed, range, traces>>

\* The precision bound has been met: the argument itself is returned.
ReturnRange ==
  /\ pc = "call"
  /\ Narrow(given)
  /\ Return(given)
  /\ UNCHANGED verdicts

SatNear ==
  /\ pc = "call"
  /\ ~Narrow(given)
  /\ Found(NearHalf(given))

\* Mutant: the same half is tried again.
UnsatNearRetries ==
  /\ pc = "call"
  /\ ~Narrow(given)
  /\ ~Reachable(NearHalf(given))
  /\ UNCHANGED vars

UnsatNear ==
  /\ pc = "call"
  /\ ~Narrow(given)
  /\ Missed(NearHalf(given))
  /\ pc' = "far"
  /\ UNCHANGED <<feasible, perturbed, range, dir, given, sat, traces, corner>>

SatFar ==
  /\ pc = "far"
  /\ Found(FarHalf(given))

\* Mutant: the NULL of the recursive call is returned as it is.
UnsatFarForgets ==
  /\ pc = "far"
  /\ Missed(FarHalf(given))
  /\ Return(None)

\* Both halves are unsat: NULL, which the calling frame replaces by its witness.
UnsatFar ==
  /\ pc = "far"
  /\ Missed(FarHalf(given))
  /\ Return(sat)

\* The summary prints the right corner whenever there is a left one.
Report ==
  /\ pc = "report"
  /\ pc' = IF corner[-1] # None /\ corner[1] = None THEN "segfault" ELSE "done"
  /\ UNCHANGED <<feasible, perturbed, range, dir, given, sat, traces, corner,
                 verdicts>>

Ended ==
  /\ pc \in {"done", "segfault"}
  /\ UNCHANGED vars

Next ==
  ReturnRange \/ SatNear \/ UnsatNear \/ SatFar \/ UnsatFar \/ Report \/ Ended

Spec == Init /\ [][Next]_vars

\* The program is sequential and waits for every solver it starts.
FairSpec == Spec /\ WF_vars(Next)

-------------------------------------------------------------------------------
\* Properties

TypeOK ==
  /\ feasible \subseteq Int
  /\ perturbed \subseteq Int
  /\ range \in Interval
  /\ dir \in {-1, 1}
  /\ pc \in {"call", "far", "report", "done", "segfault"}
  /\ given \in Interval
  /\ sat \in Interval \union {None}
  /\ traces \in Seq(Interval)
  /\ corner \in [{-1, 1} -> Interval \union {None}]
  /\ verdicts \subseteq [left: Int, right: Int] \X BOOLEAN

Searched(d) == d < dir \/ pc \notin {"call", "far"}

\* The corners main prints are those module FeatureCorners promises, whatever
\* halves were searched and in whatever order the witnesses came: no run beats
\* the left corner by the precision limit, one comes within three limits (and
\* the solver's tolerance) of it, and it is missing only if the feature takes
\* no value in the widened range; the same for the right corner.
PrintedCorner(d) ==
  IF ~Searched(d) THEN Pending
  ELSE IF corner[d] = None THEN None
  ELSE IF d < 0 THEN corner[d].left ELSE corner[d].right

Corners == INSTANCE FeatureCorners WITH
  found <- [d \in {-1, 1} |-> PrintedCorner(d)],
  Slack <- 3 * Eps + Delta

CornersPromise == Corners!Promise

\* A corner is backed by the trace its id names, written in the search of this
\* corner: the trace's enclosure ends within three precision limits of the
\* printed corner.  Ranges so narrow that nothing is searched are excepted.
Near(x, y) == Abs(x - y) <= 3 * Eps

CornersWitnessed ==
  ~Narrow(range) =>
    /\ corner[-1] # None =>
         /\ corner[-1].id \in DOMAIN traces
         /\ Near(corner[-1].left, traces[corner[-1].id].left)
    /\ corner[1] # None =>
         /\ corner[1].id \in DOMAIN traces
         /\ Near(corner[1].right, traces[corner[1].id].right)
         /\ corner[-1] # None => corner[-1].id < corner[1].id

\* Every goal sent to dReach is a nonempty part of the widened range, although
\* "beyond the witness" may be empty or reversed.
GoalsProper ==
  pc = "far" \/ (pc = "call" /\ ~Narrow(given)) =>
    /\ range.left <= given.left
    /\ given.left < Mid(given) /\ Mid(given) < given.right
    /\ given.right <= range.right

\* Each recursive call gets a shorter interval than its caller: the recursion
\* is bounded, although the new bound comes from the solver's witness.
Width(g) == Abs(g.right - g.left)

CallsShrink ==
  [][SatNear \/ SatFar => Width(given') < Width(given)]_vars

\* The search ends and the summary is printed.
Termination == <>(pc \in {"done", "segfault"})

\* Either both corners are found or neither, as long as no child fails: the two
\* searches ask for the same two halves of the widened range, in opposite orders.
\* The summary relies on it: it reads the right corner whenever there is a left
\* one (fbfvTool.c 571).
CornersTogether ==
  pc \in {"report", "done", "segfault"} => (corner[-1] = None <=> corner[1] = None)

===============================================================================
