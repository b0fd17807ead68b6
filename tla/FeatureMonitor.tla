---------------------------- MODULE FeatureMonitor ----------------------------
(***************************************************************************)
(* What a feature means: a run of the model, watched.  The run moves       *)
(* through the locations of the model as it always does; beside it, the    *)
(* sub-expressions of the feature are matched in order, each at an instant *)
(* where it holds, and every match stores the time in its variables.  The  *)
(* last match computes the feature from what they hold then.  Nothing is   *)
(* said of levels, copies of transitions or pause locations.               *)
(***************************************************************************)
EXTENDS FeatureExpr

VARIABLES
  edges,      \* the transitions of the model
  feature,    \* the feature
  loc,        \* the location, None before the run and once the feature matched
  matched,    \* how many sub-expressions have matched
  seen,       \* the instant
  store       \* what the variables of the feature hold

monitorVars == <<edges, feature, loc, matched, seen, store>>

MonitorInit == loc = None /\ matched = 0

\* The run starts, somewhere, with both clocks at 0.
Start ==
  /\ loc = None /\ matched = 0
  /\ loc' # None
  /\ seen'.lt = 0 /\ seen'.now = 0
  /\ UNCHANGED <<edges, feature, matched, store>>

\* Time passes in a location.
Pass ==
  /\ loc # None
  /\ Flows(seen, seen')
  /\ UNCHANGED <<edges, feature, loc, matched, store>>

\* The model takes a transition; it may change the state of all predicates.
Moves(e) ==
  /\ e \in edges \intersect seen.open
  /\ e.from = loc

Move ==
  /\ loc # None
  /\ \E e \in edges : Moves(e) /\ loc' = e.to
  /\ AtOnce(seen, seen') /\ seen'.lt = seen.lt
  /\ UNCHANGED <<edges, feature, matched, store>>

\* The next sub-expression matches, on a transition if its event is a change of
\* state.  The clock of the time since the last match starts again.
Match(e) ==
  /\ loc # None /\ matched < Len(feature)
  /\ MatchesOn(feature[matched + 1], loc, e, seen)
  /\ matched' = matched + 1
  /\ store' = StoredAll(Assignments(feature, matched + 1), store, seen.now)
  /\ e # None => Moves(e)
  /\ IF matched' = Len(feature)
     THEN loc' = None
     ELSE /\ loc' = IF e = None THEN loc ELSE e.to
          /\ AtOnce(seen, seen') /\ seen'.lt = 0
          /\ e = None => seen'.val = seen.val /\ seen'.open = seen.open
  /\ UNCHANGED <<edges, feature>>

MonitorNext == Start \/ Pass \/ Move \/ \E e \in edges \union {None} : Match(e)

Monitor == MonitorInit /\ [][MonitorNext]_monitorVars
===============================================================================
