---------------------------- MODULE FeatureCorners ----------------------------
(***************************************************************************)
(* What fbfvTool.c promises to print as LEFT CORNER and RIGHT CORNER: the  *)
(* extreme values of the feature, up to the precision limit, left one      *)
(* first.  Nothing is said of how they are found.                          *)
(***************************************************************************)
EXTENDS Integers

CONSTANTS
  Eps,        \* the precision limit
  Slack,      \* how far off a corner may be on the other side
  None,       \* a corner that was not found
  Pending     \* a corner that was not searched yet

VARIABLES
  feasible,   \* the values the feature takes
  perturbed,  \* the values it takes if the automaton is slightly perturbed
  range,      \* where its corners are looked for
  found       \* the corners: -1 the left one, 1 the right one

promiseVars == <<feasible, perturbed, range, found>>

PromiseInit == found = [d \in {-1, 1} |-> Pending]

InRange(f) == range.left <= f /\ f <= range.right

\* c is Eps-close to being a bound of the feature in direction d: no value of
\* the feature is better than c by Eps, and if there is no c there is no value.
Extreme(d, c) ==
  \A f \in feasible : InRange(f) =>
    /\ c # None
    /\ IF d < 0 THEN c - Eps < f ELSE f < c + Eps

\* c overshoots by no more than Slack: some run takes the feature that far,
\* at least in the perturbed automaton.
Attained(d, c) ==
  c # None =>
    \E f \in perturbed : IF d < 0 THEN f <= c + Slack ELSE c - Slack <= f

\* A range of no more than two precision limits is returned without a search.
Find(d) ==
  /\ found[d] = Pending
  /\ found'[d] # Pending
  /\ Extreme(d, found'[d])
  /\ range.right - range.left > 2 * Eps => Attained(d, found'[d])
  /\ found' = [found EXCEPT ![d] = found'[d]]
  /\ UNCHANGED <<feasible, perturbed, range>>

FindLeft == Find(-1)

FindRight == found[-1] # Pending /\ Find(1)

PromiseNext == FindLeft \/ FindRight

Promise == PromiseInit /\ [][PromiseNext]_promiseVars
===============================================================================
