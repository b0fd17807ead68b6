----------------------------- MODULE FeatureExpr -----------------------------
(***************************************************************************)
(* Features as the feature parser hands them on (featureParser.y,          *)
(* structs.h), and what their parts mean at an instant of a run.           *)
(*                                                                         *)
(* A feature is a sequence of sub-expressions, each a record of            *)
(*   dnf     a sequence of conjuncts: a location context or None, a set of *)
(*           PORVs, and whether it is a first_match;                       *)
(*   event   None, or an event on the state or on a PORV: which one, its   *)
(*           type and whether it is a first_match;                         *)
(*   delay   None, or the bounds on the time since the previous match;     *)
(*   sets    the variables that store the time of the match, in order.     *)
(*                                                                         *)
(* An instant v is a record: val says where every PORV stands ("low", "up" *)
(* while it turns true, "high", "down" while it turns false), rate the     *)
(* sign of every derivative, open which transitions of the automaton are   *)
(* enabled, lt and now are the time since the previous match and since the *)
(* start.                                                                  *)
(***************************************************************************)
EXTENDS Integers, Sequences

CONSTANTS
  Preds,      \* the predicates over real variables (PORVs)
  Porv,       \* what each of them compares
  Flow,       \* per location the variables that have derivatives, in list order
  Value,      \* the variable of the feature itself
  None        \* the NULL pointer: no event, no delay, no location context

Rated == UNION {{Flow[l][n] : n \in DOMAIN Flow[l]} : l \in DOMAIN Flow}

\* Of a PORV: the variable, with a derivative, that it compares with a constant by
\* an inequality, or None; whether its operator is ==, >= or >; and the variables
\* that the text of its left side begins with the names of.
ASSUME PorvAssumption ==
  /\ None \notin Rated
  /\ Porv \in [Preds -> [var: Rated \union {None}, above: BOOLEAN, begins: SUBSET Rated]]

Posedge == 1

Negedge == -1

Anyedge == 0

IsStateEvent(x) == x.event # None /\ x.event.on = "state"

IsPorvEvent(x) == x.event # None /\ x.event.on = "porv"

\* A sub-expression that is only an event has no dnf: it is treated as one
\* conjunct that asks for nothing.
EventOnly(x) == x.dnf = << >>

Conjuncts(x) ==
  IF EventOnly(x) THEN <<[ctx |-> None, preds |-> {}, first |-> FALSE]>> ELSE x.dnf

\* Whether time and localTime are added to the automaton.
IsTemporal(f) == \E k \in DOMAIN f : f[k].delay # None \/ f[k].sets # << >>

\* The assignments of the k-th match, in order; the last one also computes the
\* feature.
Assignments(f, k) == f[k].sets \o IF k = Len(f) THEN <<Value>> ELSE << >>

\* A finite window, a lower bound, an exact delay.
InDelay(d, lt) ==
  \/ d.type = 0 /\ d.lower <= lt /\ lt <= d.upper
  \/ d.type = 1 /\ d.lower <= lt
  \/ d.type = 2 /\ d.lower = lt

\* @+(p), @-(p), @(p)
Occurs(ev, v) ==
  \/ ev.type \in {Posedge, Anyedge} /\ v.val[ev.of] = "up"
  \/ ev.type \in {Negedge, Anyedge} /\ v.val[ev.of] = "down"

\* @+(state == q), @-(state == q), @(state == q), on transition e
Switches(ev, e) ==
  \/ ev.type \in {Posedge, Anyedge} /\ e.to = ev.of
  \/ ev.type \in {Negedge, Anyedge} /\ e.from = ev.of

ConjunctHolds(c, l, v) ==
  /\ c.ctx \in {None, l}
  /\ \A p \in c.preds : v.val[p] # "low"

\* Sub-expression x, but for its window, matches in location l at instant v; on
\* transition e, if its event is a change of state.
HappensOn(x, l, e, v) ==
  /\ \E k \in DOMAIN Conjuncts(x) : ConjunctHolds(Conjuncts(x)[k], l, v)
  /\ IsPorvEvent(x) => Occurs(x.event, v)
  /\ IF IsStateEvent(x) THEN e \in v.open /\ e.from = l /\ Switches(x.event, e)
                        ELSE e = None

MatchesOn(x, l, e, v) ==
  HappensOn(x, l, e, v) /\ (x.delay # None => InDelay(x.delay, v.lt))

-------------------------------------------------------------------------------
\* The sign of a derivative

\* The derivative that the guard of an event on p looks at in location l: the first
\* with a name that the left side begins with.
Derivative(p, l) ==
  LET found == {n \in DOMAIN Flow[l] : Flow[l][n] \in Porv[p].begins}
  IN IF found = {} THEN None ELSE Flow[l][CHOOSE n \in found : \A m \in found : n <= m]

\* Mutant: the derivative has the wrong sign.
SignGuardSwapped(ev, l) ==
  LET x == Derivative(ev.of, l) IN
  IF ev.type \notin {1, 2} \/ x = None THEN {}
  ELSE {<<IF (ev.type = 1) = Porv[ev.of].above THEN "falls" ELSE "rises", x>>}

\* What the guard of a known edge asks of it, if there is one; a negative edge is
\* 2 here.
SignGuard(ev, l) ==
  LET x == Derivative(ev.of, l) IN
  IF ev.type \notin {1, 2} \/ x = None THEN {}
  ELSE {<<IF (ev.type = 1) = Porv[ev.of].above THEN "rises" ELSE "falls", x>>}

\* Thresholds are crossed, not touched: the derivative of the variable is not 0.
Crossing(v) ==
  \A p \in Preds : Porv[p].var # None =>
    /\ v.val[p] = "up" => v.rate[Porv[p].var] = IF Porv[p].above THEN 1 ELSE -1
    /\ v.val[p] = "down" => v.rate[Porv[p].var] = IF Porv[p].above THEN -1 ELSE 1

-------------------------------------------------------------------------------
\* From one instant to the next

\* Predicates over continuous variables turn true or false through an instant
\* of crossing.
Later ==
  [low |-> {"low", "up"}, up |-> {"high", "down"},
   high |-> {"high", "down"}, down |-> {"low", "up"}]

\* Time passes from v to w: the clocks advance, other transitions may open.
Flows(v, w) ==
  /\ \A p \in Preds : w.val[p] \in Later[v.val[p]]
  /\ w.lt = v.lt + 1
  /\ w.now = v.now + 1

AtOnce(v, w) == w.now = v.now

\* One assignment, and the assignments of a match in order.  The feature is
\* computed from what the other variables hold at that moment.
Stored(x, store, now) ==
  IF x = Value THEN [store EXCEPT ![Value] = [y \in DOMAIN store \ {Value} |-> store[y]]]
               ELSE [store EXCEPT ![x] = now]

StoredAll(xs, store, now) ==
  LET after[k \in 0 .. Len(xs)] ==
        IF k = 0 THEN store ELSE Stored(xs[k], after[k - 1], now)
  IN after[Len(xs)]
===============================================================================
