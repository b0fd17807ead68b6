---------------------------- MODULE LevelSequence ----------------------------
(***************************************************************************)
(* The product of a hybrid automaton with a feature (structs.c,            *)
(* levelSequence, orderedResets, addTimeBound).                            *)
(*                                                                         *)
(* A feature is a sequence of sub-expressions.  The product counts in its  *)
(* variable level how many of them have matched; levelSequence adds, for   *)
(* every sub-expression and every location, the transitions that match it  *)
(* (to the next level, from the last one to FINAL) and copies of the       *)
(* original transitions that wait for it.  A match with several            *)
(* assignments becomes a chain of hops through pause locations in which    *)
(* time stands still.                                                      *)
(*                                                                         *)
(* Data are abstract.  A guard is a set of atoms; the guard of an original *)
(* transition is one atom, the transition itself.  The list node of a      *)
(* level guard is shared by most transitions of its level, so what is      *)
(* appended behind it reaches all of them: tail.  Every assignment stores  *)
(* the time, the feature's own stores what the others hold.                *)
(***************************************************************************)
EXTENDS FeatureExpr, FiniteSets

CONSTANTS
  LastLoc,    \* the locations of the model are 1..LastLoc, in list order
  EdgePool,   \* transitions the model may have
  Features,   \* the features: sequences of sub-expressions
  MaxTime     \* bound of the times looked at

IsSequence(s) == s \in Seq({s[k] : k \in DOMAIN s})

ASSUME LevelAssumption ==
  /\ LastLoc \in Nat \ {0} /\ MaxTime \in Nat
  /\ DOMAIN Flow = 1..LastLoc /\ \A l \in 1..LastLoc : IsSequence(Flow[l])
  /\ None \notin EdgePool /\ \A e \in EdgePool : e.from \in 1..LastLoc
  /\ \A f \in Features :
       /\ IsSequence(f) /\ f # << >>
       /\ \A k \in DOMAIN f :
            /\ IsSequence(f[k].sets)
            /\ f[k].dnf \in Seq([ctx: {None} \union 1..LastLoc, preds: SUBSET Preds, first: BOOLEAN])
            /\ f[k].event # None =>
                 /\ f[k].event.type \in {Posedge, Negedge, Anyedge}
                 /\ \/ f[k].event.on = "state"
                    \/ f[k].event.on = "porv" /\ f[k].event.of \in Preds

VARIABLES
  edges,      \* the original transitions
  feature,    \* F->def->seq
  id,         \* position of the sub-expression in hand
  here,       \* locIterator
  dnfID,      \* position of the conjunct in hand
  trans,      \* the transitions of all locations
  tail,       \* what has been appended behind the level guard of each level
  pc          \* "sweep", "gate", "built"

vars == <<edges, feature, id, here, dnfID, trans, tail, pc>>

-------------------------------------------------------------------------------
\* Parts of a feature

Locs == 1..LastLoc

Levels == 0 .. Len(feature) - 1

Sub(i) == feature[i + 1]

IsLast(i) == i = Len(feature) - 1

\* Mutant: the last match steps the level too.
NextIdOnly(i) == i + 1

NextId(i) == IF IsLast(i) THEN 0 ELSE i + 1

Terms(i) == Conjuncts(Sub(i))

TermNr(i, k) == IF EventOnly(Sub(i)) THEN 0 ELSE k

Assigned(i) == Assignments(feature, i + 1)

-------------------------------------------------------------------------------
\* Locations and guards

\* A location is named <<l>>, a pause location <<l, id, dnfID, n>> and FINAL
\* << >>.  Locations are looked up by name when the product is written, so two
\* pause locations of one name are one.
Final == << >>

Pause(n) == <<here, id, TermNr(id, dnfID), n>>

IsPause(name) == Len(name) = 4

PredGuards(term) == {<<"pred", p>> : p \in term.preds}

\* The guard of an event: the variable is at the threshold and, for a known
\* edge, a derivative has the sign looked for.
EventGuards(i, l) ==
  IF ~IsPorvEvent(Sub(i)) THEN {}
  ELSE {<<"cross", Sub(i).event.of>>} \union SignGuard(Sub(i).event, l)

\* Mutant: the guards of the last sub-expression are forgotten.
TemporalGuardsInner(i) ==
  IF Sub(i).delay = None \/ IsLast(i) THEN {} ELSE {<<"window", i>>}

TemporalGuards(i) == IF Sub(i).delay = None THEN {} ELSE {<<"window", i>>}

\* The guard of a transition as it stands in the list now.
When(t) == t.guards \union IF t.shared THEN tail[t.at] ELSE {}

-------------------------------------------------------------------------------
\* Transitions

NoLevel == -1

Original(e) ==
  [from |-> <<e.from>>, to |-> <<e.to>>, edge |-> e, at |-> NoLevel,
   goes |-> NoLevel, guards |-> {<<"edge", e>>}, shared |-> FALSE,
   sets |-> << >>, zeroes |-> FALSE]

\* The match of a conjunct as a self-loop: it keeps the location's name and
\* steps the level; the last one goes to FINAL and sets time to 0, except in
\* the branch for a sub-expression that is only an event.
SelfLoop(i, l, term) ==
  [from |-> <<l>>, to |-> IF IsLast(i) THEN Final ELSE <<l>>, edge |-> None,
   at |-> i, goes |-> NextId(i),
   guards |-> TemporalGuards(i) \union EventGuards(i, l) \union PredGuards(term),
   shared |-> ~EventOnly(Sub(i)), sets |-> << >>,
   zeroes |-> IsLast(i) /\ ~EventOnly(Sub(i)) /\ IsTemporal(feature)]

\* The match of a state event: a copy of the original transition e that also
\* carries the guards and resets of the match, the level guard copied.
OnEdge(i, e, term) ==
  [from |-> <<e.from>>, to |-> IF IsLast(i) THEN Final ELSE <<e.to>>,
   edge |-> e, at |-> i, goes |-> NextId(i),
   guards |-> {<<"edge", e>>} \union TemporalGuards(i) \union PredGuards(term)
                \union tail[i],
   shared |-> FALSE, sets |-> << >>, zeroes |-> IsLast(i)]

\* The original transitions on which the state event of sub-expression i occurs.
EventEdges(i, l) ==
  LET ev == Sub(i).event IN
  {e \in edges : /\ e.from = l
                 /\ \/ ev.type \in {1, 0} /\ e.to = ev.of
                    \/ ev.type \in {2, 0} /\ l = ev.of}

\* An original transition copied to level i.
Waiting(i, e) ==
  [Original(e) EXCEPT !.at = i, !.goes = i, !.shared = TRUE]

\* The k-th of several assignments is made by a hop that carries a copy of the
\* guard and leaves level, time and localTime as they are.
Place(t, k) == IF k = 0 THEN t.from ELSE Pause(k)

Hop(t, assigned, k) ==
  [t EXCEPT !.from = Place(t, k - 1), !.to = Pause(k), !.goes = t.at,
            !.guards = When(t), !.shared = FALSE, !.sets = <<assigned[k]>>, !.zeroes = FALSE]

\* The match itself makes the last one.
LastHop(t, assigned) ==
  [t EXCEPT !.from = Place(t, Len(assigned) - 1), !.sets = <<assigned[Len(assigned)]>>]

\* Mutant: the first hop already steps the level.
OrderedResetsEarly(t, assigned) ==
  IF Len(assigned) <= 1 THEN {[t EXCEPT !.sets = assigned]}
  ELSE {[Hop(t, assigned, k) EXCEPT !.goes = t.goes] : k \in 1 .. Len(assigned) - 1}
         \union {LastHop(t, assigned)}

\* Mutant: the assignments are made in the opposite order.
OrderedResetsReversed(t, assigned) ==
  LET back == [k \in DOMAIN assigned |-> assigned[Len(assigned) + 1 - k]] IN
  IF Len(assigned) <= 1 THEN {[t EXCEPT !.sets = assigned]}
  ELSE {Hop(t, back, k) : k \in 1 .. Len(assigned) - 1} \union {LastHop(t, back)}

\* orderedResets: a single assignment needs no hop.
OrderedResets(t, assigned) ==
  IF Len(assigned) <= 1 THEN {[t EXCEPT !.sets = assigned]}
  ELSE {Hop(t, assigned, k) : k \in 1 .. Len(assigned) - 1} \union {LastHop(t, assigned)}

-------------------------------------------------------------------------------
\* The construction

Init ==
  /\ edges \in SUBSET EdgePool
  /\ feature \in Features
  /\ id = 0
  /\ here = 1
  /\ dnfID = 1
  /\ trans = {Original(e) : e \in edges}
  /\ tail = [i \in Levels |-> {}]
  /\ pc = "sweep"

\* The conjunct in hand, and whether this location can satisfy it.
Term == Terms(id)[dnfID]

InContext == Term.ctx = None \/ Term.ctx = here

NextTerm ==
  /\ dnfID' = dnfID + 1
  /\ UNCHANGED <<edges, feature, id, here, tail, pc>>

SkipTerm ==
  /\ pc = "sweep" /\ dnfID \in DOMAIN Terms(id)
  /\ ~InContext
  /\ NextTerm
  /\ UNCHANGED trans

MatchByLoop ==
  /\ pc = "sweep" /\ dnfID \in DOMAIN Terms(id)
  /\ InContext /\ ~IsStateEvent(Sub(id))
  /\ trans' = trans \union OrderedResets(SelfLoop(id, here, Term), Assigned(id))
  /\ NextTerm

MatchOnEdges ==
  /\ pc = "sweep" /\ dnfID \in DOMAIN Terms(id)
  /\ InContext /\ IsStateEvent(Sub(id))
  /\ trans' = trans \union
       UNION {OrderedResets(OnEdge(id, e, Term), Assigned(id)) : e \in EventEdges(id, here)}
  /\ NextTerm

\* After the conjuncts of a location: the original transitions that wait at
\* this level, and on to the next location or the next sub-expression.
Leaving == {e \in edges : e.from = here}

\* Mutant: the level is not looked at.
HasTransAtAnyLevel(l, i) == \E t \in trans : t.from = <<l>> /\ t.at # NoLevel

HasTransAtLevel(l, i) == \E t \in trans : t.from = <<l>> /\ t.at = i

\* The conjuncts without first_match, and the guards of the first of them.
Open(i) == {k \in DOMAIN Sub(i).dnf : ~Sub(i).dnf[k].first}

OpenGuards(i) ==
  LET first == CHOOSE k \in Open(i) : \A m \in Open(i) : k <= m
  IN PredGuards(Sub(i).dnf[first])

FirstEvent(i) == Sub(i).event # None /\ Sub(i).event.first

\* Mutant: the next sub-expression does not start at the first location again.
NextLocationOnly ==
  /\ pc = "sweep" /\ dnfID \notin DOMAIN Terms(id)
  /\ dnfID' = 1
  /\ here' = here + 1
  /\ id' = IF here = LastLoc THEN id + 1 ELSE id
  /\ pc' = IF here = LastLoc /\ IsLast(id) THEN "gate" ELSE "sweep"
  /\ UNCHANGED <<edges, feature>>

NextLocation ==
  /\ pc = "sweep" /\ dnfID \notin DOMAIN Terms(id)
  /\ dnfID' = 1
  /\ here' = IF here = LastLoc THEN 1 ELSE here + 1
  /\ id' = IF here = LastLoc THEN id + 1 ELSE id
  /\ pc' = IF here = LastLoc /\ IsLast(id) THEN "gate" ELSE "sweep"
  /\ UNCHANGED <<edges, feature>>

\* No transition at this level leaves the location: all are retained.
RetainAll ==
  /\ NextLocation
  /\ id # 0 /\ ~HasTransAtLevel(here, id)
  /\ trans' = trans \union {Waiting(id, e) : e \in Leaving}
  /\ UNCHANGED tail

\* Otherwise they are retained for the first conjunct without first_match only.
\* Its guards are appended behind the level guard, a node that the transitions
\* of this level share.
RetainOpen ==
  /\ NextLocation
  /\ id # 0 /\ HasTransAtLevel(here, id)
  /\ ~FirstEvent(id) /\ Open(id) # {}
  /\ trans' = trans \union {Waiting(id, e) : e \in Leaving}
  /\ tail' = IF Leaving = {} THEN tail
             ELSE [tail EXCEPT ![id] = @ \union OpenGuards(id)]

RetainNone ==
  /\ NextLocation
  /\ \/ id = 0
     \/ HasTransAtLevel(here, id) /\ (FirstEvent(id) \/ Open(id) = {})
  /\ UNCHANGED <<trans, tail>>

\* The original transitions themselves are gated by level == 0.
Gate ==
  /\ pc = "gate"
  /\ trans' = {IF t.at = NoLevel THEN [t EXCEPT !.at = 0, !.goes = 0] ELSE t : t \in trans}
  /\ pc' = "built"
  /\ UNCHANGED <<edges, feature, id, here, dnfID, tail>>

Build ==
  \/ SkipTerm \/ MatchByLoop \/ MatchOnEdges
  \/ RetainAll \/ RetainOpen \/ RetainNone
  \/ Gate

Built == pc = "built" /\ UNCHANGED vars

Next == Build \/ Built

Spec == Init /\ [][Next]_vars

-------------------------------------------------------------------------------
\* What the product can do at an instant v: val says where every PORV stands
\* (false, turning true, true, turning false), open which original guards hold,
\* lt and now are localTime and time.

Holds(atom, v) ==
  CASE atom[1] = "pred"   -> v.val[atom[2]] # "low"
    [] atom[1] = "cross"  -> v.val[atom[2]] \in {"up", "down"}
    [] atom[1] = "rises"  -> v.rate[atom[2]] = 1
    [] atom[1] = "falls"  -> v.rate[atom[2]] = -1
    [] atom[1] = "edge"   -> atom[2] \in v.open
    [] atom[1] = "window" -> InDelay(Sub(atom[2]).delay, v.lt)

\* addTimeBound: with temporal features the invariant of FINAL is time <= 1.
FinalBound == 1

Enabled(t, v) ==
  /\ \A atom \in When(t) : Holds(atom, v)
  /\ t.to = Final /\ IsTemporal(feature) => t.zeroes \/ v.now <= FinalBound

StepsFrom(place, i, v) ==
  {t \in trans : t.from = place /\ t.at = i /\ Enabled(t, v)}

\* What levelSequence says it adds: a transition to the next level wherever a
\* location satisfies the sub-expression, an event on state q being the
\* original transitions to q, from q, or both.
Satisfied(i, l, v) == \E e \in edges \union {None} : MatchesOn(Sub(i), l, e, v)

\* The transitions that can be taken at v from location l on, hop after hop.
Hops(i, l, v) ==
  LET after[k \in 0 .. Len(Assigned(i))] ==
        IF k = 0 THEN StepsFrom(<<l>>, i, v)
        ELSE UNION {StepsFrom(t.to, t.goes, v) :
                      t \in {u \in after[k - 1] : IsPause(u.to)}}
  IN UNION {after[k] : k \in 0 .. Len(Assigned(i))}

Offered(i, l, v) ==
  \E t \in Hops(i, l, v) :
    ~IsPause(t.to) /\ t.goes = NextId(i) /\ (IsLast(i) => t.to = Final)

-------------------------------------------------------------------------------
\* Properties of the product

Instants ==
  {v \in [val: [Preds -> {"low", "up", "high", "down"}], rate: [Rated -> {-1, 0, 1}],
          open: SUBSET edges, lt: 0..MaxTime, now: {MaxTime}] : Crossing(v)}

\* Four things the code does that its comments do not say; where they happen
\* the properties below are known to fail.
\* The guards of one conjunct are appended to all transitions of the level.
LeakedGuards(i) ==
  IF i = 0 \/ FirstEvent(i) \/ Open(i) = {} THEN {} ELSE OpenGuards(i)

Leaking(i) ==
  \E k \in DOMAIN Terms(i) : ~(LeakedGuards(i) \subseteq PredGuards(Terms(i)[k]))

\* The parser numbers a negative edge -1; levelSequence looks for 2.
NegedgeLost(i) == IsStateEvent(Sub(i)) /\ Sub(i).event.type = Negedge

\* FINAL is entered with time as it is, although its invariant bounds it.
LateFinal(i) == IsLast(i) /\ IsTemporal(feature) /\ EventOnly(Sub(i)) /\ ~IsStateEvent(Sub(i))

\* The derivative looked at for a positive edge is another one than that of the
\* variable compared.
Misread(i, l) ==
  /\ IsPorvEvent(Sub(i)) /\ Sub(i).event.type = Posedge
  /\ Derivative(Sub(i).event.of, l) \notin {None, Porv[Sub(i).event.of].var}

TypeOK ==
  /\ edges \subseteq EdgePool
  /\ feature \in Features
  /\ id \in 0 .. Len(feature) /\ here \in Locs /\ dnfID \in Nat \ {0}
  /\ pc \in {"sweep", "gate", "built"}
  /\ tail \in [Levels -> SUBSET ({"pred"} \X Preds)]
  /\ \A t \in trans :
       /\ t.at \in Levels \union {NoLevel}
       /\ t.goes \in {t.at, IF t.at = NoLevel THEN NoLevel ELSE NextId(t.at)}
       /\ t.edge \in edges \union {None}

\* Wherever a location satisfies a sub-expression, with any of its conjuncts,
\* the product goes on to the next level, whatever hops that takes.
MatchesOffered ==
  pc = "built" =>
    \A i \in Levels, l \in Locs :
      ~(Leaking(i) \/ NegedgeLost(i) \/ LateFinal(i) \/ Misread(i, l)) =>
        \A v \in Instants : Satisfied(i, l, v) => Offered(i, l, v)

\* A match with several assignments is never stuck half-way: no pause location
\* is entered that cannot be left at the same instant.
ChainsComplete ==
  pc = "built" =>
    \A t \in trans : IsPause(t.to) =>
      \/ Leaking(t.at) \/ LateFinal(t.at)
      \/ \A v \in Instants : Enabled(t, v) => StepsFrom(t.to, t.goes, v) # {}

\* Where a location cannot satisfy the sub-expression, whatever its window, the
\* model moves on as it did: every original transition is retained at this level.
Hopeless(i, l) ==
  \A v \in Instants, e \in edges \union {None} : ~HappensOn(Sub(i), l, e, v)

Retained(i, l) ==
  \A v \in Instants, e \in edges :
    e.from = l /\ e \in v.open =>
      \E t \in StepsFrom(<<l>>, i, v) : t.edge = e /\ t.to = <<e.to>> /\ t.goes = i

RetainedElsewhere ==
  pc = "built" =>
    \A i \in Levels, l \in Locs :
      i # 0 /\ Hopeless(i, l) /\ LeakedGuards(i) = {} => Retained(i, l)

-------------------------------------------------------------------------------
\* What the comments of levelSequence say without these exceptions

\* @-(q): the level changes on the transitions that leave q.
NegedgesOffered ==
  pc = "built" =>
    \A i \in Levels, l \in Locs, v \in Instants :
      NegedgeLost(i) /\ Satisfied(i, l, v) => Offered(i, l, v)

\* @+(P), P comparing one variable: the sign asked for is that of its derivative.
PosedgesOffered ==
  pc = "built" =>
    \A i \in Levels, l \in Locs, v \in Instants :
      /\ Misread(i, l) /\ Porv[Sub(i).event.of].var # None
      /\ ~(Leaking(i) \/ LateFinal(i))
      /\ Satisfied(i, l, v)
      => Offered(i, l, v)

===============================================================================
