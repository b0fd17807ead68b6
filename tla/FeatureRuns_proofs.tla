-------------------------- MODULE FeatureRuns_proofs --------------------------
(***************************************************************************)
(* Proofs about the product and about its runs, for any model, any feature *)
(* and any number of assignments: what is constructed, and that what runs  *)
(* is a watched run of the model.                                          *)
(***************************************************************************)
EXTENDS FeatureRuns, SequenceTheorems, WellFoundedInduction, TLAPS

\* A set of numbers that is not empty has a least one.
LEMMA LeastOfNats ==
  ASSUME NEW T \in SUBSET Nat, T # {}
  PROVE  \E k \in T : \A m \in T : k <= m
<1>1. PICK k \in T : \A m \in T : ~(<<m, k>> \in OpToRel(<, Nat))
  BY NatLessThanWellFounded, WFMin
<1>2. ASSUME NEW m \in T PROVE k <= m
  <2>1. m \in Nat /\ k \in Nat
    OBVIOUS
  <2>2. m < k => <<m, k>> \in OpToRel(<, Nat)
    BY <2>1 DEF OpToRel
  <2>3. ~(m < k)
    BY <1>1, <2>2
  <2> QED
    BY <2>1, <2>3
<1> QED
  BY <1>2

\* A set that has 0 and with every number below n the next one has all up to n:
\* there is no least one outside of it.
LEMMA Upwards ==
  ASSUME NEW n \in Nat, NEW T, 0 \in T, \A k \in 1..n : k - 1 \in T => k \in T
  PROVE  \A k \in 0..n : k \in T
<1> SUFFICES ASSUME NEW k \in 0..n, k \notin T PROVE FALSE
  OBVIOUS
<1> DEFINE rest == {m \in 0..n : m \notin T}
<1>1. rest \in SUBSET Nat /\ rest # {}
  OBVIOUS
<1>2. PICK m \in rest : \A l \in rest : m <= l
  BY <1>1, LeastOfNats
<1>3. m \in 1..n /\ m - 1 \in 0..n
  BY <1>2
<1>4. m - 1 \in T
  BY <1>2, <1>3
<1> QED
  BY <1>2, <1>3, <1>4

\* f takes the steps from start on.
Stepping(f, S, start, n, step) ==
  f \in [0..n -> S] /\ f[0] = start /\ \A k \in 1..n : f[k] = step[k][f[k - 1]]

\* A start and a step for every number up to n make a function.
LEMMA StepByStep ==
  ASSUME NEW S, NEW start \in S, NEW n \in Nat, NEW step \in [1..n -> [S -> S]]
  PROVE  \E f : Stepping(f, S, start, n, step)
<1> DEFINE Good(m, f) ==
      f \in [0..m -> S] /\ f[0] = start /\ \A k \in 1..m : f[k] = step[k][f[k - 1]]
    T == {m \in 0..n : \E f : Good(m, f)}
<1>1. 0 \in T
  <2>1. Good(0, [k \in 0..0 |-> start])
    OBVIOUS
  <2>2. 0 \in 0..n
    OBVIOUS
  <2> HIDE DEF Good
  <2> QED
    BY <2>1, <2>2
<1> HIDE DEF Good
<1>2. ASSUME NEW l \in 1..n, l - 1 \in T PROVE l \in T
  <2> DEFINE m == l - 1
  <2>1. m \in Nat /\ m <= n /\ m + 1 \in 1..n /\ m + 1 = l
    OBVIOUS
  <2>2. PICK f : Good(m, f)
    BY <1>2
  <2> HIDE DEF m
  <2> DEFINE g == [k \in 0 .. m + 1 |-> IF k = m + 1 THEN step[m + 1][f[m]] ELSE f[k]]
  <2>3. step[m + 1][f[m]] \in S
    BY <2>1, <2>2 DEF Good
  <2>4. g \in [0 .. m + 1 -> S] /\ g[0] = start
    BY <2>1, <2>2, <2>3 DEF Good
  <2>5. ASSUME NEW k \in 1 .. m + 1 PROVE g[k] = step[k][g[k - 1]]
    <3>1. CASE k = m + 1
      BY <2>1, <3>1
    <3>2. CASE k # m + 1
      <4>1. k \in 1..m /\ k - 1 \in 0..m /\ g[k] = f[k] /\ g[k - 1] = f[k - 1]
        BY <2>1, <3>2
      <4> QED
        BY <2>2, <4>1 DEF Good
    <3> QED
      BY <3>1, <3>2
  <2> HIDE DEF g
  <2>6. Good(l, g)
    BY <2>1, <2>4, <2>5 DEF Good
  <2> QED
    BY <2>6
<1> HIDE DEF T
<1>3. n \in T
  <2>1. \A k \in 1..n : k - 1 \in T => k \in T
    BY <1>2
  <2>2. \A k \in 0..n : k \in T
    BY <1>1, <2>1, Upwards
  <2> QED
    BY <2>2
<1> QED
  BY <1>3 DEF T, Good, Stepping

-------------------------------------------------------------------------------
\* The transitions of the product

\* A transition has the fields of a transition.
IsTransition(t) ==
  t \in [from: {t.from}, to: {t.to}, edge: {t.edge}, at: {t.at}, goes: {t.goes},
         guards: {t.guards}, shared: {t.shared}, sets: {t.sets}, zeroes: {t.zeroes}]

\* Where transitions come from and at what level, and what a pause location is.
WellMade(t) ==
  /\ IsTransition(t)
  /\ t.at \in Levels \union {NoLevel}
  /\ t.goes \in {t.at, IF t.at = NoLevel THEN NoLevel ELSE NextId(t.at)}
  /\ t.edge \in edges \union {None}
  /\ t.shared \in BOOLEAN /\ t.zeroes \in BOOLEAN

\* The guard of a conjunct of sub-expression i is part of gs.
HasTerm(i, gs) == \E k \in DOMAIN Terms(i) : PredGuards(Terms(i)[k]) \subseteq gs

\* From the pause location that t enters, u goes on: it asks for nothing that t
\* did not ask for, but for what has been appended behind the level guard.
GoesOn(t, u) ==
  /\ u.from = t.to /\ u.at = t.at
  /\ u.guards \subseteq t.guards
  /\ u.shared => HasTerm(u.at, t.guards)
  /\ u.to = Final /\ IsTemporal(feature) => u.zeroes \/ LateFinal(u.at)

ChainOf(ts) ==
  \A t \in ts : IsPause(t.to) =>
    /\ t.at \in Levels /\ t.goes = t.at /\ ~t.shared
    /\ \E u \in ts : GoesOn(t, u)

Chained == ChainOf(trans)

\* Behind a level guard there is only what RetainOpen has appended.
TailsLeak == \A i \in Levels : tail[i] \subseteq LeakedGuards(i)

Placed ==
  /\ pc = "sweep" => id \in Levels
  /\ \A t \in trans : WellMade(t)

IInv == TypeOK /\ Placed /\ Chained /\ TailsLeak

-------------------------------------------------------------------------------
\* Features

TermSet == [ctx: {None} \union 1..LastLoc, preds: SUBSET Preds, first: BOOLEAN]

Atoms == {"pred"} \X Preds

LEMMA SequenceFacts ==
  ASSUME NEW s, IsSequence(s)
  PROVE  Len(s) \in Nat /\ DOMAIN s = 1..Len(s) /\ \A x : Len(s \o <<x>>) \in Nat
<1> DEFINE S == {s[k] : k \in DOMAIN s}
<1>1. s \in Seq(S)
  BY DEF IsSequence
<1> HIDE DEF S
<1>2. \A x : s \in Seq(S \union {x}) /\ <<x>> \in Seq(S \union {x})
  BY <1>1
<1> QED
  BY <1>1, <1>2

LEMMA FeatureFacts ==
  ASSUME feature \in Features
  PROVE  /\ Len(feature) \in Nat \ {0}
         /\ \A i \in Levels : /\ Sub(i).dnf \in Seq(TermSet)
                              /\ Terms(i) \in Seq(TermSet)
                              /\ Len(Assigned(i)) \in Nat
<1>1. Len(feature) \in Nat \ {0} /\ DOMAIN feature = 1..Len(feature)
  <2>1. IsSequence(feature) /\ feature # << >>
    BY LevelAssumption
  <2>2. Len(feature) # 0
    <3> DEFINE S == {feature[k] : k \in DOMAIN feature}
    <3>1. feature \in Seq(S)
      BY <2>1 DEF IsSequence
    <3> HIDE DEF S
    <3> QED
      BY <2>1, <3>1
  <2> QED
    BY <2>1, <2>2, SequenceFacts
<1>2. ASSUME NEW i \in Levels
      PROVE  /\ Sub(i).dnf \in Seq(TermSet)
             /\ Terms(i) \in Seq(TermSet)
             /\ Len(Assigned(i)) \in Nat
  <2>1. i + 1 \in DOMAIN feature
    BY <1>1 DEF Levels
  <2>2. Sub(i).dnf \in Seq(TermSet) /\ IsSequence(Sub(i).sets)
    BY <2>1, LevelAssumption DEF Sub, TermSet
  <2>3. <<[ctx |-> None, preds |-> {}, first |-> FALSE]>> \in Seq(TermSet)
    BY DEF TermSet
  <2>4. Terms(i) \in Seq(TermSet)
    BY <2>2, <2>3 DEF Terms, Conjuncts
  <2>5. Len(Assigned(i)) \in Nat
    <3> DEFINE s == Sub(i).sets
               S == {s[k] : k \in DOMAIN s}
    <3>1. s \in Seq(S)
      BY <2>2 DEF IsSequence
    <3> HIDE DEF s, S
    <3>2. Len(s \o << >>) \in Nat
      BY <3>1
    <3>3. Len(s \o <<Value>>) \in Nat
      BY <2>2, SequenceFacts DEF s
    <3> QED
      BY <3>2, <3>3 DEF Assigned, Assignments, Sub, s
  <2> QED
    BY <2>2, <2>4, <2>5
<1> QED
  BY <1>1, <1>2

LEMMA OpenGuardsTyped ==
  ASSUME feature \in Features, NEW i \in Levels, Open(i) # {}
  PROVE  OpenGuards(i) \subseteq Atoms
<1>1. Sub(i).dnf \in Seq(TermSet)
  BY FeatureFacts
<1>2. Open(i) \subseteq DOMAIN Sub(i).dnf /\ DOMAIN Sub(i).dnf \subseteq Nat
  BY <1>1 DEF Open
<1> DEFINE first == CHOOSE k \in Open(i) : \A m \in Open(i) : k <= m
<1>3. first \in Open(i)
  BY <1>2, LeastOfNats
<1>4. Sub(i).dnf[first] \in TermSet
  BY <1>1, <1>2, <1>3
<1> QED
  BY <1>4 DEF OpenGuards, PredGuards, Atoms, TermSet

-------------------------------------------------------------------------------
\* A match with its hops

LEMMA OrderedStep ==
  ASSUME NEW t, WellMade(t), t.at = id, id \in Levels, ~IsPause(t.to), NEW assigned,
         Len(assigned) \in Nat,
         t.shared => HasTerm(id, t.guards),
         t.to = Final /\ IsTemporal(feature) => t.zeroes \/ LateFinal(id)
  PROVE  /\ ChainOf(OrderedResets(t, assigned))
         /\ \A r \in OrderedResets(t, assigned) : WellMade(r)
<1>1. CASE Len(assigned) <= 1
  <2>1. OrderedResets(t, assigned) = {[t EXCEPT !.sets = assigned]}
    BY <1>1 DEF OrderedResets
  <2>2. [t EXCEPT !.sets = assigned].to = t.to /\ WellMade([t EXCEPT !.sets = assigned])
    BY DEF WellMade, IsTransition
  <2> QED
    BY <2>1, <2>2 DEF ChainOf
<1>2. CASE Len(assigned) > 1
  <2> DEFINE n == Len(assigned)
             last == LastHop(t, assigned)
             hop(k) == Hop(t, assigned, k)
  <2>1. OrderedResets(t, assigned) = {hop(k) : k \in 1 .. n - 1} \union {last}
    BY <1>2 DEF OrderedResets
  <2>2. /\ last.from = Pause(n - 1) /\ last.to = t.to /\ last.at = t.at
        /\ last.guards = t.guards /\ last.shared = t.shared /\ last.zeroes = t.zeroes
        /\ WellMade(last)
    <3>1. n - 1 # 0
      <4>1. n \in Nat /\ n > 1
        BY <1>2
      <4> HIDE DEF n
      <4> QED
        BY <4>1
    <3>2. Place(t, n - 1) = Pause(n - 1)
      BY <3>1 DEF Place
    <3>3. last.from = Place(t, n - 1)
      BY DEF LastHop, WellMade, IsTransition
    <3>4. /\ last.to = t.to /\ last.at = t.at
          /\ last.guards = t.guards /\ last.shared = t.shared /\ last.zeroes = t.zeroes
          /\ WellMade(last)
      BY DEF LastHop, WellMade, IsTransition
    <3> QED
      BY <3>2, <3>3, <3>4
  <2>3. ASSUME NEW k \in 1 .. n - 1
        PROVE  /\ hop(k).from = Place(t, k - 1) /\ hop(k).to = Pause(k)
               /\ hop(k).at = t.at /\ hop(k).goes = t.at
               /\ hop(k).guards = When(t) /\ hop(k).shared = FALSE
               /\ WellMade(hop(k))
    BY DEF Hop, WellMade, IsTransition
  <2>4. t.guards \subseteq When(t)
    BY DEF When
  <2>5. GoesOn(hop(n - 1), last)
    <3>1. n - 1 \in 1 .. n - 1
      BY <1>2
    <3>2. last.shared => HasTerm(last.at, hop(n - 1).guards)
      BY <2>2, <2>3, <2>4, <3>1 DEF HasTerm
    <3> QED
      BY <2>2, <2>3, <2>4, <3>1, <3>2 DEF GoesOn
  <2>6. ASSUME NEW k \in 1 .. n - 2
        PROVE  GoesOn(hop(k), hop(k + 1))
    <3>1. k \in 1 .. n - 1 /\ k + 1 \in 1 .. n - 1
      OBVIOUS
    <3>2. hop(k + 1).from = Pause(k)
      <4>1. hop(k + 1).from = Place(t, (k + 1) - 1)
        BY <2>3, <3>1
      <4>2. (k + 1) - 1 = k /\ k # 0
        OBVIOUS
      <4> QED
        BY <4>1, <4>2 DEF Place
    <3>3. Pause(k + 1) # Final
      BY DEF Pause, Final
    <3> QED
      BY <2>3, <3>1, <3>2, <3>3 DEF GoesOn
  <2>7. ChainOf(OrderedResets(t, assigned))
    <3> SUFFICES ASSUME NEW r \in OrderedResets(t, assigned), IsPause(r.to)
                 PROVE  /\ r.at \in Levels /\ r.goes = r.at /\ ~r.shared
                        /\ \E u \in OrderedResets(t, assigned) : GoesOn(r, u)
      BY DEF ChainOf
    <3>1. PICK k \in 1 .. n - 1 : r = hop(k)
      BY <2>1, <2>2
    <3>2. k = n - 1 \/ k \in 1 .. n - 2
      BY <3>1
    <3>3. \E u \in OrderedResets(t, assigned) : GoesOn(r, u)
      BY <2>1, <2>5, <2>6, <3>1, <3>2
    <3> QED
      BY <2>3, <3>1, <3>3
  <2> QED
    BY <2>1, <2>2, <2>3, <2>7
<1> QED
  BY <1>1, <1>2

-------------------------------------------------------------------------------
\* The steps of the construction

LEMMA InitIInv == Init => IInv
<1> SUFFICES ASSUME Init PROVE IInv
  OBVIOUS
<1>1. /\ Len(feature) \in Nat \ {0}
      /\ feature \in Features
  BY FeatureFacts DEF Init
<1>2. ASSUME NEW t \in trans
      PROVE  WellMade(t) /\ ~IsPause(t.to)
  <2>1. PICK e \in edges : t = Original(e)
    BY DEF Init
  <2> QED
    BY <2>1 DEF Original, WellMade, IsTransition, IsPause
<1>3. TypeOK
  <2>1. tail \in [Levels -> SUBSET ({"pred"} \X Preds)]
    BY DEF Init
  <2>2. id \in 0 .. Len(feature) /\ here \in Locs /\ dnfID \in Nat \ {0}
    BY <1>1, LevelAssumption DEF Init, Locs
  <2> QED
    BY <1>1, <1>2, <2>1, <2>2 DEF TypeOK, Init, WellMade
<1>4. Placed /\ Chained /\ TailsLeak
  BY <1>1, <1>2 DEF Init, Placed, Chained, ChainOf, TailsLeak, Levels
<1> QED
  BY <1>3, <1>4 DEF IInv

\* A conjunct of a location and its matches.
LEMMA TermStep ==
  ASSUME IInv, NextTerm, pc = "sweep", NEW new, trans' = trans \union new,
         ChainOf(new), \A t \in new : WellMade(t)
  PROVE  IInv'
<1>1. UNCHANGED <<edges, feature, id, here, tail, pc>> /\ dnfID' \in Nat \ {0}
  BY DEF NextTerm, IInv, TypeOK
<1>2. \A t : WellMade(t)' = WellMade(t)
  BY <1>1 DEF WellMade, Levels, NextId, IsLast
<1>3. Placed'
  BY <1>1 DEF IInv, Placed, WellMade, Levels, NextId, IsLast
<1>4. Chained'
  <2>1. ChainOf(trans')
    BY DEF IInv, Chained, ChainOf
  <2>2. \A t, u : GoesOn(t, u)' = GoesOn(t, u)
    BY <1>1 DEF GoesOn, HasTerm, Terms, Sub, LateFinal, IsLast
  <2> QED
    BY <1>1, <2>1, <2>2 DEF Chained, ChainOf, Levels
<1>5. TailsLeak'
  BY <1>1 DEF IInv, TailsLeak, Levels, LeakedGuards, FirstEvent, Open, OpenGuards, Sub
<1>6. TypeOK'
  BY <1>1, <1>3 DEF IInv, TypeOK, Placed, WellMade, Levels, Locs, NextId, IsLast
<1> QED
  BY <1>3, <1>4, <1>5, <1>6 DEF IInv

\* The end of a location: none of the transitions added enters a pause location.
LEMMA LocationStep ==
  ASSUME IInv, NextLocation, NEW new, trans' = trans \union new,
         \A t \in new : WellMade(t) /\ ~IsPause(t.to),
         tail' \in [Levels -> SUBSET Atoms], \A i \in Levels : tail'[i] \subseteq LeakedGuards(i)
  PROVE  IInv'
<1>1. UNCHANGED <<edges, feature>> /\ dnfID' = 1 /\ pc = "sweep" /\ id \in Levels
  BY DEF NextLocation, IInv, Placed
<1>2. Len(feature) \in Nat \ {0} /\ LastLoc \in Nat \ {0}
  BY FeatureFacts, LevelAssumption DEF IInv, TypeOK
<1>3. /\ here' \in Locs /\ id' \in 0 .. Len(feature) /\ pc' \in {"sweep", "gate"}
      /\ pc' = "sweep" => id' \in Levels
  BY <1>1, <1>2 DEF NextLocation, IsLast, Levels, Locs, IInv, TypeOK
<1>4. /\ \A t : WellMade(t)' = WellMade(t)
      /\ \A t, u : GoesOn(t, u)' = GoesOn(t, u)
      /\ Levels' = Levels
      /\ \A i : LeakedGuards(i)' = LeakedGuards(i)
  <2>1. \A t : WellMade(t)' = WellMade(t)
    BY <1>1 DEF WellMade, Levels, NextId, IsLast
  <2>2. \A t, u : GoesOn(t, u)' = GoesOn(t, u)
    BY <1>1 DEF GoesOn, HasTerm, Terms, Sub, LateFinal, IsLast
  <2>3. \A i : LeakedGuards(i)' = LeakedGuards(i)
    BY <1>1 DEF LeakedGuards, FirstEvent, Open, OpenGuards, Sub
  <2> QED
    BY <1>1, <2>1, <2>2, <2>3 DEF Levels
<1>5. \A t \in trans' : WellMade(t)'
  BY <1>4 DEF IInv, Placed
<1>6. Placed' /\ TailsLeak'
  BY <1>3, <1>4, <1>5 DEF Placed, TailsLeak
<1>7. Chained'
  BY <1>4 DEF IInv, Chained, ChainOf
<1>8. TypeOK'
  BY <1>1, <1>3, <1>5 DEF IInv, TypeOK, WellMade, Atoms, Levels, Locs
<1> QED
  BY <1>6, <1>7, <1>8 DEF IInv

\* The original transitions are gated; none of them is part of a chain.
LEMMA GateStep == IInv /\ Gate => IInv'
<1> SUFFICES ASSUME IInv, Gate PROVE IInv'
  OBVIOUS
<1>1. UNCHANGED <<edges, feature, id, here, dnfID, tail>> /\ pc' = "built"
  BY DEF Gate
<1> DEFINE gated(t) == IF t.at = NoLevel THEN [t EXCEPT !.at = 0, !.goes = 0] ELSE t
<1>2. trans' = {gated(t) : t \in trans}
  BY DEF Gate
<1>3. 0 \in Levels /\ NoLevel \notin Levels
  BY FeatureFacts DEF IInv, TypeOK, Levels, NoLevel
<1>4. ASSUME NEW t \in trans
      PROVE  /\ WellMade(gated(t))
             /\ gated(t).to = t.to /\ gated(t).from = t.from /\ gated(t).guards = t.guards
             /\ gated(t).shared = t.shared /\ gated(t).zeroes = t.zeroes
             /\ t.at \in Levels => gated(t) = t
  BY <1>3 DEF IInv, Placed, WellMade, IsTransition
<1>5. /\ \A t : WellMade(t)' = WellMade(t)
      /\ \A t, u : GoesOn(t, u)' = GoesOn(t, u)
  <2>1. \A t : WellMade(t)' = WellMade(t)
    BY <1>1 DEF WellMade, Levels, NextId, IsLast
  <2>2. \A t, u : GoesOn(t, u)' = GoesOn(t, u)
    BY <1>1 DEF GoesOn, HasTerm, Terms, Sub, LateFinal, IsLast
  <2> QED
    BY <2>1, <2>2
<1>6. \A t \in trans' : WellMade(t)'
  BY <1>2, <1>4, <1>5
<1>7. ChainOf(trans')
  <2> SUFFICES ASSUME NEW r \in trans', IsPause(r.to)
               PROVE  /\ r.at \in Levels /\ r.goes = r.at /\ ~r.shared
                      /\ \E u \in trans' : GoesOn(r, u)
    BY DEF ChainOf
  <2>0. PICK t \in trans : r = gated(t)
    BY <1>2
  <2>1. IsPause(t.to)
    BY <1>4, <2>0
  <2>2. t.at \in Levels /\ t.goes = t.at /\ ~t.shared /\ \E u \in trans : GoesOn(t, u)
    BY <2>1 DEF IInv, Chained, ChainOf
  <2>3. PICK u \in trans : GoesOn(t, u)
    BY <2>2
  <2>4. gated(u) = u /\ gated(t) = t
    BY <1>4, <2>2, <2>3 DEF GoesOn
  <2>5. u \in trans'
    BY <1>2, <2>4
  <2> QED
    BY <2>0, <2>2, <2>3, <2>4, <2>5
<1>8. Chained' /\ Placed' /\ TailsLeak'
  <2>1. Chained'
    BY <1>1, <1>5, <1>7 DEF Chained, ChainOf, Levels
  <2>2. TailsLeak'
    BY <1>1 DEF IInv, TailsLeak, Levels, LeakedGuards, FirstEvent, Open, OpenGuards, Sub
  <2> QED
    BY <1>1, <1>6, <2>1, <2>2 DEF Placed
<1>9. TypeOK'
  BY <1>1, <1>6 DEF IInv, TypeOK, WellMade, Levels, Locs
<1> QED
  BY <1>8, <1>9 DEF IInv

LEMMA StepIInv == IInv /\ [Next]_vars => IInv'
<1> SUFFICES ASSUME IInv, [Next]_vars PROVE IInv'
  OBVIOUS
<1>0. feature \in Features /\ \A i \in Levels : Len(Assigned(i)) \in Nat
  BY FeatureFacts DEF IInv, TypeOK
<1>1. CASE SkipTerm
  <2>1. trans' = trans \union {}
    BY <1>1 DEF SkipTerm
  <2>2. ChainOf({})
    BY DEF ChainOf
  <2> QED
    BY <1>1, <2>1, <2>2, TermStep DEF SkipTerm
<1>2. CASE MatchByLoop
  <2> DEFINE t == SelfLoop(id, here, Term)
             new == OrderedResets(t, Assigned(id))
  <2>1. id \in Levels /\ pc = "sweep" /\ dnfID \in DOMAIN Terms(id) /\ ~IsStateEvent(Sub(id))
    BY <1>2 DEF MatchByLoop, IInv, Placed
  <2>2. WellMade(t) /\ t.at = id
    <3>1. id # NoLevel
      BY <1>0, <2>1 DEF Levels, NoLevel
    <3>2. t.shared \in BOOLEAN /\ t.zeroes \in BOOLEAN
      BY DEF SelfLoop, EventOnly, IsLast, IsTemporal
    <3>3. IsTransition(t) /\ t.at = id /\ t.goes = NextId(id) /\ t.edge = None
      BY DEF SelfLoop, IsTransition
    <3> QED
      BY <2>1, <3>1, <3>2, <3>3 DEF WellMade
  <2>3. ~IsPause(t.to)
    BY DEF SelfLoop, IsPause, Final
  <2>4. HasTerm(id, t.guards)
    BY <2>1 DEF SelfLoop, HasTerm, Term
  <2>5. t.to = Final /\ IsTemporal(feature) => t.zeroes \/ LateFinal(id)
    <3>1. t.to = Final => IsLast(id)
      BY DEF SelfLoop, Final
    <3> QED
      BY <2>1, <3>1 DEF SelfLoop, LateFinal
  <2>6. ChainOf(new) /\ \A r \in new : WellMade(r)
    BY <1>0, <2>1, <2>2, <2>3, <2>4, <2>5, OrderedStep
  <2> QED
    BY <1>2, <2>6, TermStep DEF MatchByLoop
<1>3. CASE MatchOnEdges
  <2> DEFINE t(e) == OnEdge(id, e, Term)
             of(e) == OrderedResets(t(e), Assigned(id))
             new == UNION {of(e) : e \in EventEdges(id, here)}
  <2>1. id \in Levels /\ pc = "sweep"
    BY <1>3 DEF MatchOnEdges, IInv, Placed
  <2>2. ASSUME NEW e \in EventEdges(id, here)
        PROVE  ChainOf(of(e)) /\ \A r \in of(e) : WellMade(r)
    <3>1. e \in edges
      BY DEF EventEdges
    <3>2. WellMade(t(e)) /\ t(e).at = id /\ ~t(e).shared
      <4>1. id # NoLevel
        BY <1>0, <2>1 DEF Levels, NoLevel
      <4>2. t(e).shared = FALSE /\ t(e).zeroes \in BOOLEAN
        BY DEF OnEdge, IsLast
      <4>3. IsTransition(t(e)) /\ t(e).at = id /\ t(e).goes = NextId(id) /\ t(e).edge = e
        BY DEF OnEdge, IsTransition
      <4> QED
        BY <2>1, <3>1, <4>1, <4>2, <4>3 DEF WellMade
    <3>3. ~IsPause(t(e).to)
      BY DEF OnEdge, IsPause, Final
    <3>4. t(e).to = Final => t(e).zeroes
      BY DEF OnEdge, Final
    <3> QED
      BY <1>0, <2>1, <3>2, <3>3, <3>4, OrderedStep
  <2>3. ChainOf(new) /\ \A r \in new : WellMade(r)
    BY <2>2 DEF ChainOf
  <2> QED
    BY <1>3, <2>3, TermStep DEF MatchOnEdges
<1>4. CASE RetainAll \/ RetainOpen \/ RetainNone
  <2> DEFINE waiting == {Waiting(id, e) : e \in Leaving}
  <2>1. NextLocation /\ id \in Levels
    BY <1>4 DEF RetainAll, RetainOpen, RetainNone, NextLocation, IInv, Placed
  <2>2. \A t \in waiting : WellMade(t) /\ ~IsPause(t.to)
    <3> SUFFICES ASSUME NEW e \in edges
                 PROVE  WellMade(Waiting(id, e)) /\ ~IsPause(Waiting(id, e).to)
      BY DEF Leaving
    <3> DEFINE t == Waiting(id, e)
    <3> DEFINE o == Original(e)
    <3>1. /\ IsTransition(o) /\ o.edge = e /\ o.to = <<e.to>>
          /\ o.shared = FALSE /\ o.zeroes = FALSE
      BY DEF Original, IsTransition
    <3>2. t = [o EXCEPT !.at = id, !.goes = id, !.shared = TRUE]
      BY DEF Waiting
    <3> HIDE DEF o, t
    <3>3. /\ IsTransition(t) /\ t.at = id /\ t.goes = id /\ t.edge = e
          /\ t.shared = TRUE /\ t.zeroes = FALSE /\ t.to = <<e.to>>
      BY <3>1, <3>2 DEF IsTransition
    <3>4. WellMade(t)
      BY <2>1, <3>3 DEF WellMade
    <3>5. ~IsPause(t.to)
      BY <3>3 DEF IsPause
    <3> QED
      BY <3>4, <3>5 DEF t
  <2>3. PICK new \in {waiting, {}} : trans' = trans \union new
    BY <1>4 DEF RetainAll, RetainOpen, RetainNone
  <2>4. /\ tail' \in [Levels -> SUBSET Atoms]
        /\ \A i \in Levels : tail'[i] \subseteq LeakedGuards(i)
    <3>1. tail \in [Levels -> SUBSET Atoms] /\ \A i \in Levels : tail[i] \subseteq LeakedGuards(i)
      BY DEF IInv, TypeOK, TailsLeak, Atoms
    <3>2. CASE RetainOpen
      <4>1. OpenGuards(id) \subseteq Atoms
        BY <1>0, <2>1, <3>2, OpenGuardsTyped DEF RetainOpen
      <4>2. OpenGuards(id) \subseteq LeakedGuards(id)
        BY <3>2 DEF RetainOpen, LeakedGuards
      <4> QED
        BY <2>1, <3>1, <3>2, <4>1, <4>2 DEF RetainOpen
    <3> QED
      BY <1>4, <3>1, <3>2 DEF RetainAll, RetainNone
  <2> QED
    BY <2>1, <2>2, <2>3, <2>4, LocationStep
<1>5. CASE Gate
  BY <1>5, GateStep
<1>6. CASE UNCHANGED vars
  <2>1. /\ \A t : WellMade(t)' = WellMade(t)
        /\ \A t, u : GoesOn(t, u)' = GoesOn(t, u)
    BY <1>6 DEF vars, WellMade, Levels, NextId, IsLast, GoesOn, HasTerm, Terms, Sub, LateFinal
  <2>2. Placed' /\ Chained'
    BY <1>6, <2>1 DEF vars, IInv, Placed, Chained, ChainOf, Levels
  <2>3. \A i : LeakedGuards(i)' = LeakedGuards(i)
    BY <1>6 DEF vars, LeakedGuards, FirstEvent, Open, OpenGuards, Sub
  <2>4. TailsLeak'
    BY <1>6, <2>3 DEF vars, IInv, TailsLeak, Levels
  <2>5. TypeOK'
    BY <1>6, <2>2 DEF vars, IInv, TypeOK, Placed, WellMade, Levels, Locs
  <2> QED
    BY <2>2, <2>4, <2>5 DEF IInv
<1> QED
  BY <1>1, <1>2, <1>3, <1>4, <1>5, <1>6 DEF Next, Build, Built

-------------------------------------------------------------------------------
\* What every transition is there for

\* The atoms of the match of conjunct k in location l, on transition e (None for a
\* self-loop).
Own(i, l, k, e) ==
  TemporalGuards(i) \union EventGuards(i, l) \union PredGuards(Terms(i)[k])
    \union IF e = None THEN {} ELSE {<<"edge", e>>}

\* Location l can satisfy conjunct k, and the event happens on e.
Chosen(i, l, k, e) ==
  /\ l \in Locs /\ k \in DOMAIN Terms(i) /\ Terms(i)[k].ctx \in {None, l}
  /\ IF IsStateEvent(Sub(i)) THEN e \in EventEdges(i, l) ELSE e = None

\* Where the n-th hop of the match leads; the match starts at the 0-th.
Stop(i, l, k, n) == IF n = 0 THEN <<l>> ELSE <<l, i, TermNr(i, k), n>>

Goal(i, l, e) == IF IsLast(i) THEN Final ELSE IF e = None THEN <<l>> ELSE <<e.to>>

\* Transitions of a match: a hop before each assignment but the last.
Steps(i) == IF Len(Assigned(i)) <= 1 THEN 1 ELSE Len(Assigned(i))

HopsTo(t, l, k, j) ==
  /\ t.from = Stop(t.at, l, k, j - 1) /\ t.to = Stop(t.at, l, k, j)
  /\ t.goes = t.at /\ t.sets = <<Assigned(t.at)[j]>>

Arrives(t, l, k, e) ==
  /\ t.from = Stop(t.at, l, k, Steps(t.at) - 1) /\ t.to = Goal(t.at, l, e)
  /\ t.goes = NextId(t.at)
  /\ t.sets = IF Len(Assigned(t.at)) <= 1 THEN Assigned(t.at)
              ELSE <<Assigned(t.at)[Len(Assigned(t.at))]>>

Matching(t) ==
  /\ t.at \in Levels
  /\ \E l, k, e :
       /\ Chosen(t.at, l, k, e) /\ t.edge = e /\ Own(t.at, l, k, e) \subseteq t.guards
       /\ \/ Arrives(t, l, k, e)
          \/ \E j \in 1 .. Len(Assigned(t.at)) - 1 : HopsTo(t, l, k, j)

\* The sweep is past location l for sub-expression i.
Passed(i, l) == pc # "sweep" \/ i < id \/ (i = id /\ l < here)

Moving(t) ==
  /\ t.edge \in edges /\ t.from = <<t.edge.from>> /\ t.to = <<t.edge.to>>
  /\ t.sets = << >> /\ t.goes = t.at /\ <<"edge", t.edge>> \in t.guards
  /\ t.at \in Levels => Passed(t.at, t.edge.from)

Sound == \A t \in trans : IsTransition(t) /\ (Matching(t) \/ Moving(t))

\* What is retained.
Kept ==
  \A i \in Levels, l \in Locs :
    i # 0 /\ Passed(i, l) /\ Hopeless(i, l) /\ LeakedGuards(i) = {} =>
      \A e \in edges : e.from = l => Waiting(i, e) \in trans

\* The transitions of a match, one after the other.
Chain(c, ts, i, l, k, e) ==
  /\ c \in [1..Steps(i) -> ts]
  /\ c[1].from = <<l>>
  /\ \A j \in 1 .. Steps(i) - 1 :
       c[j].to = c[j + 1].from /\ IsPause(c[j].to) /\ c[j].goes = i
  /\ \A j \in 1 .. Steps(i) :
       c[j].at = i /\ c[j].guards \subseteq Own(i, l, k, e) \union LeakedGuards(i)
  /\ LET t == c[Steps(i)] IN
     /\ t.to = Goal(i, l, e) /\ t.goes = NextId(i)
     /\ IsLast(i) /\ IsTemporal(feature) => t.zeroes \/ LateFinal(i)

\* The conjuncts the sweep is done with.
Done(i, l, k) == Passed(i, l) \/ (i = id /\ l = here /\ k < dnfID)

Made ==
  \A i \in Levels, l \in Locs : \A k \in DOMAIN Terms(i) : \A e \in edges \union {None} :
    Chosen(i, l, k, e) /\ Done(i, l, k) => \E c : Chain(c, trans, i, l, k, e)

RInv == Sound /\ Kept /\ Made

LEMMA FrameFeature ==
  ASSUME UNCHANGED <<edges, feature>>
  PROVE  /\ Levels' = Levels
         /\ \A i : /\ Sub(i)' = Sub(i) /\ Terms(i)' = Terms(i) /\ Assigned(i)' = Assigned(i)
                   /\ IsLast(i)' = IsLast(i) /\ NextId(i)' = NextId(i)
                   /\ LeakedGuards(i)' = LeakedGuards(i) /\ LateFinal(i)' = LateFinal(i)
                   /\ Steps(i)' = Steps(i)
         /\ \A i, l, k, e : Own(i, l, k, e)' = Own(i, l, k, e)
         /\ \A i, l, k, e : Chosen(i, l, k, e)' = Chosen(i, l, k, e)
         /\ \A i, l, k, j : Stop(i, l, k, j)' = Stop(i, l, k, j)
         /\ \A i, l, e : Goal(i, l, e)' = Goal(i, l, e)
<1>1. \A i : Sub(i)' = Sub(i)
  BY DEF Sub
<1>2. \A i : Terms(i)' = Terms(i) /\ Assigned(i)' = Assigned(i) /\ IsLast(i)' = IsLast(i)
  BY <1>1 DEF Terms, Assigned, IsLast
<1>3. \A i : NextId(i)' = NextId(i) /\ Steps(i)' = Steps(i)
  BY <1>2 DEF NextId, Steps
<1>4. \A i : LeakedGuards(i)' = LeakedGuards(i)
  BY DEF LeakedGuards, FirstEvent, Open, OpenGuards, Sub
<1>5. \A i : LateFinal(i)' = LateFinal(i)
  BY <1>1, <1>2 DEF LateFinal
<1>6. \A i, l, k, e : Own(i, l, k, e)' = Own(i, l, k, e)
  <2>1. \A i, l : EventGuards(i, l)' = EventGuards(i, l)
    BY <1>1 DEF EventGuards
  <2> QED
    BY <1>1, <1>2, <2>1 DEF Own, TemporalGuards
<1>7. \A i, l, k, e : Chosen(i, l, k, e)' = Chosen(i, l, k, e)
  <2>1. \A i, l : EventEdges(i, l)' = EventEdges(i, l)
    BY <1>1 DEF EventEdges
  <2> QED
    BY <1>1, <1>2, <2>1 DEF Chosen
<1>8. \A i, l, k, j : Stop(i, l, k, j)' = Stop(i, l, k, j)
  BY <1>1 DEF Stop, TermNr
<1>9. \A i, l, e : Goal(i, l, e)' = Goal(i, l, e)
  BY <1>2 DEF Goal
<1>10. Levels' = Levels
  BY DEF Levels
<1> QED
  BY <1>1, <1>2, <1>3, <1>4, <1>5, <1>6, <1>7, <1>8, <1>9, <1>10

LEMMA FrameMatching ==
  ASSUME UNCHANGED <<edges, feature>>
  PROVE  /\ \A t : Matching(t)' = Matching(t)
         /\ \A c, ts, i, l, k, e : Chain(c, ts, i, l, k, e)' = Chain(c, ts, i, l, k, e)
<1>1. \A t, l, k, j : HopsTo(t, l, k, j)' = HopsTo(t, l, k, j)
  BY FrameFeature DEF HopsTo
<1>2. \A t, l, k, e : Arrives(t, l, k, e)' = Arrives(t, l, k, e)
  BY FrameFeature DEF Arrives
<1>3. \A t : Matching(t)' = Matching(t)
  BY <1>1, <1>2, FrameFeature DEF Matching
<1>4. \A c, ts, i, l, k, e : Chain(c, ts, i, l, k, e)' = Chain(c, ts, i, l, k, e)
  BY FrameFeature DEF Chain
<1> QED
  BY <1>3, <1>4

LEMMA FrameHopeless ==
  ASSUME UNCHANGED <<edges, feature>>
  PROVE  \A i, l : Hopeless(i, l)' = Hopeless(i, l)
<1>1. Instants' = Instants
  BY DEF Instants
<1>2. \A i : Sub(i)' = Sub(i)
  BY DEF Sub
<1> QED
  BY <1>1, <1>2 DEF Hopeless

\* A match and its hops.
LEMMA MatchMade ==
  ASSUME feature \in Features, id \in Levels, here \in Locs, NEW e, Chosen(id, here, dnfID, e),
         NEW t, IsTransition(t), t.at = id, t.edge = e,
         t.from = <<here>>, t.to = Goal(id, here, e), t.goes = NextId(id),
         Own(id, here, dnfID, e) \subseteq t.guards,
         When(t) \subseteq Own(id, here, dnfID, e) \union LeakedGuards(id),
         IsLast(id) /\ IsTemporal(feature) => t.zeroes \/ LateFinal(id)
  PROVE  /\ \A r \in OrderedResets(t, Assigned(id)) : IsTransition(r) /\ Matching(r)
         /\ \E c : Chain(c, OrderedResets(t, Assigned(id)), id, here, dnfID, e)
<1> DEFINE n == Len(Assigned(id))
           made == OrderedResets(t, Assigned(id))
<1>0. n \in Nat
  BY FeatureFacts
<1>a. t.guards \subseteq When(t)
  BY DEF When
<1>1. CASE n <= 1
  <2> DEFINE r == [t EXCEPT !.sets = Assigned(id)]
  <2>1. made = {r} /\ Steps(id) = 1
    BY <1>1 DEF OrderedResets, Steps
  <2>2. /\ IsTransition(r) /\ r.at = id /\ r.edge = e /\ r.from = <<here>> /\ r.to = t.to
        /\ r.goes = t.goes /\ r.guards = t.guards /\ r.zeroes = t.zeroes
        /\ r.sets = Assigned(id)
    BY DEF IsTransition
  <2> HIDE DEF r
  <2>3. Arrives(r, here, dnfID, e)
    BY <1>1, <2>1, <2>2 DEF Arrives, Stop
  <2>4. Matching(r)
    BY <2>2, <2>3 DEF Matching
  <2> DEFINE c == [j \in 1..1 |-> r]
  <2>5. c \in [1..Steps(id) -> made] /\ c[1] = r
    BY <2>1
  <2> HIDE DEF c
  <2>6. Chain(c, made, id, here, dnfID, e)
    <3>1. \A j \in 1 .. Steps(id) - 1 : FALSE
      BY <2>1
    <3>2. \A j \in 1..Steps(id) : c[j] = r
      BY <2>1, <2>5
    <3>3. r.guards \subseteq Own(id, here, dnfID, e) \union LeakedGuards(id)
      BY <1>a, <2>2
    <3> HIDE DEF made
    <3> QED
      BY <2>1, <2>2, <2>5, <3>1, <3>2, <3>3 DEF Chain
  <2> QED
    BY <2>1, <2>2, <2>4, <2>6
<1>2. CASE n > 1
  <2> DEFINE last == LastHop(t, Assigned(id))
             hop(k) == Hop(t, Assigned(id), k)
  <2>1. made = {hop(k) : k \in 1 .. n - 1} \union {last} /\ Steps(id) = n
    BY <1>0, <1>2 DEF OrderedResets, Steps
  <2>2. \A j \in 0..n : Place(t, j) = Stop(id, here, dnfID, j)
    BY DEF Place, Stop, Pause
  <2>3. /\ last.from = Stop(id, here, dnfID, n - 1) /\ last.to = t.to /\ last.at = id
        /\ last.edge = e /\ last.goes = t.goes /\ last.guards = t.guards
        /\ last.zeroes = t.zeroes /\ last.sets = <<Assigned(id)[n]>> /\ IsTransition(last)
    <3>1. n - 1 \in 0..n
      BY <1>0, <1>2
    <3>2. last.from = Place(t, n - 1)
      BY DEF LastHop, IsTransition
    <3> QED
      BY <2>2, <3>1, <3>2 DEF LastHop, IsTransition
  <2>4. ASSUME NEW j \in 1 .. n - 1
        PROVE  /\ hop(j).from = Stop(id, here, dnfID, j - 1) /\ hop(j).to = Stop(id, here, dnfID, j)
               /\ hop(j).at = id /\ hop(j).edge = e /\ hop(j).goes = id
               /\ hop(j).guards = When(t) /\ hop(j).sets = <<Assigned(id)[j]>>
               /\ IsTransition(hop(j))
    <3>1. j - 1 \in 0..n /\ j \in 0..n /\ j # 0
      BY <1>0
    <3>2. hop(j).from = Place(t, j - 1) /\ hop(j).to = Pause(j)
      BY DEF Hop, IsTransition
    <3>3. Pause(j) = Stop(id, here, dnfID, j)
      BY <3>1 DEF Pause, Stop
    <3> QED
      BY <2>2, <3>1, <3>2, <3>3 DEF Hop, IsTransition
  <2> HIDE DEF hop, last
  <2>5. Matching(last)
    <3>1. Arrives(last, here, dnfID, e)
      BY <1>0, <1>2, <2>1, <2>3 DEF Arrives
    <3> QED
      BY <2>3, <3>1 DEF Matching
  <2>6. ASSUME NEW j \in 1 .. n - 1
        PROVE  Matching(hop(j))
    <3>1. HopsTo(hop(j), here, dnfID, j)
      BY <2>4 DEF HopsTo
    <3> QED
      BY <1>a, <2>4, <3>1 DEF Matching
  <2>7. \A r \in made : IsTransition(r) /\ Matching(r)
    BY <2>1, <2>3, <2>4, <2>5, <2>6
  <2> DEFINE c == [j \in 1..n |-> IF j = n THEN last ELSE hop(j)]
  <2>8. ASSUME NEW j \in 1..n
        PROVE  /\ c[j] \in made
               /\ c[j].from = Stop(id, here, dnfID, j - 1)
               /\ c[j].at = id /\ c[j].guards \subseteq When(t)
               /\ j # n => c[j].to = Stop(id, here, dnfID, j) /\ c[j].goes = id
    <3>1. CASE j = n
      BY <1>a, <2>1, <2>3, <3>1
    <3>2. CASE j # n
      <4>1. j \in 1 .. n - 1
        BY <1>0, <3>2
      <4> QED
        BY <2>1, <2>4, <3>2, <4>1
    <3> QED
      BY <3>1, <3>2
  <2>9. c \in [1..n -> made] /\ c[n] = last
    BY <1>0, <1>2, <2>8
  <2> HIDE DEF c, made
  <2>10. c[1].from = <<here>>
    <3>1. 1 \in 1..n /\ 1 - 1 = 0
      BY <1>0, <1>2
    <3>2. c[1].from = Stop(id, here, dnfID, 1 - 1)
      BY <2>8, <3>1
    <3> QED
      BY <3>1, <3>2 DEF Stop
  <2>11. ASSUME NEW j \in 1 .. n - 1
         PROVE  c[j].to = c[j + 1].from /\ IsPause(c[j].to) /\ c[j].goes = id
    <3>1. j \in 1..n /\ j + 1 \in 1..n /\ j # n /\ (j + 1) - 1 = j /\ j # 0
      BY <1>0
    <3>2. c[j].to = Stop(id, here, dnfID, j) /\ c[j].goes = id
      BY <2>8, <3>1
    <3>3. c[j + 1].from = Stop(id, here, dnfID, (j + 1) - 1)
      BY <2>8, <3>1
    <3>4. IsPause(Stop(id, here, dnfID, j))
      BY <3>1 DEF Stop, IsPause
    <3> QED
      BY <3>1, <3>2, <3>3, <3>4
  <2>12. ASSUME NEW j \in 1..n
         PROVE  c[j].at = id /\ c[j].guards \subseteq Own(id, here, dnfID, e) \union LeakedGuards(id)
    BY <2>8
  <2>13. Chain(c, made, id, here, dnfID, e)
    BY <2>1, <2>3, <2>9, <2>10, <2>11, <2>12 DEF Chain
  <2> QED
    BY <2>7, <2>13 DEF made
<1> QED
  BY <1>0, <1>1, <1>2

\* A chain in a larger set.
LEMMA ChainGrows ==
  ASSUME NEW ts, NEW us, ts \subseteq us, NEW c, NEW i, NEW l, NEW k, NEW e, Chain(c, ts, i, l, k, e)
  PROVE  Chain(c, us, i, l, k, e)
BY DEF Chain

\* A conjunct of a location and its matches.
LEMMA TermKeeps ==
  ASSUME IInv, RInv, NextTerm, pc = "sweep", NEW new, trans' = trans \union new,
         \A t \in new : IsTransition(t) /\ Matching(t),
         \A e \in edges \union {None} :
           Chosen(id, here, dnfID, e) => \E c : Chain(c, new, id, here, dnfID, e)
  PROVE  RInv'
<1>1. UNCHANGED <<edges, feature, id, here, tail, pc>> /\ dnfID' = dnfID + 1
  BY DEF NextTerm
<1>2. Sound'
  <2>1. \A t : Moving(t)' = Moving(t)
    BY <1>1 DEF Moving, Passed, Levels
  <2> QED
    BY <1>1, <2>1, FrameMatching DEF RInv, Sound
<1>3. Kept'
  <2>1. \A i, l, e : Passed(i, l)' = Passed(i, l) /\ Waiting(i, e)' = Waiting(i, e)
    BY <1>1 DEF Passed, Waiting
  <2>2. Locs' = Locs /\ Levels' = Levels
    BY <1>1 DEF Locs, Levels
  <2> QED
    BY <1>1, <2>1, <2>2, FrameHopeless, FrameFeature DEF RInv, Kept
<1>4. /\ Levels' = Levels /\ Locs' = Locs /\ edges' = edges
      /\ \A i : Terms(i)' = Terms(i)
      /\ \A i, l, k, e : Chosen(i, l, k, e)' = Chosen(i, l, k, e)
      /\ \A c, ts, i, l, k, e : Chain(c, ts, i, l, k, e)' = Chain(c, ts, i, l, k, e)
  BY <1>1, FrameFeature, FrameMatching DEF Locs
<1>5. Made'
  <2> SUFFICES ASSUME NEW i \in Levels, NEW l \in Locs, NEW k \in DOMAIN Terms(i),
                      NEW e \in edges \union {None}, Chosen(i, l, k, e), Done(i, l, k)'
               PROVE  \E c : Chain(c, trans', i, l, k, e)
    BY <1>4 DEF Made
  <2>1. CASE Done(i, l, k)
    <3>1. PICK c : Chain(c, trans, i, l, k, e)
      BY <2>1 DEF RInv, Made
    <3> QED
      BY <3>1, ChainGrows
  <2>2. CASE ~Done(i, l, k)
    <3>1. i = id /\ l = here /\ k < dnfID + 1 /\ ~(k < dnfID)
      BY <1>1, <2>2 DEF Done, Passed
    <3>2. k \in Int /\ dnfID \in Int
      BY FeatureFacts DEF IInv, TypeOK
    <3>3. k = dnfID
      BY <3>1, <3>2
    <3>4. PICK c : Chain(c, new, i, l, k, e)
      BY <3>1, <3>3
    <3> QED
      BY <3>4, ChainGrows
  <2> QED
    BY <2>1, <2>2
<1> QED
  BY <1>2, <1>3, <1>5 DEF RInv

\* The end of a location.
LEMMA LocationKeeps ==
  ASSUME IInv, RInv, NextLocation, NEW new \in {{}, {Waiting(id, e) : e \in Leaving}},
         trans' = trans \union new,
         new = {} /\ Leaving # {} => id = 0 \/ ~Hopeless(id, here) \/ LeakedGuards(id) # {}
  PROVE  RInv'
<1>1. UNCHANGED <<edges, feature>> /\ dnfID' = 1 /\ pc = "sweep" /\ id \in Levels
      /\ dnfID \notin DOMAIN Terms(id) /\ here \in Locs /\ id \in Nat /\ here \in Nat
  BY FeatureFacts, LevelAssumption DEF NextLocation, IInv, Placed, TypeOK, Levels, Locs
<1>2. Len(feature) \in Nat \ {0} /\ LastLoc \in Nat \ {0}
  BY FeatureFacts, LevelAssumption DEF IInv, TypeOK
<1>3. Locs' = Locs /\ Levels' = Levels
  BY <1>1 DEF Locs, Levels
<1>4. ASSUME NEW i \in Levels, NEW l \in Locs
      PROVE  Passed(i, l)' <=> Passed(i, l) \/ (i = id /\ l = here)
  <2>1. i \in Nat /\ l \in Nat /\ i < Len(feature) /\ l <= LastLoc /\ here <= LastLoc
    BY <1>1, <1>2 DEF Levels, Locs
  <2>2. CASE here = LastLoc /\ IsLast(id)
    BY <1>1, <1>2, <2>1, <2>2 DEF NextLocation, Passed, IsLast
  <2>3. CASE here = LastLoc /\ ~IsLast(id)
    BY <1>1, <1>2, <2>1, <2>3 DEF NextLocation, Passed, IsLast, Locs
  <2>4. CASE here # LastLoc
    BY <1>1, <1>2, <2>1, <2>4 DEF NextLocation, Passed
  <2> QED
    BY <2>2, <2>3, <2>4
<1>5. Sound'
  <2>1. ASSUME NEW t \in trans, Moving(t)
        PROVE  Moving(t)'
    <3>1. t.at \in Levels => Passed(t.at, t.edge.from) /\ t.edge.from \in Locs
      BY <2>1, LevelAssumption DEF Moving, IInv, TypeOK, Locs
    <3>2. t.at \in Levels => Passed(t.at, t.edge.from)'
      BY <1>4, <3>1
    <3> QED
      BY <1>1, <1>3, <2>1, <3>2 DEF Moving
  <2>2. ASSUME NEW e \in Leaving, NEW t, t = Waiting(id, e)
        PROVE  IsTransition(t) /\ Moving(t)'
    <3> DEFINE o == Original(e)
    <3>1. /\ IsTransition(o) /\ o.edge = e /\ o.from = <<e.from>> /\ o.to = <<e.to>>
          /\ o.guards = {<<"edge", e>>} /\ o.sets = << >>
      BY DEF Original, IsTransition
    <3>2. t = [o EXCEPT !.at = id, !.goes = id, !.shared = TRUE]
      BY <2>2 DEF Waiting
    <3> HIDE DEF o
    <3>3. /\ IsTransition(t) /\ t.at = id /\ t.goes = id /\ t.edge = e /\ t.from = <<e.from>>
          /\ t.to = <<e.to>> /\ t.guards = {<<"edge", e>>} /\ t.sets = << >>
      BY <3>1, <3>2 DEF IsTransition
    <3>4. e \in edges /\ e.from = here
      BY DEF Leaving
    <3>5. Passed(t.at, e.from)'
      BY <1>1, <1>4, <3>3, <3>4
    <3>6. Moving(t)'
      BY <1>1, <3>3, <3>4, <3>5 DEF Moving
    <3> QED
      BY <3>3, <3>6
  <2>3. ASSUME NEW t \in trans'
        PROVE  IsTransition(t) /\ (Matching(t)' \/ Moving(t)')
    <3>1. CASE t \in trans
      BY <1>1, <2>1, <3>1, FrameMatching DEF RInv, Sound
    <3>2. CASE t \in {Waiting(id, e) : e \in Leaving}
      BY <2>2, <3>2
    <3> QED
      BY <3>1, <3>2
  <2> QED
    BY <2>3 DEF Sound
<1>6. Kept'
  <2> SUFFICES ASSUME NEW i \in Levels, NEW l \in Locs, i # 0, Passed(i, l)', Hopeless(i, l),
                      LeakedGuards(i) = {}, NEW e \in edges, e.from = l
               PROVE  Waiting(i, e) \in trans'
    <3>1. \A i, e : Waiting(i, e)' = Waiting(i, e)
      BY DEF Waiting
    <3> QED
      BY <1>1, <1>3, <3>1, FrameHopeless, FrameFeature DEF Kept
  <2>1. CASE Passed(i, l)
    BY <2>1 DEF RInv, Kept
  <2>2. CASE i = id /\ l = here
    <3>1. e \in Leaving
      BY <2>2 DEF Leaving
    <3> QED
      BY <2>2, <3>1
  <2> QED
    BY <1>4, <2>1, <2>2
<1>7. Made'
  <2> SUFFICES ASSUME NEW i \in Levels, NEW l \in Locs, NEW k \in DOMAIN Terms(i),
                      NEW e \in edges \union {None}, Chosen(i, l, k, e), Done(i, l, k)'
               PROVE  \E c : Chain(c, trans', i, l, k, e)
    BY <1>1, <1>3, FrameFeature, FrameMatching DEF Made
  <2>1. k \in Nat /\ k >= 1 /\ Terms(i) \in Seq(TermSet)
    BY FeatureFacts DEF IInv, TypeOK
  <2>2. Done(i, l, k)
    <3>1. Passed(i, l)' \/ k < 1
      BY <1>1 DEF Done
    <3>2. Passed(i, l) \/ (i = id /\ l = here)
      BY <1>4, <2>1, <3>1
    <3>3. i = id => k < dnfID
      <4>1. dnfID \in Nat \ {0}
        BY DEF IInv, TypeOK
      <4>2. i = id => k <= Len(Terms(id)) /\ ~(dnfID <= Len(Terms(id)))
        BY <1>1, <2>1, <4>1
      <4>3. Len(Terms(i)) \in Nat
        BY <2>1
      <4> QED
        BY <2>1, <4>1, <4>2, <4>3
    <3> QED
      BY <3>2, <3>3 DEF Done
  <2>3. PICK c : Chain(c, trans, i, l, k, e)
    BY <2>2 DEF RInv, Made
  <2> QED
    BY <2>3, ChainGrows
<1> QED
  BY <1>5, <1>6, <1>7 DEF RInv

\* The original transitions are gated; none of the others changes.
LEMMA GateKeeps == IInv /\ RInv /\ Gate => RInv'
<1> SUFFICES ASSUME IInv, RInv, Gate PROVE RInv'
  OBVIOUS
<1>1. UNCHANGED <<edges, feature, id, here, dnfID, tail>> /\ pc' = "built" /\ pc = "gate"
  BY DEF Gate
<1> DEFINE gated(t) == IF t.at = NoLevel THEN [t EXCEPT !.at = 0, !.goes = 0] ELSE t
<1>2. trans' = {gated(t) : t \in trans}
  BY DEF Gate
<1>3. 0 \in Levels /\ NoLevel \notin Levels
  BY FeatureFacts DEF IInv, TypeOK, Levels, NoLevel
<1>4. \A i, l : Passed(i, l) /\ Passed(i, l)'
  BY <1>1 DEF Passed
<1>5. Locs' = Locs /\ Levels' = Levels
  BY <1>1 DEF Locs, Levels
<1>6. ASSUME NEW t \in trans
      PROVE  IsTransition(gated(t)) /\ (Matching(gated(t))' \/ Moving(gated(t))')
  <2>1. CASE t.at = NoLevel
    <3>1. IsTransition(t) /\ Moving(t)
      BY <1>3, <2>1 DEF RInv, Sound, Matching
    <3>2. /\ IsTransition(gated(t)) /\ gated(t).at = 0 /\ gated(t).goes = 0
          /\ gated(t).edge = t.edge /\ gated(t).from = t.from /\ gated(t).to = t.to
          /\ gated(t).guards = t.guards /\ gated(t).sets = t.sets
      BY <2>1, <3>1 DEF IsTransition
    <3> HIDE DEF gated
    <3>3. Moving(gated(t))'
      BY <1>1, <1>4, <3>1, <3>2 DEF Moving
    <3> QED
      BY <3>2, <3>3
  <2>2. CASE t.at # NoLevel
    <3>1. gated(t) = t
      BY <2>2
    <3>2. Moving(t) => Moving(t)'
      BY <1>1, <1>4, <1>5 DEF Moving
    <3>3. Matching(t) => Matching(t)'
      BY <1>1, FrameMatching
    <3> HIDE DEF gated
    <3> QED
      BY <3>1, <3>2, <3>3 DEF RInv, Sound
  <2> QED
    BY <2>1, <2>2
<1>7. Sound'
  <2> HIDE DEF gated
  <2> QED
    BY <1>2, <1>6 DEF Sound
<1>8. ASSUME NEW t \in trans, t.at \in Levels
      PROVE  t \in trans'
  BY <1>2, <1>3, <1>8
<1>9. Kept'
  <2> SUFFICES ASSUME NEW i \in Levels, NEW l \in Locs, i # 0, Hopeless(i, l),
                      LeakedGuards(i) = {}, NEW e \in edges, e.from = l
               PROVE  Waiting(i, e) \in trans'
    <3>1. \A i, e : Waiting(i, e)' = Waiting(i, e)
      BY DEF Waiting
    <3> QED
      BY <1>1, <1>5, <3>1, FrameHopeless, FrameFeature DEF Kept
  <2>1. Waiting(i, e) \in trans
    BY <1>4 DEF RInv, Kept
  <2>2. Waiting(i, e).at = i
    BY DEF Waiting, Original
  <2> QED
    BY <1>8, <2>1, <2>2
<1>10. Made'
  <2> SUFFICES ASSUME NEW i \in Levels, NEW l \in Locs, NEW k \in DOMAIN Terms(i),
                      NEW e \in edges \union {None}, Chosen(i, l, k, e)
               PROVE  \E c : Chain(c, trans', i, l, k, e)
    BY <1>1, <1>5, FrameFeature, FrameMatching DEF Made
  <2>1. PICK c : Chain(c, trans, i, l, k, e)
    BY <1>4 DEF RInv, Made, Done
  <2>2. \A j \in 1..Steps(i) : c[j] \in trans'
    BY <1>8, <2>1 DEF Chain
  <2>3. Chain(c, trans', i, l, k, e)
    <3>1. c \in [1..Steps(i) -> trans']
      BY <2>1, <2>2 DEF Chain
    <3> QED
      BY <2>1, <3>1 DEF Chain
  <2> QED
    BY <2>3
<1> QED
  BY <1>7, <1>9, <1>10 DEF RInv

LEMMA InitRInv == Init => RInv
<1> SUFFICES ASSUME Init PROVE RInv
  OBVIOUS
<1>1. feature \in Features /\ Len(feature) \in Nat \ {0} /\ NoLevel \notin Levels
  BY FeatureFacts DEF Init, Levels, NoLevel
<1>2. Sound
  <2> SUFFICES ASSUME NEW e \in edges
               PROVE  IsTransition(Original(e)) /\ Moving(Original(e))
    BY DEF Init, Sound
  <2> QED
    BY <1>1 DEF Original, IsTransition, Moving
<1>3. \A i \in Levels, l \in Locs : ~Passed(i, l)
  BY <1>1 DEF Init, Passed, Levels, Locs
<1>4. Made
  <2> SUFFICES ASSUME NEW i \in Levels, NEW l \in Locs, NEW k \in DOMAIN Terms(i), Done(i, l, k)
               PROVE  FALSE
    BY DEF Made
  <2>1. k \in Nat /\ k >= 1
    BY <1>1, FeatureFacts
  <2> QED
    BY <1>3, <2>1 DEF Done, Init
<1> QED
  BY <1>2, <1>3, <1>4 DEF RInv, Kept

\* A transition of this level that already leaves the location in hand is the
\* first one of a match: there is an instant at which the sub-expression happens.
LEMMA LeftByMatch ==
  ASSUME IInv, RInv, pc = "sweep", HasTransAtLevel(here, id)
  PROVE  ~Hopeless(id, here)
<1>1. feature \in Features /\ id \in Levels /\ id \in Nat /\ here \in Nat
  BY FeatureFacts, LevelAssumption DEF IInv, TypeOK, Placed, Levels, Locs
<1>2. PICK t \in trans : t.from = <<here>> /\ t.at = id
  BY DEF HasTransAtLevel
<1>3. ~Moving(t)
  <2> SUFFICES ASSUME Moving(t) PROVE FALSE
    OBVIOUS
  <2>1. t.edge.from = here
    BY <1>2 DEF Moving
  <2> QED
    BY <1>1, <1>2, <2>1 DEF Moving, Passed
<1>4. PICK l, k, e : /\ Chosen(id, l, k, e)
                     /\ \/ Arrives(t, l, k, e)
                        \/ \E j \in 1 .. Len(Assigned(id)) - 1 : HopsTo(t, l, k, j)
  BY <1>2, <1>3 DEF RInv, Sound, Matching
<1>5. PICK n : t.from = Stop(id, l, k, n)
  BY <1>2, <1>4 DEF Arrives, HopsTo
<1>6. l = here
  <2>1. Stop(id, l, k, n) = <<here>>
    BY <1>2, <1>5
  <2>2. CASE n = 0
    BY <2>1, <2>2 DEF Stop
  <2>3. CASE n # 0
    <3>1. Len(Stop(id, l, k, n)) = 4
      BY <2>3 DEF Stop
    <3>2. Len(<<here>>) = 1
      OBVIOUS
    <3> QED
      BY <2>1, <3>1, <3>2
  <2> QED
    BY <2>2, <2>3
<1> DEFINE x == Sub(id)
           edge == IsPorvEvent(x)
           of == x.event.of
           sign == IF x.event.type = Negedge THEN "down" ELSE "up"
           slope == IF (sign = "up") = Porv[of].above THEN 1 ELSE -1
           vals == [p \in Preds |-> IF edge /\ p = of THEN sign ELSE "high"]
           rates == [y \in Rated |-> IF edge /\ y = Porv[of].var THEN slope ELSE 0]
           opened == IF e = None THEN {} ELSE {e}
           v == [val |-> vals, rate |-> rates, open |-> opened, lt |-> 0, now |-> MaxTime]
<1>7. e \in edges \union {None}
  BY <1>4 DEF Chosen, EventEdges
<1>8. v \in Instants
  <2>1. vals \in [Preds -> {"low", "up", "high", "down"}] /\ rates \in [Rated -> {-1, 0, 1}]
    OBVIOUS
  <2>2. opened \subseteq edges /\ 0 \in 0..MaxTime
    BY <1>7, LevelAssumption
  <2>3. Crossing(v)
    <3> SUFFICES ASSUME NEW p \in Preds, Porv[p].var # None, vals[p] \in {"up", "down"}
                 PROVE  rates[Porv[p].var] =
                          IF (vals[p] = "up") = Porv[p].above THEN 1 ELSE -1
      BY PorvAssumption DEF Crossing
    <3>1. edge /\ p = of /\ vals[p] = sign
      OBVIOUS
    <3>2. Porv[p].var \in Rated
      BY PorvAssumption
    <3> QED
      BY <3>1, <3>2
  <2> HIDE DEF vals, rates, opened
  <2> QED
    BY <2>1, <2>2, <2>3 DEF Instants
<1>9. v.val = vals /\ v.open = opened
  OBVIOUS
<1> HIDE DEF v
<1>10. x.event # None => /\ x.event.type \in {Posedge, Negedge, Anyedge}
                         /\ \/ x.event.on = "state"
                            \/ x.event.on = "porv" /\ x.event.of \in Preds
  <2>1. id + 1 \in DOMAIN feature
    <3>1. IsSequence(feature) /\ DOMAIN feature = 1..Len(feature) /\ Len(feature) \in Nat
      BY <1>1, SequenceFacts, LevelAssumption
    <3> QED
      BY <1>1, <3>1 DEF Levels
  <2> QED
    BY <1>1, <2>1, LevelAssumption DEF Sub
<1>11. HappensOn(x, here, e, v)
  <2>1. k \in DOMAIN Conjuncts(x) /\ ConjunctHolds(Conjuncts(x)[k], here, v)
    <3>1. k \in DOMAIN Terms(id) /\ Terms(id)[k].ctx \in {None, here}
      BY <1>4, <1>6 DEF Chosen
    <3>2. Terms(id)[k] \in TermSet
      BY <1>1, <3>1, FeatureFacts
    <3>3. \A p \in Terms(id)[k].preds : v.val[p] # "low"
      BY <1>9, <3>2 DEF TermSet
    <3> QED
      BY <3>1, <3>3 DEF Terms, ConjunctHolds
  <2>2. IsPorvEvent(x) => Occurs(x.event, v)
    <3> SUFFICES ASSUME IsPorvEvent(x) PROVE Occurs(x.event, v)
      OBVIOUS
    <3>1. x.event.of \in Preds /\ x.event.type \in {Posedge, Negedge, Anyedge}
      BY <1>10 DEF IsPorvEvent
    <3>2. v.val[x.event.of] = IF x.event.type = Negedge THEN "down" ELSE "up"
      BY <1>9, <3>1
    <3> QED
      BY <3>1, <3>2 DEF Occurs
  <2>3. CASE IsStateEvent(x)
    <3>1. e \in EventEdges(id, here)
      BY <1>4, <1>6, <2>3 DEF Chosen
    <3>2. x.event.type \in {1, -1, 0}
      BY <1>10, <2>3 DEF IsStateEvent, Posedge, Negedge, Anyedge
    <3>3. e \in edges /\ e.from = here /\ Switches(x.event, e)
      BY <3>1, <3>2 DEF EventEdges, Switches, Posedge, Negedge, Anyedge
    <3>4. e # None
      BY <3>3, LevelAssumption DEF IInv, TypeOK
    <3>5. e \in v.open
      BY <1>9, <3>4
    <3> QED
      BY <2>1, <2>2, <2>3, <3>3, <3>5 DEF HappensOn
  <2>4. CASE ~IsStateEvent(x)
    <3>1. e = None
      BY <1>4, <2>4 DEF Chosen
    <3> QED
      BY <2>1, <2>2, <2>4, <3>1 DEF HappensOn
  <2> QED
    BY <2>3, <2>4
<1> QED
  BY <1>7, <1>8, <1>11 DEF Hopeless

LEMMA StepRInv == IInv /\ RInv /\ [Next]_vars => RInv'
<1> SUFFICES ASSUME IInv, RInv, [Next]_vars PROVE RInv'
  OBVIOUS
<1>0. feature \in Features /\ here \in Locs /\ (pc = "sweep" => id \in Levels)
  BY DEF IInv, TypeOK, Placed
<1>1. CASE SkipTerm
  <2>1. trans' = trans \union {} /\ NextTerm /\ pc = "sweep"
    BY <1>1 DEF SkipTerm
  <2>2. \A e : ~Chosen(id, here, dnfID, e)
    BY <1>1 DEF SkipTerm, InContext, Term, Chosen
  <2>3. PICK new : new = {}
    OBVIOUS
  <2>4. trans' = trans \union new /\ \A t \in new : IsTransition(t) /\ Matching(t)
    BY <2>1, <2>3
  <2> QED
    BY <2>1, <2>2, <2>4, TermKeeps
<1>2. CASE MatchByLoop
  <2> DEFINE t == SelfLoop(id, here, Term)
             new == OrderedResets(t, Assigned(id))
  <2>1. /\ id \in Levels /\ pc = "sweep" /\ dnfID \in DOMAIN Terms(id) /\ ~IsStateEvent(Sub(id))
        /\ Term.ctx \in {None, here}
    BY <1>0, <1>2 DEF MatchByLoop, InContext
  <2>2. Chosen(id, here, dnfID, None) /\ \A e : Chosen(id, here, dnfID, e) => e = None
    BY <1>0, <2>1 DEF Chosen, Term
  <2>3. /\ IsTransition(t) /\ t.at = id /\ t.edge = None /\ t.from = <<here>>
        /\ t.to = Goal(id, here, None) /\ t.goes = NextId(id)
        /\ t.guards = Own(id, here, dnfID, None)
    <3>1. /\ IsTransition(t) /\ t.at = id /\ t.edge = None /\ t.from = <<here>>
          /\ t.goes = NextId(id)
          /\ t.guards = TemporalGuards(id) \union EventGuards(id, here) \union PredGuards(Term)
      BY DEF SelfLoop, IsTransition
    <3>2. t.to = Goal(id, here, None)
      BY DEF SelfLoop, Goal
    <3>3. t.guards = Own(id, here, dnfID, None)
      BY <3>1 DEF Own, Term
    <3> QED
      BY <3>1, <3>2, <3>3
  <2>4. When(t) \subseteq Own(id, here, dnfID, None) \union LeakedGuards(id)
    BY <2>1, <2>3 DEF When, IInv, TailsLeak
  <2>5. IsLast(id) /\ IsTemporal(feature) => t.zeroes \/ LateFinal(id)
    BY <2>1 DEF SelfLoop, LateFinal
  <2> HIDE DEF t
  <2>6. /\ \A r \in new : IsTransition(r) /\ Matching(r)
        /\ \E c : Chain(c, new, id, here, dnfID, None)
    BY <1>0, <2>1, <2>2, <2>3, <2>4, <2>5, MatchMade
  <2>7. trans' = trans \union new /\ NextTerm
    BY <1>2 DEF MatchByLoop, t
  <2> HIDE DEF new
  <2> QED
    BY <2>1, <2>2, <2>6, <2>7, TermKeeps
<1>3. CASE MatchOnEdges
  <2> DEFINE t(e) == OnEdge(id, e, Term)
             of(e) == OrderedResets(t(e), Assigned(id))
             new == UNION {of(e) : e \in EventEdges(id, here)}
  <2>1. /\ id \in Levels /\ pc = "sweep" /\ dnfID \in DOMAIN Terms(id) /\ IsStateEvent(Sub(id))
        /\ Term.ctx \in {None, here}
    BY <1>0, <1>3 DEF MatchOnEdges, InContext
  <2>2. ASSUME NEW e \in EventEdges(id, here)
        PROVE  /\ \A r \in of(e) : IsTransition(r) /\ Matching(r)
               /\ \E c : Chain(c, of(e), id, here, dnfID, e)
    <3>1. e \in edges /\ e.from = here /\ e # None
      BY LevelAssumption DEF EventEdges, IInv, TypeOK
    <3>2. Chosen(id, here, dnfID, e)
      BY <1>0, <2>1 DEF Chosen, Term
    <3>3. /\ IsTransition(t(e)) /\ t(e).at = id /\ t(e).edge = e /\ t(e).from = <<here>>
          /\ t(e).goes = NextId(id) /\ t(e).shared = FALSE /\ t(e).zeroes = IsLast(id)
          /\ t(e).guards = {<<"edge", e>>} \union TemporalGuards(id) \union PredGuards(Term)
                              \union tail[id]
      BY <3>1 DEF OnEdge, IsTransition
    <3>4. t(e).to = Goal(id, here, e)
      BY <3>1 DEF OnEdge, Goal
    <3>5. EventGuards(id, here) = {}
      BY <2>1 DEF EventGuards, IsStateEvent, IsPorvEvent
    <3>6. t(e).guards = Own(id, here, dnfID, e) \union tail[id]
      BY <3>1, <3>3, <3>5 DEF Own, Term
    <3>7. When(t(e)) \subseteq Own(id, here, dnfID, e) \union LeakedGuards(id)
      BY <2>1, <3>3, <3>6 DEF When, IInv, TailsLeak
    <3>8. Own(id, here, dnfID, e) \subseteq t(e).guards
      BY <3>6
    <3> HIDE DEF t
    <3> QED
      BY <1>0, <2>1, <3>2, <3>3, <3>4, <3>7, <3>8, MatchMade
  <2>3. trans' = trans \union new /\ NextTerm
    BY <1>3 DEF MatchOnEdges
  <2> HIDE DEF of
  <2>4. \A r \in new : IsTransition(r) /\ Matching(r)
    BY <2>2
  <2>5. ASSUME NEW e, Chosen(id, here, dnfID, e)
        PROVE  \E c : Chain(c, new, id, here, dnfID, e)
    <3>1. e \in EventEdges(id, here)
      BY <2>1, <2>5 DEF Chosen
    <3>2. PICK c : Chain(c, of(e), id, here, dnfID, e)
      BY <2>2, <3>1
    <3>3. of(e) \subseteq new
      BY <3>1
    <3> HIDE DEF new
    <3>4. Chain(c, new, id, here, dnfID, e)
      BY <3>2, <3>3, ChainGrows
    <3> QED
      BY <3>4
  <2> HIDE DEF new
  <2> QED
    BY <2>1, <2>3, <2>4, <2>5, TermKeeps
<1>4. CASE RetainAll \/ RetainOpen \/ RetainNone
  <2> DEFINE waiting == {Waiting(id, e) : e \in Leaving}
  <2>1. NextLocation
    BY <1>4 DEF RetainAll, RetainOpen, RetainNone
  <2>2. CASE RetainAll \/ RetainOpen
    <3>1. trans' = trans \union waiting
      BY <2>2 DEF RetainAll, RetainOpen
    <3>2. waiting = {} => Leaving = {}
      OBVIOUS
    <3> QED
      BY <2>1, <3>1, <3>2, LocationKeeps
  <2>3. CASE RetainNone
    <3>1. trans' = trans \union {}
      BY <2>3 DEF RetainNone
    <3>2. id = 0 \/ ~Hopeless(id, here)
      BY <2>3, LeftByMatch DEF RetainNone, NextLocation
    <3> QED
      BY <2>1, <3>1, <3>2, LocationKeeps
  <2> QED
    BY <1>4, <2>2, <2>3
<1>5. CASE Gate
  BY <1>5, GateKeeps
<1>6. CASE UNCHANGED vars
  <2>1. UNCHANGED <<edges, feature, id, here, dnfID, trans, tail, pc>>
    BY <1>6 DEF vars
  <2>2. /\ Locs' = Locs /\ Levels' = Levels /\ \A i : Terms(i)' = Terms(i)
        /\ \A i, l : Passed(i, l)' = Passed(i, l)
        /\ \A i, e : Waiting(i, e)' = Waiting(i, e)
        /\ \A i, l, k : Done(i, l, k)' = Done(i, l, k)
        /\ \A t : Moving(t)' = Moving(t)
    BY <2>1 DEF Locs, Levels, Passed, Waiting, Done, Moving, Terms, Sub
  <2>3. Sound'
    BY <2>1, <2>2, FrameMatching DEF RInv, Sound
  <2>4. Kept'
    BY <2>1, <2>2, FrameHopeless, FrameFeature DEF RInv, Kept
  <2>5. Made'
    BY <2>1, <2>2, FrameMatching, FrameFeature DEF RInv, Made
  <2> QED
    BY <2>3, <2>4, <2>5 DEF RInv
<1> QED
  BY <1>1, <1>2, <1>3, <1>4, <1>5, <1>6 DEF Next, Build, Built

-------------------------------------------------------------------------------
\* From the invariant to the product's behaviour

LEMMA ChainsFollow == IInv => ChainsComplete
<1> SUFFICES ASSUME IInv, NEW t \in trans, IsPause(t.to), ~Leaking(t.at), ~LateFinal(t.at),
                    NEW v, Enabled(t, v)
             PROVE  StepsFrom(t.to, t.goes, v) # {}
  BY DEF ChainsComplete
<1>1. t.at \in Levels /\ t.goes = t.at /\ ~t.shared
  BY DEF IInv, Chained, ChainOf
<1>2. PICK u \in trans : GoesOn(t, u)
  BY DEF IInv, Chained, ChainOf
<1>3. When(t) = t.guards
  BY <1>1 DEF When
<1>4. When(u) \subseteq When(t)
  <2>1. CASE ~u.shared
    BY <1>2, <1>3, <2>1 DEF When, GoesOn
  <2>2. CASE u.shared
    <3>1. PICK k \in DOMAIN Terms(t.at) : PredGuards(Terms(t.at)[k]) \subseteq t.guards
      BY <1>2, <2>2 DEF GoesOn, HasTerm
    <3>2. tail[t.at] \subseteq t.guards
      BY <1>1, <3>1 DEF IInv, TailsLeak, Leaking
    <3> QED
      BY <1>2, <1>3, <3>2 DEF When, GoesOn
  <2> QED
    BY <2>1, <2>2
<1>5. Enabled(u, v)
  BY <1>2, <1>4 DEF Enabled, GoesOn
<1> QED
  BY <1>1, <1>2, <1>5 DEF StepsFrom, GoesOn

\* The transitions that go on from the pause locations that those of X enter.
Onward(X, v) == UNION {StepsFrom(t.to, t.goes, v) : t \in {u \in X : IsPause(u.to)}}

\* The transitions that can be taken from a location on, hop after hop.
LEMMA HopsUpto ==
  ASSUME NEW i, Len(Assigned(i)) \in Nat, NEW l, NEW v
  PROVE  \E after : /\ after[0] = StepsFrom(<<l>>, i, v)
                    /\ \A k \in 1 .. Len(Assigned(i)) :
                         after[k] = Onward(after[k - 1], v)
                    /\ Hops(i, l, v) = UNION {after[k] : k \in 0 .. Len(Assigned(i))}
<1> DEFINE n == Len(Assigned(i))
           start == StepsFrom(<<l>>, i, v)
           on(X) == Onward(X, v)
           body(f) == [k \in 0..n |-> IF k = 0 THEN start ELSE on(f[k - 1])]
           step == [k \in 1..n |-> [X \in SUBSET trans |-> on(X)]]
           h == CHOOSE f : f = body(f)
<1>1. n \in Nat /\ start \in SUBSET trans
  BY DEF StepsFrom
<1>2. \A X : on(X) \in SUBSET trans
  BY DEF StepsFrom, Onward
<1>3. Hops(i, l, v) = UNION {h[k] : k \in 0..n}
  BY DEF Hops, Onward
<1> HIDE DEF n, start, on
<1>4. \E f : f = body(f)
  <2>1. step \in [1..n -> [SUBSET trans -> SUBSET trans]]
    BY <1>2
  <2> HIDE DEF step
  <2>2. PICK f : Stepping(f, SUBSET trans, start, n, step)
    BY <1>1, <2>1, StepByStep
  <2>3. /\ f \in [0..n -> SUBSET trans] /\ f[0] = start
        /\ \A k \in 1..n : f[k] = step[k][f[k - 1]]
    BY <2>2 DEF Stepping
  <2>4. ASSUME NEW k \in 1..n PROVE f[k] = on(f[k - 1])
    <3>1. f[k - 1] \in SUBSET trans
      BY <1>1, <2>3
    <3> QED
      BY <2>3, <3>1 DEF step
  <2>5. f = body(f)
    BY <1>1, <2>3, <2>4
  <2> QED
    BY <2>5
<1>5. h = body(h)
  BY <1>4
<1> HIDE DEF h
<1>6. h[0] = start /\ \A k \in 1..n : h[k] = on(h[k - 1])
  BY <1>1, <1>5
<1> QED
  BY <1>3, <1>6 DEF n, start, on

\* Where a chain of the product leads, when its guards hold: one hop after the other.
LEMMA ChainTaken ==
  ASSUME NEW i, Len(Assigned(i)) \in Nat, NEW l, NEW k, NEW e, NEW c, Chain(c, trans, i, l, k, e),
         NEW v, \A j \in 1..Steps(i) : Enabled(c[j], v)
  PROVE  c[Steps(i)] \in Hops(i, l, v)
<1> DEFINE n == Steps(i)
<1>1. n \in Nat /\ n >= 1 /\ \A m \in 0 .. n - 1 : m \in 0 .. Len(Assigned(i))
  BY DEF Steps
<1>2. PICK after : /\ after[0] = StepsFrom(<<l>>, i, v)
                   /\ \A m \in 1 .. Len(Assigned(i)) :
                        after[m] = Onward(after[m - 1], v)
                   /\ Hops(i, l, v) = UNION {after[m] : m \in 0 .. Len(Assigned(i))}
  BY HopsUpto
<1>3. /\ \A j \in 1..n : c[j] \in trans /\ c[j].at = i /\ Enabled(c[j], v)
      /\ c[1].from = <<l>>
      /\ \A j \in 1 .. n - 1 : c[j].to = c[j + 1].from /\ IsPause(c[j].to) /\ c[j].goes = i
  BY DEF Chain
<1> HIDE DEF n
<1> DEFINE T == {m \in 0 .. n - 1 : c[m + 1] \in after[m]}
<1>4. 0 \in T
  <2>1. 0 \in 0 .. n - 1 /\ 1 \in 1..n /\ 0 + 1 = 1
    BY <1>1
  <2> QED
    BY <1>2, <1>3, <2>1 DEF StepsFrom
<1>5. ASSUME NEW m \in 1 .. n - 1, m - 1 \in T
      PROVE  m \in T
  <2>1. m + 1 \in 1..n /\ (m - 1) + 1 = m /\ m \in 0 .. n - 1 /\ m \in 1 .. Len(Assigned(i))
    <3>1. m \in 0 .. n - 1
      BY <1>1
    <3>2. m \in 0 .. Len(Assigned(i))
      BY <1>1, <3>1
    <3> QED
      BY <1>1, <3>1, <3>2
  <2>2. c[m] \in after[m - 1] /\ IsPause(c[m].to)
    BY <1>3, <1>5, <2>1
  <2>3. c[m + 1] \in StepsFrom(c[m].to, c[m].goes, v)
    BY <1>3, <2>1 DEF StepsFrom
  <2>4. c[m + 1] \in after[m]
    <3>1. c[m + 1] \in Onward(after[m - 1], v)
      BY <2>2, <2>3 DEF Onward
    <3> QED
      BY <1>2, <2>1, <3>1
  <2> QED
    BY <2>1, <2>4
<1> HIDE DEF T
<1>6. n - 1 \in T
  <2>1. n - 1 \in Nat
    BY <1>1
  <2>2. \A m \in 0 .. n - 1 : m \in T
    BY <1>4, <1>5, <2>1, Upwards
  <2> QED
    BY <2>1, <2>2
<1>7. c[n] \in after[n - 1] /\ n - 1 \in 0 .. Len(Assigned(i))
  <2>1. (n - 1) + 1 = n
    BY <1>1
  <2> QED
    BY <1>1, <1>6, <2>1 DEF T
<1> QED
  BY <1>2, <1>7 DEF n

LEMMA HoldsFacts ==
  ASSUME NEW v
  PROVE  /\ \A p : Holds(<<"pred", p>>, v) <=> v.val[p] # "low"
         /\ \A x : Holds(<<"rises", x>>, v) <=> v.rate[x] = 1
         /\ \A x : Holds(<<"falls", x>>, v) <=> v.rate[x] = -1
         /\ \A p : Holds(<<"cross", p>>, v) <=> v.val[p] \in {"up", "down"}
         /\ \A e : Holds(<<"edge", e>>, v) <=> e \in v.open
         /\ \A i : Holds(<<"window", i>>, v) <=> InDelay(Sub(i).delay, v.lt)
<1>1. \A p : Holds(<<"pred", p>>, v) <=> v.val[p] # "low"
  BY DEF Holds
<1>2. /\ \A x : Holds(<<"rises", x>>, v) <=> v.rate[x] = 1
      /\ \A x : Holds(<<"falls", x>>, v) <=> v.rate[x] = -1
  BY DEF Holds
<1>3. \A p : Holds(<<"cross", p>>, v) <=> v.val[p] \in {"up", "down"}
  BY DEF Holds
<1>4. \A e : Holds(<<"edge", e>>, v) <=> e \in v.open
  BY DEF Holds
<1>5. \A i : Holds(<<"window", i>>, v) <=> InDelay(Sub(i).delay, v.lt)
  BY DEF Holds
<1> QED
  BY <1>1, <1>2, <1>3, <1>4, <1>5

\* The guards of a match hold where the sub-expression does.
LEMMA OwnHolds ==
  ASSUME IInv, NEW i \in Levels, NEW l \in Locs, NEW e \in edges \union {None},
         NEW v \in Instants, MatchesOn(Sub(i), l, e, v), ~NegedgeLost(i), ~Misread(i, l)
  PROVE  \E k \in DOMAIN Terms(i) :
           Chosen(i, l, k, e) /\ \A atom \in Own(i, l, k, e) : Holds(atom, v)
<1> DEFINE x == Sub(i)
<1>1. PICK k \in DOMAIN Terms(i) : ConjunctHolds(Terms(i)[k], l, v)
  BY DEF MatchesOn, HappensOn, Terms
<1>2. x.event # None => /\ x.event.type \in {Posedge, Negedge, Anyedge}
                        /\ \/ x.event.on = "state"
                           \/ x.event.on = "porv" /\ x.event.of \in Preds
  <2>1. i + 1 \in DOMAIN feature
    <3>1. IsSequence(feature) /\ DOMAIN feature = 1..Len(feature) /\ Len(feature) \in Nat
      BY SequenceFacts, LevelAssumption DEF IInv, TypeOK
    <3> QED
      BY <3>1 DEF Levels
  <2> QED
    BY <2>1, LevelAssumption DEF Sub, IInv, TypeOK
<1>3. Chosen(i, l, k, e)
  <2>1. CASE IsStateEvent(x)
    <3>1. e \in v.open /\ e.from = l /\ Switches(x.event, e)
      BY <2>1 DEF MatchesOn, HappensOn
    <3>2. e \in edges
      BY <3>1 DEF Instants
    <3>3. x.event.type \in {Posedge, Anyedge}
      BY <1>2, <2>1 DEF NegedgeLost, IsStateEvent
    <3>4. e \in EventEdges(i, l)
      BY <3>1, <3>2, <3>3 DEF EventEdges, Switches, Posedge, Negedge, Anyedge
    <3> QED
      BY <1>1, <2>1, <3>4 DEF Chosen, ConjunctHolds
  <2>2. CASE ~IsStateEvent(x)
    BY <1>1, <2>2 DEF Chosen, ConjunctHolds, MatchesOn, HappensOn
  <2> QED
    BY <2>1, <2>2
<1>4. \A atom \in TemporalGuards(i) : Holds(atom, v)
  BY HoldsFacts DEF TemporalGuards, MatchesOn
<1>5. \A atom \in EventGuards(i, l) : Holds(atom, v)
  <2> SUFFICES ASSUME IsPorvEvent(x) PROVE \A atom \in EventGuards(i, l) : Holds(atom, v)
    BY DEF EventGuards
  <2>1. /\ Occurs(x.event, v) /\ x.event.type \in {Posedge, Negedge, Anyedge}
        /\ x.event.of \in Preds
    BY <1>2 DEF MatchesOn, HappensOn, IsPorvEvent, IsStateEvent
  <2>2. Holds(<<"cross", x.event.of>>, v)
    BY <2>1, HoldsFacts DEF Occurs
  <2>3. \A atom \in SignGuard(x.event, l) : Holds(atom, v)
    <3> SUFFICES ASSUME SignGuard(x.event, l) # {}
                 PROVE  \A atom \in SignGuard(x.event, l) : Holds(atom, v)
      OBVIOUS
    <3>1. x.event.type = 1 /\ Derivative(x.event.of, l) # None
      BY <2>1 DEF SignGuard, Posedge, Negedge, Anyedge
    <3>2. Derivative(x.event.of, l) = Porv[x.event.of].var
      BY <3>1 DEF Misread, Posedge
    <3>3. v.val[x.event.of] = "up"
      BY <2>1, <3>1 DEF Occurs, Posedge, Negedge, Anyedge
    <3>4. v.rate[Porv[x.event.of].var] = IF Porv[x.event.of].above THEN 1 ELSE -1
      BY <2>1, <3>1, <3>2, <3>3 DEF Instants, Crossing
    <3>5. SignGuard(x.event, l)
            = {<<IF Porv[x.event.of].above THEN "rises" ELSE "falls", Porv[x.event.of].var>>}
      <4>1. Porv[x.event.of].above \in BOOLEAN
        BY <2>1, PorvAssumption
      <4> QED
        BY <3>1, <3>2, <4>1 DEF SignGuard
    <3> QED
      BY <3>4, <3>5, HoldsFacts
  <2> QED
    BY <2>2, <2>3 DEF EventGuards
<1>6. \A atom \in PredGuards(Terms(i)[k]) : Holds(atom, v)
  BY <1>1, HoldsFacts DEF PredGuards, ConjunctHolds
<1>7. e # None => Holds(<<"edge", e>>, v)
  <2>1. e # None => e \in v.open
    BY DEF MatchesOn, HappensOn
  <2> QED
    BY <2>1, HoldsFacts
<1> QED
  BY <1>1, <1>3, <1>4, <1>5, <1>6, <1>7 DEF Own

LEMMA MatchesFollow == IInv /\ RInv => MatchesOffered
<1> SUFFICES ASSUME IInv, RInv, pc = "built", NEW i \in Levels, NEW l \in Locs,
                    ~Leaking(i), ~NegedgeLost(i), ~LateFinal(i), ~Misread(i, l),
                    NEW v \in Instants, Satisfied(i, l, v)
             PROVE  Offered(i, l, v)
  BY DEF MatchesOffered
<1>0. Len(Assigned(i)) \in Nat
  BY FeatureFacts DEF IInv, TypeOK
<1>1. PICK e \in edges \union {None} : MatchesOn(Sub(i), l, e, v)
  BY DEF Satisfied
<1>2. PICK k \in DOMAIN Terms(i) :
        Chosen(i, l, k, e) /\ \A atom \in Own(i, l, k, e) : Holds(atom, v)
  BY <1>1, OwnHolds
<1>3. PICK c : Chain(c, trans, i, l, k, e)
  BY <1>2 DEF RInv, Made, Done, Passed
<1> DEFINE n == Steps(i)
<1>4. n \in Nat /\ n >= 1
  BY <1>0 DEF Steps
<1>5. /\ c[n].to = Goal(i, l, e) /\ c[n].goes = NextId(i) /\ ~IsPause(c[n].to)
      /\ c[n].to = Final => IsLast(i)
  <2>1. c[n].to = Goal(i, l, e) /\ c[n].goes = NextId(i)
    BY <1>3 DEF Chain
  <2>2. ~IsPause(Goal(i, l, e))
    BY DEF Goal, IsPause, Final
  <2>3. Goal(i, l, e) = Final => IsLast(i)
    BY DEF Goal, Final
  <2> QED
    BY <2>1, <2>2, <2>3
<1>6. ASSUME NEW j \in 1..n
      PROVE  Enabled(c[j], v)
  <2>1. c[j].at = i /\ c[j].guards \subseteq Own(i, l, k, e) \union LeakedGuards(i)
    BY <1>3 DEF Chain
  <2>2. LeakedGuards(i) \subseteq Own(i, l, k, e)
    BY <1>2 DEF Leaking, Own
  <2>3. When(c[j]) \subseteq Own(i, l, k, e)
    BY <2>1, <2>2 DEF When, IInv, TailsLeak
  <2>4. c[j].to = Final /\ IsTemporal(feature) => c[j].zeroes
    <3>1. CASE j = n
      <4>1. c[j].to = Final => IsLast(i)
        BY <1>5, <3>1
      <4> QED
        BY <1>3, <3>1, <4>1 DEF Chain
    <3>2. CASE j # n
      <4>1. j \in 1 .. n - 1
        BY <1>4, <3>2
      <4>2. IsPause(c[j].to)
        BY <1>3, <4>1 DEF Chain
      <4> QED
        BY <4>2 DEF IsPause, Final
    <3> QED
      BY <3>1, <3>2
  <2> QED
    BY <1>2, <2>3, <2>4 DEF Enabled
<1>7. c[n] \in Hops(i, l, v)
  BY <1>0, <1>3, <1>6, ChainTaken
<1>8. IsLast(i) => c[n].to = Final
  BY <1>5 DEF Goal
<1> HIDE DEF n
<1> QED
  BY <1>5, <1>7, <1>8 DEF Offered

LEMMA RetainedFollow == IInv /\ RInv => RetainedElsewhere
<1> SUFFICES ASSUME IInv, RInv, pc = "built", NEW i \in Levels, NEW l \in Locs,
                    i # 0, Hopeless(i, l), LeakedGuards(i) = {},
                    NEW v \in Instants, NEW e \in edges, e.from = l, e \in v.open
             PROVE  \E t \in StepsFrom(<<l>>, i, v) : t.edge = e /\ t.to = <<e.to>> /\ t.goes = i
  BY DEF RetainedElsewhere, Retained
<1> DEFINE t == Waiting(i, e)
           o == Original(e)
<1>1. t \in trans
  BY DEF RInv, Kept, Passed
<1>2. t = [o EXCEPT !.at = i, !.goes = i, !.shared = TRUE]
  BY DEF Waiting
<1>3. /\ IsTransition(o) /\ o.edge = e /\ o.from = <<l>> /\ o.to = <<e.to>>
      /\ o.guards = {<<"edge", e>>}
  BY DEF Original, IsTransition
<1> HIDE DEF t, o
<1>4. /\ t.at = i /\ t.goes = i /\ t.edge = e /\ t.from = <<l>> /\ t.to = <<e.to>>
      /\ t.guards = {<<"edge", e>>}
  BY <1>2, <1>3 DEF IsTransition
<1>5. When(t) = {<<"edge", e>>}
  BY <1>4 DEF When, IInv, TailsLeak
<1>6. Enabled(t, v)
  <2>1. Holds(<<"edge", e>>, v)
    BY HoldsFacts
  <2>2. t.to # Final
    BY <1>4 DEF Final
  <2> QED
    BY <1>5, <2>1, <2>2 DEF Enabled
<1>7. t \in StepsFrom(<<l>>, i, v)
  BY <1>1, <1>4, <1>6 DEF StepsFrom
<1> QED
  BY <1>4, <1>7

-------------------------------------------------------------------------------
\* What is proved

\* What levelSequence keeps of the model, the feature and its place in the sweep
\* stays in its ranges, and so do the levels of the transitions it makes.
THEOREM LevelTypeCorrect == Spec => []TypeOK
BY InitIInv, StepIInv, PTL DEF Spec, IInv

\* No chain of hops (orderedResets) ends in a pause location that cannot be left at
\* the instant it is entered.
THEOREM ChainsNotStuck == Spec => []ChainsComplete
BY InitIInv, StepIInv, ChainsFollow, PTL DEF Spec

\* Wherever a location satisfies a sub-expression, the product that levelSequence
\* builds goes on to the next level, through the hops of orderedResets to the end,
\* whatever derivatives the model has and in whatever order they are searched: but for
\* positive edges of which generateEventGuard reads another derivative (Misread) and
\* the other exceptions that MatchesOffered names.
THEOREM MatchesAlwaysOffered == Spec => []MatchesOffered
BY InitIInv, StepIInv, InitRInv, StepRInv, MatchesFollow, PTL DEF Spec

\* Where a location cannot satisfy a sub-expression, levelSequence keeps every
\* original transition at its level.
THEOREM AlwaysRetained == Spec => []RetainedElsewhere
BY InitIInv, StepIInv, InitRInv, StepRInv, RetainedFollow, PTL DEF Spec

-------------------------------------------------------------------------------
\* What the variables of a feature hold

Times == 0..MaxTime

Stores ==
  {s \in [Stamps \union {Value} -> Times \union [Stamps -> Times]] :
     s[Value] \in [Stamps -> Times] /\ \A x \in Stamps : s[x] \in Times}

LEMMA StoredTyped ==
  ASSUME NEW x, NEW s \in Stores, NEW now \in Times
  PROVE  Stored(x, s, now) \in Stores
<1>1. s \in [Stamps \union {Value} -> Times \union [Stamps -> Times]]
  BY DEF Stores
<1>2. CASE x = Value
  <2> DEFINE held == [y \in DOMAIN s \ {Value} |-> s[y]]
  <2>1. DOMAIN s \ {Value} = Stamps
    BY <1>1, RunsAssumption
  <2>2. held \in [Stamps -> Times]
    BY <2>1 DEF Stores
  <2>3. Stored(x, s, now) = [s EXCEPT ![Value] = held]
    BY <1>2 DEF Stored
  <2> HIDE DEF held
  <2> QED
    BY <1>1, <2>2, <2>3, RunsAssumption DEF Stores
<1>3. CASE x # Value
  <2>1. Stored(x, s, now) = [s EXCEPT ![x] = now]
    BY <1>3 DEF Stored
  <2> QED
    BY <1>1, <1>3, <2>1, RunsAssumption DEF Stores
<1> QED
  BY <1>2, <1>3

\* Assignments are made one after the other.
LEMMA StoredUpto ==
  ASSUME NEW xs, Len(xs) \in Nat, NEW s \in Stores, NEW now \in Times
  PROVE  \E h : /\ h[0] = s
                /\ \A k \in 0 .. Len(xs) : h[k] \in Stores
                /\ \A k \in 1 .. Len(xs) : h[k] = Stored(xs[k], h[k - 1], now)
                /\ StoredAll(xs, s, now) = h[Len(xs)]
<1> DEFINE n == Len(xs)
           body(f) == [k \in 0..n |-> IF k = 0 THEN s ELSE Stored(xs[k], f[k - 1], now)]
           step == [k \in 1..n |-> [r \in Stores |-> Stored(xs[k], r, now)]]
           h == CHOOSE f : f = body(f)
<1>1. n \in Nat
  OBVIOUS
<1>2. \A k \in 1..n, r \in Stores : Stored(xs[k], r, now) \in Stores
  BY StoredTyped
<1>3. StoredAll(xs, s, now) = h[n]
  BY DEF StoredAll
<1> HIDE DEF n
<1>4. \E f : f = body(f)
  <2>1. step \in [1..n -> [Stores -> Stores]]
    BY <1>2
  <2> HIDE DEF step
  <2>2. PICK f : Stepping(f, Stores, s, n, step)
    BY <1>1, <2>1, StepByStep
  <2>3. /\ f \in [0..n -> Stores] /\ f[0] = s
        /\ \A k \in 1..n : f[k] = step[k][f[k - 1]]
    BY <2>2 DEF Stepping
  <2>4. ASSUME NEW k \in 1..n PROVE f[k] = Stored(xs[k], f[k - 1], now)
    <3>1. f[k - 1] \in Stores
      BY <1>1, <2>3
    <3> QED
      BY <2>3, <3>1 DEF step
  <2>5. f = body(f)
    BY <1>1, <2>3, <2>4
  <2> QED
    BY <2>5
<1>5. h = body(h)
  BY <1>4
<1> HIDE DEF h
<1>6. h[0] = s /\ \A k \in 1..n : h[k] = Stored(xs[k], h[k - 1], now)
  BY <1>1, <1>5
<1>7. \A k \in 0..n : h[k] \in Stores
  <2> DEFINE T == {m \in 0..n : h[m] \in Stores}
  <2>1. 0 \in T
    BY <1>1, <1>6
  <2>2. ASSUME NEW k \in 1..n, k - 1 \in T PROVE k \in T
    BY <1>1, <1>2, <1>6, <2>2
  <2> HIDE DEF T
  <2>3. \A k \in 0..n : k \in T
    BY <1>1, <2>1, <2>2, Upwards
  <2> QED
    BY <2>3 DEF T
<1> QED
  BY <1>3, <1>6, <1>7 DEF n

LEMMA StoredFacts ==
  ASSUME NEW s \in Stores, NEW now \in Times
  PROVE  /\ \A xs : Len(xs) \in Nat => StoredAll(xs, s, now) \in Stores
         /\ StoredAll(<< >>, s, now) = s
         /\ \A x : StoredAll(<<x>>, s, now) = Stored(x, s, now)
<1>1. ASSUME NEW xs, Len(xs) \in Nat
      PROVE  StoredAll(xs, s, now) \in Stores
  BY <1>1, StoredUpto
<1>2. StoredAll(<< >>, s, now) = s
  <2>1. Len(<< >>) = 0
    OBVIOUS
  <2> QED
    BY <2>1, StoredUpto
<1>3. ASSUME NEW x
      PROVE  StoredAll(<<x>>, s, now) = Stored(x, s, now)
  <2>1. Len(<<x>>) = 1 /\ 1 - 1 = 0 /\ <<x>>[1] = x
    OBVIOUS
  <2>2. PICK h : /\ h[0] = s
                 /\ \A k \in 1 .. Len(<<x>>) : h[k] = Stored(<<x>>[k], h[k - 1], now)
                 /\ StoredAll(<<x>>, s, now) = h[Len(<<x>>)]
    BY <2>1, StoredUpto
  <2>3. h[1] = Stored(<<x>>[1], h[1 - 1], now)
    BY <2>1, <2>2
  <2> QED
    BY <2>1, <2>2, <2>3
<1> QED
  BY <1>1, <1>2, <1>3

\* One assignment more.
LEMMA StoredOneMore ==
  ASSUME NEW S, NEW xs \in Seq(S), NEW s \in Stores, NEW now \in Times, NEW m \in 0 .. Len(xs) - 1
  PROVE  StoredAll(SubSeq(xs, 1, m + 1), s, now)
           = Stored(xs[m + 1], StoredAll(SubSeq(xs, 1, m), s, now), now)
<1> DEFINE some == SubSeq(xs, 1, m)
           more == SubSeq(xs, 1, m + 1)
<1>1. /\ Len(some) = m /\ Len(more) = m + 1
      /\ \A k \in 1..m : some[k] = xs[k]
      /\ \A k \in 1 .. m + 1 : more[k] = xs[k]
  <2>1. Len(xs) \in Nat /\ m \in Nat
    OBVIOUS
  <2>2. Len(some) = m - 1 + 1 /\ \A k \in 1 .. m - 1 + 1 : some[k] = xs[1 + k - 1]
    <3>1. 1 \in 1 .. Len(xs) + 1 /\ m \in 1 - 1 .. Len(xs)
      BY <2>1
    <3> QED
      BY <3>1, SubSeqProperties
  <2>3. Len(more) = (m + 1) - 1 + 1 /\ \A k \in 1 .. (m + 1) - 1 + 1 : more[k] = xs[1 + k - 1]
    <3>1. 1 \in 1 .. Len(xs) + 1 /\ m + 1 \in 1 - 1 .. Len(xs)
      BY <2>1
    <3> QED
      BY <3>1, SubSeqProperties
  <2> HIDE DEF some, more
  <2> QED
    BY <2>1, <2>2, <2>3
<1>2. m \in Nat /\ Len(some) \in Nat /\ Len(more) \in Nat
  BY <1>1
<1> HIDE DEF some, more
<1>3. PICK g : /\ g[0] = s
               /\ \A k \in 1..m : g[k] = Stored(xs[k], g[k - 1], now)
               /\ StoredAll(some, s, now) = g[m]
  <2>1. PICK f : /\ f[0] = s
                 /\ \A k \in 1 .. Len(some) : f[k] = Stored(some[k], f[k - 1], now)
                 /\ StoredAll(some, s, now) = f[Len(some)]
    BY <1>2, StoredUpto
  <2> QED
    BY <1>1, <2>1
<1>4. PICK h : /\ h[0] = s
               /\ \A k \in 1 .. m + 1 : h[k] = Stored(xs[k], h[k - 1], now)
               /\ StoredAll(more, s, now) = h[m + 1]
  <2>1. PICK f : /\ f[0] = s
                 /\ \A k \in 1 .. Len(more) : f[k] = Stored(more[k], f[k - 1], now)
                 /\ StoredAll(more, s, now) = f[Len(more)]
    BY <1>2, StoredUpto
  <2> QED
    BY <1>1, <2>1
<1>5. g[m] = h[m]
  <2> DEFINE T == {k \in 0..m : g[k] = h[k]}
  <2>1. 0 \in T
    BY <1>2, <1>3, <1>4
  <2>2. ASSUME NEW k \in 1..m, k - 1 \in T PROVE k \in T
    <3>1. k \in 1 .. m + 1 /\ k \in 0..m
      BY <1>2
    <3> QED
      BY <1>3, <1>4, <2>2, <3>1
  <2> HIDE DEF T
  <2>3. \A k \in 0..m : k \in T
    BY <1>2, <2>1, <2>2, Upwards
  <2> QED
    BY <1>2, <2>3 DEF T
<1>6. h[m + 1] = Stored(xs[m + 1], h[m], now)
  <2>1. m + 1 \in 1 .. m + 1 /\ (m + 1) - 1 = m
    BY <1>2
  <2> QED
    BY <1>4, <2>1
<1> QED
  BY <1>3, <1>4, <1>5, <1>6 DEF some, more

-------------------------------------------------------------------------------
\* Places and assignments

\* A location, or a pause location of a match.
OnWay(place) ==
  \E l \in Locs : \/ place = <<l>>
                  \/ \E i \in Levels, r \in Nat, m \in Nat : place = <<l, i, r, m>>

LEMMA PlaceFacts ==
  /\ \A l : ~IsPause(<<l>>) /\ <<l>> # Final /\ <<l>>[1] = l
  /\ \A l, i, r, m : IsPause(<<l, i, r, m>>) /\ <<l, i, r, m>> # Final /\ <<l, i, r, m>>[1] = l
  /\ \A l, k, i, r, m : <<l>> # <<k, i, r, m>>
  /\ ~IsPause(Final)
<1>1. \A l : ~IsPause(<<l>>) /\ <<l>> # Final /\ <<l>>[1] = l
  BY DEF IsPause, Final
<1>2. \A l, i, r, m : IsPause(<<l, i, r, m>>) /\ <<l, i, r, m>> # Final /\ <<l, i, r, m>>[1] = l
  BY DEF IsPause, Final
<1>3. ~IsPause(Final)
  BY DEF IsPause, Final
<1> QED
  BY <1>1, <1>2, <1>3

LEMMA PlacesNamed ==
  ASSUME feature \in Features
  PROVE  /\ None \notin Locs /\ None # Final
         /\ \A place : OnWay(place) => place # None /\ place # Final /\ place[1] \in Locs
<1>1. None \notin Locs /\ None # Final
  <2>1. << >> \in Seq(Int)
    OBVIOUS
  <2> QED
    BY <2>1, RunsAssumption DEF Final
<1>2. ASSUME NEW l \in Locs
      PROVE  <<l>> # None /\ <<l>> # Final /\ <<l>>[1] \in Locs
  <2>1. <<l>> \in Seq(Int)
    BY LevelAssumption DEF Locs
  <2> QED
    BY <2>1, RunsAssumption, PlaceFacts
<1>3. ASSUME NEW l \in Locs, NEW i \in Levels, NEW r \in Nat, NEW m \in Nat
      PROVE  <<l, i, r, m>> # None /\ <<l, i, r, m>> # Final /\ <<l, i, r, m>>[1] \in Locs
  <2>1. <<l, i, r, m>> \in Seq(Int)
    BY LevelAssumption, FeatureFacts DEF Locs, Levels
  <2> QED
    BY <2>1, RunsAssumption, PlaceFacts
<1> QED
  BY <1>1, <1>2, <1>3 DEF OnWay

LEMMA StopsOnWay ==
  ASSUME feature \in Features, NEW i \in Levels, NEW l \in Locs, NEW k \in DOMAIN Terms(i)
  PROVE  /\ \A n \in Nat : OnWay(Stop(i, l, k, n)) /\ Stop(i, l, k, n)[1] = l
         /\ Stop(i, l, k, 0) = <<l>>
         /\ \A n \in Nat : n # 0 =>
              /\ IsPause(Stop(i, l, k, n)) /\ Stop(i, l, k, n) = <<l, i, TermNr(i, k), n>>
              /\ TermNr(i, k) \in Nat
<1>1. TermNr(i, k) \in Nat
  BY FeatureFacts DEF TermNr
<1>2. Stop(i, l, k, 0) = <<l>>
  BY DEF Stop
<1>3. \A n \in Nat : n # 0 => Stop(i, l, k, n) = <<l, i, TermNr(i, k), n>>
  BY DEF Stop
<1>4. ASSUME NEW n \in Nat
      PROVE  OnWay(Stop(i, l, k, n)) /\ Stop(i, l, k, n)[1] = l
  <2>1. CASE n = 0
    BY <1>2, <2>1, PlaceFacts DEF OnWay
  <2>2. CASE n # 0
    BY <1>1, <1>3, <2>2, PlaceFacts DEF OnWay
  <2> QED
    BY <2>1, <2>2
<1> QED
  BY <1>1, <1>2, <1>3, <1>4, PlaceFacts

LEMMA GoalReached ==
  ASSUME feature \in Features, edges \subseteq EdgePool, NEW i \in Levels, NEW l \in Locs,
         NEW e \in edges \union {None}
  PROVE  /\ ~IsPause(Goal(i, l, e))
         /\ IsLast(i) => Goal(i, l, e) = Final
         /\ ~IsLast(i) => Goal(i, l, e) = <<IF e = None THEN l ELSE e.to>>
         /\ Goal(i, l, e) = Final \/ OnWay(Goal(i, l, e))
<1>1. IsLast(i) => Goal(i, l, e) = Final
  BY DEF Goal
<1>2. ~IsLast(i) => Goal(i, l, e) = <<IF e = None THEN l ELSE e.to>>
  BY DEF Goal
<1>3. (IF e = None THEN l ELSE e.to) \in Locs
  BY RunsAssumption
<1> QED
  BY <1>1, <1>2, <1>3, PlaceFacts DEF OnWay

LEMMA AssignedFacts ==
  ASSUME feature \in Features, NEW i \in Levels
  PROVE  /\ Sub(i).sets \in Seq(Stamps)
         /\ Assigned(i) = IF IsLast(i) THEN Sub(i).sets \o <<Value>> ELSE Sub(i).sets
         /\ Assigned(i) \in Seq(Stamps \union {Value})
<1>1. i + 1 \in DOMAIN feature /\ (i + 1 = Len(feature) <=> IsLast(i))
  <2>1. IsSequence(feature) /\ DOMAIN feature = 1..Len(feature) /\ Len(feature) \in Nat
    BY SequenceFacts, LevelAssumption
  <2> QED
    BY <2>1 DEF Levels, IsLast
<1> DEFINE s == Sub(i).sets
           S == {s[n] : n \in DOMAIN s}
<1>2. s \in Seq(S)
  BY <1>1, LevelAssumption DEF IsSequence, Sub
<1>3. S \subseteq Stamps
  BY <1>1 DEF Stamps, Sub
<1>4. Assigned(i) = s \o IF IsLast(i) THEN <<Value>> ELSE << >>
  BY <1>1 DEF Assigned, Assignments, Sub
<1> HIDE DEF s, S
<1>5. s \in Seq(Stamps) /\ s \in Seq(Stamps \union {Value}) /\ <<Value>> \in Seq(Stamps \union {Value})
  BY <1>2, <1>3
<1>6. s \o << >> = s
  BY <1>5
<1>7. Assigned(i) = IF IsLast(i) THEN s \o <<Value>> ELSE s
  BY <1>4, <1>6
<1>8. Assigned(i) \in Seq(Stamps \union {Value})
  <2>1. s \o <<Value>> \in Seq(Stamps \union {Value})
    BY <1>5
  <2> QED
    BY <1>5, <1>7, <2>1
<1> QED
  BY <1>5, <1>7, <1>8 DEF s

-------------------------------------------------------------------------------
\* The steps of a run

\* What the variables hold, but for a match that is not complete.
Held == IF InChain THEN before ELSE store

\* In a pause location the assignments up to it have been made.
Halted ==
  InChain =>
    \E l \in Locs, r \in Nat : \E m \in 1 .. Len(Assigned(level)) - 1 :
      /\ at = <<l, level, r, m>>
      /\ store = StoredAll(SubSeq(Assigned(level), 1, m), before, env.now)

RunState ==
  /\ at = None \/ at = Final \/ OnWay(at)
  /\ at = None => level = 0 /\ env = None
  /\ at # None => env \in Envs(Times, Times) /\ env.lt <= env.now
  /\ pc # "built" => at = None
  /\ level \in Levels
  /\ store \in Stores /\ before \in Stores

RunInv == IInv /\ RInv /\ RunState /\ Halted

\* A transition of the product that is taken.
Taken(t) == RunInv /\ at # None /\ at # Final /\ t \in trans /\ Take(t)

LEMMA TakenFacts ==
  ASSUME NEW t, Taken(t)
  PROVE  /\ feature \in Features /\ edges \subseteq EdgePool /\ None \notin edges
         /\ t.at = level /\ t.from = at /\ level \in Levels
         /\ OnWay(at) /\ env \in Envs(Times, Times) /\ env.lt <= env.now
         /\ \A atom \in t.guards : Holds(atom, env)
         /\ IsTransition(t) /\ (Matching(t) \/ Moving(t))
         /\ UNCHANGED <<edges, feature, vars>>
<1>1. feature \in Features /\ edges \subseteq EdgePool /\ None \notin edges
  BY LevelAssumption DEF Taken, RunInv, IInv, TypeOK
<1>2. t.at = level /\ t.from = at /\ Enabled(t, env)
  BY DEF Taken, Take, StepsFrom
<1>3. t.guards \subseteq When(t)
  BY DEF When
<1>4. OnWay(at) /\ env \in Envs(Times, Times) /\ env.lt <= env.now /\ level \in Levels
  BY DEF Taken, RunInv, RunState
<1>5. \A atom \in t.guards : Holds(atom, env)
  BY <1>2, <1>3 DEF Enabled
<1>6. IsTransition(t) /\ (Matching(t) \/ Moving(t))
  BY DEF Taken, RunInv, RInv, Sound
<1>7. UNCHANGED <<edges, feature, vars>>
  BY DEF Taken, Take, vars
<1> QED
  BY <1>1, <1>2, <1>4, <1>5, <1>6, <1>7

LEMMA EnvFacts ==
  ASSUME env \in Envs(Times, Times)
  PROVE  /\ env.lt \in Times /\ env.now \in Times /\ env.open \subseteq edges
         /\ env.val \in [Preds -> {"low", "up", "high", "down"}]
         /\ env = [val |-> env.val, rate |-> env.rate, open |-> env.open, lt |-> env.lt,
                   now |-> env.now]
         /\ [env EXCEPT !.lt = env.lt] = env
BY DEF Envs

\* A clock is reset, nothing else happens.
LEMMA ClockReset ==
  ASSUME env \in Envs(Times, Times)
  PROVE  [env EXCEPT !.lt = 0] \in Envs({0}, {env.now})
<1> DEFINE w == [env EXCEPT !.lt = 0]
<1>1. /\ w.val = env.val /\ w.rate = env.rate
      /\ w \in [val: [Preds -> {"low", "up", "high", "down"}], rate: [Rated -> {-1, 0, 1}],
                open: SUBSET edges, lt: {0}, now: {env.now}]
  BY DEF Envs
<1>2. Crossing(w)
  BY <1>1 DEF Envs, Crossing
<1> QED
  BY <1>1, <1>2 DEF Envs

\* The model moves.
LEMMA MovingStep ==
  ASSUME NEW t, Taken(t), Moving(t)
  PROVE  /\ t.edge \in edges /\ t.edge \in env.open
         /\ at = <<t.edge.from>> /\ at' = <<t.edge.to>> /\ t.edge.to \in Locs
         /\ level' = level /\ store' = store /\ before' = store
         /\ env' \in Envs({env.lt}, {env.now})
<1>0. /\ t.edge \in edges /\ t.to = <<t.edge.to>> /\ t.from = <<t.edge.from>> /\ t.sets = << >>
      /\ t.goes = t.at /\ <<"edge", t.edge>> \in t.guards
  BY DEF Moving
<1>1. at = <<t.edge.from>> /\ ~IsPause(at) /\ at' = <<t.edge.to>> /\ ~IsPause(t.to) /\ t.to # Final
  <2>1. t.from = at /\ at' = t.to
    BY TakenFacts DEF Taken, Take
  <2> QED
    BY <1>0, <2>1, PlaceFacts
<1>2. t.edge \in env.open
  BY <1>0, TakenFacts, HoldsFacts
<1>3. level' = level
  BY <1>0, TakenFacts DEF Taken, Take
<1>4. store' = store
  <2>1. store \in Stores /\ env.now \in Times
    BY TakenFacts, EnvFacts DEF Taken, RunInv, RunState
  <2>2. store' = StoredAll(<< >>, store, env.now)
    BY <1>0 DEF Taken, Take
  <2> QED
    BY <2>1, <2>2, StoredFacts
<1>5. before' = store
  BY <1>1 DEF Taken, Take
<1>6. env' \in Envs({env.lt}, {env.now})
  <2>1. t.edge # None
    BY <1>0, TakenFacts
  <2> QED
    BY <1>0, <1>1, <2>1 DEF Taken, Take
<1>7. t.edge.to \in Locs
  BY <1>0, TakenFacts, RunsAssumption
<1> QED
  BY <1>0, <1>1, <1>2, <1>3, <1>4, <1>5, <1>6, <1>7

\* A hop makes one assignment.
LEMMA HopStep ==
  ASSUME NEW t, Taken(t), NEW l, NEW k, NEW e, Chosen(level, l, k, e), t.edge = e,
         NEW j \in 1 .. Len(Assigned(level)) - 1, HopsTo(t, l, k, j)
  PROVE  /\ at = Stop(level, l, k, j - 1) /\ at' = Stop(level, l, k, j)
         /\ level' = level /\ env' = env
         /\ store' = Stored(Assigned(level)[j], store, env.now)
         /\ before' = IF j = 1 THEN store ELSE before
<1>1. /\ l \in Locs /\ k \in DOMAIN Terms(level) /\ feature \in Features /\ level \in Levels
      /\ Len(Assigned(level)) \in Nat /\ j - 1 \in Nat /\ j \in Nat /\ j # 0
  BY TakenFacts, FeatureFacts DEF Chosen
<1>2. /\ t.from = Stop(level, l, k, j - 1) /\ t.to = Stop(level, l, k, j)
      /\ t.goes = t.at /\ t.sets = <<Assigned(level)[j]>>
  BY TakenFacts DEF HopsTo
<1>3. IsPause(t.to) /\ t.to # Final
  BY <1>1, <1>2, StopsOnWay, PlaceFacts
<1>4. IsPause(at) <=> j # 1
  <2>1. at = Stop(level, l, k, j - 1)
    BY <1>2, TakenFacts
  <2>2. CASE j = 1
    <3>1. j - 1 = 0
      BY <2>2
    <3>2. at = <<l>>
      BY <1>1, <2>1, <3>1, StopsOnWay
    <3> QED
      BY <2>2, <3>2, PlaceFacts
  <2>3. CASE j # 1
    <3>1. j - 1 # 0
      BY <1>1, <2>3
    <3> QED
      BY <1>1, <2>1, <2>3, <3>1, StopsOnWay
  <2> QED
    BY <2>2, <2>3
<1>5. env' = env
  <2>1. env' = [env EXCEPT !.lt = env.lt]
    BY <1>2, <1>3 DEF Taken, Take
  <2> QED
    BY <2>1, TakenFacts, EnvFacts
<1>6. store' = Stored(Assigned(level)[j], store, env.now)
  <2>1. store \in Stores /\ env.now \in Times
    BY TakenFacts, EnvFacts DEF Taken, RunInv, RunState
  <2>2. store' = StoredAll(<<Assigned(level)[j]>>, store, env.now)
    BY <1>2 DEF Taken, Take
  <2> QED
    BY <2>1, <2>2, StoredFacts
<1>7. before' = IF j = 1 THEN store ELSE before
  BY <1>4 DEF Taken, Take
<1>8. at' = t.to /\ level' = level /\ at = t.from
  BY <1>2, TakenFacts DEF Taken, Take
<1> QED
  BY <1>2, <1>5, <1>6, <1>7, <1>8

\* The match itself makes the last assignment: by then all have been made.
LEMMA ArriveStores ==
  ASSUME NEW t, Taken(t), NEW l, NEW k, NEW e, Chosen(level, l, k, e), Arrives(t, l, k, e)
  PROVE  store' = StoredAll(Assigned(level), Held, env.now)
<1> DEFINE xs == Assigned(level)
           n == Len(xs)
<1>1. /\ l \in Locs /\ k \in DOMAIN Terms(level) /\ feature \in Features /\ level \in Levels
      /\ xs \in Seq(Stamps \union {Value}) /\ n \in Nat
  BY TakenFacts, FeatureFacts, AssignedFacts DEF Chosen
<1>2. /\ store \in Stores /\ before \in Stores /\ env.now \in Times
  BY TakenFacts, EnvFacts DEF Taken, RunInv, RunState
<1>3. /\ at = Stop(level, l, k, Steps(level) - 1)
      /\ store' = StoredAll(IF n <= 1 THEN xs ELSE <<xs[n]>>, store, env.now)
  BY TakenFacts DEF Arrives, Taken, Take
<1>4. CASE n <= 1
  <2>1. at = <<l>>
    <3>1. Steps(level) - 1 = 0
      BY <1>4 DEF Steps
    <3> QED
      BY <1>1, <1>3, <3>1, StopsOnWay
  <2>2. Held = store
    BY <2>1, PlaceFacts DEF Held, InChain
  <2> QED
    BY <1>3, <1>4, <2>2
<1>5. CASE n > 1
  <2>1. n - 1 \in Nat /\ n - 1 # 0 /\ n - 1 \in 0 .. n - 1 /\ (n - 1) + 1 = n /\ Steps(level) = n
    <3>1. Steps(level) = n
      BY <1>5 DEF Steps
    <3> HIDE DEF n
    <3> QED
      BY <1>1, <1>5, <3>1
  <2>2. at = <<l, level, TermNr(level, k), n - 1>> /\ IsPause(at)
    BY <1>1, <1>3, <2>1, StopsOnWay
  <2>3. at # None
    BY DEF Taken
  <2>4. InChain /\ Held = before
    BY <2>2, <2>3 DEF InChain, Held
  <2>5. store = StoredAll(SubSeq(xs, 1, n - 1), before, env.now)
    <3>1. PICK m : /\ \E l1, r1 : at = <<l1, level, r1, m>>
                   /\ store = StoredAll(SubSeq(xs, 1, m), before, env.now)
      BY <2>4 DEF Taken, RunInv, Halted
    <3>2. m = n - 1
      BY <2>2, <3>1
    <3> QED
      BY <3>1, <3>2
  <2>6. store' = Stored(xs[n], store, env.now)
    <3>1. store' = StoredAll(<<xs[n]>>, store, env.now)
      BY <1>3, <1>5
    <3> QED
      BY <1>2, <3>1, StoredFacts
  <2>7. StoredAll(SubSeq(xs, 1, n), before, env.now)
          = Stored(xs[n], StoredAll(SubSeq(xs, 1, n - 1), before, env.now), env.now)
    <3>1. StoredAll(SubSeq(xs, 1, (n - 1) + 1), before, env.now)
            = Stored(xs[(n - 1) + 1], StoredAll(SubSeq(xs, 1, n - 1), before, env.now), env.now)
      BY <1>1, <1>2, <2>1, StoredOneMore
    <3> QED
      BY <2>1, <3>1
  <2>8. SubSeq(xs, 1, n) = xs
    BY <1>1, SubSeqFull
  <2> QED
    BY <2>4, <2>5, <2>6, <2>7, <2>8
<1> QED
  BY <1>1, <1>4, <1>5

LEMMA ArriveStep ==
  ASSUME NEW t, Taken(t), NEW l, NEW k, NEW e, Chosen(level, l, k, e), t.edge = e, Arrives(t, l, k, e)
  PROVE  /\ at[1] = l /\ at' = Goal(level, l, e) /\ level' = NextId(level)
         /\ before' \in {store, before}
         /\ IF e = None THEN env' = [env EXCEPT !.lt = 0] ELSE env' \in Envs({0}, {env.now})
<1>1. /\ l \in Locs /\ k \in DOMAIN Terms(level) /\ feature \in Features /\ level \in Levels
      /\ level \in Nat /\ Len(Assigned(level)) \in Nat /\ edges \subseteq EdgePool
  BY TakenFacts, FeatureFacts DEF Chosen, Levels
<1>2. Steps(level) - 1 \in Nat
  BY <1>1 DEF Steps
<1>3. /\ t.from = Stop(level, l, k, Steps(level) - 1) /\ t.to = Goal(level, l, e)
      /\ t.goes = NextId(level) /\ at = t.from /\ t.at = level
  BY TakenFacts DEF Arrives
<1>4. at[1] = l
  BY <1>1, <1>2, <1>3, StopsOnWay
<1>5. ~IsPause(t.to) /\ (t.goes = t.at => t.to = Final)
  <2>1. e \in edges \union {None}
    BY DEF Chosen, EventEdges
  <2>2. IsLast(level) => t.to = Final
    BY <1>3 DEF Goal
  <2>3. ~IsLast(level) => t.goes # t.at
    BY <1>1, <1>3 DEF NextId
  <2> QED
    BY <1>1, <1>3, <2>1, <2>2, <2>3, GoalReached
<1>6. IF e = None THEN env' = [env EXCEPT !.lt = 0] ELSE env' \in Envs({0}, {env.now})
  BY <1>5 DEF Taken, Take
<1>7. at' = t.to /\ level' = t.goes /\ before' \in {store, before}
  BY DEF Taken, Take
<1> QED
  BY <1>3, <1>4, <1>6, <1>7

\* What sub-expression x waits for in location l is no negative edge of a PORV, which
\* the parser numbers -1 while levelSequence looks for 2, and for a positive edge the
\* derivative that is found by its name is that of the variable compared.
SharpAt(x, l) ==
  IsPorvEvent(x) =>
    /\ x.event.type # Negedge
    /\ x.event.type = Posedge =>
         /\ Porv[x.event.of].var # None
         /\ Derivative(x.event.of, l) = Porv[x.event.of].var

\* The guards of a match hold: the sub-expression happens, in its window.
LEMMA ArriveHolds ==
  ASSUME NEW t, Taken(t), NEW l, NEW k, NEW e, Chosen(level, l, k, e), t.edge = e,
         Own(level, l, k, e) \subseteq t.guards
  PROVE  /\ l \in Locs /\ e \in edges \union {None}
         /\ Sub(level).delay # None => InDelay(Sub(level).delay, env.lt)
         /\ e # None => e \in env.open /\ e.from = l
         /\ SharpAt(Sub(level), l) => MatchesOn(Sub(level), l, e, env)
<1> DEFINE x == Sub(level)
<1>0. /\ feature \in Features /\ level \in Levels /\ k \in DOMAIN Terms(level) /\ l \in Locs
      /\ Terms(level)[k].ctx \in {None, l} /\ e \in edges \union {None}
      /\ \A atom \in Own(level, l, k, e) : Holds(atom, env)
  BY TakenFacts DEF Chosen, EventEdges
<1>1. x.event # None => /\ x.event.type \in {Posedge, Negedge, Anyedge}
                        /\ \/ x.event.on = "state"
                           \/ x.event.on = "porv" /\ x.event.of \in Preds
  <2>1. level + 1 \in DOMAIN feature
    <3>1. IsSequence(feature) /\ DOMAIN feature = 1..Len(feature) /\ Len(feature) \in Nat
      BY <1>0, SequenceFacts, LevelAssumption
    <3> QED
      BY <1>0, <3>1 DEF Levels
  <2> QED
    BY <1>0, <2>1, LevelAssumption DEF Sub
<1>2. x.delay # None => InDelay(x.delay, env.lt)
  <2>1. x.delay # None => <<"window", level>> \in Own(level, l, k, e)
    BY DEF Own, TemporalGuards
  <2>2. x.delay # None => Holds(<<"window", level>>, env)
    BY <1>0, <2>1
  <2> QED
    BY <2>2, HoldsFacts
<1>3. e # None => e \in env.open
  <2>1. e # None => <<"edge", e>> \in Own(level, l, k, e)
    BY DEF Own
  <2>2. e # None => Holds(<<"edge", e>>, env)
    BY <1>0, <2>1
  <2> QED
    BY <2>2, HoldsFacts
<1>4. ConjunctHolds(Conjuncts(x)[k], l, env) /\ k \in DOMAIN Conjuncts(x)
  <2>1. ASSUME NEW p \in Terms(level)[k].preds
        PROVE  env.val[p] # "low"
    <3>1. <<"pred", p>> \in Own(level, l, k, e)
      BY DEF Own, PredGuards
    <3>2. Holds(<<"pred", p>>, env)
      BY <1>0, <3>1
    <3> QED
      BY <3>2, HoldsFacts
  <2> QED
    BY <1>0, <2>1 DEF ConjunctHolds, Terms
<1>5. ASSUME IsPorvEvent(x), SharpAt(x, l)
      PROVE  Occurs(x.event, env)
  <2> DEFINE p == x.event.of
  <2>1. \A atom \in EventGuards(level, l) : Holds(atom, env)
    BY <1>0 DEF Own
  <2>2. p \in Preds /\ x.event.type \in {Posedge, Anyedge}
    BY <1>1, <1>5 DEF SharpAt, IsPorvEvent, IsStateEvent
  <2>3. env.val[p] \in {"up", "down"}
    <3>1. Holds(<<"cross", p>>, env)
      BY <1>5, <2>1 DEF EventGuards
    <3> QED
      BY <3>1, HoldsFacts
  <2>4. CASE x.event.type = Posedge
    <3>1. /\ Porv[p].var # None /\ Derivative(p, l) = Porv[p].var /\ Porv[p].above \in BOOLEAN
      BY <1>5, <2>2, <2>4, PorvAssumption DEF SharpAt
    <3>2. <<IF Porv[p].above THEN "rises" ELSE "falls", Porv[p].var>> \in EventGuards(level, l)
      BY <1>5, <2>4, <3>1 DEF EventGuards, SignGuard, Posedge
    <3>3. env.rate[Porv[p].var] = IF Porv[p].above THEN 1 ELSE -1
      BY <2>1, <3>2, HoldsFacts
    <3>4. env.val[p] = "down" => env.rate[Porv[p].var] = IF Porv[p].above THEN -1 ELSE 1
      BY <2>2, <3>1, TakenFacts DEF Envs, Crossing
    <3>5. env.val[p] = "up"
      BY <2>3, <3>1, <3>3, <3>4
    <3> QED
      BY <2>4, <3>5 DEF Occurs
  <2>5. CASE x.event.type = Anyedge
    BY <2>3, <2>5 DEF Occurs
  <2> QED
    BY <2>2, <2>4, <2>5
<1>6. CASE IsStateEvent(x)
  <2>1. e \in EventEdges(level, l)
    BY <1>6 DEF Chosen
  <2>2. x.event.type \in {1, -1, 0}
    BY <1>1, <1>6 DEF IsStateEvent, Posedge, Negedge, Anyedge
  <2>3. e \in edges /\ e.from = l /\ Switches(x.event, e)
    BY <2>1, <2>2 DEF EventEdges, Switches, Posedge, Negedge, Anyedge
  <2>4. e # None
    BY <2>3, TakenFacts
  <2> QED
    BY <1>0, <1>2, <1>3, <1>4, <1>5, <1>6, <2>3, <2>4 DEF MatchesOn, HappensOn
<1>7. CASE ~IsStateEvent(x)
  <2>1. e = None
    BY <1>7 DEF Chosen
  <2> QED
    BY <1>0, <1>2, <1>4, <1>5, <1>7, <2>1 DEF MatchesOn, HappensOn
<1> QED
  BY <1>6, <1>7

\* What a step of the product does: a move of the model, a hop, or a match.
LEMMA TakenCases ==
  ASSUME NEW t, Taken(t)
  PROVE  \/ Moving(t)
         \/ \E l, k, e :
              /\ Chosen(level, l, k, e) /\ t.edge = e /\ Own(level, l, k, e) \subseteq t.guards
              /\ \/ Arrives(t, l, k, e)
                 \/ \E j \in 1 .. Len(Assigned(level)) - 1 : HopsTo(t, l, k, j)
BY TakenFacts DEF Matching

-------------------------------------------------------------------------------
\* The invariant

LEMMA InitRunInv == RunInit => RunInv
<1> SUFFICES ASSUME RunInit PROVE RunInv
  OBVIOUS
<1>1. IInv /\ RInv
  BY InitIInv, InitRInv DEF RunInit
<1>2. level \in Levels
  BY <1>1, FeatureFacts DEF RunInit, IInv, TypeOK, Levels
<1>3. Cleared \in Stores
  <2>1. 0 \in Times
    BY LevelAssumption DEF Times
  <2>2. NoStamps \in [Stamps -> Times]
    BY <2>1 DEF NoStamps
  <2>3. Cleared \in [Stamps \union {Value} -> Times \union [Stamps -> Times]]
    BY <2>1, <2>2 DEF Cleared
  <2> QED
    BY <2>1, <2>2, <2>3, RunsAssumption DEF Stores, Cleared
<1>4. Halted
  BY DEF RunInit, Halted, InChain
<1> QED
  BY <1>1, <1>2, <1>3, <1>4 DEF RunInit, RunInv, RunState

LEMMA BuildFrame == Build => UNCHANGED <<edges, feature>> /\ pc # "built"
<1> SUFFICES ASSUME Build PROVE UNCHANGED <<edges, feature>> /\ pc # "built"
  OBVIOUS
<1>1. CASE SkipTerm \/ MatchByLoop \/ MatchOnEdges
  BY <1>1 DEF SkipTerm, MatchByLoop, MatchOnEdges, NextTerm
<1>2. CASE RetainAll \/ RetainOpen \/ RetainNone
  BY <1>2 DEF RetainAll, RetainOpen, RetainNone, NextLocation
<1>3. CASE Gate
  BY <1>3 DEF Gate
<1> QED
  BY <1>1, <1>2, <1>3 DEF Build

LEMMA LevelsFrame ==
  ASSUME UNCHANGED <<edges, feature>>
  PROVE  /\ Levels' = Levels
         /\ \A place : OnWay(place)' = OnWay(place)
         /\ \A a, b : Envs(a, b)' = Envs(a, b)
         /\ \A i : Assigned(i)' = Assigned(i)
<1>1. Levels' = Levels
  BY DEF Levels
<1>2. \A place : OnWay(place)' = OnWay(place)
  BY <1>1 DEF OnWay, Locs
<1>3. \A a, b : Envs(a, b)' = Envs(a, b)
  BY DEF Envs
<1>4. \A i : Assigned(i)' = Assigned(i)
  BY DEF Assigned
<1> QED
  BY <1>1, <1>2, <1>3, <1>4

\* A hop, in its pause location.
LEMMA HopHalts ==
  ASSUME NEW t, Taken(t), NEW l, NEW k, NEW e, Chosen(level, l, k, e), t.edge = e,
         NEW j \in 1 .. Len(Assigned(level)) - 1, HopsTo(t, l, k, j)
  PROVE  RunState' /\ Halted'
<1> DEFINE xs == Assigned(level)
           n == Len(xs)
<1>1. /\ l \in Locs /\ k \in DOMAIN Terms(level) /\ feature \in Features /\ level \in Levels
      /\ xs \in Seq(Stamps \union {Value}) /\ n \in Nat /\ UNCHANGED <<edges, feature, vars>>
      /\ env \in Envs(Times, Times) /\ env.lt <= env.now /\ env.now \in Times
  BY TakenFacts, EnvFacts, FeatureFacts, AssignedFacts DEF Chosen
<1>2. /\ at = Stop(level, l, k, j - 1) /\ at' = Stop(level, l, k, j) /\ level' = level /\ env' = env
      /\ store' = Stored(xs[j], store, env.now)
      /\ before' = IF j = 1 THEN store ELSE before
  BY HopStep
<1>3. /\ store \in Stores /\ before \in Stores /\ at # None /\ pc = "built"
  BY DEF Taken, RunInv, RunState
<1>4. j \in Nat /\ j # 0 /\ j - 1 \in 0 .. n - 1 /\ (j - 1) + 1 = j /\ j - 1 \in Nat
  BY <1>1
<1>5. /\ OnWay(at') /\ IsPause(at') /\ at' = <<l, level, TermNr(level, k), j>>
      /\ TermNr(level, k) \in Nat
  BY <1>1, <1>2, <1>4, StopsOnWay
<1>6. RunState'
  <2>1. store' \in Stores /\ before' \in Stores
    BY <1>1, <1>2, <1>3, StoredTyped
  <2>2. at' # None
    BY <1>1, <1>5, PlacesNamed
  <2>3. pc' = "built" /\ Levels' = Levels /\ OnWay(at)' /\ env' \in Envs(Times, Times)'
    <3>1. OnWay(at)' <=> OnWay(at')
      BY <1>1 DEF OnWay, Levels, Locs
    <3> QED
      BY <1>1, <1>2, <1>3, <1>5, <3>1, LevelsFrame DEF vars
  <2> QED
    BY <1>1, <1>2, <2>1, <2>2, <2>3 DEF RunState, Times
<1>7. store' = StoredAll(SubSeq(xs, 1, j), before', env.now)
  <2>1. /\ before' \in Stores
        /\ StoredAll(SubSeq(xs, 1, (j - 1) + 1), before', env.now)
             = Stored(xs[(j - 1) + 1], StoredAll(SubSeq(xs, 1, j - 1), before', env.now), env.now)
    <3>1. PICK b \in Stores : b = before'
      BY <1>2, <1>3
    <3>2. StoredAll(SubSeq(xs, 1, (j - 1) + 1), b, env.now)
            = Stored(xs[(j - 1) + 1], StoredAll(SubSeq(xs, 1, j - 1), b, env.now), env.now)
      BY <1>1, <1>4, StoredOneMore
    <3> QED
      BY <3>1, <3>2
  <2>2. StoredAll(SubSeq(xs, 1, j - 1), before', env.now) = store
    <3>1. CASE j = 1
      <4>1. SubSeq(xs, 1, j - 1) = << >>
        BY <3>1, SubSeqEmpty
      <4> QED
        BY <1>1, <1>2, <1>3, <3>1, <4>1, StoredFacts
    <3>2. CASE j # 1
      <4>1. j - 1 # 0
        BY <1>4, <3>2
      <4>2. at = <<l, level, TermNr(level, k), j - 1>> /\ IsPause(at)
        BY <1>1, <1>2, <1>4, <4>1, StopsOnWay
      <4>3. PICK m : /\ \E l1, r1 : at = <<l1, level, r1, m>>
                     /\ store = StoredAll(SubSeq(xs, 1, m), before, env.now)
        BY <1>3, <4>2 DEF Taken, RunInv, Halted, InChain
      <4>4. m = j - 1
        BY <4>2, <4>3
      <4> QED
        BY <1>2, <3>2, <4>3, <4>4
    <3> QED
      BY <3>1, <3>2
  <2> QED
    BY <1>2, <1>4, <2>1, <2>2
<1>8. Halted'
  <2>0. j \in 1 .. Len(xs) - 1
    OBVIOUS
  <2> HIDE DEF xs
  <2>1. Assigned(level)' = xs
    BY <1>1, <1>2 DEF Assigned, xs
  <2>2. Locs' = Locs
    BY DEF Locs
  <2> QED
    BY <1>1, <1>2, <1>5, <1>7, <2>0, <2>1, <2>2 DEF Halted
<1> QED
  BY <1>6, <1>8

LEMMA TakingKeeps ==
  ASSUME NEW t, Taken(t)
  PROVE  RunState' /\ Halted'
<1>1. /\ feature \in Features /\ level \in Levels /\ UNCHANGED <<edges, feature, vars>>
      /\ edges \subseteq EdgePool
      /\ env \in Envs(Times, Times) /\ env.lt <= env.now /\ env.lt \in Times /\ env.now \in Times
  BY TakenFacts, EnvFacts
<1>2. /\ store \in Stores /\ before \in Stores /\ pc = "built"
  BY DEF Taken, RunInv, RunState
<1>3. Times' = Times /\ pc' = "built" /\ 0 \in Times
  BY <1>1, <1>2, LevelAssumption DEF vars, Times
<1>4. \A place : OnWay(place)' <=> OnWay(place)
  BY <1>1, LevelsFrame
<1>5. ASSUME OnWay(at') \/ at' = Final, ~IsPause(at'), level' \in Levels,
             store' \in Stores, before' \in Stores,
             env' \in Envs(Times, Times), env'.lt <= env'.now
      PROVE  RunState' /\ Halted'
  <2>1. at' # None
    BY <1>1, <1>5, PlacesNamed
  <2>2. OnWay(at)' \/ at' = Final
    BY <1>1, <1>5 DEF OnWay, Levels, Locs
  <2>3. Envs(Times, Times)' = Envs(Times, Times) /\ Levels' = Levels
    BY <1>1 DEF Envs, Levels, Times
  <2>4. RunState'
    BY <1>3, <1>5, <2>1, <2>2, <2>3 DEF RunState
  <2>5. Halted'
    BY <1>5 DEF Halted, InChain
  <2> QED
    BY <2>4, <2>5
<1>6. CASE Moving(t)
  <2>1. /\ at' = <<t.edge.to>> /\ t.edge.to \in Locs /\ level' = level /\ store' = store
        /\ before' = store /\ env' \in Envs({env.lt}, {env.now})
    BY <1>6, MovingStep
  <2>2. OnWay(at') /\ ~IsPause(at')
    BY <2>1, PlaceFacts DEF OnWay
  <2>3. env' \in Envs(Times, Times) /\ env'.lt <= env'.now
    BY <1>1, <2>1 DEF Envs
  <2> QED
    BY <1>1, <1>2, <1>5, <2>1, <2>2, <2>3
<1>7. CASE \E l, k, e : /\ Chosen(level, l, k, e) /\ t.edge = e
                        /\ \E j \in 1 .. Len(Assigned(level)) - 1 : HopsTo(t, l, k, j)
  BY <1>7, HopHalts
<1>8. ASSUME NEW l, NEW k, NEW e, Chosen(level, l, k, e), t.edge = e, Arrives(t, l, k, e)
      PROVE  RunState' /\ Halted'
  <2>1. /\ at' = Goal(level, l, e) /\ level' = NextId(level) /\ before' \in {store, before}
        /\ IF e = None THEN env' = [env EXCEPT !.lt = 0] ELSE env' \in Envs({0}, {env.now})
    BY <1>8, ArriveStep
  <2>2. l \in Locs /\ e \in edges \union {None}
    BY <1>8 DEF Chosen, EventEdges
  <2>3. (OnWay(at') \/ at' = Final) /\ ~IsPause(at')
    BY <1>1, <2>1, <2>2, GoalReached
  <2>4. level' \in Levels
    BY <1>1, <2>1, FeatureFacts DEF NextId, Levels, IsLast
  <2>5. store' \in Stores
    <3>1. Held \in Stores
      BY <1>2 DEF Held
    <3>2. store' = StoredAll(Assigned(level), Held, env.now)
      BY <1>8, ArriveStores
    <3>3. Len(Assigned(level)) \in Nat
      BY <1>1, FeatureFacts
    <3> QED
      BY <1>1, <3>1, <3>2, <3>3, StoredFacts
  <2>6. env' \in Envs(Times, Times) /\ env'.lt <= env'.now
    <3>1. 0 <= env.now
      BY <1>1, LevelAssumption DEF Times
    <3>2. CASE e = None
      BY <1>1, <1>3, <2>1, <3>1, <3>2, ClockReset DEF Envs
    <3>3. CASE e # None
      BY <1>1, <1>3, <2>1, <3>1, <3>3 DEF Envs
    <3> QED
      BY <3>2, <3>3
  <2> QED
    BY <1>2, <1>5, <2>1, <2>3, <2>4, <2>5, <2>6
<1> QED
  BY <1>6, <1>7, <1>8, TakenCases

LEMMA StepRunInv == RunInv /\ [RunNext]_Vars => RunInv'
<1> SUFFICES ASSUME RunInv, [RunNext]_Vars PROVE RunInv'
  OBVIOUS
<1>0. feature \in Features /\ IInv /\ RInv /\ RunState /\ Halted
  BY DEF RunInv, IInv, TypeOK
<1>1. CASE Building
  <2>1. Build /\ UNCHANGED <<at, level, env, store, before>>
    BY <1>1 DEF Building, runVars
  <2>2. UNCHANGED <<edges, feature>> /\ at = None
    BY <1>0, <2>1, BuildFrame DEF RunState
  <2>3. IInv' /\ RInv'
    BY <1>0, <2>1, StepIInv, StepRInv DEF Next
  <2>4. RunState'
    BY <1>0, <2>1, <2>2 DEF RunState, Levels
  <2>5. Halted'
    BY <2>1, <2>2 DEF Halted, InChain
  <2> QED
    BY <2>3, <2>4, <2>5 DEF RunInv
<1>2. ASSUME UNCHANGED vars PROVE IInv' /\ RInv'
  BY <1>0, <1>2, StepIInv, StepRInv
<1>3. CASE Begin
  <2>1. /\ UNCHANGED vars /\ UNCHANGED <<edges, feature, level, store, before>> /\ pc' = "built"
    BY <1>3 DEF Begin, vars
  <2>2. PICK l \in Locs : at' = <<l>>
    BY <1>3 DEF Begin
  <2>3. at' # None /\ ~IsPause(at')
    <3>1. OnWay(<<l>>)
      BY DEF OnWay
    <3> QED
      BY <1>0, <2>2, <3>1, PlacesNamed, PlaceFacts
  <2>4. env' \in Envs(Times, Times)' /\ env'.lt <= env'.now
    <3>1. 0 \in Times
      BY LevelAssumption DEF Times
    <3>2. env' \in Envs({0}, {0})
      BY <1>3 DEF Begin
    <3> QED
      BY <2>1, <3>1, <3>2 DEF Envs, Times
  <2>5. RunState'
    <3>1. OnWay(at)'
      BY <2>2 DEF OnWay, Locs
    <3> QED
      BY <1>0, <2>1, <2>3, <2>4, <3>1 DEF RunState, Levels
  <2>6. Halted'
    BY <2>3 DEF Halted, InChain
  <2> QED
    BY <1>2, <2>1, <2>5, <2>6 DEF RunInv
<1>4. CASE Dwell
  <2>1. /\ UNCHANGED vars /\ UNCHANGED <<edges, feature, at, level, store, before, pc>>
        /\ at # None /\ ~IsPause(at)
    BY <1>4 DEF Dwell, vars
  <2>2. env' \in Envs(Times, Times)' /\ env'.lt <= env'.now
    <3>1. /\ env \in Envs(Times, Times) /\ env.lt <= env.now /\ env.now < MaxTime
          /\ env' \in Envs({env.lt + 1}, {env.now + 1})
      BY <1>0, <1>4 DEF Dwell, RunState
    <3>2. env.lt \in Nat /\ env.now \in Nat /\ env.lt + 1 \in Times /\ env.now + 1 \in Times
          /\ env.lt + 1 <= env.now + 1
      BY <3>1, EnvFacts, LevelAssumption DEF Times
    <3> QED
      BY <2>1, <3>1, <3>2 DEF Envs, Times
  <2>3. RunState'
    BY <1>0, <2>1, <2>2 DEF RunState, Levels, OnWay, Locs
  <2>4. Halted'
    BY <2>1 DEF Halted, InChain
  <2> QED
    BY <1>2, <2>1, <2>3, <2>4 DEF RunInv
<1>5. CASE Taking
  <2>1. PICK t \in trans : Taken(t)
    BY <1>5 DEF Taking, Taken
  <2>2. UNCHANGED vars
    BY <2>1, TakenFacts
  <2> QED
    BY <1>2, <2>1, <2>2, TakingKeeps DEF RunInv
<1>6. CASE UNCHANGED Vars
  <2>1. UNCHANGED vars /\ UNCHANGED <<edges, feature, at, level, env, store, before, pc>>
    BY <1>6 DEF Vars, runVars, vars
  <2>2. RunState'
    <3>1. Levels' = Levels /\ OnWay(at)' = OnWay(at) /\ Envs(Times, Times)' = Envs(Times, Times)
      BY <2>1 DEF Levels, OnWay, Locs, Envs, Times
    <3> QED
      BY <1>0, <2>1, <3>1 DEF RunState
  <2>3. Halted'
    BY <1>0, <2>1 DEF Halted, InChain, Assigned, Locs
  <2> QED
    BY <1>2, <2>1, <2>2, <2>3 DEF RunInv
<1> QED
  BY <1>1, <1>3, <1>4, <1>5, <1>6 DEF RunNext

LEMMA RunsTyped == RunInv => RunTypeOK
<1> SUFFICES ASSUME RunInv PROVE RunTypeOK
  OBVIOUS
<1>1. TypeOK /\ feature \in Features /\ RunState
  BY DEF RunInv, IInv, TypeOK
<1>2. at \in {None, Final} \/ at[1] \in Locs
  BY <1>1, PlacesNamed DEF RunState
<1>3. env = None \/ env \in Envs(0..MaxTime, 0..MaxTime)
  BY <1>1 DEF RunState, Times
<1>4. \A s \in {store, before} :
        s[Value] \in [Stamps -> 0..MaxTime] /\ \A x \in Stamps : s[x] \in 0..MaxTime
  BY <1>1 DEF RunState, Stores, Times
<1> QED
  BY <1>1, <1>2, <1>3, <1>4 DEF RunTypeOK, RunState

-------------------------------------------------------------------------------
\* What a run shows of the feature

Where == IF at \in {None, Final} THEN None ELSE at[1]

Count == IF at = Final THEN Len(feature) ELSE level

\* The guard of every event on a PORV asks for that event, wherever it is matched.
Sharp == \A k \in DOMAIN feature, l \in Locs : SharpAt(feature[k], l)

\* The operators of FeatureExpr are those of the monitor.
LEMMA SameMeaning ==
  /\ \A x, l, e, v : MatchesOn(x, l, e, v) <=> Watched!MatchesOn(x, l, e, v)
  /\ \A xs, s, now : StoredAll(xs, s, now) = Watched!StoredAll(xs, s, now)
  /\ \A f, k : Assignments(f, k) = Watched!Assignments(f, k)
  /\ \A v, w : Flows(v, w) <=> Watched!Flows(v, w)
<1>1. \A x, l, e, v : MatchesOn(x, l, e, v) <=> Watched!MatchesOn(x, l, e, v)
  BY DEF MatchesOn, HappensOn, Conjuncts, EventOnly, ConjunctHolds, IsPorvEvent, IsStateEvent,
         Occurs, Switches, InDelay, Posedge, Negedge, Anyedge,
         Watched!MatchesOn, Watched!HappensOn, Watched!Conjuncts, Watched!EventOnly,
         Watched!ConjunctHolds, Watched!IsPorvEvent, Watched!IsStateEvent, Watched!Occurs,
         Watched!Switches, Watched!InDelay, Watched!Posedge, Watched!Negedge, Watched!Anyedge
<1>2. \A xs, s, now : StoredAll(xs, s, now) = Watched!StoredAll(xs, s, now)
  BY DEF StoredAll, Stored, Watched!StoredAll, Watched!Stored
<1>3. \A f, k : Assignments(f, k) = Watched!Assignments(f, k)
  BY DEF Assignments, Watched!Assignments
<1>4. \A v, w : Flows(v, w) <=> Watched!Flows(v, w)
  BY DEF Flows, Later, Watched!Flows, Watched!Later
<1> QED
  BY <1>1, <1>2, <1>3, <1>4

\* What is seen of a place.
LEMMA SeenOf ==
  ASSUME feature \in Features
  PROVE  /\ OnWay(at) => Where = at[1] /\ Where # None /\ Count = level /\ (InChain <=> IsPause(at))
         /\ at = None => Where = None /\ Count = level /\ Held = store
         /\ at = Final => Where = None /\ Count = Len(feature) /\ Held = store
<1>1. OnWay(at) => Where = at[1] /\ Where # None /\ Count = level /\ (InChain <=> IsPause(at))
  BY PlacesNamed DEF Where, Count, InChain
<1>2. at = None => Where = None /\ Count = level /\ Held = store
  BY PlacesNamed DEF Where, Count, InChain, Held
<1>3. at = Final => Where = None /\ Count = Len(feature) /\ Held = store
  BY PlaceFacts DEF Where, Count, InChain, Held
<1> QED
  BY <1>1, <1>2, <1>3

\* The same of the place that follows.
LEMMA SeenNext ==
  ASSUME feature \in Features, UNCHANGED <<edges, feature>>
  PROVE  /\ OnWay(at') => /\ Where' = at'[1] /\ Where' # None /\ Count' = level'
                          /\ (InChain' <=> IsPause(at'))
         /\ at' = Final => Where' = None /\ Count' = Len(feature) /\ Held' = store'
<1>1. OnWay(at') => /\ Where' = at'[1] /\ Where' # None /\ Count' = level'
                    /\ (InChain' <=> IsPause(at'))
  BY PlacesNamed DEF Where, Count, InChain
<1>2. at' = Final => Where' = None /\ Count' = Len(feature) /\ Held' = store'
  BY PlaceFacts DEF Where, Count, InChain, Held
<1> QED
  BY <1>1, <1>2

Unseen == UNCHANGED <<edges, feature, Where, Count, env, Held>>

\* A match as the monitor watches it, but for its event.
MatchSeen(e) ==
  /\ Where \in Locs /\ level \in Levels /\ Count = level /\ e \in edges \union {None}
  /\ SharpAt(Sub(level), Where) => MatchesOn(Sub(level), Where, e, env)
  /\ Sub(level).delay # None => InDelay(Sub(level).delay, env.lt)
  /\ Count' = level + 1
  /\ Held' = StoredAll(Assigned(level), Held, env.now)
  /\ e # None => e \in env.open /\ e.from = Where
  /\ env'.now = env.now /\ env'.lt = 0
  /\ IF IsLast(level) THEN at' = Final /\ Where' = None /\ Count' = Len(feature)
     ELSE /\ at' # Final /\ Where' = IF e = None THEN Where ELSE e.to
          /\ e = None => env'.val = env.val /\ env'.open = env.open
  /\ UNCHANGED <<edges, feature>>

LEMMA HopUnseen ==
  ASSUME NEW t, Taken(t), NEW l, NEW k, NEW e, Chosen(level, l, k, e), t.edge = e,
         NEW j \in 1 .. Len(Assigned(level)) - 1, HopsTo(t, l, k, j)
  PROVE  Unseen
<1>1. /\ l \in Locs /\ k \in DOMAIN Terms(level) /\ feature \in Features /\ level \in Levels
      /\ UNCHANGED <<edges, feature>> /\ j \in Nat /\ j # 0 /\ j - 1 \in Nat
  BY TakenFacts, FeatureFacts DEF Chosen
<1>2. /\ at = Stop(level, l, k, j - 1) /\ at' = Stop(level, l, k, j) /\ level' = level /\ env' = env
      /\ before' = IF j = 1 THEN store ELSE before
  BY HopStep
<1>3. OnWay(at) /\ at[1] = l /\ OnWay(at') /\ at'[1] = l /\ IsPause(at')
  BY <1>1, <1>2, StopsOnWay
<1>4. Where' = Where /\ Count' = Count
  BY <1>1, <1>2, <1>3, SeenOf, SeenNext
<1>5. Held' = before'
  BY <1>1, <1>3, SeenNext DEF Held
<1>6. Held = before'
  <2>1. CASE j = 1
    <3>1. j - 1 = 0
      BY <2>1
    <3>2. at = <<l>>
      BY <1>1, <1>2, <3>1, StopsOnWay
    <3> QED
      BY <1>2, <2>1, <3>2, PlaceFacts DEF Held, InChain
  <2>2. CASE j # 1
    <3>1. j - 1 # 0
      BY <1>1, <2>2
    <3>2. IsPause(at)
      BY <1>1, <1>2, <3>1, StopsOnWay
    <3> QED
      BY <1>1, <1>2, <1>3, <2>2, <3>2, SeenOf DEF Held
  <2> QED
    BY <2>1, <2>2
<1> QED
  BY <1>1, <1>2, <1>4, <1>5, <1>6 DEF Unseen

LEMMA ArriveSeen ==
  ASSUME NEW t, Taken(t), NEW l, NEW k, NEW e, Chosen(level, l, k, e), t.edge = e,
         Own(level, l, k, e) \subseteq t.guards, Arrives(t, l, k, e)
  PROVE  MatchSeen(e)
<1>1. /\ feature \in Features /\ level \in Levels /\ edges \subseteq EdgePool
      /\ UNCHANGED <<edges, feature>> /\ OnWay(at) /\ env \in Envs(Times, Times)
  BY TakenFacts
<1>2. /\ at[1] = l /\ at' = Goal(level, l, e) /\ level' = NextId(level)
      /\ IF e = None THEN env' = [env EXCEPT !.lt = 0] ELSE env' \in Envs({0}, {env.now})
  BY ArriveStep
<1>3. store' = StoredAll(Assigned(level), Held, env.now)
  BY ArriveStores
<1>4. /\ l \in Locs /\ e \in edges \union {None}
      /\ Sub(level).delay # None => InDelay(Sub(level).delay, env.lt)
      /\ e # None => e \in env.open /\ e.from = l
      /\ SharpAt(Sub(level), l) => MatchesOn(Sub(level), l, e, env)
  BY ArriveHolds
<1>5. Where = l /\ Count = level
  BY <1>1, <1>2, SeenOf
<1>6. ~IsPause(at') /\ (at' = Final \/ OnWay(at'))
      /\ (IsLast(level) => at' = Final)
      /\ (~IsLast(level) => at' = <<IF e = None THEN l ELSE e.to>>)
  BY <1>1, <1>2, <1>4, GoalReached
<1>7. Held' = store'
  BY <1>1, <1>6, SeenNext DEF Held
<1>8. /\ env'.now = env.now /\ env'.lt = 0
      /\ e = None => env'.val = env.val /\ env'.open = env.open
  <2>1. CASE e = None
    BY <1>1, <1>2, <2>1 DEF Envs
  <2>2. CASE e # None
    BY <1>1, <1>2, <2>2 DEF Envs
  <2> QED
    BY <2>1, <2>2
<1>9. CASE IsLast(level)
  <2>1. at' = Final /\ Where' = None /\ Count' = Len(feature)
    BY <1>1, <1>6, <1>9, SeenNext
  <2>2. Len(feature) = level + 1
    BY <1>1, <1>9, FeatureFacts DEF IsLast, Levels
  <2> QED
    BY <1>1, <1>3, <1>4, <1>5, <1>7, <1>8, <1>9, <2>1, <2>2 DEF MatchSeen
<1>10. CASE ~IsLast(level)
  <2>1. at' = <<IF e = None THEN l ELSE e.to>> /\ at' # Final /\ OnWay(at')
    BY <1>6, <1>10, PlaceFacts
  <2>2. at'[1] = IF e = None THEN l ELSE e.to
    BY <2>1
  <2>3. Where' = (IF e = None THEN l ELSE e.to) /\ Count' = level'
    BY <1>1, <2>1, <2>2, SeenNext
  <2>4. level' = level + 1
    BY <1>2, <1>10 DEF NextId
  <2> QED
    BY <1>1, <1>3, <1>4, <1>5, <1>7, <1>8, <1>10, <2>1, <2>3, <2>4 DEF MatchSeen
<1> QED
  BY <1>9, <1>10

MoveSeen ==
  /\ Where # None /\ Count = level
  /\ \E e \in edges : e \in env.open /\ e.from = Where /\ Where' = e.to
  /\ env'.now = env.now /\ env'.lt = env.lt
  /\ UNCHANGED <<edges, feature, Count, Held>>

LEMMA MovingSeen ==
  ASSUME NEW t, Taken(t), Moving(t)
  PROVE  MoveSeen
<1>1. /\ feature \in Features /\ UNCHANGED <<edges, feature>> /\ OnWay(at)
  BY TakenFacts
<1>2. /\ t.edge \in edges /\ t.edge \in env.open
      /\ at = <<t.edge.from>> /\ at' = <<t.edge.to>> /\ t.edge.to \in Locs
      /\ level' = level /\ store' = store /\ before' = store
      /\ env' \in Envs({env.lt}, {env.now})
  BY MovingStep
<1>3. /\ ~IsPause(at) /\ ~IsPause(at') /\ OnWay(at')
      /\ at[1] = t.edge.from /\ at'[1] = t.edge.to
  BY <1>2, PlaceFacts DEF OnWay
<1>4. Where = t.edge.from /\ Where # None /\ Count = level /\ Held = store
  BY <1>1, <1>3, SeenOf DEF Held
<1>5. Where' = t.edge.to /\ Count' = level' /\ Held' = store'
  BY <1>1, <1>3, SeenNext DEF Held
<1>6. env'.now = env.now /\ env'.lt = env.lt
  BY <1>2 DEF Envs
<1> QED
  BY <1>1, <1>2, <1>4, <1>5, <1>6 DEF MoveSeen

PassSeen ==
  /\ Where # None /\ Flows(env, env')
  /\ UNCHANGED <<edges, feature, Where, Count, Held>>

StartSeen ==
  /\ Where = None /\ Count = 0 /\ Where' # None
  /\ env'.lt = 0 /\ env'.now = 0
  /\ UNCHANGED <<edges, feature, Count, Held>>

\* A step of a run, as it is seen.
LEMMA StepSeen ==
  ASSUME RunInv, [RunNext]_Vars
  PROVE  \/ Unseen \/ StartSeen \/ PassSeen \/ MoveSeen \/ \E e : MatchSeen(e)
<1>0. feature \in Features /\ RunState
  BY DEF RunInv, IInv, TypeOK
<1>1. CASE Building
  <2>1. Build /\ UNCHANGED <<at, level, env, store, before>>
    BY <1>1 DEF Building, runVars
  <2>2. UNCHANGED <<edges, feature>>
    BY <2>1, BuildFrame
  <2> QED
    BY <2>1, <2>2 DEF Unseen, Where, Count, Held, InChain
<1>2. CASE Begin
  <2>1. /\ at = None /\ UNCHANGED <<edges, feature, level, store, before>>
        /\ env' \in Envs({0}, {0})
    BY <1>2 DEF Begin, vars
  <2>2. PICK l \in Locs : at' = <<l>>
    BY <1>2 DEF Begin
  <2>3. OnWay(at') /\ ~IsPause(at') /\ at'[1] = l
    BY <2>2, PlaceFacts DEF OnWay
  <2>4. Where = None /\ Count = 0 /\ Held = store
    BY <1>0, <2>1, SeenOf DEF RunState
  <2>5. Where' # None /\ Count' = 0 /\ Held' = store
    BY <1>0, <2>1, <2>3, SeenNext DEF Held, RunState
  <2>6. env'.lt = 0 /\ env'.now = 0
    BY <2>1 DEF Envs
  <2> QED
    BY <2>1, <2>4, <2>5, <2>6 DEF StartSeen
<1>3. CASE Dwell
  <2>1. /\ UNCHANGED <<edges, feature, at, level, store, before>>
        /\ at # None /\ at # Final /\ Flows(env, env')
    BY <1>3 DEF Dwell, vars
  <2>2. Where # None
    BY <1>0, <2>1, SeenOf DEF RunState
  <2> QED
    BY <2>1, <2>2 DEF PassSeen, Where, Count, Held, InChain
<1>4. CASE Taking
  <2>1. PICK t \in trans : Taken(t)
    BY <1>4 DEF Taking, Taken
  <2> QED
    BY <2>1, TakenCases, MovingSeen, HopUnseen, ArriveSeen
<1>5. CASE UNCHANGED Vars
  BY <1>5 DEF Vars, vars, runVars, Unseen, Where, Count, Held, InChain
<1> QED
  BY <1>1, <1>2, <1>3, <1>4, <1>5 DEF RunNext

LEMMA StepWatched ==
  RunInv /\ Sharp /\ [RunNext]_Vars => [Watched!MonitorNext]_(Watched!monitorVars)
<1> SUFFICES ASSUME RunInv, Sharp, [RunNext]_Vars
             PROVE  Watched!MonitorNext \/ UNCHANGED Watched!monitorVars
  OBVIOUS
<1>0. feature \in Features /\ edges \subseteq EdgePool /\ None \notin edges /\ RunState
  BY LevelAssumption DEF RunInv, IInv, TypeOK
<1>1. CASE Unseen
  BY <1>1 DEF Unseen, Where, Count, Held, Watched!monitorVars
<1>2. CASE StartSeen
  <2>1. Watched!Start
    BY <1>2 DEF StartSeen, Where, Count, Held, Watched!Start
  <2> QED
    BY <2>1 DEF Watched!MonitorNext
<1>3. CASE PassSeen
  <2>1. Watched!Pass
    BY <1>3, SameMeaning DEF PassSeen, Where, Count, Held, Watched!Pass
  <2> QED
    BY <2>1 DEF Watched!MonitorNext
<1>4. CASE MoveSeen
  <2>1. Watched!Move
    BY <1>4 DEF MoveSeen, Where, Count, Held, Watched!Move, Watched!Moves, Watched!AtOnce
  <2> QED
    BY <2>1 DEF Watched!MonitorNext
<1>5. ASSUME NEW e, MatchSeen(e)
      PROVE  Watched!MonitorNext
  <2>1. /\ Where # None /\ Count < Len(feature) /\ level + 1 \in DOMAIN feature
        /\ \/ level + 1 < Len(feature)
           \/ IsLast(level) /\ level + 1 = Len(feature)
    <3>1. None \notin Locs
      BY <1>0, PlacesNamed
    <3>2. IsSequence(feature) /\ DOMAIN feature = 1..Len(feature) /\ Len(feature) \in Nat
      BY <1>0, SequenceFacts, LevelAssumption
    <3>3. level \in 0 .. Len(feature) - 1 /\ Count = level /\ Where \in Locs
      BY <1>5 DEF MatchSeen, Levels
    <3>4. Where # None
      BY <3>1, <3>3
    <3>5. level < Len(feature) /\ level + 1 \in 1..Len(feature)
          /\ \/ level + 1 < Len(feature)
             \/ level = Len(feature) - 1 /\ level + 1 = Len(feature)
      <4>1. PICK n \in Nat : n = Len(feature)
        BY <3>2
      <4>2. level \in 0 .. n - 1
        BY <3>3, <4>1
      <4> QED
        BY <4>1, <4>2
    <3> QED
      BY <3>2, <3>3, <3>4, <3>5 DEF IsLast
  <2>2. MatchesOn(feature[Count + 1], Where, e, env)
    <3>1. SharpAt(Sub(level), Where)
      BY <1>5, <2>1 DEF Sharp, Sub, MatchSeen
    <3> QED
      BY <1>5, <3>1 DEF MatchSeen, Sub
  <2>3. Held' = StoredAll(Assignments(feature, Count + 1), Held, env.now)
    BY <1>5 DEF MatchSeen, Assigned
  <2>4. e # None => e \in edges \intersect env.open /\ e.from = Where
    BY <1>5 DEF MatchSeen
  <2>5. Count' = Count + 1
    BY <1>5 DEF MatchSeen
  <2>6. IF Count' = Len(feature) THEN Where' = None
        ELSE /\ Where' = IF e = None THEN Where ELSE e.to
             /\ env'.now = env.now /\ env'.lt = 0
             /\ e = None => env'.val = env.val /\ env'.open = env.open
    <3>1. CASE IsLast(level)
      BY <1>5, <3>1 DEF MatchSeen
    <3>2. CASE ~IsLast(level)
      <4>1. Count' # Len(feature)
        <5>1. Len(feature) \in Nat /\ level \in Nat
          BY <1>0, <1>5, FeatureFacts DEF MatchSeen, Levels
        <5> QED
          BY <1>5, <2>1, <3>2, <5>1 DEF MatchSeen
      <4> QED
        BY <1>5, <3>2, <4>1 DEF MatchSeen
    <3> QED
      BY <3>1, <3>2
  <2>7. e \in edges \union {None} /\ UNCHANGED <<edges, feature>>
    BY <1>5 DEF MatchSeen
  <2>8. Watched!Match(e)
    BY <2>1, <2>2, <2>3, <2>4, <2>5, <2>6, <2>7, SameMeaning
    DEF Watched!Match, Watched!Moves, Watched!AtOnce, Where, Count, Held
  <2> QED
    BY <2>7, <2>8 DEF Watched!MonitorNext
<1> QED
  BY <1>1, <1>2, <1>3, <1>4, <1>5, StepSeen

-------------------------------------------------------------------------------
\* The times that are stored

\* No variable is stored by two sub-expressions: the second would hide when the first
\* one matched.
StoredOnce ==
  \A j, k \in DOMAIN feature :
    \A m \in DOMAIN feature[j].sets, n \in DOMAIN feature[k].sets :
      feature[j].sets[m] = feature[k].sets[n] => j = k

Stamped(k) == feature[k].sets # << >>

\* The time of the k-th match.
TimeOf(k) == Held[feature[k].sets[1]]

\* What has been matched is not later than now, as late after the match before it as
\* its window says; since the last match as much time has passed as localTime says.
TimesKept ==
  /\ \A k \in 1..Count : Stamped(k) => TimeOf(k) <= env.now
  /\ \A k \in 1 .. Count - 1 : Stamped(k) /\ Stamped(k + 1) =>
       /\ TimeOf(k) <= TimeOf(k + 1)
       /\ feature[k + 1].delay # None => InDelay(feature[k + 1].delay, TimeOf(k + 1) - TimeOf(k))
  /\ Where # None /\ Count \in DOMAIN feature /\ Stamped(Count) => TimeOf(Count) = env.now - env.lt
  /\ Count = Len(feature) => \A y \in Stamps : Held[Value][y] = Held[y]

LEMMA StampsStored ==
  ASSUME NEW xs \in Seq(Stamps), NEW s \in Stores, NEW now \in Times, NEW y \in Stamps
  PROVE  /\ \A n \in DOMAIN xs : xs[n] = y => StoredAll(xs, s, now)[y] = now
         /\ (\A n \in DOMAIN xs : xs[n] # y) => StoredAll(xs, s, now)[y] = s[y]
<1>1. Len(xs) \in Nat /\ DOMAIN xs = 1..Len(xs) /\ \A k \in 1..Len(xs) : xs[k] \in Stamps
  OBVIOUS
<1>2. PICK h : /\ h[0] = s
               /\ \A k \in 0 .. Len(xs) : h[k] \in Stores
               /\ \A k \in 1 .. Len(xs) : h[k] = Stored(xs[k], h[k - 1], now)
               /\ StoredAll(xs, s, now) = h[Len(xs)]
  BY <1>1, StoredUpto
<1>3. ASSUME NEW k \in 1 .. Len(xs)
      PROVE  h[k][y] = IF xs[k] = y THEN now ELSE h[k - 1][y]
  <2>1. h[k - 1] \in Stores /\ xs[k] # Value
    BY <1>1, <1>2, RunsAssumption
  <2>2. h[k] = [h[k - 1] EXCEPT ![xs[k]] = now]
    BY <1>2, <2>1 DEF Stored
  <2> QED
    BY <2>1, <2>2 DEF Stores
<1> DEFINE T == {k \in 0 .. Len(xs) :
                   /\ \A n \in 1..k : xs[n] = y => h[k][y] = now
                   /\ (\A n \in 1..k : xs[n] # y) => h[k][y] = s[y]}
<1>4. 0 \in T
  BY <1>1, <1>2
<1>5. ASSUME NEW k \in 1 .. Len(xs), k - 1 \in T
      PROVE  k \in T
  <2>1. CASE xs[k] = y
    BY <1>1, <1>3, <2>1
  <2>2. CASE xs[k] # y
    <3>1. h[k][y] = h[k - 1][y]
      BY <1>3, <2>2
    <3>2. \A n \in 1..k : n = k \/ n \in 1 .. k - 1
      BY <1>1
    <3>3. \A n \in 1 .. k - 1 : n \in 1..k
      BY <1>1
    <3>4. \A n \in 1..k : xs[n] = y => h[k][y] = now
      BY <1>5, <2>2, <3>1, <3>2
    <3>5. (\A n \in 1..k : xs[n] # y) => h[k][y] = s[y]
      BY <1>5, <3>1, <3>3
    <3>6. k \in 0 .. Len(xs)
      BY <1>1
    <3> QED
      BY <3>4, <3>5, <3>6
  <2> QED
    BY <2>1, <2>2
<1> HIDE DEF T
<1>6. Len(xs) \in T
  <2>1. \A k \in 0 .. Len(xs) : k \in T
    BY <1>1, <1>4, <1>5, Upwards
  <2> QED
    BY <1>1, <2>1
<1> QED
  BY <1>1, <1>2, <1>6 DEF T

\* What a match stores: the time in its own variables, and the feature is computed
\* from what they hold then.
LEMMA MatchStores ==
  ASSUME feature \in Features, NEW i \in Levels, NEW s \in Stores, NEW now \in Times,
         NEW r, r = StoredAll(Assigned(i), s, now), NEW y \in Stamps
  PROVE  /\ \A n \in DOMAIN Sub(i).sets : Sub(i).sets[n] = y => r[y] = now
         /\ (\A n \in DOMAIN Sub(i).sets : Sub(i).sets[n] # y) => r[y] = s[y]
         /\ IsLast(i) => r[Value][y] = r[y]
<1> DEFINE xs == Sub(i).sets
           ys == xs \o <<Value>>
           q == StoredAll(xs, s, now)
<1>1. /\ xs \in Seq(Stamps) /\ Len(xs) \in Nat
      /\ Assigned(i) = IF IsLast(i) THEN ys ELSE xs
  BY AssignedFacts
<1>2. /\ \A n \in DOMAIN xs : xs[n] = y => q[y] = now
      /\ (\A n \in DOMAIN xs : xs[n] # y) => q[y] = s[y]
  BY <1>1, StampsStored
<1>3. CASE ~IsLast(i)
  BY <1>1, <1>2, <1>3
<1>4. CASE IsLast(i)
  <2> HIDE DEF xs
  <2>1. /\ ys \in Seq(Stamps \union {Value}) /\ Len(ys) = Len(xs) + 1 /\ ys[Len(xs) + 1] = Value
        /\ SubSeq(ys, 1, Len(xs)) = xs
    <3>1. xs \in Seq(Stamps \union {Value}) /\ <<Value>> \in Seq(Stamps \union {Value})
      BY <1>1
    <3>2. /\ ys \in Seq(Stamps \union {Value}) /\ Len(ys) = Len(xs) + 1
          /\ ys[Len(xs) + 1] = Value
          /\ \A k \in 1..Len(xs) : ys[k] = xs[k]
      BY <1>1, <3>1
    <3> DEFINE zs == SubSeq(ys, 1, Len(xs))
    <3>3. zs \in Seq(Stamps \union {Value}) /\ Len(zs) = Len(xs) /\ \A k \in 1..Len(xs) : zs[k] = ys[k]
      BY <1>1, <3>2
    <3> HIDE DEF zs, ys
    <3>4. zs = xs
      BY <3>1, <3>2, <3>3
    <3> QED
      BY <3>2, <3>4 DEF zs
  <2>2. SubSeq(ys, 1, Len(xs) + 1) = ys
    BY <2>1, SubSeqFull
  <2> HIDE DEF ys
  <2>3. StoredAll(SubSeq(ys, 1, Len(xs) + 1), s, now)
          = Stored(ys[Len(xs) + 1], StoredAll(SubSeq(ys, 1, Len(xs)), s, now), now)
    <3>1. Len(xs) \in 0 .. Len(ys) - 1
      BY <1>1, <2>1
    <3> QED
      BY <2>1, <3>1, StoredOneMore
  <2>4. r = Stored(Value, q, now)
    BY <1>1, <1>4, <2>1, <2>2, <2>3
  <2>5. q \in Stores
    BY <1>1, StoredFacts
  <2> HIDE DEF q
  <2>6. r = [q EXCEPT ![Value] = [z \in DOMAIN q \ {Value} |-> q[z]]]
    BY <2>4 DEF Stored
  <2>7. DOMAIN q = Stamps \union {Value} /\ y # Value
    BY <2>5, RunsAssumption DEF Stores
  <2>8. r[y] = q[y] /\ r[Value] = [z \in DOMAIN q \ {Value} |-> q[z]]
    BY <2>6, <2>7
  <2>9. r[Value][y] = q[y]
    BY <2>7, <2>8
  <2> QED
    BY <1>2, <2>8, <2>9 DEF xs
<1> QED
  BY <1>3, <1>4

LEMMA CountFacts ==
  ASSUME RunInv
  PROVE  /\ feature \in Features /\ Len(feature) \in Nat \ {0} /\ DOMAIN feature = 1..Len(feature)
         /\ Count \in 0 .. Len(feature) /\ Held \in Stores
         /\ Where # None => env \in Envs(Times, Times)
         /\ \A k \in DOMAIN feature : Stamped(k) =>
              /\ 1 \in DOMAIN feature[k].sets /\ feature[k].sets[1] \in Stamps
              /\ TimeOf(k) \in Nat
<1>1. /\ feature \in Features /\ RunState
  BY DEF RunInv, IInv, TypeOK
<1>2. /\ Len(feature) \in Nat \ {0} /\ DOMAIN feature = 1..Len(feature)
  BY <1>1, FeatureFacts, SequenceFacts, LevelAssumption
<1>3. Count \in 0 .. Len(feature)
  BY <1>1, <1>2 DEF RunState, Count, Levels
<1>4. Held \in Stores
  BY <1>1 DEF RunState, Held
<1>5. Where # None => env \in Envs(Times, Times)
  BY <1>1, SeenOf DEF RunState
<1>6. ASSUME NEW k \in DOMAIN feature, Stamped(k)
      PROVE  /\ 1 \in DOMAIN feature[k].sets /\ feature[k].sets[1] \in Stamps /\ TimeOf(k) \in Nat
  <2>1. k - 1 \in Levels /\ Sub(k - 1) = feature[k]
    <3>1. (k - 1) + 1 = k /\ k - 1 \in 0 .. Len(feature) - 1
      BY <1>2
    <3> QED
      BY <3>1 DEF Levels, Sub
  <2>2. feature[k].sets \in Seq(Stamps)
    BY <1>1, <2>1, AssignedFacts
  <2>3. 1 \in DOMAIN feature[k].sets /\ feature[k].sets[1] \in Stamps
    BY <1>6, <2>2 DEF Stamped
  <2>4. TimeOf(k) \in Times
    BY <1>4, <2>3 DEF TimeOf, Stores
  <2> QED
    BY <2>3, <2>4, LevelAssumption DEF Times
<1> QED
  BY <1>1, <1>2, <1>3, <1>4, <1>5, <1>6

\* Matches, windows and stores while nothing is stored.
LEMMA TimesFrame ==
  ASSUME UNCHANGED <<feature, Held, Count>>
  PROVE  /\ \A k : Stamped(k)' = Stamped(k)
         /\ \A k : TimeOf(k)' = TimeOf(k)
BY DEF Stamped, TimeOf

LEMMA TimesMatched ==
  ASSUME RunInv, StoredOnce, TimesKept, NEW e, MatchSeen(e)
  PROVE  TimesKept'
<1>0. PICK c : c = level + 1
  OBVIOUS
<1>1. /\ feature \in Features /\ Len(feature) \in Nat \ {0} /\ DOMAIN feature = 1..Len(feature)
      /\ feature' = feature /\ level \in Levels /\ Count = level /\ Count' = c /\ level \in Nat
      /\ c \in DOMAIN feature /\ Sub(level) = feature[c] /\ Held \in Stores
      /\ Where # None /\ env \in Envs(Times, Times) /\ env.lt \in Times /\ env.now \in Times
      /\ env'.now = env.now /\ env'.lt = 0
  <2>1. Where # None
    BY PlacesNamed DEF MatchSeen, RunInv, IInv, TypeOK
  <2>2. c \in DOMAIN feature /\ level \in Nat
    <3>1. PICK n \in Nat : n = Len(feature)
      BY CountFacts
    <3>2. level \in 0 .. n - 1
      BY <3>1 DEF MatchSeen, Levels
    <3>3. c \in 1..n /\ level \in Nat
      BY <1>0, <3>2
    <3> QED
      BY <3>1, <3>3, CountFacts
  <2>3. env \in Envs(Times, Times) /\ env.lt \in Times /\ env.now \in Times
    BY <2>1, CountFacts, EnvFacts
  <2>4. /\ feature' = feature /\ level \in Levels /\ Count = level /\ Count' = c
        /\ Sub(level) = feature[c] /\ env'.now = env.now /\ env'.lt = 0
    BY <1>0 DEF MatchSeen, Sub
  <2> QED
    BY <2>1, <2>2, <2>3, <2>4, CountFacts
<1>2. \A k : Stamped(k)' = Stamped(k)
  BY <1>1 DEF Stamped
<1>3. PICK r : r = Held' /\ r = StoredAll(Assigned(level), Held, env.now)
  BY DEF MatchSeen
<1>4. \A k : TimeOf(k)' = r[feature[k].sets[1]]
  BY <1>1, <1>3 DEF TimeOf
<1>5. ASSUME NEW k \in 1..level, Stamped(k)
      PROVE  TimeOf(k)' = TimeOf(k) /\ TimeOf(k) \in Nat
  <2>1. k \in DOMAIN feature /\ k # c
    BY <1>0, <1>1
  <2>2. 1 \in DOMAIN feature[k].sets /\ feature[k].sets[1] \in Stamps /\ TimeOf(k) \in Nat
    BY <1>5, <2>1, CountFacts
  <2>3. \A n \in DOMAIN feature[c].sets : feature[c].sets[n] # feature[k].sets[1]
    BY <1>1, <2>1, <2>2 DEF StoredOnce
  <2>4. r[feature[k].sets[1]] = Held[feature[k].sets[1]]
    BY <1>1, <1>3, <2>2, <2>3, MatchStores
  <2> QED
    BY <1>4, <2>2, <2>4 DEF TimeOf
<1>6. Stamped(c) => TimeOf(c)' = env.now
  <2> SUFFICES ASSUME Stamped(c) PROVE TimeOf(c)' = env.now
    OBVIOUS
  <2>1. 1 \in DOMAIN feature[c].sets /\ feature[c].sets[1] \in Stamps
    BY <1>1, CountFacts
  <2>2. r[feature[c].sets[1]] = env.now
    BY <1>1, <1>3, <2>1, MatchStores
  <2> QED
    BY <1>4, <2>2
<1>7. env.lt \in Nat /\ env.now \in Nat
  BY <1>1, LevelAssumption DEF Times
<1>8. \A k \in 1..Count' : Stamped(k)' => TimeOf(k)' <= env'.now
  <2> SUFFICES ASSUME NEW k \in 1..c, Stamped(k) PROVE TimeOf(k)' <= env.now
    BY <1>1, <1>2
  <2>1. CASE k = c
    BY <1>6, <1>7, <2>1
  <2>2. CASE k # c
    <3>1. k \in 1..level
      BY <1>0, <1>1, <2>2
    <3> QED
      BY <1>1, <1>5, <3>1 DEF TimesKept
  <2> QED
    BY <2>1, <2>2
<1>9. ASSUME NEW k \in 1 .. Count' - 1, Stamped(k), Stamped(k + 1)
      PROVE  /\ TimeOf(k)' <= TimeOf(k + 1)'
             /\ feature[k + 1].delay # None =>
                  InDelay(feature[k + 1].delay, TimeOf(k + 1)' - TimeOf(k)')
  <2>1. k \in 1..level /\ k \in Nat
    BY <1>0, <1>1
  <2>2. TimeOf(k)' = TimeOf(k) /\ TimeOf(k) \in Nat
    BY <1>5, <1>9, <2>1
  <2>3. CASE k = level
    <3>1. k + 1 = c /\ TimeOf(k + 1)' = env.now
      BY <1>0, <1>6, <1>9, <2>3
    <3>2. level \in DOMAIN feature
      BY <1>1, <2>1 DEF Levels
    <3>3. TimeOf(k) = env.now - env.lt
      BY <1>1, <1>9, <2>3, <3>2 DEF TimesKept
    <3>4. TimeOf(k + 1)' - TimeOf(k)' = env.lt /\ TimeOf(k)' <= TimeOf(k + 1)'
      BY <1>7, <2>2, <3>1, <3>3
    <3>5. feature[c].delay # None => InDelay(feature[c].delay, env.lt)
      BY <1>1 DEF MatchSeen
    <3> QED
      BY <3>1, <3>4, <3>5
  <2>4. CASE k # level
    <3>1. k \in 1 .. Count - 1 /\ k + 1 \in 1..level
      BY <1>1, <2>1, <2>4
    <3>2. TimeOf(k + 1)' = TimeOf(k + 1)
      BY <1>5, <1>9, <3>1
    <3> QED
      BY <1>9, <2>2, <3>1, <3>2 DEF TimesKept
  <2> QED
    BY <2>3, <2>4
<1>10. Stamped(c) => TimeOf(c)' = env'.now - env'.lt
  BY <1>1, <1>6, <1>7
<1>11. ASSUME Count' = Len(feature), NEW y \in Stamps
       PROVE  r[Value][y] = r[y]
  <2>1. IsLast(level)
    <3>1. Len(feature) = level + 1
      BY <1>0, <1>1, <1>11
    <3> QED
      BY <1>1, <3>1 DEF IsLast
  <2> QED
    BY <1>1, <1>3, <2>1, MatchStores
<1>12. \A k \in 1 .. Count' - 1 : Stamped(k)' /\ Stamped(k + 1)' =>
         /\ TimeOf(k)' <= TimeOf(k + 1)'
         /\ feature'[k + 1].delay # None =>
              InDelay(feature'[k + 1].delay, TimeOf(k + 1)' - TimeOf(k)')
  BY <1>1, <1>2, <1>9
<1>13. Stamped(Count)' => TimeOf(Count)' = env'.now - env'.lt
  <2>1. Stamped(Count)' => Stamped(c)
    BY <1>1 DEF Stamped
  <2>2. TimeOf(Count)' = TimeOf(c)'
    BY <1>1 DEF TimeOf
  <2> QED
    BY <1>10, <2>1, <2>2
<1>14. Count' = Len(feature)' => \A y \in Stamps : Held'[Value][y] = Held'[y]
  BY <1>1, <1>3, <1>11
<1> QED
  BY <1>8, <1>12, <1>13, <1>14 DEF TimesKept

LEMMA InitTimes == RunInit => TimesKept
<1> SUFFICES ASSUME RunInit PROVE TimesKept
  OBVIOUS
<1>1. /\ feature \in Features /\ Len(feature) \in Nat \ {0} /\ DOMAIN feature = 1..Len(feature)
      /\ at = None /\ level = 0
  BY InitRunInv, CountFacts DEF RunInit
<1>2. Count = 0
  BY <1>1, SeenOf
<1> QED
  BY <1>1, <1>2 DEF TimesKept

LEMMA StepTimes == RunInv /\ StoredOnce /\ TimesKept /\ [RunNext]_Vars => TimesKept'
<1> SUFFICES ASSUME RunInv, StoredOnce, TimesKept, [RunNext]_Vars PROVE TimesKept'
  OBVIOUS
<1>1. ASSUME UNCHANGED <<feature, Held, Count>>,
             Where' # None /\ Count \in DOMAIN feature =>
               Where # None /\ env'.now - env'.lt = env.now - env.lt,
             Count = 0 \/ env'.now = env.now \/ (env'.now = env.now + 1 /\ env.now \in Nat)
      PROVE  TimesKept'
  <2>1. /\ \A k : Stamped(k)' = Stamped(k)
        /\ \A k : TimeOf(k)' = TimeOf(k)
        /\ Stamped(Count)' = Stamped(Count) /\ TimeOf(Count)' = TimeOf(Count)
    BY <1>1 DEF Stamped, TimeOf
  <2>2. ASSUME NEW k \in 1..Count, Stamped(k)
        PROVE  TimeOf(k) <= env'.now
    <3>1. Count \in 0 .. Len(feature) /\ Len(feature) \in Nat /\ DOMAIN feature = 1..Len(feature)
      BY CountFacts
    <3>2. TimeOf(k) \in Nat /\ Count # 0
      BY <2>2, <3>1, CountFacts
    <3>3. TimeOf(k) <= env.now
      BY <2>2 DEF TimesKept
    <3> QED
      BY <1>1, <3>2, <3>3
  <2>3. \A k \in 1..Count' : Stamped(k)' => TimeOf(k)' <= env'.now
    BY <1>1, <2>1, <2>2
  <2>4. \A k \in 1 .. Count' - 1 : Stamped(k)' /\ Stamped(k + 1)' =>
          /\ TimeOf(k)' <= TimeOf(k + 1)'
          /\ feature'[k + 1].delay # None =>
               InDelay(feature'[k + 1].delay, TimeOf(k + 1)' - TimeOf(k)')
    BY <1>1, <2>1 DEF TimesKept
  <2>5. Where' # None /\ Count' \in DOMAIN feature' /\ Stamped(Count)' =>
          TimeOf(Count)' = env'.now - env'.lt
    BY <1>1, <2>1 DEF TimesKept
  <2>6. Count' = Len(feature)' => \A y \in Stamps : Held'[Value][y] = Held'[y]
    BY <1>1 DEF TimesKept
  <2> QED
    BY <2>3, <2>4, <2>5, <2>6 DEF TimesKept
<1>2. CASE Unseen
  BY <1>1, <1>2 DEF Unseen
<1>3. CASE StartSeen
  <2>1. Count = 0 /\ Count \notin DOMAIN feature /\ UNCHANGED <<feature, Held, Count>>
    BY <1>3, CountFacts DEF StartSeen
  <2> QED
    BY <1>1, <2>1
<1>4. CASE PassSeen
  <2>1. UNCHANGED <<feature, Held, Count>> /\ Where # None /\ Flows(env, env')
    BY <1>4 DEF PassSeen
  <2>2. env.lt \in Nat /\ env.now \in Nat /\ env'.lt = env.lt + 1 /\ env'.now = env.now + 1
    BY <2>1, CountFacts, EnvFacts, LevelAssumption DEF Times, Flows
  <2>3. env'.now - env'.lt = env.now - env.lt
    BY <2>2
  <2> QED
    BY <1>1, <2>1, <2>2, <2>3
<1>5. CASE MoveSeen
  BY <1>1, <1>5 DEF MoveSeen
<1>6. CASE \E e : MatchSeen(e)
  BY <1>6, TimesMatched
<1> QED
  BY <1>2, <1>3, <1>4, <1>5, <1>6, StepSeen

LEMMA TimesFollow == RunInv /\ TimesKept => TimesInWindows
<1> SUFFICES ASSUME RunInv, TimesKept, at = Final, NEW k \in 1 .. Len(feature) - 1,
                    Stamped(k), Stamped(k + 1)
             PROVE  LET t == store[Value][feature[k].sets[1]]
                        u == store[Value][feature[k + 1].sets[1]]
                    IN t <= u /\ (feature[k + 1].delay # None => InDelay(feature[k + 1].delay, u - t))
  BY DEF TimesInWindows, Stamped
<1>1. /\ Count = Len(feature) /\ Held = store
      /\ k \in DOMAIN feature /\ k + 1 \in DOMAIN feature /\ k \in 1 .. Count - 1
  <2>1. Count = Len(feature) /\ Held = store
    BY CountFacts, SeenOf
  <2> QED
    BY <2>1, CountFacts
<1>2. feature[k].sets[1] \in Stamps /\ feature[k + 1].sets[1] \in Stamps
  BY <1>1, CountFacts
<1>3. /\ store[Value][feature[k].sets[1]] = TimeOf(k)
      /\ store[Value][feature[k + 1].sets[1]] = TimeOf(k + 1)
  BY <1>1, <1>2 DEF TimesKept, TimeOf
<1>4. /\ TimeOf(k) <= TimeOf(k + 1)
      /\ feature[k + 1].delay # None => InDelay(feature[k + 1].delay, TimeOf(k + 1) - TimeOf(k))
  BY <1>1 DEF TimesKept
<1> QED
  BY <1>3, <1>4

-------------------------------------------------------------------------------
\* What is proved

\* Whatever run of the product is explored, its place, its level, its clocks and what
\* the variables of the feature hold stay in their ranges.
THEOREM RunsTypeCorrect == RunSpec => []RunTypeOK
BY InitRunInv, StepRunInv, RunsTyped, PTL DEF RunSpec

\* The runs of the product implement FeatureMonitor: every step is a step of the model,
\* the match of the next sub-expression where it holds, or a hop that is not seen, for
\* every feature whose events generateEventGuard writes the right guards of (Sharp).
THEOREM RunsAreWatched == RunSpec /\ Sharp => RunsWatched
<1>1. RunInit => Watched!MonitorInit
  <2> SUFFICES ASSUME RunInit PROVE Watched!MonitorInit
    OBVIOUS
  <2>1. None # Final
    BY PlacesNamed DEF RunInit, Init
  <2> QED
    BY <2>1 DEF RunInit, Watched!MonitorInit
<1>2. RunInv /\ Sharp /\ [RunNext]_Vars => Sharp'
  <2> SUFFICES ASSUME RunInv, Sharp, [RunNext]_Vars PROVE Sharp'
    OBVIOUS
  <2>1. feature' = feature
    BY StepSeen DEF Unseen, StartSeen, PassSeen, MoveSeen, MatchSeen
  <2> QED
    BY <2>1 DEF Sharp, Locs, SharpAt
<1> QED
  BY <1>1, <1>2, InitRunInv, StepRunInv, StepWatched, PTL DEF RunSpec, RunsWatched, Watched!Monitor

\* When no variable is stored by two sub-expressions, the times that a feature is
\* computed from follow one another as the windows of the feature say.
THEOREM TimesAreInWindows == RunSpec => [](StoredOnce => TimesInWindows)
<1>1. RunInit => RunInv /\ (StoredOnce => TimesKept)
  BY InitRunInv, InitTimes
<1>2. RunInv /\ (StoredOnce => TimesKept) /\ [RunNext]_Vars => RunInv' /\ (StoredOnce' => TimesKept')
  <2> SUFFICES ASSUME RunInv, StoredOnce => TimesKept, [RunNext]_Vars
               PROVE  RunInv' /\ (StoredOnce' => TimesKept')
    OBVIOUS
  <2>1. feature' = feature
    BY StepSeen DEF Unseen, StartSeen, PassSeen, MoveSeen, MatchSeen
  <2>2. StoredOnce' => StoredOnce
    BY <2>1 DEF StoredOnce
  <2> QED
    BY <2>2, StepRunInv, StepTimes
<1>3. RunInv /\ (StoredOnce => TimesKept) => (StoredOnce => TimesInWindows)
  BY TimesFollow
<1> QED
  BY <1>1, <1>2, <1>3, PTL DEF RunSpec
===============================================================================
