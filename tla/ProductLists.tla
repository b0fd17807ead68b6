----------------------------- MODULE ProductLists -----------------------------
(***************************************************************************)
(* The product of LevelSequence as it is made in memory: the automaton is  *)
(* a list of locations with lists of transitions, guards are lists of      *)
(* conditions on one heap, and the node of a level guard hangs in many of  *)
(* them (structs.c, levelSequence and what it calls).                      *)
(*                                                                         *)
(* Resets are lists too; as none of their nodes is in two lists (what is   *)
(* appended to one is duplicated first, and the feature's own assignment   *)
(* is only read) they are sequences of <<variable, value>>.                *)
(***************************************************************************)
EXTENDS FeatureExpr, ConditionList, ModelFile

CONSTANTS
  LastLoc, EdgePool, Features, MaxTime,
  Files,        \* the models: files whose locations are 1..LastLoc
  Resets,       \* the resets of each transition of a model
  Declared,     \* the variables that each feature declares
  LevelLike,    \* those whose names begin with level
  TimeLike      \* those whose names begin with time, in any case

IsSequence(s) == s \in Seq({s[k] : k \in DOMAIN s})

\* What the feature parser and the model parser make: sequences, finite sets.
ASSUME ListsAssumption ==
  /\ LastLoc \in Nat \ {0}
  /\ DOMAIN Flow = 1..LastLoc /\ \A l \in 1..LastLoc : IsSequence(Flow[l])
  /\ \A f \in Features :
       /\ IsSequence(f) /\ f # << >>
       /\ \A k \in DOMAIN f :
            /\ IsSequence(f[k].sets) /\ IsSequence(f[k].dnf)
            /\ \A n \in DOMAIN f[k].dnf : IsFiniteSet(f[k].dnf[n].preds)
  /\ \A f \in Files :
       /\ IsSequence(f.signature) /\ IsSequence(f.properties) /\ Range(f.modes) \subseteq 1..LastLoc
       /\ \A n \in DOMAIN f.properties :
            /\ f.properties[n].kind = "trans" => f.properties[n].edge \in EdgePool
            /\ f.properties[n].kind = "inv" =>
                 IsSequence(f.properties[n].conds) /\ f.properties[n].conds # << >>
       /\ IsSequence(f.initial)
       /\ \A n \in DOMAIN f.initial :
            /\ f.initial[n] = [mode |-> f.initial[n].mode, conds |-> f.initial[n].conds]
            /\ IsSequence(f.initial[n].conds)
  /\ \A f \in Features : IsSequence(Declared[f])
  /\ \A e \in EdgePool : IsSequence(Resets[e])

\* Models and features leave the name level to the tool.
ASSUME NamesAssumption ==
  /\ None # <<"num", 0>> /\ Value # "level" /\ "level" \notin TimeLike
  /\ \A f \in Features :
       /\ \A n \in DOMAIN Declared[f] : Declared[f][n] # "level"
       /\ \A k \in DOMAIN f : \A n \in DOMAIN f[k].sets : f[k].sets[n] # "level"
  /\ \A e \in EdgePool : \A n \in DOMAIN Resets[e] : Resets[e][n][1] # "level"

VARIABLES
  file,         \* the model
  edges,        \* its transitions
  feature,      \* F->def->seq
  added,        \* variables still to be added to the automaton
  ha,           \* H->ha and the heap
  levelGuard,   \* the node of the guard of each level
  id, here, dnfID, pc

vars == <<file, edges, feature, added, ha, levelGuard, id, here, dnfID, pc>>

-------------------------------------------------------------------------------
\* Parts of a feature

Locs == 1..LastLoc

Sub(i) == feature[i + 1]

IsLast(i) == i = Len(feature) - 1

NextId(i) == IF IsLast(i) THEN 0 ELSE i + 1

Terms(i) == Conjuncts(Sub(i))

Assigned(i) == Assignments(feature, i + 1)

\* The variables added before the product is made: level, what the feature
\* declares, time and localTime if it is temporal, its own, and time otherwise.
Added(f) ==
  <<"level">> \o Declared[f] \o (IF IsTemporal(f) THEN <<"time", "localTime">> ELSE << >>)
    \o <<Value>> \o (IF IsTemporal(f) THEN << >> ELSE <<"time">>)

\* A name is declared once, NULL is no name, and what is assigned is declared.
ASSUME DistinctAssumption ==
  /\ \A f \in Files :
       /\ \A g \in Features : IsInjective(f.signature \o Added(g))
       /\ None \notin Range(f.signature)
       /\ \A n \in DOMAIN f.properties : f.properties[n].kind = "trans" =>
            \A r \in Range(Resets[f.properties[n].edge]) : r[1] \in Range(f.signature)
  /\ \A g \in Features : \A k \in DOMAIN g :
       /\ Range(g[k].sets) \subseteq Range(Declared[g])
       /\ None # <<"num", k>>

-------------------------------------------------------------------------------
\* Conditions

Level(i) == <<"level", i>>

\* The value of a reset: of another variable, a number, or an expression.
Of(x) == <<"var", x>>

Number(n) == <<"num", n>>

Expression == <<"expr">>

Identities(xs) == [n \in DOMAIN xs |-> <<xs[n], Of(xs[n])>>]

TemporalGuards(i) == IF Sub(i).delay = None THEN << >> ELSE <<<<"window", i>>>>

EventGuards(i, l) ==
  IF ~IsPorvEvent(Sub(i)) THEN << >>
  ELSE <<<<"cross", Sub(i).event.of>>>> \o SetToSeq(SignGuard(Sub(i).event, l))

ConjunctGuards(term) == SetToSeq({<<"pred", p>> : p \in term.preds})

TemporalResets == IF IsTemporal(feature) THEN <<<<"time", Of("time")>>, <<"localTime", Number(0)>>>>
                  ELSE << >>

\* A match stores the time in each variable, the feature's own an expression.
Holding(x) == IF x = Value THEN Expression ELSE Of("time")

\* resetToZero looks at the first letters of a name only.
TimeToZero(resets) ==
  [n \in DOMAIN resets |->
     IF resets[n][1] \in TimeLike \union {"time"} THEN <<resets[n][1], Number(0)>> ELSE resets[n]]

-------------------------------------------------------------------------------
\* The automaton under construction: locations and transitions in list order.
\* A transition names the position of the location it leaves; locations may have
\* the same name.

Final == << >>

True == <<"true">>

PauseName(here_, i, nr, n) == <<here_, i, nr, n>>

\* Mutant: the transitions of a location are added without it.
AddLocationNot(b, name, inv) == b

AddLocation(b, name, inv) ==
  [b EXCEPT !.locs = Append(@, [name |-> name, plain |-> FALSE, inv |-> inv])]

AddTransition(b, t) == [b EXCEPT !.trans = Append(@, t)]

\* The guard of t behind a fresh copy of itself.
Copied(b, t) == [t EXCEPT !.when = Fresh(b.heap, Contents(b.heap, t.when))]

WithCopy(b, t) == [b EXCEPT !.heap = Duplicate(@, t.when)]

\* Mutant: a hop shares the guard of the match.
HopShares(b, t, k, nr, assigned) ==
  LET n == Len(assigned)
      hop == [t EXCEPT !.goto = PauseName(t.from, id, nr, k), !.original = FALSE,
                       !.reset = Reset(Identities(b.vars), assigned[k], Holding(assigned[k]))]
      c == IF k = 1 THEN b ELSE AddLocation(b, PauseName(t.from, id, nr, k - 1), b.locs[t.from].inv)
      from == IF k = 1 THEN t.from ELSE Len(c.locs)
  IN IF k < n THEN AddTransition(c, [hop EXCEPT !.from = from])
     ELSE AddTransition(c, [t EXCEPT !.from = from,
                                     !.reset = Reset(@, assigned[n], Holding(assigned[n]))])

\* The k-th of several assignments: a hop to the k-th pause location that copies
\* the guard and keeps all other variables; the last one is made by t itself,
\* which then leaves the last pause location.
Hop(b, t, k, nr, assigned) ==
  LET n == Len(assigned)
      hop == [Copied(b, t) EXCEPT
                !.goto = PauseName(t.from, id, nr, k), !.original = FALSE,
                !.reset = Reset(Identities(b.vars), assigned[k], Holding(assigned[k]))]
      c == IF k = 1 THEN b ELSE AddLocation(b, PauseName(t.from, id, nr, k - 1), b.locs[t.from].inv)
      from == IF k = 1 THEN t.from ELSE Len(c.locs)
  IN IF k < n THEN AddTransition(WithCopy(c, t), [hop EXCEPT !.from = from])
     ELSE AddTransition(c, [t EXCEPT !.from = from,
                                     !.reset = Reset(@, assigned[n], Holding(assigned[n]))])

OrderedResets(b, t, nr, assigned) ==
  IF Len(assigned) > 1
  THEN LET hops[k \in 0 .. Len(assigned)] ==
             IF k = 0 THEN b ELSE Hop(hops[k - 1], t, k, nr, assigned)
       IN hops[Len(assigned)]
  ELSE AddTransition(b, IF assigned = << >> THEN t
                        ELSE [t EXCEPT !.reset = Reset(@, assigned[1], Holding(assigned[1]))])

\* createTransitionOnEvent: level is reset already, time will be.
LoopIdentities(xs) ==
  LET kept[n \in 0 .. Len(xs)] ==
        IF n = 0 THEN << >>
        ELSE IF xs[n] \in {"level", "time"} THEN kept[n - 1]
        ELSE Append(kept[n - 1], <<xs[n], Of(xs[n])>>)
  IN kept[Len(xs)]

\* The match of a conjunct as a self-loop.  Its guard ends in the level guard
\* itself, or in a copy if the sub-expression is only an event.
SelfLoop(b, i, l, term) ==
  LET own == TemporalGuards(i) \o EventGuards(i, l) \o ConjunctGuards(term)
      made == own \o IF EventOnly(Sub(i)) THEN Contents(b.heap, levelGuard[i]) ELSE << >>
      root == Fresh(b.heap, made)
      resets == <<<<"level", Number(NextId(i))>>>> \o LoopIdentities(b.vars) \o TemporalResets
      shares == ~EventOnly(Sub(i))
      heap == Create(b.heap, made)
      t == [from |-> l, goto |-> IF IsLast(i) THEN Final ELSE <<l>>, original |-> FALSE,
            when |-> IF shares THEN Linked(root, levelGuard[i]) ELSE root,
            reset |-> IF IsLast(i) /\ shares THEN TimeToZero(resets) ELSE resets]
  IN OrderedResets([b EXCEPT !.heap = IF shares THEN Link(heap, root, levelGuard[i]) ELSE heap],
                   t, IF shares THEN dnfID ELSE 0, Assigned(i))

\* The match of a state event on the original transition t: a copy of t whose
\* guard ends in a copy of the match's and which steps the level instead.
\* Mutant: the reset of level is not taken out.
LevelTakenNot(resets) == resets

LevelTaken(resets) == WithoutFirst(resets, LevelLike \union {"level"})

OnEdge(b, i, t, term) ==
  LET made == Contents(b.heap, t.when) \o TemporalGuards(i) \o ConjunctGuards(term)
                \o Contents(b.heap, levelGuard[i])
      resets == LevelTaken(t.reset) \o <<<<"level", Number(NextId(i))>>>> \o TemporalResets
      u == [from |-> t.from, goto |-> IF IsLast(i) THEN Final ELSE t.goto, original |-> FALSE,
            when |-> Fresh(b.heap, made),
            reset |-> IF IsLast(i) THEN TimeToZero(resets) ELSE resets]
  IN OrderedResets([b EXCEPT !.heap = Create(@, made)], u,
                   IF EventOnly(Sub(i)) THEN 0 ELSE dnfID, Assigned(i))

\* The positions of the original transitions in the list of l.
Originals(l) == {n \in DOMAIN ha.trans : ha.trans[n].from = l /\ ha.trans[n].original}

\* The original transitions on which the state event happens: those that enter
\* its location, and those that leave it, an anyedge being both.
Entering(i, l) ==
  LET ev == Sub(i).event IN
  {n \in Originals(l) : ev.type \in {1, 0} /\ ha.trans[n].goto = <<ev.of>>}

Exiting(i, l) ==
  LET ev == Sub(i).event IN {n \in Originals(l) : ev.type \in {2, 0} /\ l = ev.of}

\* Those at the positions ns are matched, in list order.
OnEdges(b, i, ns, term) ==
  LET made[n \in 0 .. Len(ha.trans)] ==
        IF n = 0 THEN b
        ELSE IF n \in ns THEN OnEdge(made[n - 1], i, ha.trans[n], term)
        ELSE made[n - 1]
  IN made[Len(ha.trans)]

\* Mutant: the guard of the level is copied.
WaitCopies(b, i, t, guards) ==
  LET made == Contents(b.heap, t.when) \o Contents(b.heap, levelGuard[i]) \o guards
  IN AddTransition([b EXCEPT !.heap = Create(@, made)],
                   [t EXCEPT !.original = FALSE, !.when = Fresh(b.heap, made)])

\* A copy of the original transition t that waits at level i, and what is
\* appended behind its level guard.
Wait(b, i, t, guards) ==
  LET root == Fresh(b.heap, Contents(b.heap, t.when))
      linked == Link(Duplicate(b.heap, t.when), root, levelGuard[i])
      u == [t EXCEPT !.original = FALSE, !.when = Linked(root, levelGuard[i])]
  IN AddTransition([b EXCEPT !.heap = Link(Create(linked, guards), u.when, Fresh(linked, guards))], u)

-------------------------------------------------------------------------------
\* The construction

Init ==
  /\ file \in {f \in Files : Accepted(f)}
  /\ edges = Range(EdgesRead(file))
  /\ feature \in Features
  /\ added = Added(feature)
  /\ LET es == EdgesRead(file) IN
     ha = [locs |-> [l \in Locs |-> [name |-> <<l>>, plain |-> TRUE, inv |-> InvariantRead(file, l)]],
           inits |-> InitialRead(file),
           vars |-> file.signature,
           heap |-> [n \in DOMAIN es |-> [cond |-> <<"edge", es[n]>>, next |-> NULL]],
           trans |-> [n \in DOMAIN es |->
             [from |-> es[n].from, goto |-> <<es[n].to>>, original |-> TRUE,
              when |-> n, reset |-> Resets[es[n]]]]]
  /\ levelGuard = << >>
  /\ id = 0 /\ here = 1 /\ dnfID = 1
  /\ pc = "vars"

Kept(t, x) == [t EXCEPT !.reset = Append(@, <<x, Of(x)>>)]

Zeroed(start, x) == [start EXCEPT !.conds = Append(@, <<x, Number(0)>>)]

\* Mutant: only the first initial set gets a value.
AddVariableFirst ==
  /\ pc = "vars" /\ added # << >>
  /\ added' = Tail(added)
  /\ ha' = [ha EXCEPT !.vars = Append(@, Head(added)),
                      !.inits[1] = Zeroed(@, Head(added)),
                      !.trans = [n \in DOMAIN @ |-> Kept(@[n], Head(added))]]
  /\ UNCHANGED <<file, edges, feature, levelGuard, id, here, dnfID, pc>>

\* Mutant: transitions say nothing of the new variable.
AddVariableListed ==
  /\ pc = "vars" /\ added # << >>
  /\ added' = Tail(added)
  /\ ha' = [ha EXCEPT !.vars = Append(@, Head(added))]
  /\ UNCHANGED <<file, edges, feature, levelGuard, id, here, dnfID, pc>>

\* addLocalVariable: the variable is listed, it is 0 in every initial set, and
\* every transition keeps it.
AddVariable ==
  /\ pc = "vars" /\ added # << >>
  /\ added' = Tail(added)
  /\ ha' = [ha EXCEPT !.vars = Append(@, Head(added)),
                      !.inits = [n \in DOMAIN @ |-> Zeroed(@[n], Head(added))],
                      !.trans = [n \in DOMAIN @ |-> Kept(@[n], Head(added))]]
  /\ UNCHANGED <<file, edges, feature, levelGuard, id, here, dnfID, pc>>

\* levelSequence marks the transitions, adds FINAL, and makes the guard of the
\* first level.
LevelGuardMade(b, i) == [b EXCEPT !.heap = Create(@, <<Level(i)>>)]

Begin ==
  /\ pc = "vars" /\ added = << >>
  /\ ha' = LevelGuardMade(AddLocation(ha, Final, <<True>>), 0)
  /\ levelGuard' = [i \in {0} |-> Fresh(ha.heap, <<Level(0)>>)]
  /\ pc' = "sweep"
  /\ UNCHANGED <<file, edges, feature, added, id, here, dnfID>>

Term == Terms(id)[dnfID]

InContext == Term.ctx = None \/ Term.ctx = here

InTerm == pc = "sweep" /\ dnfID \in DOMAIN Terms(id)

NextTerm ==
  /\ dnfID' = dnfID + 1
  /\ UNCHANGED <<file, edges, feature, added, levelGuard, id, here, pc>>

SkipTerm == InTerm /\ ~InContext /\ NextTerm /\ UNCHANGED ha

MatchByLoop ==
  /\ InTerm /\ InContext /\ ~IsStateEvent(Sub(id))
  /\ ha' = SelfLoop(ha, id, here, Term)
  /\ NextTerm

MatchOnEdges ==
  /\ InTerm /\ InContext /\ IsStateEvent(Sub(id))
  /\ ha' = OnEdges(OnEdges(ha, id, Entering(id, here), Term), id, Exiting(id, here), Term)
  /\ NextTerm

HasTransAtLevel(l, i) ==
  \E n \in DOMAIN ha.trans : ha.trans[n].from = l /\ InList(ha.heap, ha.trans[n].when, Level(i))

\* The conjuncts that are not matched first only, and the first of them.
OpenTerms(i) == {k \in DOMAIN Sub(i).dnf : ~Sub(i).dnf[k].first}

FirstOpen(i) == Sub(i).dnf[CHOOSE k \in OpenTerms(i) : \A m \in OpenTerms(i) : k <= m]

FirstEvent(i) == Sub(i).event # None /\ Sub(i).event.first

\* The next location that is not a pause location, or the first one with the
\* next sub-expression, whose level guard is made then.
LastHere == \A l \in DOMAIN ha.locs : l > here => ~ha.locs[l].plain

NextLocation(b) ==
  /\ pc = "sweep" /\ dnfID \notin DOMAIN Terms(id)
  /\ dnfID' = 1
  /\ here' = IF LastHere THEN 1 ELSE here + 1
  /\ id' = IF LastHere THEN id + 1 ELSE id
  /\ pc' = IF LastHere /\ IsLast(id) THEN "gate" ELSE "sweep"
  /\ IF LastHere /\ ~IsLast(id)
     THEN /\ ha' = LevelGuardMade(b, id + 1)
          /\ levelGuard' = [i \in DOMAIN levelGuard \union {id + 1} |->
                              IF i = id + 1 THEN Fresh(b.heap, <<Level(i)>>) ELSE levelGuard[i]]
     ELSE ha' = b /\ UNCHANGED levelGuard
  /\ UNCHANGED <<file, edges, feature, added>>

WaitAll(guards) ==
  LET waiting[n \in 0 .. Len(ha.trans)] ==
        IF n = 0 THEN ha
        ELSE IF n \in Originals(here) THEN Wait(waiting[n - 1], id, ha.trans[n], guards)
        ELSE waiting[n - 1]
  IN waiting[Len(ha.trans)]

RetainAll ==
  /\ NextLocation(WaitAll(<< >>))
  /\ id # 0 /\ ~HasTransAtLevel(here, id)

RetainOpen ==
  /\ id # 0 /\ HasTransAtLevel(here, id)
  /\ ~FirstEvent(id) /\ OpenTerms(id) # {}
  /\ NextLocation(WaitAll(ConjunctGuards(FirstOpen(id))))

RetainNone ==
  /\ \/ id = 0
     \/ HasTransAtLevel(here, id) /\ (FirstEvent(id) \/ OpenTerms(id) = {})
  /\ NextLocation(ha)

\* Every original transition gets a level guard of its own.
GateOne(b, n) ==
  IF ~b.trans[n].original THEN b
  ELSE [b EXCEPT !.heap = Link(Create(@, <<Level(0)>>), b.trans[n].when, Fresh(@, <<Level(0)>>))]

Gated(b) ==
  LET gated[n \in 0 .. Len(b.trans)] == IF n = 0 THEN b ELSE GateOne(gated[n - 1], n)
  IN gated[Len(b.trans)]

Gate ==
  /\ pc = "gate"
  /\ ha' = Gated(ha)
  /\ pc' = "built"
  /\ UNCHANGED <<file, edges, feature, added, levelGuard, id, here, dnfID>>

Build ==
  \/ AddVariable \/ Begin
  \/ SkipTerm \/ MatchByLoop \/ MatchOnEdges
  \/ RetainAll \/ RetainOpen \/ RetainNone
  \/ Gate

Built == pc = "built" /\ UNCHANGED vars

Next == Build \/ Built

Spec == Init /\ [][Next]_vars

-------------------------------------------------------------------------------
\* What is made is the product of LevelSequence

LastReset(resets, x) ==
  LET hits == {n \in DOMAIN resets : resets[n][1] = x}
  IN IF hits = {} THEN None ELSE resets[CHOOSE n \in hits : \A m \in hits : m <= n][2]

\* The conditions behind the guard of level i.
Behind(i) == Range(Tail(Contents(ha.heap, levelGuard[i])))

\* The variables in which resets store something, in their order.
StoresAt(r) == r[1] \in Range(Declared[feature]) \union {Value} /\ r[2] = Holding(r[1])

Storing(resets) ==
  LET stored[n \in 0 .. Len(resets)] ==
        IF n = 0 THEN << >>
        ELSE IF StoresAt(resets[n]) THEN Append(stored[n - 1], resets[n][1])
        ELSE stored[n - 1]
  IN stored[Len(resets)]

\* The transition of LevelSequence that t stands for.
Abstract(t) ==
  LET conds == Contents(ha.heap, t.when)
      at == IF \E c \in Range(conds) : c[1] = "level"
            THEN (CHOOSE c \in Range(conds) : c[1] = "level")[2] ELSE -1
      shared == at \in DOMAIN levelGuard /\ levelGuard[at] \in Reached(ha.heap, t.when)
      ahead == IF shared THEN SubSeq(conds, 1, Len(conds) - Len(Contents(ha.heap, levelGuard[at])))
               ELSE conds
      next == LastReset(t.reset, "level")
  IN [from |-> ha.locs[t.from].name, to |-> t.goto,
      edge |-> IF \E c \in Range(conds) : c[1] = "edge"
               THEN (CHOOSE c \in Range(conds) : c[1] = "edge")[2] ELSE None,
      at |-> at,
      goes |-> IF next \in {None, Of("level")} THEN at ELSE next[2],
      guards |-> {c \in Range(ahead) : c[1] # "level"},
      shared |-> shared,
      sets |-> Storing(t.reset),
      zeroes |-> LastReset(t.reset, "time") = Number(0)]

Transitions == {Abstract(ha.trans[n]) : n \in DOMAIN ha.trans}

Tails == [i \in 0 .. Len(feature) - 1 |-> IF i \in DOMAIN levelGuard THEN Behind(i) ELSE {}]

Phase == CASE pc = "vars" -> "sweep" [] pc \in {"sweep", "gate"} -> pc [] OTHER -> "built"

LS == INSTANCE LevelSequence WITH trans <- Transitions, tail <- Tails, pc <- Phase

\* Every step on the lists is a step of LevelSequence or none: where two guards
\* share a node, where one is a copy, what a hop keeps and in which order resets
\* stand comes to the product that LevelSequence describes.
Product == LS!Spec

-------------------------------------------------------------------------------
\* Properties of the lists

TypeOK ==
  /\ edges \subseteq EdgePool /\ feature \in Features
  /\ \A a \in DOMAIN ha.heap : ha.heap[a].next \in DOMAIN ha.heap \union {NULL}
  /\ \A n \in DOMAIN ha.trans :
       /\ ha.trans[n].from \in DOMAIN ha.locs /\ ha.trans[n].when \in DOMAIN ha.heap \union {NULL}
       /\ \/ ha.trans[n].original
          \/ \E l \in DOMAIN ha.locs : ha.locs[l].name = ha.trans[n].goto
          \/ \E e \in edges : ha.trans[n].goto = <<e.to>>
  /\ \A i \in DOMAIN levelGuard : levelGuard[i] \in DOMAIN ha.heap

\* What is appended to the guard of one transition reaches another only behind a
\* level guard: two guards share no other node.
GuardsApart ==
  \A m, n \in DOMAIN ha.trans :
    m # n => Reached(ha.heap, ha.trans[m].when) \intersect Reached(ha.heap, ha.trans[n].when)
               \subseteq UNION {Reached(ha.heap, levelGuard[i]) : i \in DOMAIN levelGuard}

\* How often a transition resets x.
Times(t, x) == Cardinality({n \in DOMAIN t.reset : t.reset[n][1] = x})

IsMatch(t) == LET next == LastReset(t.reset, "level") IN next # Of("level")

IsHop(t) == Len(t.goto) = 4

OnOriginal(t) == \E c \in Range(Contents(ha.heap, t.when)) : c[1] = "edge"

\* The original transition t is a copy of, the resets of x the model gives it,
\* and the one that is taken for the reset of level by the first letters.
EdgeOf(t) == (CHOOSE c \in Range(Contents(ha.heap, t.when)) : c[1] = "edge")[2]

Own(e, x) == Cardinality({n \in DOMAIN Resets[e] : Resets[e][n][1] = x})

Mistaken(e) ==
  LET like == {n \in DOMAIN Resets[e] : Resets[e][n][1] \in LevelLike}
  IN IF like = {} THEN None ELSE Resets[e][CHOOSE n \in like : \A m \in like : n <= m][1]

\* A match in a temporal feature keeps localTime and resets it; one on an
\* original transition also keeps time twice; a self-loop of a feature without
\* times forgets it.  A copy of an original transition has the resets of the
\* model, less the mistaken one, instead of which level stays reset twice.
Expected(t, x) ==
  LET onEdge == OnOriginal(t) /\ ~IsHop(t)
      match == IsMatch(t) /\ ~IsHop(t)
      mistaken == IF onEdge THEN Mistaken(EdgeOf(t)) ELSE None
      again == IF onEdge THEN 1 ELSE 0
  IN IF x \in Range(file.signature)
     THEN IF onEdge THEN Own(EdgeOf(t), x) - IF match /\ x = mistaken THEN 1 ELSE 0 ELSE 1
     ELSE IF ~match THEN 1
     ELSE CASE x = "level"     -> IF mistaken = None THEN 1 ELSE 2
            [] x = "localTime" -> IF IsTemporal(feature) THEN 2 ELSE 1
            [] x = "time"      -> IF IsTemporal(feature) THEN 1 + again ELSE again
            [] OTHER           -> 1

\* What t does to a variable of the model: what the original transition does, or
\* nothing.
Does(t, x) ==
  IF OnOriginal(t) /\ ~IsHop(t) THEN LastReset(Resets[EdgeOf(t)], x) ELSE Of(x)

\* Apart from these no transition, of a match, a hop, or one that waits, resets a
\* variable twice or not at all: what a run does not store stays as it was, and
\* a transition of the model does to its variables what it did.  Variables whose
\* names begin with time may be cleared, but nowhere except on the way to FINAL.
ResetOnce ==
  pc \notin {"vars", "sweep", "gate"} =>
    \A n \in DOMAIN ha.trans :
      LET t == ha.trans[n] IN
      /\ \A k \in DOMAIN ha.vars : Times(t, ha.vars[k]) = Expected(t, ha.vars[k])
      /\ \A x \in Range(file.signature) :
           \/ LastReset(t.reset, x) = Does(t, x)
           \/ x \in TimeLike /\ t.goto = Final /\ LastReset(t.reset, x) = Number(0)
           \/ IsMatch(t) /\ OnOriginal(t) /\ x = Mistaken(EdgeOf(t))

===============================================================================
