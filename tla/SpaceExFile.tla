------------------------------ MODULE SpaceExFile ------------------------------
(***************************************************************************)
(* From the file of a model to the file that SpaceEx and HyST read: the    *)
(* model is parsed, the product is made, times are bounded, and the result *)
(* is written (fbfvTool.c main; structs.c addTimeBound, writeSpaceEx,      *)
(* writeSpaceExConfig).                                                    *)
(*                                                                         *)
(* In the file a location is its position.  The map from names to          *)
(* positions is keyed by the addresses of the names and searched for an    *)
(* equal one, so of locations with the same name any may be found, but     *)
(* always the same.  The position of a target that does not exist is left  *)
(* uninitialised.                                                          *)
(***************************************************************************)
EXTENDS ProductLists

CONSTANTS
  Horizon,      \* the time horizon
  FinalLike     \* locations of the model whose name is final in some case

ASSUME FinalAssumption == FinalLike \subseteq 1..LastLoc

VARIABLE
  xml           \* what writeSpaceEx and writeSpaceExConfig have written, or None

xmlVars == <<vars, xml>>

-------------------------------------------------------------------------------
\* addTimeBound

CalledFinal(name) == name = Final \/ \E l \in FinalLike : name = <<l>>

BoundOf(name) == <<"time", IF CalledFinal(name) THEN 1 ELSE Horizon>>

Bounded(loc) == [loc EXCEPT !.inv = Append(@, BoundOf(loc.name))]

Bound ==
  /\ pc = "built"
  /\ ha' = IF IsTemporal(feature) THEN [ha EXCEPT !.locs = [l \in DOMAIN @ |-> Bounded(@[l])]]
           ELSE ha
  /\ pc' = "bound"
  /\ UNCHANGED <<file, edges, feature, added, levelGuard, id, here, dnfID, xml>>

-------------------------------------------------------------------------------
\* writeSpaceEx

Ids == DOMAIN ha.locs

Names == {ha.locs[l].name : l \in Ids}

\* The position found for each name: one of each set of positions of one name.
Positions(name) == {l \in Ids : ha.locs[l].name = name}

Found == {l \in Ids : Cardinality(Positions(ha.locs[l].name)) = 1}

Finds ==
  {Found \union more : more \in {s \in SUBSET (Ids \ Found) :
     \A name \in Names : Cardinality(Positions(name) \intersect (Found \union s)) = 1}}

IdOf(name, found) == CHOOSE l \in found : ha.locs[l].name = name

\* The value of an uninitialised position; 0 stands for those of no location.
Junk == IF \A n \in DOMAIN ha.trans : ha.trans[n].goto \in Names THEN {0} ELSE {0} \union Ids

\* Mutant: the first location called final.
FinalIdFirst == LET called == {l \in Ids : CalledFinal(ha.locs[l].name)}
                IN CHOOSE l \in called : \A k \in called : l <= k

\* The last location called final.
FinalId == LET called == {l \in Ids : CalledFinal(ha.locs[l].name)}
           IN CHOOSE l \in called : \A k \in called : k <= l

\* An invariant element is closed behind its last condition.
WrittenLocation(l) ==
  [id |-> l, name |-> ha.locs[l].name, inv |-> ha.locs[l].inv,
   closed |-> ha.locs[l].inv # << >>]

\* Mutant: a transition leaves the location in whose list it stands.
WrittenFromHere(t, f, target) ==
  [source |-> t.from, target |-> target,
   guard |-> Contents(ha.heap, t.when), assignment |-> t.reset]

WrittenTransition(t, f, target) ==
  [source |-> IdOf(ha.locs[t.from].name, f), target |-> target,
   guard |-> Contents(ha.heap, t.when), assignment |-> t.reset]

Write ==
  /\ pc = "bound"
  /\ \E f \in Finds, junk \in Junk :
       xml' = [locs |-> [l \in Ids |-> WrittenLocation(l)],
               trans |-> [n \in DOMAIN ha.trans |->
                 LET t == ha.trans[n] IN
                 WrittenTransition(t, f, IF t.goto \in Names THEN IdOf(t.goto, f) ELSE junk)],
               final |-> FinalId,
               initially |-> ha.inits]
  /\ pc' = "written"
  /\ UNCHANGED <<file, edges, feature, added, ha, levelGuard, id, here, dnfID>>

-------------------------------------------------------------------------------
FileInit == Init /\ xml = None

FileNext ==
  \/ Build /\ UNCHANGED xml
  \/ Bound
  \/ Write
  \/ pc = "written" /\ UNCHANGED xmlVars

FileSpec == FileInit /\ [][FileNext]_xmlVars

-------------------------------------------------------------------------------
\* Properties of the file that is written

\* Every transition leaves and enters locations of the names it has in memory,
\* and those of one name use one location: no chain of hops is cut, and the
\* written automaton has the runs of the product.  A transition of the model to
\* no location is the exception.
NameOf(l) == IF l \in Ids THEN ha.locs[l].name ELSE None

ChainsWritten ==
  xml # None =>
    /\ \A n \in DOMAIN ha.trans :
         /\ NameOf(xml.trans[n].source) = ha.locs[ha.trans[n].from].name
         /\ ha.trans[n].goto \in Names => NameOf(xml.trans[n].target) = ha.trans[n].goto
    /\ \A m, n \in DOMAIN ha.trans :
         /\ ha.locs[ha.trans[m].from].name = ha.locs[ha.trans[n].from].name =>
              xml.trans[m].source = xml.trans[n].source
         /\ ha.locs[ha.trans[m].from].name = ha.trans[n].goto =>
              xml.trans[m].source = xml.trans[n].target

\* The location handed on as that of the feature is where the last matches lead,
\* whatever the locations of the model are called; no other transition does.
FinalFound ==
  xml # None =>
    \A n \in DOMAIN ha.trans :
      ha.trans[n].goto \in Names =>
        (xml.trans[n].target = xml.final <=>
           LastReset(xml.trans[n].assignment, "level") = Number(0) /\ ~IsHop(ha.trans[n]))

\* Locations of the model without an invariant are written without an end of it,
\* unless the feature is temporal.
Lines(l) ==
  {n \in DOMAIN file.properties : file.properties[n].kind = "inv" /\ file.properties[n].loc = l}

Unclosed(l) == l \in Locs /\ Lines(l) = {} /\ ~IsTemporal(feature)

\* The invariants of a location in its file, the last line for it, in any order.
Asked(l) ==
  IF Lines(l) = {} THEN {}
  ELSE Range(file.properties[CHOOSE n \in Lines(l) : \A m \in Lines(l) : m <= n].conds)

\* Where time passes the file asks for what the model did and no more, apart from
\* the horizon; a match passes through pause locations under the same
\* invariant; FINAL leaves time 1 to be seen in; and the element is closed.
InvariantsWritten ==
  xml # None =>
    \A l \in Ids :
      LET loc == xml.locs[l]
          asked == IF loc.name = Final THEN {True} ELSE Asked(loc.name[1])
          limit == IF loc.name = Final \/ l \in FinalLike THEN 1 ELSE Horizon
      IN /\ Range(loc.inv) = asked \union IF IsTemporal(feature) THEN {<<"time", limit>>} ELSE {}
         /\ loc.closed <=> ~Unclosed(l)

\* A run of the product may start wherever one of the model may, in no sub-expression
\* matched and with all clocks and stores at 0, each said once.
Started ==
  xml # None =>
    /\ Len(xml.initially) = Len(file.initial)
    /\ \A n \in DOMAIN file.initial :
         LET start == xml.initially[n]
             own == Range(file.initial[n].conds)
         IN /\ start.mode = file.initial[n].mode
            /\ Range(start.conds) = own \union {<<x, Number(0)>> : x \in Range(Added(feature))}
            /\ Len(start.conds) = Len(file.initial[n].conds) + Len(Added(feature))

\* At level 0 the transitions of the model are all there, with their guards and
\* with no resets but the model's own and those that keep the added variables.
ModelWritten ==
  xml # None =>
    \A e \in {p.edge : p \in {q \in Range(file.properties) : q.kind = "trans"}} :
      \E k \in DOMAIN xml.trans :
        /\ NameOf(xml.trans[k].source) = <<e.from>>
        /\ <<e.to>> \in Names => NameOf(xml.trans[k].target) = <<e.to>>
        /\ Range(xml.trans[k].guard) = {<<"edge", e>>, Level(0)}
        /\ Range(xml.trans[k].assignment)
             = Range(Resets[e]) \union Range(Identities(Added(feature)))

===============================================================================
