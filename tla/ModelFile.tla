------------------------------- MODULE ModelFile -------------------------------
(***************************************************************************)
(* How a hybrid automaton is read from its file (parsers/haslacParser.y).  *)
(*                                                                         *)
(* A file is a record: signature and outputs, the variables it declares    *)
(* twice, modes, the names of the locations in order, and properties, a    *)
(* sequence of records, each the invariant of a location (kind inv, loc,   *)
(* conds) or a transition (kind trans, edge), and initial, the sets a run  *)
(* may start in (mode, conds).  An edge is a record with at least from and *)
(* to, the names of two locations.                                         *)
(***************************************************************************)
EXTENDS Integers, Sequences, SequencesExt

IsMode(file, l) == l \in Range(file.modes)

\* An output that the signature does not name ends the program, and so does (or a
\* crash: getLocationByName then returns nothing at all) a property that starts
\* from no location.  A transition to no location is let through.
Accepted(file) ==
  /\ Range(file.outputs) \subseteq Range(file.signature)
  /\ \A n \in DOMAIN file.properties :
       LET p == file.properties[n] IN
       IF p.kind = "inv" THEN IsMode(file, p.loc) ELSE IsMode(file, p.edge.from)

\* A conjunction is put together from its end.
Conjunction(conds) == Reverse(conds)

\* Mutant: the first line for a location counts.
InvariantReadFirst(file, l) ==
  LET read[n \in 0 .. Len(file.properties)] ==
        IF n = 0 THEN << >>
        ELSE LET p == file.properties[n] IN
             IF read[n - 1] = << >> /\ p.kind = "inv" /\ p.loc = l THEN Conjunction(p.conds)
             ELSE read[n - 1]
  IN read[Len(file.properties)]

\* Each line replaces the invariant that an earlier one has given the location.
InvariantRead(file, l) ==
  LET read[n \in 0 .. Len(file.properties)] ==
        IF n = 0 THEN << >>
        ELSE LET p == file.properties[n] IN
             IF p.kind = "inv" /\ p.loc = l THEN Conjunction(p.conds) ELSE read[n - 1]
  IN read[Len(file.properties)]

\* The transitions, in the order of the lists they are put into: a location's
\* are in file order.
EdgesRead(file) ==
  LET read[n \in 0 .. Len(file.properties)] ==
        IF n = 0 THEN << >>
        ELSE LET p == file.properties[n] IN
             IF p.kind = "trans" THEN Append(read[n - 1], p.edge) ELSE read[n - 1]
  IN read[Len(file.properties)]

\* The conditions of an initial set are put together like a conjunction.  Its
\* location is not looked up.
InitialRead(file) ==
  [n \in DOMAIN file.initial |->
     [file.initial[n] EXCEPT !.conds = Conjunction(@)]]

===============================================================================
