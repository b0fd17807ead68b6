---------------------------- MODULE ConditionList ----------------------------
(***************************************************************************)
(* The singly linked lists of conditions from which guards, resets and     *)
(* invariants are made (structs.c, condition).                             *)
(*                                                                         *)
(* The heap is a sequence of nodes; an address is a position in it and     *)
(* NULL is 0.  A list is the address of its first node, so two lists that  *)
(* reach the same node share all that follows it.  Nodes of these lists    *)
(* are never freed one by one, hence addresses are not used again.         *)
(***************************************************************************)
EXTENDS Integers, Sequences

NULL == 0

\* The nodes of the list at root, in order.
Nodes(h, root) ==
  LET from[a \in 0 .. Len(h)] == IF a = NULL THEN << >> ELSE <<a>> \o from[h[a].next]
  IN from[root]

Reached(h, root) == {Nodes(h, root)[n] : n \in DOMAIN Nodes(h, root)}

Contents(h, root) ==
  LET nodes == Nodes(h, root) IN [n \in DOMAIN nodes |-> h[nodes[n]].cond]

InList(h, root, cond) == \E a \in Reached(h, root) : h[a].cond = cond

LastNode(h, root) == Nodes(h, root)[Len(Nodes(h, root))]

\* A list of fresh nodes: createCondition and addToConditionList one after
\* another.  Its first node is the next one of the heap.
Fresh(h, conds) == IF conds = << >> THEN NULL ELSE Len(h) + 1

Create(h, conds) ==
  h \o [n \in DOMAIN conds |->
          [cond |-> conds[n], next |-> IF n = Len(conds) THEN NULL ELSE Len(h) + n + 1]]

\* duplicateConditionList
Duplicate(h, root) == Create(h, Contents(h, root))

\* addConditionToList: the list at cond is hung behind the one at root, unless
\* its first node is already there.  Nothing is copied.
Link(h, root, cond) ==
  IF root = NULL \/ cond \in Reached(h, root) THEN h
  ELSE [h EXCEPT ![LastNode(h, root)].next = cond]

Linked(root, cond) == IF root = NULL THEN cond ELSE root

\* The lists below are never shared; they are sequences of <<variable, value>>.
\* removeConditionFromList: the first reset of one of the names goes.
WithoutFirst(resets, names) ==
  LET hits == {n \in DOMAIN resets : resets[n][1] \in names}
      first == CHOOSE n \in hits : \A m \in hits : n <= m
  IN IF hits = {} THEN resets
     ELSE SubSeq(resets, 1, first - 1) \o SubSeq(resets, first + 1, Len(resets))

\* The first reset of x becomes one to value; x that is not reset stays so.
Reset(resets, x, value) ==
  LET hits == {n \in DOMAIN resets : resets[n][1] = x}
      first == CHOOSE n \in hits : \A m \in hits : n <= m
  IN IF hits = {} THEN resets ELSE [resets EXCEPT ![first] = <<x, value>>]

===============================================================================
