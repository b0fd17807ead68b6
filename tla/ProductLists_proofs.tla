-------------------------- MODULE ProductLists_proofs --------------------------
(***************************************************************************)
(* Proofs about ProductLists: what its lists come to is the product that   *)
(* LevelSequence describes, and what a transition resets, and how often.   *)
(***************************************************************************)
EXTENDS SpaceExFile_proofs

-------------------------------------------------------------------------------
\* A list from one of its nodes on

\* No list comes back to its first node.
LEMMA ListsFall ==
  ASSUME NEW h, Lists(h), NEW a \in 1 .. Len(h)
  PROVE  a \notin Reached(h, h[a].next)
<1>0. PICK bound \in Nat : Lengths(h, bound) # {}
  BY DEF Lists
<1>1. PICK r \in Lengths(h, bound) : TRUE
  BY <1>0
<1>2. /\ r \in [0 .. Len(h) -> 0 .. bound] /\ r[0] = 0
      /\ \A b \in 1 .. Len(h) : r[b] = 1 + r[h[b].next]
  BY <1>1 DEF Lengths
<1>3. Len(h) \in Nat /\ \A b \in 1 .. Len(h) : h[b].next \in 0 .. Len(h)
  BY HeapFacts
<1>4. /\ Reached(h, 0) = {}
      /\ \A b \in 1 .. Len(h) : Reached(h, b) = {b} \union Reached(h, h[b].next)
      /\ \A b \in 0 .. Len(h) : Reached(h, b) \subseteq 1 .. Len(h)
  BY ReachedUnfold
<1> DEFINE T == {b \in 0 .. Len(h) : \A x \in Reached(h, b) : r[x] <= r[b]}
<1>5. 0 \in T
  BY <1>3, <1>4
<1>6. ASSUME NEW b \in 1 .. Len(h), h[b].next \in T PROVE b \in T
  <2> DEFINE c == h[b].next
  <2>1. c \in 0 .. Len(h) /\ r[c] \in Nat /\ r[b] \in Nat /\ r[b] = 1 + r[c] /\ b \in 0 .. Len(h)
    BY <1>2, <1>3
  <2>2. ASSUME NEW x \in Reached(h, b) PROVE r[x] <= r[b]
    <3>1. CASE x = b
      BY <2>1, <3>1
    <3>2. CASE x # b
      <4>1. x \in Reached(h, c)
        BY <1>4, <3>2
      <4>2. x \in 1 .. Len(h) /\ r[x] <= r[c]
        BY <1>4, <1>6, <2>1, <4>1
      <4>3. r[x] \in Nat
        BY <1>2, <1>3, <4>2
      <4> QED
        BY <2>1, <4>2, <4>3
    <3> QED
      BY <3>1, <3>2
  <2> QED
    BY <2>1, <2>2
<1> HIDE DEF T
<1>7. \A b \in 0 .. Len(h) : b \in T
  BY <1>5, <1>6, AlongLists
<1>8. h[a].next \in 0 .. Len(h) /\ r[a] = 1 + r[h[a].next] /\ r[h[a].next] \in Nat
  BY <1>2, <1>3
<1>9. h[a].next \in T
  BY <1>7, <1>8
<1> QED
  BY <1>8, <1>9 DEF T

\* Joining three sequences.
LEMMA JoinedTwice ==
  ASSUME NEW s, IsSequence(s), NEW q, IsSequence(q), NEW r, IsSequence(r)
  PROVE  s \o (q \o r) = (s \o q) \o r
<1>1. Len(s) \in Nat /\ Len(q) \in Nat /\ Len(r) \in Nat
  BY SequenceFacts
<1> DEFINE qr == q \o r
           sq == s \o q
           x == s \o qr
           y == sq \o r
<1>2. /\ IsSequence(qr) /\ Len(qr) = Len(q) + Len(r)
      /\ \A k \in 1 .. Len(q) : qr[k] = q[k]
      /\ \A k \in 1 .. Len(r) : qr[Len(q) + k] = r[k]
  BY Concatenated
<1>3. /\ IsSequence(sq) /\ Len(sq) = Len(s) + Len(q)
      /\ \A k \in 1 .. Len(s) : sq[k] = s[k]
      /\ \A k \in 1 .. Len(q) : sq[Len(s) + k] = q[k]
  BY Concatenated
<1> HIDE DEF qr, sq
<1>4. IsSequence(qr) /\ IsSequence(sq)
  BY <1>2, <1>3
<1>5. /\ IsSequence(x) /\ Len(x) = Len(s) + Len(qr)
      /\ \A k \in 1 .. Len(s) : x[k] = s[k]
      /\ \A k \in 1 .. Len(qr) : x[Len(s) + k] = qr[k]
  BY <1>4, Concatenated
<1>6. /\ IsSequence(y) /\ Len(y) = Len(sq) + Len(r)
      /\ \A k \in 1 .. Len(sq) : y[k] = sq[k]
      /\ \A k \in 1 .. Len(r) : y[Len(sq) + k] = r[k]
  BY <1>4, Concatenated
<1> HIDE DEF x, y
<1>7. ASSUME NEW k \in 1 .. Len(x) PROVE x[k] = y[k]
  <2>1. CASE k <= Len(s)
    BY <1>1, <1>3, <1>5, <1>6, <2>1
  <2>2. CASE k > Len(s) /\ k <= Len(s) + Len(q)
    <3> DEFINE m == k - Len(s)
    <3>1. m \in 1 .. Len(q) /\ m \in 1 .. Len(qr) /\ k = Len(s) + m /\ k \in 1 .. Len(sq)
      BY <1>1, <1>2, <1>3, <2>2
    <3> HIDE DEF m
    <3> QED
      BY <1>2, <1>3, <1>5, <1>6, <3>1
  <2>3. CASE k > Len(s) + Len(q)
    <3> DEFINE m == k - Len(s) - Len(q)
    <3>1. m \in 1 .. Len(r) /\ Len(q) + m \in 1 .. Len(qr)
          /\ k = Len(s) + (Len(q) + m) /\ k = Len(sq) + m
      BY <1>1, <1>2, <1>3, <1>5, <2>3
    <3> HIDE DEF m
    <3> QED
      BY <1>2, <1>5, <1>6, <3>1
  <2>4. k \in Nat
    BY <1>5
  <2> QED
    BY <1>1, <2>1, <2>2, <2>3, <2>4
<1>8. Len(x) = Len(y)
  BY <1>1, <1>2, <1>3, <1>5, <1>6
<1>9. x = y
  BY <1>5, <1>6, <1>7, <1>8, SameSequence
<1> QED
  BY <1>9 DEF x, y, qr, sq

\* What is in front of a node of a list, and what follows.
IsFront(h, a, g, p) ==
  /\ IsSequence(p) /\ Nodes(h, a) = p \o Nodes(h, g)
  /\ {p[k] : k \in DOMAIN p} = Reached(h, a) \ Reached(h, g)
  /\ Reached(h, g) \subseteq Reached(h, a)

\* From each of its nodes on a list is the list of that node.
LEMMA NodesFrom ==
  ASSUME NEW h, Lists(h), NEW g \in 1 .. Len(h)
  PROVE  \A a \in 0 .. Len(h) : g \in Reached(h, a) => \E p : IsFront(h, a, g, p)
<1>1. Len(h) \in Nat /\ \A b \in 1 .. Len(h) : h[b].next \in 0 .. Len(h)
  BY HeapFacts
<1>2. /\ \A b \in 1 .. Len(h) : Nodes(h, b) = <<b>> \o Nodes(h, h[b].next)
      /\ \A b \in 0 .. Len(h) : Nodes(h, b) \in Seq(1 .. Len(h))
  BY NodesUnfold
<1>3. /\ Reached(h, 0) = {}
      /\ \A b \in 1 .. Len(h) : Reached(h, b) = {b} \union Reached(h, h[b].next)
      /\ \A b \in 0 .. Len(h) : Reached(h, b) \subseteq 1 .. Len(h)
  BY ReachedUnfold
<1>4. \A b \in 0 .. Len(h) : IsSequence(Nodes(h, b))
  <2>1. ASSUME NEW b \in 0 .. Len(h) PROVE IsSequence(Nodes(h, b))
    <3>1. Len(Nodes(h, b)) \in Nat /\ Nodes(h, b) = [k \in 1 .. Len(Nodes(h, b)) |-> Nodes(h, b)[k]]
      BY <1>2, SequenceIsFunction
    <3> QED
      BY <3>1, SequenceMade
  <2> QED
    BY <2>1
<1> DEFINE T == {a \in 0 .. Len(h) : g \in Reached(h, a) => \E p : IsFront(h, a, g, p)}
<1>5. 0 \in T
  BY <1>1, <1>3
<1>6. ASSUME NEW b \in 1 .. Len(h), h[b].next \in T PROVE b \in T
  <2> DEFINE c == h[b].next
  <2>1. c \in 0 .. Len(h) /\ b \in 0 .. Len(h)
    BY <1>1
  <2>2. ASSUME g = b PROVE IsFront(h, b, g, << >>)
    <3>1. IsSequence(<< >>) /\ << >> \o Nodes(h, g) = Nodes(h, g)
      BY <1>4, <2>1, <2>2, ShortSequences, EmptyJoined
    <3>2. {(<< >>)[k] : k \in DOMAIN << >>} = {}
      OBVIOUS
    <3> QED
      BY <2>2, <3>1, <3>2 DEF IsFront
  <2>3. ASSUME g # b, g \in Reached(h, b) PROVE \E p : IsFront(h, b, g, p)
    <3>1. g \in Reached(h, c)
      BY <1>3, <2>3
    <3>2. PICK q : IsFront(h, c, g, q)
      BY <1>6, <3>1
    <3> DEFINE p == <<b>> \o q
    <3>3. IsSequence(<<b>>) /\ IsSequence(q) /\ Len(<<b>>) = 1 /\ (<<b>>)[1] = b
      BY <3>2, ShortSequences DEF IsFront
    <3>4. IsSequence(p) /\ Range(p) = Range(<<b>>) \union Range(q)
      BY <3>3, Concatenated, RangeJoined
    <3>5. Nodes(h, b) = p \o Nodes(h, g)
      <4>1. IsSequence(Nodes(h, g)) /\ IsSequence(Nodes(h, c))
        BY <1>1, <1>4, <2>1
      <4>2. Nodes(h, b) = <<b>> \o (q \o Nodes(h, g))
        BY <1>2, <3>2 DEF IsFront
      <4>3. <<b>> \o (q \o Nodes(h, g)) = (<<b>> \o q) \o Nodes(h, g)
        BY <3>3, <4>1, JoinedTwice
      <4> QED
        BY <4>2, <4>3
    <3>6. b \notin Reached(h, c)
      BY ListsFall
    <3>7. Range(<<b>>) = {b}
      <4>1. DOMAIN <<b>> = {1}
        OBVIOUS
      <4> QED
        BY <3>3, <4>1 DEF Range
    <3>8. Range(q) = Reached(h, c) \ Reached(h, g) /\ Reached(h, g) \subseteq Reached(h, c)
      BY <3>2 DEF IsFront, Range
    <3>9. Reached(h, b) = {b} \union Reached(h, c)
      BY <1>3
    <3>10. Range(p) = Reached(h, b) \ Reached(h, g) /\ Reached(h, g) \subseteq Reached(h, b)
      BY <3>4, <3>6, <3>7, <3>8, <3>9
    <3> HIDE DEF p
    <3>11. IsFront(h, b, g, p)
      BY <3>4, <3>5, <3>10 DEF IsFront, Range, p
    <3> QED
      BY <3>11
  <2> QED
    BY <2>1, <2>2, <2>3
<1> HIDE DEF T
<1>7. \A b \in 0 .. Len(h) : b \in T
  BY <1>5, <1>6, AlongLists
<1> QED
  BY <1>7 DEF T

\* What a list asks for in front of one of its nodes.
LEMMA AheadRead ==
  ASSUME NEW h, Lists(h), NEW a \in 0 .. Len(h), NEW g \in 1 .. Len(h), g \in Reached(h, a)
  PROVE  Range(SubSeq(Contents(h, a), 1, Len(Contents(h, a)) - Len(Contents(h, g))))
           = Conds(h, Reached(h, a) \ Reached(h, g))
<1>1. PICK p : IsFront(h, a, g, p)
  BY NodesFrom
<1> DEFINE c == Contents(h, a)
           n == Nodes(h, a)
           ng == Nodes(h, g)
           s == SubSeq(c, 1, Len(p))
<1>2. Len(h) \in Nat /\ g \in 0 .. Len(h)
  BY HeapFacts
<1>3. n \in Seq(1 .. Len(h)) /\ ng \in Seq(1 .. Len(h))
  BY <1>2, NodesUnfold
<1>4. /\ IsSequence(c) /\ Len(c) = Len(n)
      /\ Len(Contents(h, g)) = Len(ng)
  BY <1>2, ContentsRead
<1>5. IsSequence(p) /\ IsSequence(ng) /\ Len(p) \in Nat /\ DOMAIN p = 1 .. Len(p)
  <2>1. Len(ng) \in Nat /\ ng = [k \in 1 .. Len(ng) |-> ng[k]]
    BY <1>3, SequenceIsFunction
  <2>2. IsSequence(ng)
    BY <2>1, SequenceMade
  <2>3. IsSequence(p)
    BY <1>1 DEF IsFront
  <2> QED
    BY <2>2, <2>3, SequenceFacts
<1>6. Len(n) = Len(p) + Len(ng) /\ \A k \in 1 .. Len(p) : n[k] = p[k]
  <2>1. n = p \o ng
    BY <1>1 DEF IsFront
  <2> HIDE DEF n, ng
  <2> QED
    BY <1>5, <2>1, Concatenated
<1>7. Len(ng) \in Nat /\ Len(n) \in Nat
  BY <1>3
<1>8. \A k \in 1 .. Len(p) : c[k] = h[p[k]].cond
  BY <1>3, <1>6, <1>7 DEF Contents
<1> HIDE DEF c, n, ng
<1>9. /\ IsSequence(s) /\ Len(s) = Len(p)
      /\ \A k \in 1 .. Len(p) : s[k] = c[k]
  <2>1. 1 \in 1 .. Len(c) + 1 /\ Len(p) \in 1 - 1 .. Len(c)
    BY <1>4, <1>5, <1>6, <1>7
  <2>2. /\ IsSequence(s) /\ Len(s) = Len(p) - 1 + 1
        /\ \A k \in 1 .. Len(p) - 1 + 1 : s[k] = c[k + 1 - 1]
    BY <1>4, <2>1, PartOfSequence
  <2> HIDE DEF s
  <2> QED
    BY <1>5, <2>2
<1>10. DOMAIN s = 1 .. Len(p)
  BY <1>9, SequenceFacts
<1>11. Range(s) = {h[x].cond : x \in {p[k] : k \in DOMAIN p}}
  <2> HIDE DEF s
  <2> QED
    BY <1>5, <1>8, <1>9, <1>10 DEF Range
<1>12. Len(c) - Len(Contents(h, g)) = Len(p)
  BY <1>4, <1>5, <1>6, <1>7
<1> HIDE DEF s
<1>13. Range(s) = Conds(h, Reached(h, a) \ Reached(h, g))
  BY <1>1, <1>11 DEF IsFront, Conds
<1> QED
  BY <1>12, <1>13 DEF s, c

\* What a list asks for behind its first node.
LEMMA TailRead ==
  ASSUME NEW h, Lists(h), NEW g \in 1 .. Len(h)
  PROVE  Range(Tail(Contents(h, g))) = Conds(h, Reached(h, g) \ {g})
<1> DEFINE c == Contents(h, g)
           n == Nodes(h, g)
           b == h[g].next
           m == Nodes(h, b)
<1>1. Len(h) \in Nat /\ g \in 0 .. Len(h) /\ b \in 0 .. Len(h)
  BY HeapFacts
<1>2. n \in Seq(1 .. Len(h)) /\ m \in Seq(1 .. Len(h)) /\ n = <<g>> \o m
  BY <1>1, NodesUnfold
<1>3. IsSequence(c) /\ Len(c) = Len(n)
  BY <1>1, ContentsRead
<1>4. Reached(h, g) \ {g} = Reached(h, b)
  <2>1. g \notin Reached(h, b) /\ Reached(h, g) = {g} \union Reached(h, b)
    BY ListsFall, ReachedUnfold
  <2> HIDE DEF b
  <2> QED
    BY <2>1
<1>5. \A k \in 1 .. Len(n) : c[k] = h[n[k]].cond
  BY <1>2 DEF Contents
<1>6. Reached(h, b) = {m[k] : k \in DOMAIN m}
  BY DEF Reached
<1> HIDE DEF n, m, b, c
<1>7. Len(n) = 1 + Len(m) /\ Len(m) \in Nat /\ DOMAIN m = 1 .. Len(m)
      /\ \A k \in 1 .. Len(m) : n[1 + k] = m[k]
  BY <1>2
<1>8. c # << >> /\ c \in Seq({c[k] : k \in DOMAIN c})
  BY <1>3, <1>7 DEF IsSequence
<1>9. Len(Tail(c)) = Len(m) /\ DOMAIN Tail(c) = 1 .. Len(m) /\ \A k \in 1 .. Len(m) : Tail(c)[k] = c[1 + k]
  BY <1>3, <1>7, <1>8
<1>10. \A k \in 1 .. Len(m) : Tail(c)[k] = h[m[k]].cond
  BY <1>5, <1>7, <1>9
<1>11. Range(Tail(c)) = {h[x].cond : x \in {m[k] : k \in DOMAIN m}}
  <2> DEFINE t == Tail(c)
  <2>1. DOMAIN t = DOMAIN m /\ \A k \in DOMAIN m : t[k] = h[m[k]].cond
    BY <1>7, <1>9, <1>10
  <2> HIDE DEF t
  <2>2. {t[k] : k \in DOMAIN t} = {h[x].cond : x \in {m[k] : k \in DOMAIN m}}
    BY <2>1
  <2> QED
    BY <2>2 DEF Range, t
<1>12. Range(Tail(c)) = Conds(h, Reached(h, g) \ {g})
  BY <1>4, <1>6, <1>11 DEF Conds
<1> QED
  BY <1>12 DEF c

\* A finite set in some order: nothing is left out.
LEMMA ListsAll ==
  ASSUME NEW S, IsFiniteSet(S)
  PROVE  IsSequence(SetToSeq(S)) /\ Range(SetToSeq(S)) = S
<1> DEFINE n == Cardinality(S)
           s == SetToSeq(S)
<1>1. n \in Nat /\ ExistsBijection(1..n, S)
  BY FS_CardinalityType
<1>2. \E f \in [1..n -> S] : IsInjective(f)
  BY <1>1 DEF ExistsBijection, Bijection, Injection
<1>3. s \in [1..n -> S] /\ IsInjective(s)
  BY <1>2 DEF SetToSeq
<1>4. IsSequence(s)
  BY ListOfSet
<1>5. IsFiniteSet(1..n) /\ Cardinality(1..n) = n
  <2>1. IsFiniteSet(1..n) /\ Cardinality(1..n) = IF 1 > n THEN 0 ELSE n - 1 + 1
    BY <1>1, FS_Interval
  <2> QED
    BY <1>1, <2>1
<1> HIDE DEF s
<1>6. s \in Injection(1..n, S)
  BY <1>3 DEF Injection
<1>7. s \in Surjection(1..n, S)
  BY <1>5, <1>6, FS_Injection
<1>8. Range(s) = S
  BY <1>3, <1>7 DEF Surjection, Range
<1> QED
  BY <1>4, <1>8 DEF s

\* The guards of a conjunct, one per predicate.
LEMMA ConjunctAll ==
  ASSUME NEW term, IsFiniteSet(term.preds)
  PROVE  /\ IsSequence(ConjunctGuards(term))
         /\ Range(ConjunctGuards(term)) = {<<"pred", p>> : p \in term.preds}
<1> DEFINE S == term.preds
           f == [p \in S |-> <<"pred", p>>]
           T == {<<"pred", p>> : p \in S}
<1>1. f \in Surjection(S, T)
  <2>1. f \in [S -> T]
    OBVIOUS
  <2>2. \A x \in T : \E p \in S : f[p] = x
    OBVIOUS
  <2> QED
    BY <2>1, <2>2 DEF Surjection
<1>2. IsFiniteSet(T)
  <2> HIDE DEF f, T
  <2> QED
    BY <1>1, FS_Surjection
<1>3. IsSequence(SetToSeq(T)) /\ Range(SetToSeq(T)) = T
  <2> HIDE DEF f, T
  <2> QED
    BY <1>2, ListsAll
<1> QED
  BY <1>3 DEF ConjunctGuards

-------------------------------------------------------------------------------
\* How often a sequence of resets speaks of a variable

Hits(s, x) == {n \in DOMAIN s : Says(s, n, x)}

Count(s, x) == Cardinality(Hits(s, x))

\* A number, 0 if it never does.
LEMMA CountIsNat ==
  ASSUME NEW s, IsSequence(s), NEW x
  PROVE  /\ IsFiniteSet(Hits(s, x)) /\ Count(s, x) \in Nat
         /\ Count(s, x) = 0 <=> \A n \in DOMAIN s : ~Says(s, n, x)
<1>1. Len(s) \in Nat /\ DOMAIN s = 1 .. Len(s)
  BY SequenceFacts
<1>2. IsFiniteSet(1 .. Len(s)) /\ Hits(s, x) \in SUBSET (1 .. Len(s))
  BY <1>1, FS_Interval DEF Hits
<1>3. IsFiniteSet(Hits(s, x))
  BY <1>2, FS_Subset
<1>4. Count(s, x) \in Nat /\ (Count(s, x) = 0 <=> Hits(s, x) = {})
  BY <1>3, FS_CardinalityType, FS_EmptySet DEF Count
<1> QED
  BY <1>3, <1>4 DEF Hits

\* One behind the other.
LEMMA CountJoined ==
  ASSUME NEW s, IsSequence(s), NEW r, IsSequence(r), NEW x
  PROVE  IsSequence(s \o r) /\ Count(s \o r, x) = Count(s, x) + Count(r, x)
<1> DEFINE u == s \o r
<1>1. /\ IsSequence(u) /\ Len(u) = Len(s) + Len(r)
      /\ \A k \in 1 .. Len(s) : u[k] = s[k]
      /\ \A k \in 1 .. Len(r) : u[Len(s) + k] = r[k]
  BY Concatenated
<1>2. /\ Len(s) \in Nat /\ DOMAIN s = 1 .. Len(s) /\ Len(r) \in Nat /\ DOMAIN r = 1 .. Len(r)
      /\ DOMAIN u = 1 .. Len(u)
  BY <1>1, SequenceFacts
<1> HIDE DEF u
<1> DEFINE H == Hits(r, x)
           moved == {k \in Len(s) + 1 .. Len(s) + Len(r) : k - Len(s) \in H}
           f == [n \in H |-> Len(s) + n]
<1>3. H \subseteq 1 .. Len(r) /\ IsFiniteSet(H) /\ IsFiniteSet(Hits(s, x)) /\ Hits(s, x) \subseteq 1 .. Len(s)
  BY <1>2, CountIsNat DEF Hits
<1>4. Hits(u, x) = Hits(s, x) \union moved
  <2>1. ASSUME NEW k \in Hits(u, x) PROVE k \in Hits(s, x) \union moved
    <3>1. k \in 1 .. Len(s) + Len(r) /\ u[k][1] = x
      BY <1>1, <1>2, <2>1 DEF Hits, Says
    <3>2. CASE k <= Len(s)
      BY <1>1, <1>2, <3>1, <3>2 DEF Hits, Says
    <3>3. CASE k > Len(s)
      <4> DEFINE m == k - Len(s)
      <4>1. m \in 1 .. Len(r) /\ k = Len(s) + m
        BY <1>2, <3>1, <3>3
      <4>2. r[m][1] = x
        BY <1>1, <3>1, <4>1
      <4> QED
        BY <1>2, <3>1, <3>3, <4>1, <4>2 DEF Hits, Says
    <3> QED
      BY <1>2, <3>1, <3>2, <3>3
  <2>2. ASSUME NEW k \in Hits(s, x) PROVE k \in Hits(u, x)
    BY <1>1, <1>2, <2>2 DEF Hits, Says
  <2>3. ASSUME NEW k \in moved PROVE k \in Hits(u, x)
    <3> DEFINE m == k - Len(s)
    <3>1. m \in H /\ m \in 1 .. Len(r) /\ k = Len(s) + m /\ k \in 1 .. Len(u)
      BY <1>1, <1>2, <1>3, <2>3
    <3>2. r[m][1] = x
      BY <3>1 DEF Hits, Says
    <3>3. u[k] = r[m]
      BY <1>1, <3>1
    <3> QED
      BY <1>2, <3>1, <3>2, <3>3 DEF Hits, Says
  <2> QED
    BY <2>1, <2>2, <2>3
<1>5. f \in Bijection(H, moved)
  <2>1. f \in [H -> moved]
    BY <1>2, <1>3
  <2>2. \A a, b \in H : f[a] = f[b] => a = b
    BY <1>2, <1>3
  <2>3. \A k \in moved : \E n \in H : f[n] = k
    <3>1. ASSUME NEW k \in moved PROVE k - Len(s) \in H /\ f[k - Len(s)] = k
      BY <1>2, <1>3
    <3> QED
      BY <3>1
  <2> HIDE DEF f, moved, H
  <2> QED
    BY <2>1, <2>2, <2>3 DEF Bijection, Injection, Surjection, IsInjective
<1>6. IsFiniteSet(moved) /\ Cardinality(moved) = Cardinality(H)
  <2>1. ExistsBijection(H, moved)
    BY <1>5 DEF ExistsBijection
  <2> HIDE DEF moved, H
  <2> QED
    BY <1>3, <2>1, FS_Bijection
<1>7. Hits(s, x) \intersect moved = {}
  BY <1>2, <1>3
<1> HIDE DEF moved, H
<1>8. Cardinality(Hits(s, x) \union moved)
        = Cardinality(Hits(s, x)) + Cardinality(moved) - Cardinality(Hits(s, x) \intersect moved)
  BY <1>3, <1>6, FS_Union
<1>9. Cardinality(Hits(s, x)) \in Nat /\ Cardinality(moved) \in Nat
  BY <1>3, <1>6, FS_CardinalityType
<1>10. Count(u, x) = Count(s, x) + Count(r, x)
  <2>1. Cardinality(Hits(s, x) \intersect moved) = 0
    BY <1>7, FS_EmptySet
  <2>2. Cardinality(Hits(u, x)) = Cardinality(Hits(s, x)) + Cardinality(H)
    BY <1>4, <1>6, <1>8, <1>9, <2>1
  <2> QED
    BY <2>2 DEF Count, H
<1> QED
  BY <1>1, <1>10 DEF u

\* A single reset.
LEMMA CountSingle ==
  ASSUME NEW y, NEW v, NEW x
  PROVE  IsSequence(<<<<y, v>>>>) /\ Count(<<<<y, v>>>>, x) = IF x = y THEN 1 ELSE 0
<1> DEFINE p == <<y, v>>
           s == <<p>>
<1>1. p[1] = y
  OBVIOUS
<1> HIDE DEF p
<1>2. DOMAIN s = {1} /\ s[1] = p /\ IsSequence(s)
  BY ShortSequences
<1>3. Hits(s, x) = IF x = y THEN {1} ELSE {}
  BY <1>1, <1>2 DEF Hits, Says
<1>4. Count(s, x) = IF x = y THEN 1 ELSE 0
  BY <1>3, FS_EmptySet, FS_Singleton DEF Count
<1> QED
  BY <1>2, <1>4 DEF s, p

\* The same variables at the same positions.
LEMMA CountSame ==
  ASSUME NEW s, NEW r, DOMAIN r = DOMAIN s, NEW x, \A n \in DOMAIN s : Says(r, n, x) <=> Says(s, n, x)
  PROVE  Count(r, x) = Count(s, x)
<1>1. Hits(r, x) = Hits(s, x)
  BY DEF Hits
<1> QED
  BY <1>1 DEF Count

\* None.
LEMMA CountNone ==
  ASSUME NEW x
  PROVE  IsSequence(<< >>) /\ Count(<< >>, x) = 0
<1>1. IsSequence(<< >>) /\ DOMAIN << >> = {}
  BY ShortSequences
<1> QED
  BY <1>1, CountIsNat

\* What a sequence says last of x is said in its second part, if that speaks of x.
LEMMA LastOfJoined ==
  ASSUME NEW s, IsSequence(s), NEW r, IsSequence(r), NEW x
  PROVE  LastReset(s \o r, x) = IF Count(r, x) = 0 THEN LastReset(s, x) ELSE LastReset(r, x)
BY LastResetJoined, CountIsNat

\* A sequence with another element at one position.
LEMMA ReplacedAt ==
  ASSUME NEW s, IsSequence(s), NEW k \in DOMAIN s, NEW p, NEW r, r = [s EXCEPT ![k] = p]
  PROVE  IsSequence(r) /\ DOMAIN r = DOMAIN s /\ \A n \in DOMAIN s : r[n] = IF n = k THEN p ELSE s[n]
<1>1. Len(s) \in Nat /\ DOMAIN s = 1 .. Len(s)
  BY SequenceFacts
<1>2. s = [n \in 1 .. Len(s) |-> s[n]]
  BY SequenceIsFunction DEF IsSequence
<1>3. r = [n \in 1 .. Len(s) |-> r[n]]
  BY <1>1, <1>2
<1>4. IsSequence(r)
  BY <1>1, <1>3, SequenceMade
<1> QED
  BY <1>1, <1>2, <1>4

\* Reset changes the first reset of a variable, if there is one.
LEMMA FirstReset ==
  ASSUME NEW s, IsSequence(s), NEW y, \E n \in DOMAIN s : s[n][1] = y, NEW v
  PROVE  \E k \in DOMAIN s :
           /\ s[k][1] = y /\ \A m \in DOMAIN s : s[m][1] = y => k <= m
           /\ Reset(s, y, v) = [s EXCEPT ![k] = <<y, v>>]
<1> DEFINE hits == {n \in DOMAIN s : s[n][1] = y}
           first == CHOOSE n \in hits : \A m \in hits : n <= m
<1>1. Len(s) \in Nat /\ DOMAIN s = 1 .. Len(s) /\ hits \in SUBSET Nat /\ hits # {}
  BY SequenceFacts
<1>2. \E n \in hits : \A m \in hits : n <= m
  <2> HIDE DEF hits
  <2> QED
    BY <1>1, LeastOfNats
<1>3. first \in hits /\ \A m \in hits : first <= m
  <2> HIDE DEF hits
  <2> QED
    BY <1>2
<1>4. Reset(s, y, v) = [s EXCEPT ![first] = <<y, v>>]
  BY <1>1 DEF Reset
<1> HIDE DEF first
<1> QED
  BY <1>3, <1>4

\* Storing something for a variable does not change what is spoken of.
LEMMA CountReset ==
  ASSUME NEW s, IsSequence(s), NEW y, NEW v, NEW x
  PROVE  IsSequence(Reset(s, y, v)) /\ Count(Reset(s, y, v), x) = Count(s, x)
<1>0. ASSUME \A n \in DOMAIN s : s[n][1] # y
      PROVE  Reset(s, y, v) = s
  BY <1>0 DEF Reset
<1> DEFINE p == <<y, v>>
           r == Reset(s, y, v)
<1>1. CASE \A n \in DOMAIN s : s[n][1] # y
  BY <1>0, <1>1
<1>2. CASE \E n \in DOMAIN s : s[n][1] = y
  <2>1. PICK k \in DOMAIN s : s[k][1] = y /\ r = [s EXCEPT ![k] = p]
    BY <1>2, FirstReset
  <2>2. IsSequence(r) /\ DOMAIN r = DOMAIN s /\ \A n \in DOMAIN s : r[n] = IF n = k THEN p ELSE s[n]
    BY <2>1, ReplacedAt
  <2>3. p[1] = y
    OBVIOUS
  <2> HIDE DEF r, p
  <2>4. \A n \in DOMAIN s : Says(r, n, x) <=> Says(s, n, x)
    BY <2>1, <2>2, <2>3 DEF Says
  <2>5. Count(r, x) = Count(s, x)
    BY <2>2, <2>4, CountSame
  <2> QED
    BY <2>2, <2>5 DEF r
<1> QED
  BY <1>1, <1>2

\* Entering FINAL speaks of the same variables, and clears the times.
LEMMA CountZeroed ==
  ASSUME NEW s, IsSequence(s), NEW x
  PROVE  /\ IsSequence(TimeToZero(s)) /\ Count(TimeToZero(s), x) = Count(s, x)
         /\ LastReset(TimeToZero(s), x) =
              IF x \in TimeLike \union {"time"} /\ Count(s, x) # 0 THEN Number(0) ELSE LastReset(s, x)
<1> DEFINE r == TimeToZero(s)
           times == TimeLike \union {"time"}
<1>1. Len(s) \in Nat /\ DOMAIN s = 1 .. Len(s)
  BY SequenceFacts
<1>2. /\ DOMAIN r = DOMAIN s
      /\ \A n \in DOMAIN s : r[n] = IF s[n][1] \in times THEN <<s[n][1], Number(0)>> ELSE s[n]
  BY DEF TimeToZero
<1>3. r = [n \in 1 .. Len(s) |-> r[n]]
  BY <1>1 DEF TimeToZero
<1> HIDE DEF r
<1>4. IsSequence(r)
  BY <1>1, <1>3, SequenceMade
<1>5. ASSUME NEW n \in DOMAIN s
      PROVE  /\ Says(r, n, x) <=> Says(s, n, x)
             /\ Says(s, n, x) /\ x \in times => r[n][2] = Number(0)
  <2>1. CASE s[n][1] \in times
    <3>1. PICK name, p : name = s[n][1] /\ p = <<name, Number(0)>>
      OBVIOUS
    <3>2. p[1] = name /\ p[2] = Number(0) /\ r[n] = p
      BY <1>2, <2>1, <3>1
    <3> QED
      BY <2>1, <3>1, <3>2 DEF Says
  <2>2. CASE ~(s[n][1] \in times)
    BY <1>2, <2>2 DEF Says
  <2> QED
    BY <2>1, <2>2
<1>6. Count(r, x) = Count(s, x)
  BY <1>2, <1>5, CountSame
<1>7. CASE x \notin times
  BY <1>4, <1>6, <1>7, ZeroedElsewhere DEF r
<1>8. CASE x \in times /\ Count(s, x) = 0
  <2>1. LastReset(r, x) = None /\ LastReset(s, x) = None
    BY <1>4, <1>6, <1>8, CountIsNat, NeverReset
  <2> QED
    BY <1>4, <1>6, <1>8, <2>1 DEF r
<1>9. CASE x \in times /\ Count(s, x) # 0
  <2>1. \E n \in DOMAIN r : Says(r, n, x)
    BY <1>4, <1>6, <1>9, CountIsNat
  <2>2. PICK n \in DOMAIN r : Says(r, n, x) /\ LastReset(r, x) = r[n][2]
    BY <1>4, <2>1, LastResetWhere
  <2>3. LastReset(r, x) = Number(0)
    BY <1>2, <1>5, <1>9, <2>2
  <2> QED
    BY <1>4, <1>6, <1>9, <2>3 DEF r
<1> QED
  BY <1>7, <1>8, <1>9

\* A sequence without the element c in its middle.
LEMMA WithoutMiddle ==
  ASSUME NEW a, IsSequence(a), NEW b, IsSequence(b), NEW c
  PROVE  /\ IsSequence(a \o b) /\ IsSequence((a \o <<c>>) \o b)
         /\ Range(a \o b) \subseteq Range((a \o <<c>>) \o b)
         /\ \A x : /\ Count(a \o b, x) = Count((a \o <<c>>) \o b, x) - IF x = c[1] THEN 1 ELSE 0
                   /\ x # c[1] => LastReset(a \o b, x) = LastReset((a \o <<c>>) \o b, x)
<1> DEFINE ac == a \o <<c>>
           s == ac \o b
           r == a \o b
           one == <<c>>
<1>1. one[1] = c /\ DOMAIN one = {1} /\ IsSequence(one)
  BY ShortSequences
<1> HIDE DEF one
<1>2. IsSequence(ac) /\ Range(ac) = Range(a) \union Range(one)
  BY <1>1, Concatenated, RangeJoined DEF one
<1> HIDE DEF ac
<1>3. IsSequence(r) /\ Range(r) = Range(a) \union Range(b)
  BY Concatenated, RangeJoined
<1>4. IsSequence(s) /\ Range(s) = Range(ac) \union Range(b)
  BY <1>2, Concatenated, RangeJoined
<1>5. ASSUME NEW x
      PROVE  /\ Count(r, x) = Count(s, x) - IF x = c[1] THEN 1 ELSE 0
             /\ x # c[1] => LastReset(r, x) = LastReset(s, x)
  <2>1. Count(one, x) = IF x = c[1] THEN 1 ELSE 0
    <3>1. Hits(one, x) = IF x = c[1] THEN {1} ELSE {}
      BY <1>1 DEF Hits, Says
    <3> QED
      BY <3>1, FS_EmptySet, FS_Singleton DEF Count
  <2>2. /\ Count(ac, x) = Count(a, x) + Count(one, x)
        /\ LastReset(ac, x) = IF Count(one, x) = 0 THEN LastReset(a, x) ELSE LastReset(one, x)
    BY <1>1, CountJoined, LastOfJoined DEF ac, one
  <2>3. /\ Count(s, x) = Count(ac, x) + Count(b, x)
        /\ LastReset(s, x) = IF Count(b, x) = 0 THEN LastReset(ac, x) ELSE LastReset(b, x)
    BY <1>2, CountJoined, LastOfJoined
  <2>4. /\ Count(r, x) = Count(a, x) + Count(b, x)
        /\ LastReset(r, x) = IF Count(b, x) = 0 THEN LastReset(a, x) ELSE LastReset(b, x)
    BY CountJoined, LastOfJoined
  <2>5. Count(a, x) \in Nat /\ Count(b, x) \in Nat
    BY CountIsNat
  <2> HIDE DEF s, r
  <2> QED
    BY <2>1, <2>2, <2>3, <2>4, <2>5
<1> HIDE DEF s, r
<1>6. Range(r) \subseteq Range(s)
  BY <1>2, <1>3, <1>4
<1> QED
  BY <1>3, <1>4, <1>5, <1>6 DEF s, r, ac, one

\* A sequence is what is in front of p, the element there, and what is behind it.
LEMMA SplitAt ==
  ASSUME NEW s, IsSequence(s), NEW p \in DOMAIN s
  PROVE  LET a == SubSeq(s, 1, p - 1)
             b == SubSeq(s, p + 1, Len(s))
         IN IsSequence(a) /\ IsSequence(b) /\ s = (a \o <<s[p]>>) \o b
<1> DEFINE a == SubSeq(s, 1, p - 1)
           b == SubSeq(s, p + 1, Len(s))
           c == s[p]
           ac == a \o <<c>>
<1>1. Len(s) \in Nat /\ DOMAIN s = 1 .. Len(s) /\ p \in 1 .. Len(s)
  BY SequenceFacts
<1>2. /\ IsSequence(a) /\ Len(a) = p - 1
      /\ \A k \in 1 .. p - 1 : a[k] = s[k]
  <2>1. 1 \in 1 .. Len(s) + 1 /\ p - 1 \in 1 - 1 .. Len(s)
    BY <1>1
  <2>2. /\ IsSequence(a) /\ Len(a) = (p - 1) - 1 + 1
        /\ \A k \in 1 .. (p - 1) - 1 + 1 : a[k] = s[k + 1 - 1]
    BY <2>1, PartOfSequence
  <2> HIDE DEF a
  <2> QED
    BY <1>1, <2>2
<1>3. /\ IsSequence(b) /\ Len(b) = Len(s) - p
      /\ \A k \in 1 .. Len(s) - p : b[k] = s[k + p]
  <2>1. p + 1 \in 1 .. Len(s) + 1 /\ Len(s) \in (p + 1) - 1 .. Len(s)
    BY <1>1
  <2>2. /\ IsSequence(b) /\ Len(b) = Len(s) - (p + 1) + 1
        /\ \A k \in 1 .. Len(s) - (p + 1) + 1 : b[k] = s[k + (p + 1) - 1]
    BY <2>1, PartOfSequence
  <2> HIDE DEF b
  <2>3. ASSUME NEW k \in 1 .. Len(s) - p PROVE b[k] = s[k + p]
    <3>1. k \in 1 .. Len(s) - (p + 1) + 1 /\ k + (p + 1) - 1 = k + p
      BY <1>1
    <3> QED
      BY <2>2, <3>1
  <2>4. Len(b) = Len(s) - p
    BY <1>1, <2>2
  <2> QED
    BY <2>2, <2>3, <2>4
<1>4. IsSequence(<<c>>) /\ Len(<<c>>) = 1 /\ (<<c>>)[1] = c
  BY ShortSequences
<1> HIDE DEF a, b, c
<1>5. IsSequence(a) /\ IsSequence(b)
  BY <1>2, <1>3
<1>6. /\ IsSequence(ac) /\ Len(ac) = p
      /\ \A k \in 1 .. p - 1 : ac[k] = a[k]
      /\ ac[p] = c
  <2>1. /\ IsSequence(ac) /\ Len(ac) = Len(a) + Len(<<c>>)
        /\ \A k \in 1 .. Len(a) : ac[k] = a[k]
        /\ \A k \in 1 .. Len(<<c>>) : ac[Len(a) + k] = (<<c>>)[k]
    BY <1>4, <1>5, Concatenated
  <2> HIDE DEF ac
  <2> QED
    BY <1>1, <1>2, <1>4, <2>1
<1> HIDE DEF ac
<1> DEFINE t == ac \o b
<1>7. IsSequence(ac)
  BY <1>6
<1>8. /\ IsSequence(t) /\ Len(t) = Len(ac) + Len(b)
      /\ \A k \in 1 .. Len(ac) : t[k] = ac[k]
      /\ \A k \in 1 .. Len(b) : t[Len(ac) + k] = b[k]
  BY <1>5, <1>7, Concatenated
<1> HIDE DEF t
<1>9. Len(t) = Len(s)
  BY <1>1, <1>3, <1>6, <1>8
<1>10. ASSUME NEW k \in 1 .. Len(s) PROVE s[k] = t[k]
  <2>1. CASE k < p
    <3>1. k \in 1 .. p - 1 /\ k \in 1 .. Len(ac)
      BY <1>1, <1>6, <2>1
    <3>2. t[k] = ac[k] /\ ac[k] = a[k] /\ a[k] = s[k]
      BY <1>2, <1>6, <1>8, <3>1
    <3> QED
      BY <3>2
  <2>2. CASE k = p
    BY <1>1, <1>6, <1>8, <2>2 DEF c
  <2>3. CASE k > p
    <3> DEFINE m == k - p
    <3>1. m \in 1 .. Len(s) - p /\ k = p + m /\ k = m + p
      BY <1>1, <2>3
    <3> HIDE DEF m
    <3>2. t[p + m] = b[m]
      BY <1>3, <1>6, <1>8, <3>1
    <3>3. b[m] = s[m + p]
      BY <1>3, <3>1
    <3> QED
      BY <3>1, <3>2, <3>3
  <2> QED
    BY <1>1, <2>1, <2>2, <2>3
<1>11. s = t
  BY <1>8, <1>9, <1>10, SameSequence
<1> QED
  BY <1>5, <1>11 DEF a, b, c, ac, t

\* A sequence without its element at p, the reset of y.
IsCut(s, p, r) == IsSequence(s) /\ p \in DOMAIN s /\ r = SubSeq(s, 1, p - 1) \o SubSeq(s, p + 1, Len(s))

Lost(s, y, r) ==
  /\ IsSequence(r) /\ Range(r) \subseteq Range(s)
  /\ \A x : /\ Count(r, x) = Count(s, x) - IF x = y THEN 1 ELSE 0
            /\ x # y => LastReset(r, x) = LastReset(s, x)

\* Cutting the reset at p out of a sequence loses that one's name and keeps the other resets in
\* order.
LEMMA WithoutOne ==
  ASSUME NEW s, NEW p, NEW r, IsCut(s, p, r)
  PROVE  Lost(s, s[p][1], r)
<1> USE DEF IsCut
<1> DEFINE a == SubSeq(s, 1, p - 1)
           b == SubSeq(s, p + 1, Len(s))
           c == s[p]
<1>1. IsSequence(a) /\ IsSequence(b) /\ s = (a \o <<c>>) \o b
  BY SplitAt
<1>2. r = a \o b
  OBVIOUS
<1> HIDE DEF a, b, c, IsCut
<1>3. /\ IsSequence(a \o b) /\ IsSequence((a \o <<c>>) \o b)
      /\ Range(a \o b) \subseteq Range((a \o <<c>>) \o b)
      /\ \A x : /\ Count(a \o b, x) = Count((a \o <<c>>) \o b, x) - IF x = c[1] THEN 1 ELSE 0
                /\ x # c[1] => LastReset(a \o b, x) = LastReset((a \o <<c>>) \o b, x)
  BY <1>1, WithoutMiddle
<1>4. /\ IsSequence(r) /\ Range(r) \subseteq Range(s)
      /\ \A x : /\ Count(r, x) = Count(s, x) - IF x = c[1] THEN 1 ELSE 0
                /\ x # c[1] => LastReset(r, x) = LastReset(s, x)
  BY <1>1, <1>2, <1>3, Zenon
<1> QED
  BY <1>4 DEF c, Lost

\* removeConditionFromList: the first reset of one of the names goes.
LEMMA FirstTaken ==
  ASSUME NEW s, IsSequence(s), NEW names, NEW k \in DOMAIN s, s[k][1] \in names
  PROVE  \E p \in DOMAIN s :
           /\ s[p][1] \in names /\ \A m \in DOMAIN s : s[m][1] \in names => p <= m
           /\ WithoutFirst(s, names) = SubSeq(s, 1, p - 1) \o SubSeq(s, p + 1, Len(s))
<1> DEFINE hits == {n \in DOMAIN s : s[n][1] \in names}
           first == CHOOSE n \in hits : \A m \in hits : n <= m
<1>1. Len(s) \in Nat /\ DOMAIN s = 1 .. Len(s) /\ hits \in SUBSET Nat /\ hits # {}
  BY SequenceFacts
<1>2. \E n \in hits : \A m \in hits : n <= m
  <2> HIDE DEF hits
  <2> QED
    BY <1>1, LeastOfNats
<1>3. first \in hits /\ \A m \in hits : first <= m
  <2> HIDE DEF hits
  <2> QED
    BY <1>2
<1>4. WithoutFirst(s, names) = SubSeq(s, 1, first - 1) \o SubSeq(s, first + 1, Len(s))
  BY <1>1 DEF WithoutFirst
<1> HIDE DEF first
<1> QED
  BY <1>3, <1>4

-------------------------------------------------------------------------------
\* The names of variables

\* No name twice in the whole means none in a part, and none in both.
LEMMA InjectiveJoined ==
  ASSUME NEW s, IsSequence(s), NEW r, IsSequence(r), IsInjective(s \o r)
  PROVE  IsInjective(s) /\ IsInjective(r) /\ Range(s) \intersect Range(r) = {}
<1> DEFINE u == s \o r
<1>1. /\ IsSequence(u) /\ Len(u) = Len(s) + Len(r)
      /\ \A k \in 1 .. Len(s) : u[k] = s[k]
      /\ \A k \in 1 .. Len(r) : u[Len(s) + k] = r[k]
  BY Concatenated
<1>2. /\ Len(s) \in Nat /\ DOMAIN s = 1 .. Len(s) /\ Len(r) \in Nat /\ DOMAIN r = 1 .. Len(r)
      /\ DOMAIN u = 1 .. Len(u)
  BY <1>1, SequenceFacts
<1>3. \A a, b \in DOMAIN u : u[a] = u[b] => a = b
  BY DEF IsInjective
<1> HIDE DEF u
<1>4. \A k \in DOMAIN s : k \in DOMAIN u /\ u[k] = s[k]
  BY <1>1, <1>2
<1>5. \A k \in DOMAIN r : Len(s) + k \in DOMAIN u /\ u[Len(s) + k] = r[k]
  BY <1>1, <1>2
<1>6. IsInjective(s)
  BY <1>3, <1>4 DEF IsInjective
<1>7. IsInjective(r)
  <2>1. ASSUME NEW a \in DOMAIN r, NEW b \in DOMAIN r, r[a] = r[b] PROVE a = b
    <3>1. Len(s) + a = Len(s) + b
      BY <1>3, <1>5, <2>1
    <3> QED
      BY <1>2, <3>1
  <2> QED
    BY <2>1 DEF IsInjective
<1>8. ASSUME NEW x \in Range(s), x \in Range(r) PROVE FALSE
  <2>1. PICK a \in DOMAIN s : s[a] = x
    BY DEF Range
  <2>2. PICK b \in DOMAIN r : r[b] = x
    BY <1>8 DEF Range
  <2>3. a = Len(s) + b
    BY <1>3, <1>4, <1>5, <2>1, <2>2
  <2> QED
    BY <1>2, <2>3
<1> QED
  BY <1>6, <1>7, <1>8

\* What a match may store something in: the variables of the feature, and its own.
Storable == Range(Declared[feature]) \union {Value}

\* The variables there are, and those that features and models do not name.
LEMMA NamesApart ==
  ASSUME feature \in Features, file \in Files
  PROVE  /\ IsSequence(file.signature) /\ IsSequence(Added(feature))
         /\ IsSequence(file.signature \o Added(feature))
         /\ IsInjective(file.signature \o Added(feature)) /\ IsInjective(Added(feature))
         /\ Range(file.signature \o Added(feature)) = Range(file.signature) \union Range(Added(feature))
         /\ Range(file.signature) \intersect Range(Added(feature)) = {}
         /\ Storable \subseteq Range(Added(feature)) \ {"level", "time"}
         /\ {"level", "time"} \subseteq Range(Added(feature))
         /\ IsTemporal(feature) => "localTime" \in Range(Added(feature)) \ Storable
         /\ 1 \in DOMAIN Added(feature) /\ Added(feature)[1] = "level"
<1>1. PICK a, b, c, d, e, g :
        /\ a = <<"level">> /\ b = Declared[feature] /\ d = <<Value>>
        /\ c = (IF IsTemporal(feature) THEN <<"time", "localTime">> ELSE << >>)
        /\ e = (IF IsTemporal(feature) THEN << >> ELSE <<"time">>)
        /\ g = file.signature
  OBVIOUS
<1>2. Added(feature) = (((a \o b) \o c) \o d) \o e
  BY <1>1 DEF Added
<1>3. IsSequence(a) /\ IsSequence(d) /\ IsSequence(e)
  BY <1>1, ShortSequences
<1>4. IsSequence(b) /\ IsSequence(g)
  BY <1>1, ListsAssumption
<1>5. IsSequence(c) /\ (IsTemporal(feature) => Range(c) = {"time", "localTime"})
  <2>1. PICK s : s = <<"time", "localTime">>
    OBVIOUS
  <2>2. s = [k \in 1 .. 2 |-> s[k]] /\ {s[k] : k \in DOMAIN s} = {"time", "localTime"}
    <3>1. DOMAIN s = {1, 2} /\ s[1] = "time" /\ s[2] = "localTime" /\ s = [k \in 1 .. 2 |-> s[k]]
      BY <2>1
    <3>2. {s[k] : k \in DOMAIN s} = {s[1], s[2]}
      BY <3>1
    <3> QED
      BY <3>1, <3>2
  <2>3. IsSequence(s) /\ Range(s) = {"time", "localTime"}
    BY <2>2, SequenceMade DEF Range
  <2> QED
    BY <1>1, <2>1, <2>3, ShortSequences
<1>6. /\ Range(a) = {"level"} /\ Range(d) = {Value} /\ (~IsTemporal(feature) => Range(e) = {"time"})
      /\ 1 \in DOMAIN a /\ a[1] = "level" /\ Len(a) = 1
  BY <1>1 DEF Range
<1> DEFINE ab == a \o b
<1>7. IsSequence(ab) /\ Range(ab) = Range(a) \union Range(b) /\ ab[1] = "level" /\ Len(ab) = 1 + Len(b)
  <2>1. IsSequence(ab) /\ Len(ab) = Len(a) + Len(b) /\ \A k \in 1 .. Len(a) : ab[k] = a[k]
    BY <1>3, <1>4, Concatenated
  <2>2. Range(ab) = Range(a) \union Range(b)
    BY <1>3, <1>4, RangeJoined
  <2> HIDE DEF ab
  <2>3. 1 \in 1 .. Len(a)
    BY <1>6
  <2> QED
    BY <1>6, <2>1, <2>2, <2>3
<1> HIDE DEF ab
<1> DEFINE abc == ab \o c
<1>8. IsSequence(abc) /\ Range(abc) = Range(ab) \union Range(c) /\ abc[1] = "level" /\ Len(abc) >= 1
  <2>0. IsSequence(ab) /\ IsSequence(c)
    BY <1>5, <1>7
  <2>1. IsSequence(abc) /\ Len(abc) = Len(ab) + Len(c) /\ \A k \in 1 .. Len(ab) : abc[k] = ab[k]
    BY <2>0, Concatenated
  <2>2. Range(abc) = Range(ab) \union Range(c)
    BY <1>5, <1>7, RangeJoined
  <2>3. Len(b) \in Nat /\ Len(c) \in Nat
    BY <1>4, <1>5, SequenceFacts
  <2> HIDE DEF abc
  <2>4. 1 \in 1 .. Len(ab) /\ Len(ab) >= 1 /\ Len(ab) \in Nat
    BY <1>7, <2>3
  <2> QED
    BY <1>7, <2>1, <2>2, <2>3, <2>4
<1> HIDE DEF abc
<1> DEFINE abcd == abc \o d
<1>9. IsSequence(abcd) /\ Range(abcd) = Range(abc) \union Range(d) /\ abcd[1] = "level" /\ Len(abcd) >= 1
  <2>1. IsSequence(abcd) /\ Len(abcd) = Len(abc) + Len(d) /\ \A k \in 1 .. Len(abc) : abcd[k] = abc[k]
    BY <1>3, <1>8, Concatenated
  <2>2. Range(abcd) = Range(abc) \union Range(d)
    BY <1>3, <1>8, RangeJoined
  <2>3. Len(abc) \in Nat /\ Len(d) \in Nat
    BY <1>3, <1>8, SequenceFacts
  <2> HIDE DEF abcd
  <2>4. 1 \in 1 .. Len(abc)
    BY <1>8, <2>3
  <2> QED
    BY <1>8, <2>1, <2>2, <2>3, <2>4
<1> HIDE DEF abcd
<1> DEFINE all == abcd \o e
<1>10. /\ IsSequence(all) /\ Range(all) = Range(abcd) \union Range(e) /\ all[1] = "level"
       /\ 1 \in DOMAIN all
  <2>1. IsSequence(all) /\ Len(all) = Len(abcd) + Len(e) /\ \A k \in 1 .. Len(abcd) : all[k] = abcd[k]
    BY <1>3, <1>9, Concatenated
  <2>2. Range(all) = Range(abcd) \union Range(e)
    BY <1>3, <1>9, RangeJoined
  <2>3. Len(abcd) \in Nat /\ Len(e) \in Nat
    BY <1>3, <1>9, SequenceFacts
  <2> HIDE DEF all
  <2>4. 1 \in 1 .. Len(abcd) /\ DOMAIN all = 1 .. Len(all)
    BY <1>9, <2>1, <2>3, SequenceFacts
  <2> QED
    BY <1>9, <2>1, <2>2, <2>3, <2>4
<1> HIDE DEF all
<1>11. Added(feature) = all
  BY <1>2 DEF all, abcd, abc, ab
<1>12. /\ IsSequence(g \o all) /\ IsInjective(g \o all) /\ IsInjective(all)
       /\ Range(g \o all) = Range(g) \union Range(all) /\ Range(g) \intersect Range(all) = {}
  <2>1. IsInjective(g \o all)
    BY <1>1, <1>11, DistinctAssumption
  <2> QED
    BY <1>4, <1>10, <2>1, InjectiveJoined, Concatenated, RangeJoined
<1>13. IsInjective(abcd) /\ Range(abcd) \intersect Range(e) = {}
  BY <1>3, <1>9, <1>12, InjectiveJoined DEF all
<1>14. IsInjective(abc) /\ Range(abc) \intersect Range(d) = {}
  BY <1>3, <1>8, <1>13, InjectiveJoined DEF abcd
<1>15. IsInjective(ab) /\ Range(ab) \intersect Range(c) = {}
  BY <1>5, <1>7, <1>14, InjectiveJoined DEF abc
<1>16. Range(a) \intersect Range(b) = {}
  BY <1>3, <1>4, <1>15, InjectiveJoined DEF ab
<1>17. Storable = Range(b) \union Range(d)
  BY <1>1, <1>6 DEF Storable
<1>18. Range(all) = Range(a) \union Range(b) \union Range(c) \union Range(d) \union Range(e)
  BY <1>7, <1>8, <1>9, <1>10
<1>19. Value # "level"
  BY NamesAssumption
<1>20. "level" \notin Storable
  BY <1>6, <1>16, <1>17, <1>19
<1>21. "time" \in Range(all) \ Storable
  <2>1. CASE IsTemporal(feature)
    BY <1>5, <1>7, <1>8, <1>14, <1>15, <1>17, <1>18, <2>1
  <2>2. CASE ~IsTemporal(feature)
    BY <1>6, <1>7, <1>8, <1>9, <1>13, <1>17, <1>18, <2>2
  <2> QED
    BY <2>1, <2>2
<1>22. IsTemporal(feature) => "localTime" \in Range(all) \ Storable
  BY <1>5, <1>7, <1>8, <1>14, <1>15, <1>17, <1>18
<1>23. Storable \subseteq Range(all) \ {"level", "time"} /\ "level" \in Range(all)
  BY <1>6, <1>17, <1>18, <1>20, <1>21
<1>24. all = Added(feature) /\ g = file.signature
  BY <1>1, <1>11
<1> HIDE DEF all
<1>25. IsSequence(all) /\ IsSequence(g) /\ 1 \in DOMAIN all /\ all[1] = "level"
  BY <1>4, <1>10
<1> QED
  BY <1>12, <1>21, <1>22, <1>23, <1>24, <1>25

-------------------------------------------------------------------------------
\* What the resets of each kind of transition come to

\* A number is not what a variable holds, nor an expression, nor the time.
LEMMA ValuesDiffer ==
  /\ \A n, x : Number(n) # Of(x) /\ Number(n) # Expression
  /\ \A x, y : Of(x) = Of(y) => x = y
  /\ \A x : Of(x) # Expression
  /\ \A n, m : Number(n) = Number(m) => n = m
  /\ \A n : Number(n)[2] = n
<1>1. ASSUME NEW n, NEW x PROVE Number(n) # Of(x) /\ Number(n) # Expression /\ Number(n)[2] = n
  <2>1. PICK p, q, e : p = <<"num", n>> /\ q = <<"var", x>> /\ e = <<"expr">>
    OBVIOUS
  <2>2. p[1] = "num" /\ q[1] = "var" /\ e[1] = "expr" /\ p[2] = n
    BY <2>1
  <2> QED
    BY <2>1, <2>2 DEF Number, Of, Expression
<1>2. ASSUME NEW x, NEW y, Of(x) = Of(y) PROVE x = y
  BY <1>2 DEF Of
<1>3. ASSUME NEW x PROVE Of(x) # Expression
  <2>1. PICK q, e : q = <<"var", x>> /\ e = <<"expr">>
    OBVIOUS
  <2>2. q[1] = "var" /\ e[1] = "expr"
    BY <2>1
  <2> QED
    BY <2>1, <2>2 DEF Of, Expression
<1>4. ASSUME NEW n, NEW m, Number(n) = Number(m) PROVE n = m
  BY <1>4 DEF Number
<1> QED
  BY <1>1, <1>2, <1>3, <1>4

\* No reset stores what a match stores in a variable of the feature.
StoresNothing(s) == \A n \in DOMAIN s : ~StoresAt(s[n])

\* Every variable spoken of is kept.
AllKeep(s) == IsSequence(s) /\ \A n \in DOMAIN s : s[n][2] = Of(s[n][1])

\* What is kept is not stored.
LEMMA KeepingStoresNothing ==
  ASSUME feature \in Features, file \in Files, NEW s, AllKeep(s)
  PROVE  /\ StoresNothing(s)
         /\ \A x : LastReset(s, x) = IF Count(s, x) = 0 THEN None ELSE Of(x)
<1>1. ASSUME NEW n \in DOMAIN s, StoresAt(s[n]) PROVE FALSE
  <2>1. PICK x : x = s[n][1]
    OBVIOUS
  <2>2. x \in Storable /\ Of(x) = Holding(x)
    BY <1>1, <2>1 DEF StoresAt, Storable, AllKeep
  <2>3. x # "time"
    BY <2>2, NamesApart
  <2> QED
    BY <2>2, <2>3, ValuesDiffer DEF Holding
<1>2. ASSUME NEW x PROVE LastReset(s, x) = IF Count(s, x) = 0 THEN None ELSE Of(x)
  <2>1. IsSequence(s)
    BY DEF AllKeep
  <2>2. CASE Count(s, x) = 0
    BY <2>1, <2>2, CountIsNat, NeverReset
  <2>3. CASE Count(s, x) # 0
    <3>1. \E n \in DOMAIN s : Says(s, n, x)
      BY <2>1, <2>3, CountIsNat
    <3>2. PICK n \in DOMAIN s : Says(s, n, x) /\ LastReset(s, x) = s[n][2]
      BY <2>1, <3>1, LastResetWhere
    <3> QED
      BY <2>3, <3>2 DEF Says, AllKeep
  <2> QED
    BY <2>2, <2>3
<1> QED
  BY <1>1, <1>2 DEF StoresNothing

\* Joined sequences store what their parts do.
LEMMA JoinedStores ==
  ASSUME NEW s, IsSequence(s), NEW r, IsSequence(r)
  PROVE  StoresNothing(s \o r) <=> StoresNothing(s) /\ StoresNothing(r)
<1>1. \A t : StoresNothing(t) <=> \A p \in Range(t) : ~StoresAt(p)
  BY DEF StoresNothing, Range
<1>2. Range(s \o r) = Range(s) \union Range(r)
  BY RangeJoined
<1> QED
  BY <1>1, <1>2

\* The identities of variables without a name twice.
LEMMA IdentitiesCount ==
  ASSUME NEW xs, IsSequence(xs), IsInjective(xs)
  PROVE  /\ AllKeep(Identities(xs))
         /\ \A x : Count(Identities(xs), x) = IF x \in Range(xs) THEN 1 ELSE 0
<1> DEFINE r == Identities(xs)
<1>1. /\ IsSequence(r) /\ DOMAIN r = DOMAIN xs
      /\ \A n \in DOMAIN xs : r[n] = <<xs[n], Of(xs[n])>>
  BY IdentitiesRead
<1> HIDE DEF r
<1>2. \A n \in DOMAIN xs : r[n][1] = xs[n] /\ r[n][2] = Of(xs[n])
  <2>1. ASSUME NEW n \in DOMAIN xs PROVE r[n][1] = xs[n] /\ r[n][2] = Of(xs[n])
    <3>1. PICK p, y, v : p = r[n] /\ y = xs[n] /\ v = Of(y) /\ p = <<y, v>>
      BY <1>1
    <3>2. p[1] = y /\ p[2] = v
      BY <3>1
    <3> QED
      BY <3>1, <3>2
  <2> QED
    BY <2>1
<1>3. AllKeep(r)
  BY <1>1, <1>2 DEF AllKeep
<1>4. ASSUME NEW x PROVE Count(r, x) = IF x \in Range(xs) THEN 1 ELSE 0
  <2>1. CASE x \notin Range(xs)
    <3>1. Hits(r, x) = {}
      BY <1>1, <1>2, <2>1 DEF Hits, Says, Range
    <3> QED
      BY <2>1, <3>1, FS_EmptySet DEF Count
  <2>2. CASE x \in Range(xs)
    <3>1. PICK k \in DOMAIN xs : xs[k] = x
      BY <2>2 DEF Range
    <3>2. Hits(r, x) = {k}
      BY <1>1, <1>2, <3>1 DEF Hits, Says, IsInjective
    <3> QED
      BY <2>2, <3>2, FS_Singleton DEF Count
  <2> QED
    BY <2>1, <2>2
<1> QED
  BY <1>3, <1>4 DEF r

\* One reset more.
LEMMA CountAppended ==
  ASSUME NEW s, IsSequence(s), NEW y, NEW v, NEW p, p = <<y, v>>, NEW x
  PROVE  /\ IsSequence(Append(s, p)) /\ Count(Append(s, p), x) = Count(s, x) + IF x = y THEN 1 ELSE 0
<1> DEFINE one == <<p>>
<1>1. IsSequence(one) /\ Count(one, x) = IF x = y THEN 1 ELSE 0
  BY CountSingle
<1>2. Append(s, p) = s \o one
  <2>1. s \o Append(<< >>, p) = Append(s \o << >>, p) /\ s \o << >> = s
    BY ShortSequences, AppendJoined, EmptyJoined
  <2>2. Append(<< >>, p) = one
    OBVIOUS
  <2> QED
    BY <2>1, <2>2
<1> HIDE DEF one
<1>3. IsSequence(s \o one) /\ Count(s \o one, x) = Count(s, x) + Count(one, x)
  BY <1>1, CountJoined
<1> QED
  BY <1>1, <1>2, <1>3

\* What is kept stays kept with one identity more.
LEMMA KeepsOneMore ==
  ASSUME NEW s, AllKeep(s), NEW y, NEW p, p = <<y, Of(y)>>
  PROVE  AllKeep(Append(s, p))
<1>1. IsSequence(s) /\ p[1] = y /\ p[2] = Of(y)
  BY DEF AllKeep
<1> DEFINE r == Append(s, p)
<1>2. /\ IsSequence(r) /\ Len(r) = Len(s) + 1 /\ \A n \in 1 .. Len(s) : r[n] = s[n]
      /\ r[Len(s) + 1] = p
  BY <1>1, Appended
<1> HIDE DEF r
<1>3. DOMAIN r = 1 .. Len(s) + 1 /\ Len(s) \in Nat /\ DOMAIN s = 1 .. Len(s)
  BY <1>1, <1>2, SequenceFacts
<1>4. ASSUME NEW n \in DOMAIN r PROVE r[n][2] = Of(r[n][1])
  <2>1. CASE n \in 1 .. Len(s)
    BY <1>2, <1>3, <2>1 DEF AllKeep
  <2>2. CASE n = Len(s) + 1
    BY <1>1, <1>2, <2>2
  <2> QED
    BY <1>3, <2>1, <2>2
<1> QED
  BY <1>2, <1>4 DEF AllKeep, r

\* A self-loop keeps every variable once, but for level and time.
LEMMA LoopCounts ==
  ASSUME NEW xs, IsSequence(xs), IsInjective(xs)
  PROVE  /\ AllKeep(LoopIdentities(xs))
         /\ \A x : Count(LoopIdentities(xs), x) = IF x \in Range(xs) \ {"level", "time"} THEN 1 ELSE 0
<1> DEFINE N == Len(xs)
           f == CHOOSE g : AreKept(g, xs, N)
           upTo(k) == {xs[m] : m \in 1 .. k} \ {"level", "time"}
<1>1. N \in Nat /\ DOMAIN xs = 1 .. N
  BY SequenceFacts
<1>2. LoopIdentities(xs) = f[N]
  BY DEF LoopIdentities, AreKept
<1>3. AreKept(f, xs, N)
  BY <1>1, KeptUnfold
<1> HIDE DEF f
<1>4. /\ f[0] = << >>
      /\ \A k \in 1 .. N : f[k] = IF xs[k] \in {"level", "time"} THEN f[k - 1]
                                  ELSE Append(f[k - 1], <<xs[k], Of(xs[k])>>)
  <2>1. 0 \in 0 .. N /\ \A k \in 1 .. N : k \in 0 .. N /\ k # 0
    BY <1>1
  <2>2. f[0] = << >>
    BY <1>3, <2>1 DEF AreKept
  <2>3. ASSUME NEW k \in 1 .. N
        PROVE  f[k] = IF xs[k] \in {"level", "time"} THEN f[k - 1]
                      ELSE Append(f[k - 1], <<xs[k], Of(xs[k])>>)
    BY <1>3, <2>1 DEF AreKept
  <2> QED
    BY <2>2, <2>3
<1> DEFINE Right(s, k) == AllKeep(s) /\ \A x : Count(s, x) = IF x \in upTo(k) THEN 1 ELSE 0
           T == {k \in 0 .. N : Right(f[k], k)}
<1>5. 0 \in T
  <2>1. upTo(0) = {} /\ 0 \in 0 .. N
    BY <1>1
  <2>2. AllKeep(<< >>)
    BY ShortSequences DEF AllKeep
  <2>3. \A x : Count(<< >>, x) = 0
    BY CountNone
  <2> HIDE DEF upTo
  <2> QED
    BY <1>4, <2>1, <2>2, <2>3
<1>6. ASSUME NEW k \in 1 .. N, k - 1 \in T PROVE k \in T
  <2>1. Right(f[k - 1], k - 1)
    BY <1>6
  <2>2. {xs[m] : m \in 1 .. k} = {xs[m] : m \in 1 .. k - 1} \union {xs[k]}
    <3>1. 1 .. k = (1 .. k - 1) \union {k}
      BY <1>1
    <3> QED
      BY <3>1
  <2>3. xs[k] \notin {xs[m] : m \in 1 .. k - 1}
    <3>1. ASSUME NEW m \in 1 .. k - 1 PROVE xs[m] # xs[k]
      <4>1. m \in DOMAIN xs /\ k \in DOMAIN xs /\ m # k
        BY <1>1
      <4> QED
        BY <4>1 DEF IsInjective
    <3> QED
      BY <3>1
  <2>4. CASE xs[k] \in {"level", "time"}
    <3>1. f[k] = f[k - 1] /\ upTo(k) = upTo(k - 1)
      BY <1>4, <2>2, <2>4
    <3> HIDE DEF upTo
    <3>2. Right(f[k], k)
      BY <2>1, <3>1
    <3> HIDE DEF Right
    <3> QED
      BY <3>2
  <2>5. CASE xs[k] \notin {"level", "time"}
    <3>1. PICK s, y, p : s = f[k - 1] /\ y = xs[k] /\ p = <<y, Of(y)>>
      OBVIOUS
    <3>2. f[k] = Append(s, p)
      BY <1>4, <2>5, <3>1
    <3>3. AllKeep(s) /\ IsSequence(s)
      BY <2>1, <3>1 DEF AllKeep
    <3>4. AllKeep(f[k])
      BY <3>1, <3>2, <3>3, KeepsOneMore
    <3>5. upTo(k) = upTo(k - 1) \union {y} /\ y \notin upTo(k - 1)
      BY <2>2, <2>3, <2>5, <3>1
    <3> HIDE DEF upTo
    <3>6. ASSUME NEW x PROVE Count(f[k], x) = IF x \in upTo(k) THEN 1 ELSE 0
      <4>1. Count(f[k], x) = Count(s, x) + IF x = y THEN 1 ELSE 0
        BY <3>1, <3>2, <3>3, CountAppended
      <4>2. Count(s, x) = IF x \in upTo(k - 1) THEN 1 ELSE 0
        BY <2>1, <3>1
      <4> QED
        BY <3>5, <4>1, <4>2
    <3>7. Right(f[k], k)
      BY <3>4, <3>6
    <3> HIDE DEF Right
    <3> QED
      BY <3>7
  <2> QED
    BY <2>4, <2>5
<1> HIDE DEF T
<1>7. \A k \in 0 .. N : k \in T
  BY <1>1, <1>5, <1>6, Upwards
<1>8. N \in T
  BY <1>1, <1>7
<1>9. upTo(N) = Range(xs) \ {"level", "time"}
  BY <1>1 DEF Range
<1> HIDE DEF upTo
<1> QED
  BY <1>2, <1>8, <1>9 DEF T

\* The times of a temporal feature.
LEMMA TimesCount ==
  ASSUME feature \in Features, file \in Files
  PROVE  /\ IsSequence(TemporalResets) /\ StoresNothing(TemporalResets)
         /\ \A x : Count(TemporalResets, x) = IF IsTemporal(feature) /\ x \in {"time", "localTime"} THEN 1 ELSE 0
         /\ LastReset(TemporalResets, "time") = IF IsTemporal(feature) THEN Of("time") ELSE None
<1>1. CASE ~IsTemporal(feature)
  <2>1. TemporalResets = << >>
    BY <1>1 DEF TemporalResets
  <2>2. StoresNothing(<< >>)
    BY DEF StoresNothing
  <2>3. LastReset(<< >>, "time") = None
    BY CountNone, CountIsNat, NeverReset
  <2> QED
    BY <1>1, <2>1, <2>2, <2>3, CountNone
<1>2. CASE IsTemporal(feature)
  <2>1. PICK p, q, s, r : /\ p = <<"time", Of("time")>> /\ q = <<"localTime", Number(0)>>
                          /\ s = <<p>> /\ r = <<p, q>>
    OBVIOUS
  <2>2. TemporalResets = r /\ r = Append(s, q) /\ p[1] = "time" /\ q[1] = "localTime"
    BY <1>2, <2>1 DEF TemporalResets
  <2>3. IsSequence(s) /\ \A x : Count(s, x) = IF x = "time" THEN 1 ELSE 0
    BY <2>1, CountSingle
  <2>7. PICK v : v = Number(0)
    OBVIOUS
  <2>8. q = <<"localTime", v>>
    BY <2>1, <2>7
  <2>4. IsSequence(r) /\ \A x : Count(r, x) = Count(s, x) + IF x = "localTime" THEN 1 ELSE 0
    <3>1. IsSequence(s)
      BY <2>3
    <3>2. \A x : IsSequence(Append(s, q)) /\ Count(Append(s, q), x) = Count(s, x) + IF x = "localTime" THEN 1 ELSE 0
      BY <2>8, <3>1, CountAppended
    <3> QED
      BY <2>2, <3>2
  <2>5. LastReset(r, "time") = Of("time")
    <3>1. LastReset(s, "time") = Of("time")
      BY <2>1, LastResetSingle
    <3>2. AgreeElsewhere(r, s, "localTime")
      <4>1. IsSequence(s)
        BY <2>3
      <4>2. AgreeElsewhere(Append(s, q), s, "localTime")
        BY <2>8, <4>1, LastResetAppended
      <4> QED
        BY <2>2, <4>2
    <3> QED
      BY <3>1, <3>2 DEF AgreeElsewhere
  <2>6. StoresNothing(r)
    <3>1. \A n \in DOMAIN r : r[n] = p \/ r[n] = q
      BY <2>1
    <3>2. "time" \notin Storable /\ "localTime" \notin Storable
      BY <1>2, NamesApart
    <3> QED
      BY <2>2, <3>1, <3>2 DEF StoresNothing, StoresAt, Storable
  <2> QED
    BY <1>2, <2>2, <2>3, <2>4, <2>5, <2>6
<1> QED
  BY <1>1, <1>2

\* What is stored by the first resets.
AreStored(f, r, n) ==
  f = [k \in 0 .. n |->
         IF k = 0 THEN << >>
         ELSE IF StoresAt(r[k]) THEN Append(f[k - 1], r[k][1])
         ELSE f[k - 1]]

\* There is such a function, for any number of resets.
LEMMA StoredUnfold ==
  ASSUME NEW r, NEW n \in Nat
  PROVE  \E f : AreStored(f, r, n)
<1> DEFINE Is(m, f) == AreStored(f, r, m)
           T == {m \in 0 .. n : \E f : Is(m, f)}
           Further(s, k) == IF StoresAt(r[k]) THEN Append(s, r[k][1]) ELSE s
<1>1. 0 \in T
  <2>1. Is(0, [k \in 0 .. 0 |-> << >>])
    BY DEF AreStored
  <2> HIDE DEF Is
  <2> QED
    BY <2>1
<1>2. ASSUME NEW m \in 1 .. n, m - 1 \in T PROVE m \in T
  <2>1. PICK f : Is(m - 1, f)
    BY <1>2
  <2> DEFINE g == [k \in 0 .. m |-> IF k = m THEN Further(f[m - 1], m) ELSE f[k]]
  <2>2. ASSUME NEW k \in 0 .. m
        PROVE  g[k] = IF k = 0 THEN << >> ELSE Further(g[k - 1], k)
    <3>1. CASE k = 0
      <4>1. f[0] = << >>
        BY <2>1 DEF AreStored
      <4> HIDE DEF Further
      <4> QED
        BY <3>1, <4>1
    <3>2. CASE k = m
      <4> HIDE DEF Further
      <4>1. g[k - 1] = f[m - 1]
        BY <3>2
      <4> QED
        BY <3>2, <4>1
    <3>3. CASE k # 0 /\ k # m
      <4>0. k \in 0 .. m - 1
        BY <3>3
      <4>1. f[k] = Further(f[k - 1], k)
        BY <2>1, <3>3, <4>0 DEF AreStored
      <4> HIDE DEF Further
      <4>2. k \in 0 .. m - 1 /\ g[k] = f[k] /\ g[k - 1] = f[k - 1]
        BY <3>3
      <4> QED
        BY <3>3, <4>1, <4>2
    <3> QED
      BY <3>1, <3>2, <3>3
  <2>3. Is(m, g)
    <3>1. g = [k \in 0 .. m |-> g[k]]
      OBVIOUS
    <3> HIDE DEF g
    <3> QED
      BY <2>2, <3>1 DEF AreStored
  <2> HIDE DEF g, Is
  <2> QED
    BY <2>3
<1> HIDE DEF T
<1>3. \A m \in 0 .. n : m \in T
  BY <1>1, <1>2, Upwards
<1>4. n \in T
  BY <1>3
<1> QED
  BY <1>4 DEF T

\* What is stored is found reset by reset.
LEMMA StoringStep ==
  ASSUME NEW r, IsSequence(r)
  PROVE  \E f : /\ Storing(r) = f[Len(r)] /\ f[0] = << >>
                /\ \A k \in 1 .. Len(r) :
                     f[k] = IF StoresAt(r[k]) THEN Append(f[k - 1], r[k][1]) ELSE f[k - 1]
<1> DEFINE N == Len(r)
           f == CHOOSE g : AreStored(g, r, N)
<1>1. N \in Nat
  BY SequenceFacts
<1>2. Storing(r) = f[N]
  BY DEF Storing, AreStored
<1>3. AreStored(f, r, N)
  BY <1>1, StoredUnfold
<1> HIDE DEF f
<1>4. 0 \in 0 .. N /\ \A k \in 1 .. N : k \in 0 .. N /\ k # 0
  BY <1>1
<1>5. f[0] = << >>
  BY <1>3, <1>4 DEF AreStored
<1>6. ASSUME NEW k \in 1 .. N
      PROVE  f[k] = IF StoresAt(r[k]) THEN Append(f[k - 1], r[k][1]) ELSE f[k - 1]
  BY <1>3, <1>4 DEF AreStored
<1> QED
  BY <1>2, <1>5, <1>6

\* Nothing is stored if no reset does.
LEMMA NothingStored ==
  ASSUME NEW r, IsSequence(r), StoresNothing(r)
  PROVE  Storing(r) = << >>
<1>1. Len(r) \in Nat /\ DOMAIN r = 1 .. Len(r)
  BY SequenceFacts
<1>2. PICK f : /\ Storing(r) = f[Len(r)] /\ f[0] = << >>
               /\ \A k \in 1 .. Len(r) :
                    f[k] = IF StoresAt(r[k]) THEN Append(f[k - 1], r[k][1]) ELSE f[k - 1]
  BY StoringStep
<1> DEFINE T == {k \in 0 .. Len(r) : f[k] = << >>}
<1>3. 0 \in T
  BY <1>1, <1>2
<1>4. ASSUME NEW k \in 1 .. Len(r), k - 1 \in T PROVE k \in T
  <2>1. ~StoresAt(r[k])
    BY <1>1 DEF StoresNothing
  <2> QED
    BY <1>2, <1>4, <2>1
<1> HIDE DEF T
<1>5. \A k \in 0 .. Len(r) : k \in T
  BY <1>1, <1>3, <1>4, Upwards
<1>6. Len(r) \in T
  BY <1>1, <1>5
<1> QED
  BY <1>2, <1>6 DEF T

\* One variable is stored if one reset does.
LEMMA OneStored ==
  ASSUME NEW r, IsSequence(r), NEW p \in DOMAIN r, StoresAt(r[p]),
         \A n \in DOMAIN r : n # p => ~StoresAt(r[n])
  PROVE  Storing(r) = <<r[p][1]>>
<1>1. Len(r) \in Nat /\ DOMAIN r = 1 .. Len(r)
  BY SequenceFacts
<1>2. PICK f : /\ Storing(r) = f[Len(r)] /\ f[0] = << >>
               /\ \A k \in 1 .. Len(r) :
                    f[k] = IF StoresAt(r[k]) THEN Append(f[k - 1], r[k][1]) ELSE f[k - 1]
  BY StoringStep
<1> DEFINE T == {k \in 0 .. Len(r) : f[k] = IF k < p THEN << >> ELSE <<r[p][1]>>}
<1>3. 0 \in T
  BY <1>1, <1>2
<1>4. ASSUME NEW k \in 1 .. Len(r), k - 1 \in T PROVE k \in T
  <2>1. CASE k = p
    <3>0. k - 1 < p
      BY <1>1, <2>1
    <3>4. f[k - 1] = << >>
      BY <1>4, <3>0
    <3>1. f[k - 1] = << >> /\ f[k] = Append(f[k - 1], r[p][1])
      BY <1>2, <2>1, <3>4
    <3>2. Append(<< >>, r[p][1]) = <<r[p][1]>>
      OBVIOUS
    <3>3. f[k] = <<r[p][1]>>
      BY <3>1, <3>2
    <3> QED
      BY <1>1, <2>1, <3>3
  <2>2. CASE k # p
    <3>1. f[k] = f[k - 1]
      BY <1>1, <1>2, <2>2
    <3>2. k - 1 < p <=> k < p
      BY <1>1, <2>2
    <3> QED
      BY <1>4, <3>1, <3>2
  <2> QED
    BY <2>1, <2>2
<1> HIDE DEF T
<1>5. \A k \in 0 .. Len(r) : k \in T
  BY <1>1, <1>3, <1>4, Upwards
<1>6. Len(r) \in T /\ ~(Len(r) < p)
  BY <1>1, <1>5
<1> QED
  BY <1>2, <1>6 DEF T

\* What resets do to level and to time, the variables that no feature stores in.
Moves(r, v) ==
  /\ v.goes = IF LastReset(r, "level") \in {None, Of("level")} THEN v.at ELSE LastReset(r, "level")[2]
  /\ v.zeroes = (LastReset(r, "time") = Number(0))

\* How often a transition resets x, and what it does to the model's variables: as
\* ResetOnce says it, of the transition e of the model, if it is made of one.
ExpectedOf(onEdge, match, e, x) ==
  LET mistaken == IF onEdge THEN Mistaken(e) ELSE None
      again == IF onEdge THEN 1 ELSE 0
  IN IF x \in Range(file.signature)
     THEN IF onEdge THEN Count(Resets[e], x) - IF match /\ x = mistaken THEN 1 ELSE 0 ELSE 1
     ELSE IF ~match THEN 1
     ELSE CASE x = "level"     -> IF mistaken = None THEN 1 ELSE 2
            [] x = "localTime" -> IF IsTemporal(feature) THEN 2 ELSE 1
            [] x = "time"      -> IF IsTemporal(feature) THEN 1 + again ELSE again
            [] OTHER           -> 1

Once(r, onEdge, match, e, final) ==
  /\ match <=> LastReset(r, "level") # Of("level")
  /\ \A x \in Range(file.signature) \union Range(Added(feature)) :
       Count(r, x) = ExpectedOf(onEdge, match, e, x)
  /\ \A x \in Range(file.signature) :
       \/ LastReset(r, x) = IF onEdge THEN LastReset(Resets[e], x) ELSE Of(x)
       \/ x \in TimeLike /\ final /\ LastReset(r, x) = Number(0)
       \/ match /\ onEdge /\ x = Mistaken(e)

\* The resets of a transition before it stores anything.
Bare(r, v, onEdge, match, e, final) ==
  /\ IsSequence(r) /\ StoresNothing(r) /\ \A y \in Storable : Count(r, y) # 0
  /\ Moves(r, v) /\ Once(r, onEdge, match, e, final)

\* A transition of the model assigns variables of the model.
IsEdge(e) ==
  IsSequence(Resets[e]) /\ \A n \in DOMAIN Resets[e] : Resets[e][n][1] \in Range(file.signature)

\* Its resets do not speak of the added variables.
LEMMA EdgeResets ==
  ASSUME feature \in Features, file \in Files, NEW e, IsEdge(e)
  PROVE  /\ IsSequence(Resets[e]) /\ StoresNothing(Resets[e])
         /\ \A x \in Range(Added(feature)) : Count(Resets[e], x) = 0 /\ LastReset(Resets[e], x) = None
<1>1. IsSequence(Resets[e])
  BY DEF IsEdge
<1>2. /\ Range(file.signature) \intersect Range(Added(feature)) = {}
      /\ Storable \subseteq Range(Added(feature))
  BY NamesApart
<1>3. StoresNothing(Resets[e])
  BY <1>2 DEF IsEdge, StoresNothing, StoresAt, Storable
<1>4. ASSUME NEW x \in Range(Added(feature)) PROVE Count(Resets[e], x) = 0 /\ LastReset(Resets[e], x) = None
  <2>1. \A n \in DOMAIN Resets[e] : ~Says(Resets[e], n, x)
    BY <1>2 DEF IsEdge, Says
  <2> QED
    BY <1>1, <2>1, CountIsNat, NeverReset
<1> QED
  BY <1>1, <1>3, <1>4

\* A transition of the model while variables are added: it keeps those told.
IsTold(r, e, told) == r = Resets[e] \o Identities(told)

KeepsTold(r, e, told) ==
  /\ IsSequence(r) /\ StoresNothing(r)
  /\ \A v : v.goes = v.at /\ v.zeroes = FALSE => Moves(r, v)
  /\ \A x : Count(r, x) = Count(Resets[e], x) + IF x \in Range(told) THEN 1 ELSE 0
  /\ \A x : LastReset(r, x) = IF x \in Range(told) THEN Of(x) ELSE LastReset(Resets[e], x)

\* What the automaton itself says on an edge is still told after the names of the feature are
\* added.
LEMMA ToldMoves ==
  ASSUME feature \in Features, file \in Files, NEW e, IsEdge(e),
         NEW told, IsSequence(told), IsInjective(told), Range(told) \subseteq Range(Added(feature)),
         NEW r, IsTold(r, e, told)
  PROVE  KeepsTold(r, e, told)
<1> DEFINE q == Identities(told)
           s == Resets[e]
<1>1. /\ IsSequence(s) /\ StoresNothing(s)
      /\ \A x \in Range(Added(feature)) : Count(s, x) = 0 /\ LastReset(s, x) = None
  BY EdgeResets
<1>2. AllKeep(q) /\ \A x : Count(q, x) = IF x \in Range(told) THEN 1 ELSE 0
  BY IdentitiesCount
<1>3. StoresNothing(q) /\ \A x : LastReset(q, x) = IF Count(q, x) = 0 THEN None ELSE Of(x)
  <2> HIDE DEF q
  <2> QED
    BY <1>2, KeepingStoresNothing
<1>4. IsSequence(q)
  BY <1>2 DEF AllKeep
<1>5. {"level", "time"} \subseteq Range(Added(feature))
  BY NamesApart
<1>6. r = s \o q
  BY DEF IsTold
<1> HIDE DEF q, s
<1>7. IsSequence(r) /\ StoresNothing(r)
  BY <1>1, <1>3, <1>4, <1>6, Concatenated, JoinedStores
<1>8. \A x : Count(r, x) = Count(s, x) + Count(q, x)
  BY <1>1, <1>4, <1>6, CountJoined
<1>9. \A x : LastReset(r, x) = IF Count(q, x) = 0 THEN LastReset(s, x) ELSE LastReset(q, x)
  BY <1>1, <1>4, <1>6, LastOfJoined
<1>10. \A x : LastReset(r, x) = IF x \in Range(told) THEN Of(x) ELSE LastReset(s, x)
  BY <1>2, <1>3, <1>9
<1>11. LastReset(r, "level") \in {None, Of("level")} /\ LastReset(r, "time") \in {None, Of("time")}
  BY <1>1, <1>5, <1>10
<1>12. None # Number(0) /\ Of("time") # Number(0)
  BY NamesAssumption, ValuesDiffer DEF Number
<1>13. \A v : v.goes = v.at /\ v.zeroes = FALSE => Moves(r, v)
  BY <1>11, <1>12 DEF Moves
<1> QED
  BY <1>2, <1>7, <1>8, <1>10, <1>13 DEF s, KeepsTold

\* A transition of the model, and what is retained of it: all that is added is kept.
LEMMA ModelBare ==
  ASSUME feature \in Features, file \in Files, NEW e, IsEdge(e),
         NEW v, v.goes = v.at, v.zeroes = FALSE, NEW r, r = Resets[e] \o Identities(Added(feature)), NEW final
  PROVE  Bare(r, v, TRUE, FALSE, e, final)
<1>0. /\ IsSequence(r) /\ StoresNothing(r) /\ Moves(r, v)
      /\ \A x : Count(r, x) = Count(Resets[e], x) + IF x \in Range(Added(feature)) THEN 1 ELSE 0
      /\ \A x : LastReset(r, x) = IF x \in Range(Added(feature)) THEN Of(x) ELSE LastReset(Resets[e], x)
  <2>1. IsTold(r, e, Added(feature))
    BY DEF IsTold
  <2>2. IsSequence(Added(feature)) /\ IsInjective(Added(feature))
        /\ Range(Added(feature)) \subseteq Range(Added(feature))
    BY NamesApart
  <2>3. KeepsTold(r, e, Added(feature))
    BY <2>1, <2>2, ToldMoves, Zenon
  <2> QED
    BY <2>3 DEF KeepsTold
<1> DEFINE A == Added(feature)
<1>1. /\ IsSequence(A) /\ IsInjective(A) /\ Storable \subseteq Range(A) /\ "level" \in Range(A)
      /\ Range(file.signature) \intersect Range(A) = {}
  BY NamesApart
<1>2. \A x \in Range(A) : Count(Resets[e], x) = 0
  BY EdgeResets
<1>3. /\ IsSequence(r) /\ StoresNothing(r) /\ Moves(r, v)
      /\ \A x : Count(r, x) = Count(Resets[e], x) + IF x \in Range(A) THEN 1 ELSE 0
      /\ \A x : LastReset(r, x) = IF x \in Range(A) THEN Of(x) ELSE LastReset(Resets[e], x)
  BY <1>0
<1> HIDE DEF A
<1>4. \A y \in Storable : Count(r, y) # 0
  BY <1>1, <1>2, <1>3
<1>5. ASSUME NEW x \in Range(file.signature) \union Range(A)
      PROVE  Count(r, x) = ExpectedOf(TRUE, FALSE, e, x)
  <2>1. CASE x \in Range(file.signature)
    <3>1. x \notin Range(A) /\ Count(Resets[e], x) \in Nat
      BY <1>1, <2>1, CountIsNat DEF IsEdge
    <3>2. Count(r, x) = Count(Resets[e], x)
      BY <1>3, <3>1
    <3>3. ExpectedOf(TRUE, FALSE, e, x) = Count(Resets[e], x)
      BY <2>1, <3>1 DEF ExpectedOf
    <3> QED
      BY <3>2, <3>3
  <2>2. CASE x \notin Range(file.signature)
    BY <1>2, <1>3, <2>2 DEF ExpectedOf
  <2> QED
    BY <2>1, <2>2
<1>6. Once(r, TRUE, FALSE, e, final)
  BY <1>1, <1>3, <1>5 DEF Once, A
<1> QED
  BY <1>3, <1>4, <1>6 DEF Bare

\* A hop keeps every variable.
LEMMA HopBare ==
  ASSUME feature \in Features, file \in Files,
         NEW v, v.goes = v.at, v.zeroes = FALSE, NEW r, r = Identities(file.signature \o Added(feature)),
         NEW e, NEW final
  PROVE  Bare(r, v, FALSE, FALSE, e, final)
<1> DEFINE xs == file.signature \o Added(feature)
           all == Range(file.signature) \union Range(Added(feature))
<1>1. /\ IsSequence(xs) /\ IsInjective(xs) /\ Range(xs) = all /\ Storable \subseteq all
      /\ {"level", "time"} \subseteq all
  BY NamesApart
<1>2. r = Identities(xs)
  OBVIOUS
<1> HIDE DEF xs
<1>3. AllKeep(r) /\ \A x : Count(r, x) = IF x \in all THEN 1 ELSE 0
  BY <1>1, <1>2, IdentitiesCount
<1>4. StoresNothing(r) /\ \A x : LastReset(r, x) = IF Count(r, x) = 0 THEN None ELSE Of(x)
  BY <1>3, KeepingStoresNothing
<1>5. \A x \in all : Count(r, x) = 1 /\ LastReset(r, x) = Of(x)
  BY <1>3, <1>4
<1>6. Of("time") # Number(0)
  BY ValuesDiffer
<1>7. Moves(r, v)
  BY <1>1, <1>5, <1>6 DEF Moves
<1>8. \A x : ExpectedOf(FALSE, FALSE, e, x) = 1
  BY DEF ExpectedOf
<1>9. Once(r, FALSE, FALSE, e, final)
  BY <1>1, <1>5, <1>8 DEF Once
<1>10. IsSequence(r) /\ \A y \in Storable : Count(r, y) # 0
  BY <1>1, <1>3, <1>5 DEF AllKeep
<1> QED
  BY <1>4, <1>7, <1>9, <1>10 DEF Bare

\* The number of the next sub-expression is no variable's value, and is there.
LEMMA NextIsNumber ==
  ASSUME feature \in Features, NEW i, IsSub(i)
  PROVE  Number(NextId(i)) \notin {None, Of("level")} /\ Number(NextId(i))[2] = NextId(i)
<1>1. Number(NextId(i)) # Of("level") /\ Number(NextId(i))[2] = NextId(i)
  BY ValuesDiffer
<1>2. Len(feature) \in Nat /\ DOMAIN feature = 1 .. Len(feature)
  BY SubsTyped
<1>3. NextId(i) = 0 \/ NextId(i) \in DOMAIN feature
  <2>1. i + 1 \in 1 .. Len(feature)
    BY <1>2 DEF IsSub
  <2> QED
    BY <1>2, <2>1 DEF NextId
<1>4. Number(NextId(i)) # None
  BY <1>3, NamesAssumption, DistinctAssumption DEF Number
<1> QED
  BY <1>1, <1>4

\* What a match does to level and to time.
IsStepped(s, more, r, i, v) ==
  /\ IsSequence(s) /\ StoresNothing(s) /\ LastReset(s, "time") \in {None, Of("time")}
  /\ IsSequence(more) /\ StoresNothing(more) /\ LastReset(more, "time") \in {None, Of("time")}
  /\ Count(more, "level") = 0
  /\ v.goes = NextId(i) /\ v.zeroes = FALSE
  /\ r = (s \o <<<<"level", Number(NextId(i))>>>>) \o more

Steps(s, more, r, v) ==
  /\ IsSequence(r) /\ StoresNothing(r) /\ Moves(r, v) /\ LastReset(r, "level") # Of("level")
  /\ \A x : Count(r, x) = Count(s, x) + Count(more, x) + IF x = "level" THEN 1 ELSE 0
  /\ \A x : x # "level" => LastReset(r, x) = IF Count(more, x) = 0 THEN LastReset(s, x) ELSE LastReset(more, x)

\* A reset of the level between two lists that do not set it moves on to the next sub-
\* condition.
LEMMA MatchMoves ==
  ASSUME feature \in Features, file \in Files, NEW i, IsSub(i),
         NEW s, NEW more, NEW r, NEW v, IsStepped(s, more, r, i, v)
  PROVE  Steps(s, more, r, v)
<1>0. /\ IsSequence(s) /\ StoresNothing(s) /\ LastReset(s, "time") \in {None, Of("time")}
      /\ IsSequence(more) /\ StoresNothing(more) /\ LastReset(more, "time") \in {None, Of("time")}
      /\ Count(more, "level") = 0
      /\ v.goes = NextId(i) /\ v.zeroes = FALSE
      /\ r = (s \o <<<<"level", Number(NextId(i))>>>>) \o more
  BY DEF IsStepped
<1> DEFINE n == Number(NextId(i))
<1>1. PICK p, one : p = <<"level", n>> /\ one = <<p>>
  OBVIOUS
<1>2. n \notin {None, Of("level")} /\ n[2] = NextId(i)
  BY NextIsNumber
<1> HIDE DEF n
<1>3. IsSequence(one) /\ \A x : Count(one, x) = IF x = "level" THEN 1 ELSE 0
  <2>1. \A x : /\ IsSequence(<<<<"level", n>>>>)
                /\ Count(<<<<"level", n>>>>, x) = IF x = "level" THEN 1 ELSE 0
    BY CountSingle
  <2> QED
    BY <1>1, <2>1
<1>4. LastReset(one, "level") = n /\ \A x : x # "level" => LastReset(one, x) = None
  BY <1>1, LastResetSingle
<1>5. StoresNothing(one)
  <2>1. "level" \notin Storable
    BY NamesApart
  <2>2. \A k \in DOMAIN one : one[k][1] = "level"
    BY <1>1
  <2> QED
    BY <2>1, <2>2 DEF StoresNothing, StoresAt, Storable
<1>6. PICK q : q = s \o one
  OBVIOUS
<1>20. IsSequence(s) /\ StoresNothing(s) /\ IsSequence(more) /\ StoresNothing(more)
  BY <1>0
<1>7. /\ IsSequence(q) /\ StoresNothing(q) /\ \A x : Count(q, x) = Count(s, x) + Count(one, x)
      /\ \A x : LastReset(q, x) = IF Count(one, x) = 0 THEN LastReset(s, x) ELSE LastReset(one, x)
  <2>1. IsSequence(one)
    BY <1>3
  <2>2. IsSequence(s \o one) /\ \A x : Count(s \o one, x) = Count(s, x) + Count(one, x)
    BY <1>20, <2>1, CountJoined, Concatenated
  <2>3. StoresNothing(s \o one)
    BY <1>20, <1>5, <2>1, JoinedStores
  <2>4. \A x : LastReset(s \o one, x) = IF Count(one, x) = 0 THEN LastReset(s, x) ELSE LastReset(one, x)
    BY <1>20, <2>1, LastOfJoined
  <2> QED
    BY <1>6, <2>2, <2>3, <2>4
<1>8. r = q \o more
  BY <1>0, <1>1, <1>6 DEF n
<1>9. /\ IsSequence(r) /\ StoresNothing(r) /\ \A x : Count(r, x) = Count(q, x) + Count(more, x)
      /\ \A x : LastReset(r, x) = IF Count(more, x) = 0 THEN LastReset(q, x) ELSE LastReset(more, x)
  <2>1. IsSequence(q) /\ StoresNothing(q)
    BY <1>7
  <2>2. IsSequence(q \o more) /\ \A x : Count(q \o more, x) = Count(q, x) + Count(more, x)
    BY <1>20, <2>1, CountJoined, Concatenated
  <2>3. StoresNothing(q \o more)
    BY <1>20, <2>1, JoinedStores
  <2>4. \A x : LastReset(q \o more, x) = IF Count(more, x) = 0 THEN LastReset(q, x) ELSE LastReset(more, x)
    BY <1>20, <2>1, LastOfJoined
  <2> QED
    BY <1>8, <2>2, <2>3, <2>4
<1>10. \A x : Count(s, x) \in Nat /\ Count(more, x) \in Nat
  BY <1>20, CountIsNat
<1>11. ASSUME NEW x PROVE Count(r, x) = Count(s, x) + Count(more, x) + IF x = "level" THEN 1 ELSE 0
  <2>1. Count(q, x) = Count(s, x) + IF x = "level" THEN 1 ELSE 0
    BY <1>3, <1>7
  <2>2. Count(r, x) = Count(q, x) + Count(more, x)
    BY <1>9
  <2> QED
    BY <1>10, <2>1, <2>2
<1>12. \A x : x # "level" => LastReset(r, x) = IF Count(more, x) = 0 THEN LastReset(s, x) ELSE LastReset(more, x)
  BY <1>3, <1>7, <1>9
<1>13. LastReset(r, "level") = n
  <2>1. Count(one, "level") = 1
    BY <1>3
  <2>2. LastReset(q, "level") = LastReset(one, "level")
    BY <1>7, <2>1
  <2> QED
    BY <1>0, <1>4, <1>9, <2>2
<1>14. LastReset(r, "time") \in {None, Of("time")}
  BY <1>0, <1>12
<1>15. None # Number(0) /\ Of("time") # Number(0)
  BY NamesAssumption, ValuesDiffer DEF Number
<1>16. Moves(r, v)
  BY <1>0, <1>2, <1>13, <1>14, <1>15 DEF Moves
<1> QED
  BY <1>2, <1>9, <1>11, <1>12, <1>13, <1>16 DEF Steps

AllNames == file.signature \o Added(feature)

\* A self-loop that matches: level, everything else but time, and the times.
LoopResets(i, xs) == <<<<"level", Number(NextId(i))>>>> \o LoopIdentities(xs) \o TemporalResets

\* The self-loop of a sub-condition resets what its model says, and resets each name once.
LEMMA LoopBare ==
  ASSUME feature \in Features, file \in Files, NEW i, IsSub(i),
         NEW v, v.goes = NextId(i), v.zeroes = FALSE,
         NEW xs, xs = AllNames, NEW r, r = LoopResets(i, xs),
         NEW e, NEW final
  PROVE  /\ Bare(r, v, FALSE, TRUE, e, final)
         /\ Count(r, "time") = IF IsTemporal(feature) THEN 1 ELSE 0
<1> DEFINE sig == Range(file.signature)
           A == Range(Added(feature))
           loop == LoopIdentities(xs)
           times == TemporalResets
           more == loop \o times
           one == <<<<"level", Number(NextId(i))>>>>
<1>1. /\ IsSequence(xs) /\ IsInjective(xs) /\ Range(xs) = sig \union A /\ sig \intersect A = {}
      /\ Storable \subseteq A \ {"level", "time"} /\ {"level", "time"} \subseteq A
      /\ IsTemporal(feature) => "localTime" \in A
  BY NamesApart DEF AllNames
<1>2. AllKeep(loop) /\ \A x : Count(loop, x) = IF x \in Range(xs) \ {"level", "time"} THEN 1 ELSE 0
  BY <1>1, LoopCounts
<1>3. StoresNothing(loop) /\ \A x : LastReset(loop, x) = IF Count(loop, x) = 0 THEN None ELSE Of(x)
  <2> HIDE DEF loop
  <2> QED
    BY <1>2, KeepingStoresNothing
<1>4. IsSequence(loop)
  BY <1>2 DEF AllKeep
<1>5. /\ IsSequence(times) /\ StoresNothing(times)
      /\ \A x : Count(times, x) = IF IsTemporal(feature) /\ x \in {"time", "localTime"} THEN 1 ELSE 0
      /\ LastReset(times, "time") = IF IsTemporal(feature) THEN Of("time") ELSE None
  BY TimesCount
<1>6. IsSequence(one)
  BY ShortSequences
<1>7. r = (<< >> \o one) \o more
  <2>1. << >> \o one = one
    <3> HIDE DEF one
    <3> QED
      BY <1>6, EmptyJoined
  <2>2. one \o (loop \o times) = (one \o loop) \o times
    <3> HIDE DEF one, loop, times
    <3> QED
      BY <1>4, <1>5, <1>6, JoinedTwice
  <2> QED
    BY <2>1, <2>2 DEF LoopResets
<1>8. /\ IsSequence(more) /\ StoresNothing(more)
      /\ \A x : Count(more, x) = Count(loop, x) + Count(times, x)
      /\ \A x : LastReset(more, x) = IF Count(times, x) = 0 THEN LastReset(loop, x) ELSE LastReset(times, x)
  <2> HIDE DEF loop, times
  <2>1. IsSequence(times) /\ StoresNothing(times)
    BY <1>5
  <2>2. IsSequence(loop \o times) /\ \A x : Count(loop \o times, x) = Count(loop, x) + Count(times, x)
    BY <1>4, <2>1, CountJoined, Concatenated
  <2>3. StoresNothing(loop \o times)
    BY <1>3, <1>4, <2>1, JoinedStores
  <2>4. \A x : LastReset(loop \o times, x) = IF Count(times, x) = 0 THEN LastReset(loop, x) ELSE LastReset(times, x)
    BY <1>4, <2>1, LastOfJoined
  <2> QED
    BY <2>2, <2>3, <2>4
<1>9. /\ IsSequence(<< >>) /\ StoresNothing(<< >>) /\ LastReset(<< >>, "time") = None
      /\ \A x : Count(<< >>, x) = 0
  BY CountNone, CountIsNat, NeverReset DEF StoresNothing
<1> HIDE DEF loop, times, more
<1>10. Count(more, "level") = 0 /\ LastReset(more, "time") \in {None, Of("time")}
  BY <1>2, <1>3, <1>5, <1>8
<1>11. PICK none : none = << >>
  OBVIOUS
<1>12. Steps(none, more, r, v)
  <2>1. IsStepped(none, more, r, i, v)
    <3>1. IsSequence(none) /\ StoresNothing(none) /\ LastReset(none, "time") \in {None, Of("time")}
      BY <1>9, <1>11
    <3>2. r = (none \o <<<<"level", Number(NextId(i))>>>>) \o more
      BY <1>7, <1>11 DEF one
    <3> QED
      BY <1>8, <1>10, <3>1, <3>2 DEF IsStepped
  <2> QED
    BY <2>1, MatchMoves, Zenon
<1> DEFINE T == IsTemporal(feature)
<1> HIDE DEF one, sig, A, T
<1>13. /\ \A x : Count(loop, x) = IF x \in (sig \union A) \ {"level", "time"} THEN 1 ELSE 0
       /\ \A x : Count(times, x) = IF T /\ x \in {"time", "localTime"} THEN 1 ELSE 0
  <2>1. Range(xs) = sig \union A
    BY <1>1
  <2>2. \A x : Count(loop, x) = IF x \in Range(xs) \ {"level", "time"} THEN 1 ELSE 0
    BY <1>2
  <2>3. \A x : Count(times, x) = IF T /\ x \in {"time", "localTime"} THEN 1 ELSE 0
    BY <1>5 DEF T
  <2> QED
    BY <2>1, <2>2, <2>3
<1>14. ASSUME NEW x
       PROVE  Count(r, x) = Count(loop, x) + Count(times, x) + IF x = "level" THEN 1 ELSE 0
  <2>1. Count(none, x) = 0
    BY <1>9, <1>11
  <2>2. Count(more, x) = Count(loop, x) + Count(times, x)
    BY <1>8
  <2>3. Count(r, x) = Count(none, x) + Count(more, x) + IF x = "level" THEN 1 ELSE 0
    BY <1>12 DEF Steps
  <2>4. Count(loop, x) \in Nat /\ Count(times, x) \in Nat
    BY <1>4, <1>5, CountIsNat
  <2> QED
    BY <2>1, <2>2, <2>3, <2>4
<1>15. /\ sig \intersect A = {} /\ {"level", "time"} \subseteq A /\ (T => "localTime" \in A)
       /\ Storable \subseteq A \ {"level", "time"}
  BY <1>1 DEF T
<1>16. ASSUME NEW x \in sig PROVE Count(loop, x) = 1 /\ Count(times, x) = 0 /\ x # "level"
  <2>1. x \notin A
    BY <1>15
  <2>2. x \notin {"level", "time"} /\ ~(T /\ x = "localTime")
    BY <1>15, <2>1
  <2> QED
    BY <1>13, <2>2
<1>17. ASSUME NEW x \in sig \union A PROVE Count(r, x) = ExpectedOf(FALSE, TRUE, e, x)
  <2>1. CASE x \in sig
    <3>1. Count(loop, x) = 1 /\ Count(times, x) = 0 /\ x # "level"
      BY <1>16, <2>1
    <3>2. Count(r, x) = 1
      BY <1>14, <3>1
    <3>3. ExpectedOf(FALSE, TRUE, e, x) = 1
      BY <2>1 DEF ExpectedOf, sig
    <3> QED
      BY <3>2, <3>3
  <2>2. CASE x \notin sig
    <3>1. x \notin Range(file.signature)
      BY <2>2 DEF sig
    <3>2. Count(loop, x) = (IF x \in {"level", "time"} THEN 0 ELSE 1)
          /\ Count(times, x) = IF T /\ x \in {"time", "localTime"} THEN 1 ELSE 0
      BY <1>13, <2>2
    <3>3. Count(r, x) = Count(loop, x) + Count(times, x) + IF x = "level" THEN 1 ELSE 0
      BY <1>14
    <3>4. CASE x = "level"
      <4>1. ExpectedOf(FALSE, TRUE, e, x) = 1
        BY <3>1, <3>4 DEF ExpectedOf
      <4>2. Count(loop, x) = 0 /\ Count(times, x) = 0
        BY <3>2, <3>4
      <4>3. Count(r, x) = 1
        BY <3>3, <3>4, <4>2
      <4> QED
        BY <4>1, <4>3
    <3>5. CASE x = "localTime"
      <4>1. ExpectedOf(FALSE, TRUE, e, x) = IF T THEN 2 ELSE 1
        BY <3>1, <3>5 DEF ExpectedOf, T
      <4>2. Count(loop, x) = 1 /\ Count(times, x) = IF T THEN 1 ELSE 0
        BY <3>2, <3>5
      <4>3. Count(r, x) = IF T THEN 2 ELSE 1
        BY <3>3, <3>5, <4>2
      <4> QED
        BY <4>1, <4>3
    <3>6. CASE x = "time"
      <4>1. ExpectedOf(FALSE, TRUE, e, x) = IF T THEN 1 ELSE 0
        BY <3>1, <3>6 DEF ExpectedOf, T
      <4>2. Count(loop, x) = 0 /\ Count(times, x) = IF T THEN 1 ELSE 0
        BY <3>2, <3>6
      <4>3. Count(r, x) = IF T THEN 1 ELSE 0
        BY <3>3, <3>6, <4>2
      <4> QED
        BY <4>1, <4>3
    <3>7. CASE x \notin {"level", "time", "localTime"}
      <4>1. ExpectedOf(FALSE, TRUE, e, x) = 1
        BY <3>1, <3>7 DEF ExpectedOf
      <4>2. Count(loop, x) = 1 /\ Count(times, x) = 0
        BY <3>2, <3>7
      <4>3. Count(r, x) = 1
        BY <3>3, <3>7, <4>2
      <4> QED
        BY <4>1, <4>3
    <3> QED
      BY <3>4, <3>5, <3>6, <3>7
  <2> QED
    BY <2>1, <2>2
<1>18. ASSUME NEW x \in sig PROVE LastReset(r, x) = Of(x)
  <2>1. Count(loop, x) = 1 /\ Count(times, x) = 0 /\ x # "level"
    BY <1>16
  <2>2. Count(more, x) = 1
    <3>1. Count(more, x) = Count(loop, x) + Count(times, x)
      BY <1>8
    <3> QED
      BY <2>1, <3>1
  <2>3. LastReset(more, x) = Of(x)
    <3>1. LastReset(more, x) = LastReset(loop, x)
      BY <1>8, <2>1
    <3>2. LastReset(loop, x) = Of(x)
      BY <1>3, <2>1
    <3> QED
      BY <3>1, <3>2
  <2>4. LastReset(r, x) = IF Count(more, x) = 0 THEN LastReset(none, x) ELSE LastReset(more, x)
    BY <1>12, <2>1 DEF Steps
  <2> QED
    BY <2>2, <2>3, <2>4
<1>19. Once(r, FALSE, TRUE, e, final)
  <2>1. LastReset(r, "level") # Of("level")
    BY <1>12 DEF Steps
  <2>2. \A x \in Range(file.signature) \union Range(Added(feature)) :
          Count(r, x) = ExpectedOf(FALSE, TRUE, e, x)
    BY <1>17 DEF sig, A
  <2>3. \A x \in Range(file.signature) : LastReset(r, x) = Of(x)
    BY <1>18 DEF sig
  <2> QED
    BY <2>1, <2>2, <2>3 DEF Once
<1>20. ASSUME NEW y \in Storable PROVE Count(r, y) # 0
  <2>1. y \in A /\ y \notin {"level", "time"}
    BY <1>15
  <2>2. Count(loop, y) = 1 /\ Count(times, y) \in {0, 1}
    BY <1>13, <2>1
  <2>3. Count(r, y) = Count(loop, y) + Count(times, y) + 0
    BY <1>14, <2>1
  <2> QED
    BY <2>2, <2>3
<1>21. Count(r, "time") = IF IsTemporal(feature) THEN 1 ELSE 0
  <2>1. Count(loop, "time") = 0 /\ Count(times, "time") = IF T THEN 1 ELSE 0
    BY <1>13
  <2>2. Count(r, "time") = Count(loop, "time") + Count(times, "time") + 0
    BY <1>14
  <2> QED
    BY <2>1, <2>2 DEF T
<1>22. IsSequence(r) /\ StoresNothing(r) /\ Moves(r, v)
  BY <1>12 DEF Steps
<1> QED
  BY <1>19, <1>20, <1>21, <1>22 DEF Bare

\* What a match on an original transition takes out of its resets: the first one
\* whose name begins with level, in the model if there is one.
Taken(e) == IF Mistaken(e) = None THEN "level" ELSE Mistaken(e)

IsTaken(s, q, e) ==
  /\ Lost(q, Taken(e), s)
  /\ Taken(e) = "level" <=> Mistaken(e) = None
  /\ Mistaken(e) # None => Mistaken(e) \in Range(file.signature)

\* An edge's own resets have no level left once the level is taken out of them.
LEMMA LevelGone ==
  ASSUME feature \in Features, file \in Files, NEW e, IsEdge(e),
         NEW q, IsTold(q, e, Added(feature))
  PROVE  IsTaken(LevelTaken(q), q, e)
<1> DEFINE s == Resets[e]
           A == Added(feature)
           names == LevelLike \union {"level"}
           like == {n \in DOMAIN s : s[n][1] \in LevelLike}
<1>1. /\ IsSequence(A) /\ 1 \in DOMAIN A /\ A[1] = "level"
      /\ "level" \in Range(A) /\ Range(file.signature) \intersect Range(A) = {}
  BY NamesApart
<1>2. IsSequence(s) /\ \A n \in DOMAIN s : s[n][1] \in Range(file.signature)
  BY DEF IsEdge
<1>3. IsInjective(A)
  BY NamesApart
<1>4. AllKeep(Identities(A))
  BY <1>1, <1>3, IdentitiesCount
<1>5. DOMAIN Identities(A) = DOMAIN A /\ Identities(A)[1] = <<"level", Of("level")>>
  BY <1>1 DEF Identities
<1>6. PICK one : one = Identities(A)
  OBVIOUS
<1>7. q = s \o one
  BY <1>6 DEF IsTold
<1>8. IsSequence(one) /\ 1 \in DOMAIN one /\ one[1] = <<"level", Of("level")>>
  BY <1>1, <1>4, <1>5, <1>6 DEF AllKeep
<1>9. PICK first : first = one[1]
  OBVIOUS
<1>10. first[1] = "level"
  BY <1>8, <1>9
<1> HIDE DEF A, s
<1>11. /\ IsSequence(q) /\ DOMAIN s = 1 .. Len(s) /\ Len(s) \in Nat
       /\ DOMAIN q = 1 .. Len(q) /\ Len(q) = Len(s) + Len(one) /\ Len(one) \in Nat \ {0}
       /\ \A n \in DOMAIN s : q[n] = s[n]
       /\ q[Len(s) + 1] = first
  <2>1. s \in Seq(Range(s)) /\ one \in Seq(Range(one))
    BY <1>2, <1>8 DEF IsSequence, Range
  <2>2. IsSequence(q)
    BY <1>2, <1>7, <1>8, Concatenated
  <2>3. s \in Seq(Range(s) \union Range(one)) /\ one \in Seq(Range(s) \union Range(one))
    BY <2>1
  <2> QED
    BY <1>7, <1>8, <1>9, <2>2, <2>3
<1>12. "level" \notin Range(file.signature) /\ None \notin Range(file.signature)
  BY <1>1, DistinctAssumption
<1>13. Len(s) + 1 \in DOMAIN q /\ q[Len(s) + 1][1] \in names
  BY <1>10, <1>11
<1>14. PICK p \in DOMAIN q :
         /\ q[p][1] \in names /\ \A m \in DOMAIN q : q[m][1] \in names => p <= m
         /\ WithoutFirst(q, names) = SubSeq(q, 1, p - 1) \o SubSeq(q, p + 1, Len(q))
  BY <1>11, <1>13, FirstTaken
<1>15. PICK r : r = LevelTaken(q)
  OBVIOUS
<1>16. Lost(q, q[p][1], r)
  <2>1. IsCut(q, p, r)
    BY <1>11, <1>14, <1>15 DEF LevelTaken, IsCut
  <2> QED
    BY <2>1, WithoutOne, Zenon
<1>17. q[p][1] = Taken(e) /\ (Taken(e) = "level" <=> Mistaken(e) = None)
       /\ (Mistaken(e) # None => Mistaken(e) \in Range(file.signature))
  <2>1. CASE like = {}
    <3>1. Mistaken(e) = None
      BY <2>1 DEF Mistaken, s
    <3>2. p <= Len(s) + 1
      BY <1>13, <1>14
    <3>3. p \notin DOMAIN s
      BY <1>2, <1>11, <1>12, <1>14, <2>1
    <3>4. p = Len(s) + 1
      BY <1>11, <3>2, <3>3
    <3> QED
      BY <1>10, <1>11, <3>1, <3>4 DEF Taken
  <2>2. CASE like # {}
    <3>1. PICK m \in like : \A n \in like : m <= n
      <4>1. like \in SUBSET Nat
        BY <1>11
      <4> HIDE DEF like
      <4> QED
        BY <2>2, <4>1, LeastOfNats
    <3>2. Mistaken(e) = s[CHOOSE n \in like : \A k \in like : n <= k][1]
      BY <2>2 DEF Mistaken, s
    <3>3. (CHOOSE n \in like : \A k \in like : n <= k) = m
      BY <1>11, <3>1
    <3>4. Mistaken(e) = s[m][1] /\ s[m][1] \in Range(file.signature)
      BY <1>2, <3>1, <3>2, <3>3
    <3>5. p <= m
      <4>1. m \in DOMAIN s /\ s[m][1] \in names
        BY <3>1
      <4>2. m \in DOMAIN q /\ q[m] = s[m]
        <5>1. PICK l, l1 : l = Len(s) /\ l1 = Len(one)
          OBVIOUS
        <5>2. l \in Nat /\ l1 \in Nat /\ m \in 1 .. l /\ DOMAIN q = 1 .. l + l1
          BY <1>11, <4>1, <5>1
        <5> QED
          BY <1>11, <4>1, <5>2
      <4> QED
        BY <1>14, <4>1, <4>2
    <3>6. p \in DOMAIN s /\ q[p] = s[p]
      <4>1. PICK l : l = Len(s)
        OBVIOUS
      <4>2. p \in Nat \ {0} /\ m \in 1 .. l /\ l \in Nat /\ DOMAIN s = 1 .. l
        BY <1>11, <1>14, <3>1, <4>1
      <4>3. p \in 1 .. l
        BY <3>5, <4>2
      <4> QED
        BY <1>11, <4>2, <4>3
    <3>7. p \in like
      BY <1>2, <1>12, <1>14, <3>6
    <3>8. p = m
      BY <1>11, <3>1, <3>5, <3>7
    <3> QED
      BY <1>12, <3>4, <3>6, <3>8 DEF Taken
  <2> QED
    BY <2>1, <2>2
<1> QED
  BY <1>15, <1>16, <1>17 DEF IsTaken

\* A match on an original transition with the resets q: less the one taken for
\* that of level, level, and the times.
StepResets(i, q) == LevelTaken(q) \o <<<<"level", Number(NextId(i))>>>> \o TemporalResets

\* A match on an edge of the automaton resets what its model says, and the event's reset of the
\* time is there.
LEMMA EdgeBare ==
  ASSUME feature \in Features, file \in Files, NEW i, IsSub(i), NEW e, IsEdge(e),
         NEW v, v.goes = NextId(i), v.zeroes = FALSE,
         NEW q, IsTold(q, e, Added(feature)), NEW r, r = StepResets(i, q), NEW final
  PROVE  Bare(r, v, TRUE, TRUE, e, final) /\ Count(r, "time") # 0
<1> DEFINE sig == Range(file.signature)
           A == Range(Added(feature))
           T == IsTemporal(feature)
           y == Taken(e)
<1>1. PICK s, times : s = LevelTaken(q) /\ times = TemporalResets
  OBVIOUS
<1>2. /\ Lost(q, y, s) /\ (y = "level" <=> Mistaken(e) = None)
      /\ (Mistaken(e) # None => Mistaken(e) \in sig)
  BY <1>1, LevelGone DEF IsTaken
<1>3. KeepsTold(q, e, Added(feature))
  <2>1. IsSequence(Added(feature)) /\ IsInjective(Added(feature))
        /\ Range(Added(feature)) \subseteq Range(Added(feature))
    BY NamesApart
  <2> QED
    BY <2>1, ToldMoves, Zenon
<1>4. /\ IsSequence(q) /\ StoresNothing(q)
      /\ \A x : Count(q, x) = Count(Resets[e], x) + IF x \in A THEN 1 ELSE 0
      /\ \A x : LastReset(q, x) = IF x \in A THEN Of(x) ELSE LastReset(Resets[e], x)
  BY <1>3 DEF KeepsTold
<1>5. /\ IsSequence(times) /\ StoresNothing(times)
      /\ \A x : Count(times, x) = IF T /\ x \in {"time", "localTime"} THEN 1 ELSE 0
      /\ LastReset(times, "time") = IF T THEN Of("time") ELSE None
  BY <1>1, TimesCount
<1>6. /\ sig \intersect A = {} /\ {"level", "time"} \subseteq A /\ (T => "localTime" \in A)
      /\ Storable \subseteq A \ {"level", "time"} /\ None \notin sig
  BY NamesApart, DistinctAssumption
<1>7. IsSequence(Resets[e]) /\ \A x \in A : Count(Resets[e], x) = 0
  BY EdgeResets
<1>8. y = IF Mistaken(e) = None THEN "level" ELSE Mistaken(e)
  BY DEF Taken
<1> HIDE DEF sig, A, T, y
<1>9. IsSequence(s) /\ Range(s) \subseteq Range(q)
      /\ \A x : /\ Count(s, x) = Count(q, x) - IF x = y THEN 1 ELSE 0
                /\ x # y => LastReset(s, x) = LastReset(q, x)
  BY <1>2 DEF Lost
<1>10. StoresNothing(s)
  BY <1>4, <1>9 DEF StoresNothing, Range
<1>11. y \in sig \union {"level"} /\ (y \in sig <=> Mistaken(e) # None)
  BY <1>2, <1>6, <1>8
<1>12. LastReset(s, "time") = Of("time")
  BY <1>4, <1>6, <1>9, <1>11
<1>13. Steps(s, times, r, v)
  <2>1. r = (s \o <<<<"level", Number(NextId(i))>>>>) \o times
    BY <1>1 DEF StepResets
  <2>2. Count(times, "level") = 0
    BY <1>5
  <2>3. LastReset(times, "time") \in {None, Of("time")}
    BY <1>5
  <2>4. IsStepped(s, times, r, i, v)
    BY <1>5, <1>9, <1>10, <1>12, <2>1, <2>2, <2>3 DEF IsStepped
  <2> QED
    BY <2>4, MatchMoves, Zenon
<1>14. ASSUME NEW x
       PROVE  /\ Count(Resets[e], x) \in Nat
              /\ Count(r, x) = Count(s, x) + Count(times, x) + IF x = "level" THEN 1 ELSE 0
              /\ Count(s, x) = (Count(Resets[e], x) + IF x \in A THEN 1 ELSE 0) - IF x = y THEN 1 ELSE 0
  <2>1. Count(s, x) = Count(q, x) - IF x = y THEN 1 ELSE 0
    BY <1>9
  <2>2. Count(q, x) = Count(Resets[e], x) + IF x \in A THEN 1 ELSE 0
    BY <1>4
  <2>3. Count(Resets[e], x) \in Nat
    BY <1>7, CountIsNat
  <2>4. Count(r, x) = Count(s, x) + Count(times, x) + IF x = "level" THEN 1 ELSE 0
    BY <1>13 DEF Steps
  <2> QED
    BY <2>1, <2>2, <2>3, <2>4
<1>15. ASSUME NEW x \in A PROVE Count(s, x) = IF x = y THEN 0 ELSE 1
  <2>1. Count(Resets[e], x) = 0
    BY <1>7 DEF A
  <2> QED
    BY <1>14, <2>1
<1>16. ASSUME NEW x \in sig \union A PROVE Count(r, x) = ExpectedOf(TRUE, TRUE, e, x)
  <2>1. CASE x \in sig
    <3>1. x \notin A /\ x # "level" /\ ~(T /\ x \in {"time", "localTime"})
      BY <1>6, <2>1
    <3>2. Count(times, x) = 0
      BY <1>5, <3>1
    <3>3. x = y <=> x = Mistaken(e)
      BY <1>6, <1>8, <2>1, <3>1
    <3>4. Count(r, x) = Count(Resets[e], x) - IF x = Mistaken(e) THEN 1 ELSE 0
      <4>1. Count(r, x) = Count(s, x) + 0 + 0
        BY <1>14, <3>1, <3>2
      <4>2. Count(s, x) = (Count(Resets[e], x) + 0) - IF x = Mistaken(e) THEN 1 ELSE 0
        BY <1>14, <3>1, <3>3
      <4>3. Count(Resets[e], x) \in Nat
        BY <1>14
      <4> QED
        BY <4>1, <4>2, <4>3
    <3>5. ExpectedOf(TRUE, TRUE, e, x) = Count(Resets[e], x) - IF x = Mistaken(e) THEN 1 ELSE 0
      BY <2>1 DEF ExpectedOf, sig
    <3> QED
      BY <3>4, <3>5
  <2>2. CASE x \notin sig
    <3>1. x \notin Range(file.signature) /\ x \in A
      BY <2>2 DEF sig
    <3>2. Count(s, x) = IF x = y THEN 0 ELSE 1
      BY <1>15, <3>1
    <3>3. Count(times, x) = IF T /\ x \in {"time", "localTime"} THEN 1 ELSE 0
      BY <1>5
    <3>4. Count(r, x) = Count(s, x) + Count(times, x) + IF x = "level" THEN 1 ELSE 0
      BY <1>14
    <3>5. x = y <=> x = "level" /\ Mistaken(e) = None
      BY <1>2, <1>11, <2>2
    <3>6. CASE x = "level"
      <4>1. ExpectedOf(TRUE, TRUE, e, x) = IF Mistaken(e) = None THEN 1 ELSE 2
        BY <3>1, <3>6 DEF ExpectedOf
      <4>2. Count(s, x) = (IF Mistaken(e) = None THEN 0 ELSE 1) /\ Count(times, x) = 0
        BY <3>2, <3>3, <3>5, <3>6
      <4>3. Count(r, x) = IF Mistaken(e) = None THEN 1 ELSE 2
        BY <3>4, <3>6, <4>2
      <4> QED
        BY <4>1, <4>3
    <3>7. CASE x = "localTime"
      <4>1. ExpectedOf(TRUE, TRUE, e, x) = IF T THEN 2 ELSE 1
        BY <3>1, <3>7 DEF ExpectedOf, T
      <4>2. Count(s, x) = 1 /\ Count(times, x) = IF T THEN 1 ELSE 0
        BY <3>2, <3>3, <3>5, <3>7
      <4>3. Count(r, x) = IF T THEN 2 ELSE 1
        BY <3>4, <3>7, <4>2
      <4> QED
        BY <4>1, <4>3
    <3>8. CASE x = "time"
      <4>1. ExpectedOf(TRUE, TRUE, e, x) = IF T THEN 2 ELSE 1
        BY <3>1, <3>8 DEF ExpectedOf, T
      <4>2. Count(s, x) = 1 /\ Count(times, x) = IF T THEN 1 ELSE 0
        BY <3>2, <3>3, <3>5, <3>8
      <4>3. Count(r, x) = IF T THEN 2 ELSE 1
        BY <3>4, <3>8, <4>2
      <4> QED
        BY <4>1, <4>3
    <3>9. CASE x \notin {"level", "time", "localTime"}
      <4>1. ExpectedOf(TRUE, TRUE, e, x) = 1
        BY <3>1, <3>9 DEF ExpectedOf
      <4>2. Count(s, x) = 1 /\ Count(times, x) = 0
        BY <3>2, <3>3, <3>5, <3>9
      <4>3. Count(r, x) = 1
        BY <3>4, <3>9, <4>2
      <4> QED
        BY <4>1, <4>3
    <3> QED
      BY <3>6, <3>7, <3>8, <3>9
  <2> QED
    BY <2>1, <2>2
<1>17. ASSUME NEW x \in sig, x # Mistaken(e) PROVE LastReset(r, x) = LastReset(Resets[e], x)
  <2>1. x \notin A /\ x # "level" /\ ~(T /\ x \in {"time", "localTime"})
    BY <1>6
  <2>2. Count(times, x) = 0 /\ x # y
    BY <1>5, <1>8, <1>17, <2>1
  <2>3. LastReset(r, x) = IF Count(times, x) = 0 THEN LastReset(s, x) ELSE LastReset(times, x)
    BY <1>13, <2>1 DEF Steps
  <2>4. LastReset(s, x) = LastReset(Resets[e], x)
    BY <1>4, <1>9, <2>1, <2>2
  <2> QED
    BY <2>2, <2>3, <2>4
<1>18. Once(r, TRUE, TRUE, e, final)
  <2>1. LastReset(r, "level") # Of("level")
    BY <1>13 DEF Steps
  <2>2. \A x \in Range(file.signature) \union Range(Added(feature)) :
          Count(r, x) = ExpectedOf(TRUE, TRUE, e, x)
    BY <1>16 DEF sig, A
  <2>3. \A x \in Range(file.signature) : x # Mistaken(e) => LastReset(r, x) = LastReset(Resets[e], x)
    BY <1>17 DEF sig
  <2> QED
    BY <2>1, <2>2, <2>3 DEF Once
<1>19. ASSUME NEW x \in A, x # "level" PROVE Count(r, x) # 0
  <2>1. x # y
    BY <1>6, <1>11, <1>19
  <2>2. Count(s, x) = 1 /\ Count(times, x) \in {0, 1}
    BY <1>5, <1>15, <1>19, <2>1
  <2>3. Count(r, x) = Count(s, x) + Count(times, x) + 0
    BY <1>14, <1>19
  <2> QED
    BY <2>2, <2>3
<1>20. IsSequence(r) /\ StoresNothing(r) /\ Moves(r, v)
  BY <1>13 DEF Steps
<1>21. Count(r, "time") # 0 /\ \A x \in Storable : Count(r, x) # 0
  BY <1>6, <1>19
<1> QED
  BY <1>18, <1>20, <1>21 DEF Bare

\* A match that leads to FINAL sets the times to 0.
LEMMA ZeroedBare ==
  ASSUME feature \in Features, file \in Files,
         NEW w, NEW onEdge, NEW match, NEW e, NEW f, NEW r, Bare(r, w, onEdge, match, e, f),
         NEW v, v.goes = w.goes, v.at = w.at, v.zeroes = (Count(r, "time") # 0)
  PROVE  Bare(TimeToZero(r), v, onEdge, match, e, TRUE)
<1>1. PICK q : q = TimeToZero(r)
  OBVIOUS
<1>2. IsSequence(r) /\ StoresNothing(r) /\ Moves(r, w) /\ Once(r, onEdge, match, e, f)
      /\ \A y \in Storable : Count(r, y) # 0
  BY DEF Bare
<1>3. /\ IsSequence(q)
      /\ \A x : /\ Count(q, x) = Count(r, x)
                /\ LastReset(q, x) =
                     IF x \in TimeLike \union {"time"} /\ Count(r, x) # 0 THEN Number(0) ELSE LastReset(r, x)
  BY <1>1, <1>2, CountZeroed
<1>4. StoresNothing(q)
  <2>1. ASSUME NEW n \in DOMAIN q PROVE ~StoresAt(q[n])
    <3>1. n \in DOMAIN r /\ ~StoresAt(r[n])
      BY <1>1, <1>2 DEF TimeToZero, StoresNothing
    <3>2. q[n] = r[n] \/ q[n] = <<r[n][1], Number(0)>>
      BY <1>1, <3>1 DEF TimeToZero
    <3>3. CASE q[n] = <<r[n][1], Number(0)>>
      <4>1. q[n][2] = Number(0) /\ \A x : Holding(x) # Number(0)
        BY <3>3, ValuesDiffer DEF Holding
      <4> QED
        BY <4>1 DEF StoresAt
    <3> QED
      BY <3>1, <3>2, <3>3
  <2> QED
    BY <2>1 DEF StoresNothing
<1>5. "level" \notin TimeLike /\ None # Number(0)
  BY NamesAssumption DEF Number
<1>6. LastReset(q, "level") = LastReset(r, "level")
  BY <1>3, <1>5
<1>7. LastReset(q, "time") = Number(0) <=> Count(r, "time") # 0
  <2>1. CASE Count(r, "time") = 0
    <3>1. LastReset(r, "time") = None
      BY <1>2, <2>1, CountIsNat, NeverReset
    <3> QED
      BY <1>3, <1>5, <2>1, <3>1
  <2>2. CASE Count(r, "time") # 0
    BY <1>3, <2>2
  <2> QED
    BY <2>1, <2>2
<1>8. Moves(q, v)
  BY <1>2, <1>6, <1>7 DEF Moves
<1>9. Once(q, onEdge, match, e, TRUE)
  <2>1. match <=> LastReset(q, "level") # Of("level")
    BY <1>2, <1>6 DEF Once
  <2>2. \A x \in Range(file.signature) \union Range(Added(feature)) :
          Count(q, x) = ExpectedOf(onEdge, match, e, x)
    BY <1>2, <1>3 DEF Once
  <2>3. ASSUME NEW x \in Range(file.signature)
        PROVE  \/ LastReset(q, x) = IF onEdge THEN LastReset(Resets[e], x) ELSE Of(x)
               \/ x \in TimeLike /\ LastReset(q, x) = Number(0)
               \/ match /\ onEdge /\ x = Mistaken(e)
    <3>1. x # "time"
      BY NamesApart
    <3>2. \/ LastReset(r, x) = IF onEdge THEN LastReset(Resets[e], x) ELSE Of(x)
          \/ x \in TimeLike /\ LastReset(r, x) = Number(0)
          \/ match /\ onEdge /\ x = Mistaken(e)
      BY <1>2 DEF Once
    <3>3. LastReset(q, x) = LastReset(r, x) \/ (x \in TimeLike /\ LastReset(q, x) = Number(0))
      BY <1>3, <3>1
    <3> QED
      BY <3>2, <3>3
  <2> QED
    BY <2>1, <2>2, <2>3 DEF Once
<1> QED
  BY <1>1, <1>2, <1>3, <1>4, <1>8, <1>9 DEF Bare

\* A store replaces the first reset of its variable, and changes nothing else.
Effects(r, v) == IsSequence(r) /\ Moves(r, v) /\ Storing(r) = v.sets

\* One more stored assignment at the end of such resets adds that one effect, and every name is
\* still reset once.
LEMMA StoredBare ==
  ASSUME feature \in Features, file \in Files,
         NEW w, NEW onEdge, NEW match, NEW e, NEW final, NEW r, Bare(r, w, onEdge, match, e, final),
         NEW y \in Storable, NEW v, v.goes = w.goes, v.at = w.at, v.zeroes = w.zeroes, v.sets = <<y>>
  PROVE  Effects(Reset(r, y, Holding(y)), v) /\ Once(Reset(r, y, Holding(y)), onEdge, match, e, final)
<1>1. PICK q : q = Reset(r, y, Holding(y))
  OBVIOUS
<1>2. IsSequence(r) /\ StoresNothing(r) /\ Moves(r, w) /\ Once(r, onEdge, match, e, final)
      /\ Count(r, y) # 0
  BY DEF Bare
<1>3. y \notin Range(file.signature) \union {"level", "time"}
  BY NamesApart
<1>4. \E n \in DOMAIN r : r[n][1] = y
  BY <1>2, CountIsNat DEF Says
<1>5. PICK k \in DOMAIN r : q = [r EXCEPT ![k] = <<y, Holding(y)>>]
  BY <1>1, <1>2, <1>4, FirstReset
<1>6. PICK p : p = <<y, Holding(y)>>
  OBVIOUS
<1>7. IsSequence(q) /\ DOMAIN q = DOMAIN r /\ \A n \in DOMAIN r : q[n] = IF n = k THEN p ELSE r[n]
  BY <1>2, <1>5, <1>6, ReplacedAt
<1>8. p[1] = y /\ p[2] = Holding(y)
  BY <1>6
<1>9. Storing(q) = <<y>>
  <2>1. StoresAt(q[k]) /\ q[k][1] = y
    BY <1>7, <1>8 DEF StoresAt, Storable
  <2>2. \A n \in DOMAIN q : n # k => ~StoresAt(q[n])
    BY <1>2, <1>7 DEF StoresNothing
  <2>3. Storing(q) = <<q[k][1]>>
    BY <1>7, <2>1, <2>2, OneStored
  <2> QED
    BY <2>1, <2>3
<1>10. \A x : Count(q, x) = Count(r, x)
  BY <1>1, <1>2, CountReset
<1>11. \A x : x # y => LastReset(q, x) = LastReset(r, x)
  BY <1>1, <1>2, ResetElsewhere
<1>12. LastReset(q, "level") = LastReset(r, "level") /\ LastReset(q, "time") = LastReset(r, "time")
  BY <1>3, <1>11
<1>13. Moves(q, v)
  BY <1>2, <1>12 DEF Moves
<1>14. \A x \in Range(file.signature) : LastReset(q, x) = LastReset(r, x)
  BY <1>3, <1>11
<1>15. Once(q, onEdge, match, e, final)
  BY <1>2, <1>10, <1>12, <1>14 DEF Once
<1> QED
  BY <1>1, <1>7, <1>9, <1>13, <1>15 DEF Effects

\* And without one nothing is stored.
LEMMA BareEffects ==
  ASSUME NEW v, v.sets = << >>,
         NEW onEdge, NEW match, NEW e, NEW final, NEW r, Bare(r, v, onEdge, match, e, final)
  PROVE  Effects(r, v) /\ Once(r, onEdge, match, e, final)
BY NothingStored DEF Bare, Effects

-------------------------------------------------------------------------------
\* What a guard asks for

\* The list at a asks for what v does: its own nodes for the guards of v, and behind
\* them for the level, by the guard of the level itself if that is shared.
LevelOf(at) == IF at = -1 THEN {} ELSE {Level(at)}

OwnNodes(h, lg, a) == Reached(h, a) \ Shared(h, lg)

GuardStands(h, lg, a, v) ==
  /\ a \in 0 .. Len(h) /\ v.shared \in BOOLEAN
  /\ \A c \in v.guards : c[1] # "level"
  /\ v.shared =>
       /\ v.at \in DOMAIN lg
       /\ Reached(h, a) \intersect Shared(h, lg) = Reached(h, lg[v.at])
       /\ Conds(h, OwnNodes(h, lg, a)) = v.guards
  /\ ~v.shared =>
       /\ Reached(h, a) \intersect Shared(h, lg) = {}
       /\ Conds(h, OwnNodes(h, lg, a)) = v.guards \union LevelOf(v.at)

\* What is behind the guard of level j.
TailOf(h, lg, j) == Conds(h, Reached(h, lg[j]) \ {lg[j]})

\* Level guards stand apart, and nothing but PORVs is behind them; nothing at all if
\* the sub-expression is only an event.
Guarded(f, h, lg) ==
  /\ DOMAIN lg \subseteq 0 .. Len(f) - 1
  /\ \A j \in DOMAIN lg :
       /\ lg[j] \in 1 .. Len(h) /\ h[lg[j]].cond = Level(j)
       /\ \A c \in TailOf(h, lg, j) : c[1] = "pred"
       /\ f[j + 1].dnf = << >> => TailOf(h, lg, j) = {}
  /\ \A j, k \in DOMAIN lg : j # k => Reached(h, lg[j]) \intersect Reached(h, lg[k]) = {}

\* A guard asks for the same however the heap grows.
LEMMA GuardKept ==
  ASSUME NEW h, Lists(h), NEW lg, \A i \in DOMAIN lg : lg[i] \in 1 .. Len(h),
         NEW g, Grows(h, g, lg), NEW a, NEW v, GuardStands(h, lg, a, v)
  PROVE  GuardStands(g, lg, a, v)
<1>1. PICK z \in 0 .. Len(h), new \in SUBSET (Len(h) + 1 .. Len(g)) :
       /\ new = {} \/ z \in Shared(h, lg)
       /\ \A b \in 0 .. Len(h) :
            Reached(g, b) = Reached(h, b) \union IF z \in Reached(h, b) THEN new ELSE {}
  BY DEF Grows
<1>2. /\ Len(h) \in Nat /\ Len(g) \in Nat /\ Len(h) <= Len(g) /\ SameConds(h, g)
      /\ \A i \in DOMAIN lg : lg[i] \in 0 .. Len(h)
  BY HeapFacts DEF Grows
<1>3. a \in 0 .. Len(h) /\ a \in 0 .. Len(g)
  BY <1>2 DEF GuardStands
<1>4. /\ Shared(h, lg) \subseteq Shared(g, lg) /\ Shared(g, lg) \intersect 1 .. Len(h) \subseteq Shared(h, lg)
      /\ Reached(h, a) \subseteq 1 .. Len(h)
  BY <1>3, GrownReached
<1>5. PICK N : Reached(g, a) = Reached(h, a) \union N /\ N = IF z \in Reached(h, a) THEN new ELSE {}
  BY <1>1, <1>3
<1>6. N \subseteq Shared(g, lg)
  <2>1. CASE new = {}
    BY <1>5, <2>1
  <2>2. CASE z \in Shared(h, lg)
    <3>1. PICK i \in DOMAIN lg : z \in Reached(h, lg[i])
      BY <2>2 DEF Shared
    <3>2. new \subseteq Reached(g, lg[i])
      BY <1>1, <1>2, <3>1
    <3> QED
      BY <1>5, <3>2 DEF Shared
  <2> QED
    BY <1>1, <2>1, <2>2
<1>7. OwnNodes(g, lg, a) = OwnNodes(h, lg, a)
  BY <1>4, <1>5, <1>6 DEF OwnNodes
<1>8. Conds(g, OwnNodes(g, lg, a)) = Conds(h, OwnNodes(h, lg, a))
  <2>1. OwnNodes(h, lg, a) \subseteq 1 .. Len(h)
    BY <1>4 DEF OwnNodes
  <2> QED
    BY <1>2, <1>7, <2>1, CondsKept
<1>9. Reached(g, a) \intersect Shared(g, lg) = (Reached(h, a) \intersect Shared(h, lg)) \union N
  BY <1>4, <1>5, <1>6
<1>10. CASE v.shared
  <2>1. v.at \in DOMAIN lg /\ Reached(h, a) \intersect Shared(h, lg) = Reached(h, lg[v.at])
    BY <1>10 DEF GuardStands
  <2>2. N = IF z \in Reached(h, lg[v.at]) THEN new ELSE {}
    BY <1>1, <1>5, <2>1
  <2>3. Reached(g, lg[v.at]) = Reached(h, lg[v.at]) \union N
    BY <1>1, <1>2, <2>1, <2>2
  <2> QED
    BY <1>3, <1>8, <1>9, <1>10, <2>1, <2>3 DEF GuardStands
<1>11. CASE ~v.shared
  <2>1. Reached(h, a) \intersect Shared(h, lg) = {}
    BY <1>11 DEF GuardStands
  <2>2. N = {}
    BY <1>1, <1>5, <2>1
  <2> QED
    BY <1>3, <1>8, <1>9, <1>11, <2>1, <2>2 DEF GuardStands
<1> QED
  BY <1>10, <1>11

\* What guards ask for stays, and C comes behind the guard of level i.
Widens(f, h, g, lg, i, C) ==
  /\ Guarded(f, g, lg)
  /\ \A a, v : GuardStands(h, lg, a, v) => GuardStands(g, lg, a, v)
  /\ \A j \in DOMAIN lg : TailOf(g, lg, j) = TailOf(h, lg, j) \union IF j = i THEN C ELSE {}

\* Level guards stay apart, and what is hung behind one is behind no other.
LEMMA ExtendsWidens ==
  ASSUME NEW f, NEW h, Lists(h), NEW lg, Guarded(f, h, lg), NEW i \in DOMAIN lg, NEW C,
         \A c \in C : c[1] = "pred", f[i + 1].dnf = << >> => C = {},
         NEW g, Extends(h, g, lg, i, C)
  PROVE  Widens(f, h, g, lg, i, C)
<1>1. PICK z \in 0 .. Len(h), new \in SUBSET (Len(h) + 1 .. Len(g)) :
         /\ new = {} \/ z \in Reached(h, lg[i])
         /\ Conds(g, new) = C
         /\ \A a \in 0 .. Len(h) :
              Reached(g, a) = Reached(h, a) \union IF z \in Reached(h, a) THEN new ELSE {}
  BY DEF Extends
<1>2. /\ Len(h) \in Nat /\ Len(g) \in Nat /\ Len(h) <= Len(g) /\ SameConds(h, g)
      /\ \A a \in 0 .. Len(h) : Reached(h, a) \subseteq 1 .. Len(h)
      /\ new \intersect 1 .. Len(h) = {}
  BY HeapFacts, ReachedUnfold DEF Extends
<1>3. \A j \in DOMAIN lg : lg[j] \in 1 .. Len(h) /\ lg[j] \in 0 .. Len(h) /\ lg[j] \in 1 .. Len(g)
  BY <1>2 DEF Guarded
<1>4. ASSUME NEW j \in DOMAIN lg
      PROVE  Reached(g, lg[j]) = Reached(h, lg[j]) \union IF j = i THEN new ELSE {}
  <2>1. CASE new = {}
    BY <1>1, <1>3, <2>1
  <2>2. CASE z \in Reached(h, lg[i]) /\ j = i
    BY <1>1, <1>3, <2>2
  <2>3. CASE z \in Reached(h, lg[i]) /\ j # i
    <3>1. z \notin Reached(h, lg[j])
      BY <2>3 DEF Guarded
    <3> QED
      BY <1>1, <1>3, <2>3, <3>1
  <2> QED
    BY <1>1, <2>1, <2>2, <2>3
<1>5. ASSUME NEW j \in DOMAIN lg
      PROVE  TailOf(g, lg, j) = TailOf(h, lg, j) \union IF j = i THEN C ELSE {}
  <2>1. PICK N : N = IF j = i THEN new ELSE {}
    OBVIOUS
  <2>2. Reached(g, lg[j]) \ {lg[j]} = (Reached(h, lg[j]) \ {lg[j]}) \union N
    BY <1>2, <1>3, <1>4, <2>1
  <2>3. Conds(g, N) = IF j = i THEN C ELSE {}
    BY <1>1, <2>1 DEF Conds
  <2>4. Conds(g, Reached(h, lg[j]) \ {lg[j]}) = TailOf(h, lg, j)
    BY <1>2, <1>3, CondsKept DEF TailOf
  <2>5. TailOf(g, lg, j) = Conds(g, Reached(h, lg[j]) \ {lg[j]}) \union Conds(g, N)
    BY <2>2 DEF TailOf, Conds
  <2> QED
    BY <2>3, <2>4, <2>5
<1>6. ASSUME NEW j \in DOMAIN lg
      PROVE  /\ lg[j] \in 1 .. Len(g) /\ g[lg[j]].cond = Level(j)
             /\ \A c \in TailOf(g, lg, j) : c[1] = "pred"
             /\ f[j + 1].dnf = << >> => TailOf(g, lg, j) = {}
  <2>1. h[lg[j]].cond = Level(j) /\ (\A c \in TailOf(h, lg, j) : c[1] = "pred")
        /\ (f[j + 1].dnf = << >> => TailOf(h, lg, j) = {})
    BY DEF Guarded
  <2>2. g[lg[j]].cond = Level(j)
    BY <1>2, <1>3, <2>1 DEF SameConds
  <2> QED
    BY <1>3, <1>5, <2>1, <2>2
<1>7. ASSUME NEW j \in DOMAIN lg, NEW k \in DOMAIN lg, j # k
      PROVE  Reached(g, lg[j]) \intersect Reached(g, lg[k]) = {}
  <2>1. Reached(h, lg[j]) \intersect Reached(h, lg[k]) = {}
    BY <1>7 DEF Guarded
  <2>2. Reached(h, lg[j]) \subseteq 1 .. Len(h) /\ Reached(h, lg[k]) \subseteq 1 .. Len(h)
    BY <1>2, <1>3
  <2> QED
    BY <1>2, <1>4, <1>7, <2>1, <2>2
<1>8. DOMAIN lg \subseteq 0 .. Len(f) - 1
  BY DEF Guarded
<1>9. Guarded(f, g, lg)
  BY <1>6, <1>7, <1>8 DEF Guarded
<1>10. \A j \in DOMAIN lg : lg[j] \in 1 .. Len(h)
  BY DEF Guarded
<1>11. Grows(h, g, lg)
  <2>1. \A c \in C : c[1] # "edge"
    OBVIOUS
  <2> QED
    BY <2>1, ExtendsGrows
<1>12. ASSUME NEW a, NEW v, GuardStands(h, lg, a, v) PROVE GuardStands(g, lg, a, v)
  BY <1>10, <1>11, <1>12, GuardKept
<1> QED
  BY <1>5, <1>9, <1>12 DEF Widens

\* A new list extends no guard ...
LEMMA CreateExtends ==
  ASSUME NEW h, Lists(h), NEW conds, IsSequence(conds), NEW lg, NEW i, NEW g, g = Create(h, conds)
  PROVE  /\ Extends(h, g, lg, i, {})
         /\ Fresh(h, conds) \in 0 .. Len(g)
         /\ Reached(g, Fresh(h, conds)) = Len(h) + 1 .. Len(g)
         /\ Conds(g, Reached(g, Fresh(h, conds))) = Range(conds)
<1>1. /\ Len(g) = Len(h) + Len(conds) /\ SameConds(h, g) /\ Lists(g)
      /\ \A a \in 0 .. Len(h) : Reached(g, a) = Reached(h, a)
  BY CreatedConds, CreatedLists, CreatedNodes DEF SameConds
<1>2. Fresh(h, conds) \in 0 .. Len(g) /\ Reached(g, Fresh(h, conds)) = Len(h) + 1 .. Len(g)
  BY CreateGrows
<1>3. Conds(g, Len(h) + 1 .. Len(g)) = Range(conds)
  BY <1>1, NewConds DEF SameConds
<1>4. Len(h) \in Nat /\ Len(conds) \in Nat
  BY HeapFacts, SequenceFacts
<1>5. Len(h) <= Len(g) /\ 0 \in 0 .. Len(h) /\ {} \in SUBSET (Len(h) + 1 .. Len(g)) /\ Conds(g, {}) = {}
  BY <1>1, <1>4 DEF Conds
<1>6. \A a \in 0 .. Len(h) : Reached(g, a) = Reached(h, a) \union IF 0 \in Reached(h, a) THEN {} ELSE {}
  BY <1>1
<1>7. Extends(h, g, lg, i, {})
  BY <1>1, <1>5, <1>6 DEF Extends
<1> QED
  BY <1>2, <1>3, <1>7

\* ... nor does one in front of a level guard.
IsShare(h, conds, guard, g, u) ==
  /\ Lists(h) /\ IsSequence(conds) /\ guard \in 1 .. Len(h)
  /\ g = Link(Create(h, conds), Fresh(h, conds), guard) /\ u = Linked(Fresh(h, conds), guard)

Shares(h, conds, guard, g, u, lg, i) ==
  /\ Extends(h, g, lg, i, {}) /\ u \in 0 .. Len(g)
  /\ Len(g) = Len(h) + Len(conds)
  /\ \A a \in 0 .. Len(h) : Reached(g, a) = Reached(h, a)
  /\ Reached(g, u) = (Len(h) + 1 .. Len(g)) \union Reached(h, guard)
  /\ Conds(g, Len(h) + 1 .. Len(g)) = Range(conds)

\* A guard that shares its nodes with the heap before shares them whatever is said of the
\* levels.
LEMMA SharingExtends ==
  ASSUME NEW h, NEW conds, NEW guard, NEW g, NEW u, IsShare(h, conds, guard, g, u), NEW lg, NEW i
  PROVE  Shares(h, conds, guard, g, u, lg, i)
<1>0. /\ Lists(h) /\ IsSequence(conds) /\ guard \in 1 .. Len(h)
      /\ g = Link(Create(h, conds), Fresh(h, conds), guard) /\ u = Linked(Fresh(h, conds), guard)
  BY DEF IsShare
<1>1. /\ Lists(g) /\ Len(g) = Len(h) + Len(conds) /\ SameConds(h, g)
      /\ \A a \in 0 .. Len(h) : Reached(g, a) = Reached(h, a)
      /\ u \in 1 .. Len(g)
      /\ Reached(g, u) = (Len(h) + 1 .. Len(g)) \union Reached(h, guard)
  <2>1. PICK root : root = Fresh(h, conds)
    OBVIOUS
  <2>2. g = Link(Create(h, conds), root, guard) /\ u = Linked(root, guard)
    BY <1>0, <2>1
  <2> QED
    BY <1>0, <2>1, <2>2, SharingGrows
<1>2. Len(h) \in Nat /\ Len(conds) \in Nat
  BY <1>0, HeapFacts, SequenceFacts
<1>3. SameConds(Create(h, conds), g)
  BY <1>0, LinkConds
<1>4. Conds(g, Len(h) + 1 .. Len(g)) = Range(conds)
  BY <1>0, <1>1, <1>3, NewConds
<1>5. Len(h) <= Len(g) /\ 0 \in 0 .. Len(h) /\ {} \in SUBSET (Len(h) + 1 .. Len(g)) /\ Conds(g, {}) = {}
  BY <1>1, <1>2 DEF Conds
<1>6. \A a \in 0 .. Len(h) : Reached(g, a) = Reached(h, a) \union IF 0 \in Reached(h, a) THEN {} ELSE {}
  BY <1>1
<1>7. Extends(h, g, lg, i, {})
  BY <1>1, <1>5, <1>6 DEF Extends
<1>8. u \in 0 .. Len(g)
  BY <1>1, <1>2
<1> QED
  BY <1>1, <1>4, <1>7, <1>8 DEF Shares

-------------------------------------------------------------------------------
\* A transition of the automaton stands for one of the product

\* The transitions of LevelSequence have these fields, and an edge that the guard tells.
IsProduct(v) ==
  v = [from |-> v.from, to |-> v.to, edge |-> v.edge, at |-> v.at, goes |-> v.goes,
       guards |-> v.guards, shared |-> v.shared, sets |-> v.sets, zeroes |-> v.zeroes]

EdgeSays(v) ==
  \/ v.edge = None /\ \A c \in v.guards : c[1] # "edge"
  \/ {c \in v.guards : c[1] = "edge"} = {<<"edge", v.edge>>}

OnEdgeOf(v) == \E c \in v.guards : c[1] = "edge"

\* What the resets store, for a feature that is not the one in hand.
StoredIn(f, resets) ==
  LET stored[n \in 0 .. Len(resets)] ==
        IF n = 0 THEN << >>
        ELSE IF /\ resets[n][1] \in Range(Declared[f]) \union {Value}
                /\ resets[n][2] = Holding(resets[n][1])
        THEN Append(stored[n - 1], resets[n][1])
        ELSE stored[n - 1]
  IN stored[Len(resets)]

Stands(f, b, lg, t, v) ==
  /\ IsProduct(v) /\ EdgeSays(v)
  /\ v.from = b.locs[t.from].name /\ v.to = t.goto
  /\ GuardStands(b.heap, lg, t.when, v)
  /\ IsSequence(t.reset) /\ Moves(t.reset, v) /\ v.sets = StoredIn(f, t.reset)

\* What is in the list of a guard, read off what it asks for.
ReadOff(h, lg, a, v, conds) ==
  /\ {c \in conds : c[1] = "level"} = LevelOf(v.at)
  /\ v.at \in DOMAIN lg /\ lg[v.at] \in Reached(h, a) <=> v.shared
  /\ {c \in conds : c[1] = "edge"} = {c \in v.guards : c[1] = "edge"}
  /\ ~v.shared => {c \in conds : c[1] # "level"} = v.guards
  /\ v.shared => /\ lg[v.at] \in 1 .. Len(h)
                 /\ Conds(h, Reached(h, a) \ Reached(h, lg[v.at])) = v.guards
  /\ conds = v.guards \union LevelOf(v.at) \union IF v.shared THEN TailOf(h, lg, v.at) ELSE {}

\* A guard that stands in the heap is read off as the conditions it stands for.
LEMMA GuardRead ==
  ASSUME NEW f, NEW h, Lists(h), NEW lg, Guarded(f, h, lg), NEW a, NEW v, GuardStands(h, lg, a, v),
         NEW conds, conds = Range(Contents(h, a))
  PROVE  ReadOff(h, lg, a, v, conds)
<1>1. conds = Conds(h, Reached(h, a))
  BY ContentsRange DEF Conds
<1>2. /\ Len(h) \in Nat /\ \A x \in 1 .. Len(h) : x \in Reached(h, x)
      /\ \A x \in DOMAIN lg : x \in Nat /\ lg[x] \in 1 .. Len(h) /\ lg[x] \in 0 .. Len(h) /\ h[lg[x]].cond = Level(x)
  <2>1. Len(h) \in Nat /\ \A x \in 1 .. Len(h) : x \in Reached(h, x)
    BY HeapFacts, ReachedUnfold
  <2>2. \A x \in DOMAIN lg : x \in Nat /\ lg[x] \in 1 .. Len(h) /\ h[lg[x]].cond = Level(x)
    BY DEF Guarded
  <2> QED
    BY <2>1, <2>2
<1>3. \A c \in v.guards : c[1] # "level"
  BY DEF GuardStands
<1>4. CASE v.shared
  <2> DEFINE g == lg[v.at]
  <2>1. /\ v.at \in DOMAIN lg /\ Reached(h, a) \intersect Shared(h, lg) = Reached(h, g)
        /\ Conds(h, OwnNodes(h, lg, a)) = v.guards
    BY <1>4 DEF GuardStands
  <2>2. g \in Reached(h, g) /\ h[g].cond = Level(v.at) /\ v.at # -1 /\ g \in 1 .. Len(h)
    BY <1>2, <2>1
  <2> HIDE DEF g
  <2>3. OwnNodes(h, lg, a) = Reached(h, a) \ Reached(h, g) /\ Reached(h, g) \subseteq Reached(h, a)
    BY <2>1 DEF OwnNodes
  <2>4. conds = v.guards \union {Level(v.at)} \union TailOf(h, lg, v.at)
    <3>1. Reached(h, a) = OwnNodes(h, lg, a) \union {g} \union (Reached(h, g) \ {g})
      BY <2>2, <2>3
    <3>2. TailOf(h, lg, v.at) = Conds(h, Reached(h, g) \ {g})
      BY DEF TailOf, g
    <3>3. Conds(h, OwnNodes(h, lg, a) \union {g} \union (Reached(h, g) \ {g}))
            = Conds(h, OwnNodes(h, lg, a)) \union {h[g].cond} \union Conds(h, Reached(h, g) \ {g})
      BY DEF Conds
    <3> QED
      BY <1>1, <2>1, <2>2, <3>1, <3>2, <3>3
  <2>5. \A c \in TailOf(h, lg, v.at) : c[1] = "pred"
    BY <2>1 DEF Guarded
  <2>6. Level(v.at)[1] = "level"
    BY DEF Level
  <2>7. {c \in conds : c[1] = "level"} = {Level(v.at)}
    BY <1>3, <2>4, <2>5, <2>6
  <2>8. {c \in conds : c[1] = "edge"} = {c \in v.guards : c[1] = "edge"}
    BY <1>3, <2>4, <2>5, <2>6
  <2>9. LevelOf(v.at) = {Level(v.at)}
    BY <2>2 DEF LevelOf
  <2> QED
    BY <1>4, <2>1, <2>2, <2>3, <2>4, <2>7, <2>8, <2>9 DEF g, ReadOff
<1>5. CASE ~v.shared
  <2>1. /\ Reached(h, a) \intersect Shared(h, lg) = {}
        /\ Conds(h, OwnNodes(h, lg, a)) = v.guards \union LevelOf(v.at)
    BY <1>5 DEF GuardStands
  <2>2. OwnNodes(h, lg, a) = Reached(h, a)
    BY <2>1 DEF OwnNodes
  <2>3. conds = v.guards \union LevelOf(v.at)
    BY <1>1, <2>1, <2>2
  <2>4. \A c \in LevelOf(v.at) : c[1] = "level"
    BY DEF LevelOf, Level
  <2>5. {c \in conds : c[1] = "level"} = LevelOf(v.at)
    BY <1>3, <2>3, <2>4
  <2>6. {c \in conds : c[1] # "level"} = v.guards
    BY <1>3, <2>3, <2>4
  <2>7. {c \in conds : c[1] = "edge"} = {c \in v.guards : c[1] = "edge"}
    BY <1>3, <2>3, <2>4
  <2>8. ~(v.at \in DOMAIN lg /\ lg[v.at] \in Reached(h, a))
    <3> SUFFICES ASSUME v.at \in DOMAIN lg, lg[v.at] \in Reached(h, a) PROVE FALSE
      OBVIOUS
    <3>1. lg[v.at] \in Reached(h, lg[v.at])
      BY <1>2
    <3>2. lg[v.at] \in Shared(h, lg)
      BY <3>1 DEF Shared
    <3> QED
      BY <2>1, <3>2
  <2> QED
    BY <1>5, <2>3, <2>5, <2>6, <2>7, <2>8 DEF ReadOff
<1> QED
  BY <1>4, <1>5, <1>2 DEF GuardStands, ReadOff

\* What a transition stands for is what is read off its lists.
LEMMA StandsRead ==
  ASSUME Lists(ha.heap), Guarded(feature, ha.heap, levelGuard),
         NEW t, NEW v, Stands(feature, ha, levelGuard, t, v)
  PROVE  /\ Abstract(t) = v
         /\ OnOriginal(t) <=> OnEdgeOf(v)
         /\ OnEdgeOf(v) => EdgeOf(t) = v.edge
<1> DEFINE conds == Contents(ha.heap, t.when)
           at == IF \E c \in Range(conds) : c[1] = "level"
                 THEN (CHOOSE c \in Range(conds) : c[1] = "level")[2] ELSE -1
           edge == IF \E c \in Range(conds) : c[1] = "edge"
                   THEN (CHOOSE c \in Range(conds) : c[1] = "edge")[2] ELSE None
           shared == at \in DOMAIN levelGuard /\ levelGuard[at] \in Reached(ha.heap, t.when)
           ahead == IF shared THEN SubSeq(conds, 1, Len(conds) - Len(Contents(ha.heap, levelGuard[at])))
                    ELSE conds
           guards == {c \in Range(ahead) : c[1] # "level"}
           next == LastReset(t.reset, "level")
           goes == IF next \in {None, Of("level")} THEN at ELSE next[2]
           zeroes == LastReset(t.reset, "time") = Number(0)
<1>1. Abstract(t) =
        [from |-> ha.locs[t.from].name, to |-> t.goto, edge |-> edge, at |-> at, goes |-> goes,
         guards |-> guards, shared |-> shared, sets |-> Storing(t.reset), zeroes |-> zeroes]
  BY DEF Abstract
<1>2. /\ IsProduct(v) /\ EdgeSays(v) /\ v.from = ha.locs[t.from].name /\ v.to = t.goto
      /\ GuardStands(ha.heap, levelGuard, t.when, v)
      /\ Moves(t.reset, v) /\ v.sets = Storing(t.reset)
  BY DEF Stands, StoredIn, Storing, StoresAt
<1>3. PICK S : S = Range(conds)
  OBVIOUS
<1>4. /\ {c \in S : c[1] = "level"} = LevelOf(v.at)
      /\ v.at \in DOMAIN levelGuard /\ levelGuard[v.at] \in Reached(ha.heap, t.when) <=> v.shared
      /\ {c \in S : c[1] = "edge"} = {c \in v.guards : c[1] = "edge"}
      /\ ~v.shared => {c \in S : c[1] # "level"} = v.guards
      /\ v.shared => /\ levelGuard[v.at] \in 1 .. Len(ha.heap)
                     /\ Conds(ha.heap, Reached(ha.heap, t.when) \ Reached(ha.heap, levelGuard[v.at])) = v.guards
  <2>1. ReadOff(ha.heap, levelGuard, t.when, v, S)
    BY <1>2, <1>3, GuardRead
  <2> QED
    BY <2>1 DEF ReadOff
<1>5. t.when \in 0 .. Len(ha.heap) /\ v.shared \in BOOLEAN /\ \A c \in v.guards : c[1] # "level"
  BY <1>2 DEF GuardStands
<1>6. at = v.at
  <2>1. CASE v.at = -1
    <3>1. ~\E c \in S : c[1] = "level"
      BY <1>4, <2>1 DEF LevelOf
    <3> QED
      BY <1>3, <2>1, <3>1
  <2>2. CASE v.at # -1
    <3>1. {c \in S : c[1] = "level"} = {Level(v.at)}
      BY <1>4, <2>2 DEF LevelOf
    <3>2. (\E c \in S : c[1] = "level") /\ (CHOOSE c \in S : c[1] = "level") = Level(v.at)
      BY <3>1
    <3>3. Level(v.at)[2] = v.at
      BY DEF Level
    <3> QED
      BY <1>3, <3>2, <3>3
  <2> QED
    BY <2>1, <2>2
<1>7. edge = v.edge /\ (OnOriginal(t) <=> OnEdgeOf(v)) /\ (OnEdgeOf(v) => EdgeOf(t) = v.edge)
  <2>1. CASE v.edge = None /\ \A c \in v.guards : c[1] # "edge"
    <3>1. ~(\E c \in S : c[1] = "edge") /\ ~OnEdgeOf(v)
      BY <1>4, <2>1 DEF OnEdgeOf
    <3> QED
      BY <1>3, <2>1, <3>1 DEF OnOriginal
  <2>2. CASE {c \in v.guards : c[1] = "edge"} = {<<"edge", v.edge>>}
    <3>1. PICK p : p = <<"edge", v.edge>>
      OBVIOUS
    <3>2. {c \in S : c[1] = "edge"} = {p} /\ p[2] = v.edge
      BY <1>4, <2>2, <3>1
    <3>3. (\E c \in S : c[1] = "edge") /\ (CHOOSE c \in S : c[1] = "edge") = p
      BY <3>2
    <3>4. OnEdgeOf(v)
      BY <2>2 DEF OnEdgeOf
    <3> QED
      BY <1>3, <3>2, <3>3, <3>4 DEF OnOriginal, EdgeOf
  <2> QED
    BY <1>2, <2>1, <2>2 DEF EdgeSays
<1>8. shared = v.shared
  <2>1. shared \in BOOLEAN
    OBVIOUS
  <2> QED
    BY <1>4, <1>5, <1>6
<1>9. guards = v.guards
  <2>1. CASE v.shared
    <3>1. PICK g : g = levelGuard[v.at]
      OBVIOUS
    <3>2. ahead = SubSeq(conds, 1, Len(conds) - Len(Contents(ha.heap, g)))
      BY <1>6, <1>8, <2>1, <3>1
    <3>3. g \in 1 .. Len(ha.heap) /\ g \in Reached(ha.heap, t.when)
      BY <1>4, <2>1, <3>1
    <3>4. Range(ahead) = Conds(ha.heap, Reached(ha.heap, t.when) \ Reached(ha.heap, g))
      BY <1>5, <3>2, <3>3, AheadRead
    <3>5. Range(ahead) = v.guards
      BY <1>4, <2>1, <3>1, <3>4
    <3> QED
      BY <1>5, <3>5
  <2>2. CASE ~v.shared
    <3>1. ahead = conds
      BY <1>8, <2>2
    <3> QED
      BY <1>3, <1>4, <2>2, <3>1
  <2> QED
    BY <1>5, <2>1, <2>2
<1>10. goes = v.goes /\ zeroes = v.zeroes
  BY <1>2, <1>6 DEF Moves
<1> HIDE DEF at, edge, shared, guards, goes, zeroes
<1>11. Abstract(t) = v
  <2>1. PICK from, to, sets : from = ha.locs[t.from].name /\ to = t.goto /\ sets = Storing(t.reset)
    OBVIOUS
  <2>2. Abstract(t) = [from |-> from, to |-> to, edge |-> edge, at |-> at, goes |-> goes,
         guards |-> guards, shared |-> shared, sets |-> sets, zeroes |-> zeroes]
    BY <1>1, <2>1
  <2>3. from = v.from /\ to = v.to /\ sets = v.sets
    BY <1>2, <2>1
  <2> QED
    BY <1>2, <1>6, <1>7, <1>8, <1>9, <1>10, <2>2, <2>3 DEF IsProduct
<1> QED
  BY <1>7, <1>11

\* Whatever is told of the resets of a transition: see Once.
ExpectedIn(fl, f, onEdge, match, e, x) ==
  LET mistaken == IF onEdge THEN Mistaken(e) ELSE None
      again == IF onEdge THEN 1 ELSE 0
  IN IF x \in Range(fl.signature)
     THEN IF onEdge THEN Count(Resets[e], x) - IF match /\ x = mistaken THEN 1 ELSE 0 ELSE 1
     ELSE IF ~match THEN 1
     ELSE CASE x = "level"     -> IF mistaken = None THEN 1 ELSE 2
            [] x = "localTime" -> IF IsTemporal(f) THEN 2 ELSE 1
            [] x = "time"      -> IF IsTemporal(f) THEN 1 + again ELSE again
            [] OTHER           -> 1

OnceIn(fl, f, r, onEdge, match, e, final) ==
  /\ match <=> LastReset(r, "level") # Of("level")
  /\ \A x \in Range(fl.signature) \union Range(Added(f)) :
       Count(r, x) = ExpectedIn(fl, f, onEdge, match, e, x)
  /\ \A x \in Range(fl.signature) :
       \/ LastReset(r, x) = IF onEdge THEN LastReset(Resets[e], x) ELSE Of(x)
       \/ x \in TimeLike /\ final /\ LastReset(r, x) = Number(0)
       \/ match /\ onEdge /\ x = Mistaken(e)

\* Resetting each name once is the same said of this file and this feature.
LEMMA OnceHere ==
  ASSUME NEW r, NEW onEdge, NEW match, NEW e, NEW final
  PROVE  Once(r, onEdge, match, e, final) <=> OnceIn(file, feature, r, onEdge, match, e, final)
BY DEF Once, OnceIn, ExpectedOf, ExpectedIn

-------------------------------------------------------------------------------
\* Transitions are added that stand for transitions of the product

\* Made by levelSequence: at a level, and its resets are as ResetOnce says.
Done(fl, f, t, v) ==
  \E match \in BOOLEAN :
    /\ match => Len(v.to) # 4
    /\ OnceIn(fl, f, t.reset, OnEdgeOf(v) /\ Len(v.to) # 4, match, v.edge, v.to = Final)

Made(fl, f, b, lg, t, v) == Stands(f, b, lg, t, v) /\ v.at \in DOMAIN lg /\ Done(fl, f, t, v)

\* From b to c the transitions of V are added, and C behind the guard of level i.
Adds(fl, f, b, c, lg, V, i, C) ==
  /\ Widens(f, b.heap, c.heap, lg, i, C)
  /\ \A n \in Len(b.trans) + 1 .. Len(c.trans) :
       ~c.trans[n].original /\ \E v \in V : Made(fl, f, c, lg, c.trans[n], v)
  /\ \A v \in V : \E n \in Len(b.trans) + 1 .. Len(c.trans) : Made(fl, f, c, lg, c.trans[n], v)

\* A heap widens itself by nothing.
LEMMA WidensItself ==
  ASSUME NEW f, NEW h, NEW lg, Guarded(f, h, lg), NEW i
  PROVE  Widens(f, h, h, lg, i, {})
BY DEF Widens

\* Two heaps that each widen the one before widen it together by the conditions of both.
LEMMA WidensFurther ==
  ASSUME NEW f, NEW h, NEW g, NEW m, NEW lg, NEW i, NEW C, NEW D,
         Widens(f, h, g, lg, i, C), Widens(f, g, m, lg, i, D)
  PROVE  Widens(f, h, m, lg, i, C \union D)
<1>1. \A a, v : GuardStands(h, lg, a, v) => GuardStands(m, lg, a, v)
  BY DEF Widens
<1>2. ASSUME NEW j \in DOMAIN lg
      PROVE  TailOf(m, lg, j) = TailOf(h, lg, j) \union IF j = i THEN C \union D ELSE {}
  <2>1. /\ TailOf(g, lg, j) = TailOf(h, lg, j) \union IF j = i THEN C ELSE {}
        /\ TailOf(m, lg, j) = TailOf(g, lg, j) \union IF j = i THEN D ELSE {}
    BY DEF Widens
  <2> QED
    BY <2>1
<1> QED
  BY <1>1, <1>2 DEF Widens

\* What stands goes on standing.
LEMMA StandsKept ==
  ASSUME NEW f, NEW b, NEW c, NEW lg, Continues(b, c), NEW i, NEW C, Widens(f, b.heap, c.heap, lg, i, C),
         NEW t, t.from \in 1 .. Len(b.locs), NEW v, Stands(f, b, lg, t, v)
  PROVE  Stands(f, c, lg, t, v)
<1>1. c.locs[t.from] = b.locs[t.from]
  BY DEF Continues
<1>2. GuardStands(c.heap, lg, t.when, v)
  BY DEF Widens, Stands
<1> QED
  BY <1>1, <1>2 DEF Stands

\* An automaton with the same transitions adds none.
LEMMA AddsNothing ==
  ASSUME NEW fl, NEW f, NEW b, NEW lg, Good(b, lg), NEW c, c.trans = b.trans, NEW i, NEW C,
         Widens(f, b.heap, c.heap, lg, i, C)
  PROVE  Adds(fl, f, b, c, lg, {}, i, C)
<1>1. Len(b.trans) \in Nat
  BY Sizes
<1>2. Len(b.trans) + 1 .. Len(c.trans) = {}
  BY <1>1
<1> QED
  BY <1>2 DEF Adds

\* An automaton with one more transition at the end, made for v, adds v.
LEMMA AddsOne ==
  ASSUME NEW fl, NEW f, NEW b, NEW lg, Good(b, lg), NEW t, ~t.original, NEW c, NEW i, NEW C,
         Len(c.trans) = Len(b.trans) + 1, c.trans[Len(b.trans) + 1] = t,
         Widens(f, b.heap, c.heap, lg, i, C),
         NEW v, Made(fl, f, c, lg, t, v)
  PROVE  Adds(fl, f, b, c, lg, {v}, i, C)
<1>1. Len(b.trans) \in Nat
  BY Sizes
<1>2. Len(b.trans) + 1 .. Len(c.trans) = {Len(b.trans) + 1}
  BY <1>1
<1> QED
  BY <1>2 DEF Adds

\* What two changes of the automaton add, they add together.
LEMMA AddsFurther ==
  ASSUME NEW fl, NEW f, NEW b, NEW lg, Good(b, lg), NEW c, Good(c, lg), NEW d, Good(d, lg),
         Continues(b, c), Continues(c, d), NEW V, NEW W, NEW i, NEW C, NEW D,
         Adds(fl, f, b, c, lg, V, i, C), Adds(fl, f, c, d, lg, W, i, D)
  PROVE  Adds(fl, f, b, d, lg, V \union W, i, C \union D)
<1>1. Widens(f, b.heap, d.heap, lg, i, C \union D) /\ Widens(f, c.heap, d.heap, lg, i, D)
  <2>1. Widens(f, b.heap, c.heap, lg, i, C)
    BY DEF Adds
  <2>2. Widens(f, c.heap, d.heap, lg, i, D)
    BY DEF Adds
  <2> QED
    BY <2>1, <2>2, WidensFurther
<1>2. /\ Len(b.trans) \in Nat /\ Len(c.trans) \in Nat /\ Len(d.trans) \in Nat
      /\ Len(b.trans) <= Len(c.trans) /\ Len(c.trans) <= Len(d.trans)
      /\ \A n \in 1 .. Len(c.trans) : d.trans[n] = c.trans[n] /\ c.trans[n].from \in 1 .. Len(c.locs)
  <2>1. Len(b.trans) \in Nat
    BY Sizes
  <2>2. Len(c.trans) \in Nat
    BY Sizes
  <2>3. Len(d.trans) \in Nat
    BY Sizes
  <2>4. \A n \in 1 .. Len(c.trans) : c.trans[n].from \in 1 .. Len(c.locs)
    BY DEF Good, Shaped, IsTransition
  <2> QED
    BY <2>1, <2>2, <2>3, <2>4 DEF Continues
<1>3. ASSUME NEW n \in 1 .. Len(c.trans), NEW v, Made(fl, f, c, lg, c.trans[n], v)
      PROVE  Made(fl, f, d, lg, d.trans[n], v)
  <2>1. Stands(f, c, lg, c.trans[n], v)
    BY <1>3 DEF Made
  <2>2. Stands(f, d, lg, c.trans[n], v)
    BY <1>1, <1>2, <2>1, StandsKept
  <2> QED
    BY <1>2, <1>3, <2>2 DEF Made
<1>4. ASSUME NEW n \in Len(b.trans) + 1 .. Len(d.trans)
      PROVE  ~d.trans[n].original /\ \E v \in V \union W : Made(fl, f, d, lg, d.trans[n], v)
  <2>1. CASE n <= Len(c.trans)
    <3>1. n \in Len(b.trans) + 1 .. Len(c.trans) /\ n \in 1 .. Len(c.trans)
      BY <1>2, <2>1
    <3>2. ~c.trans[n].original /\ \E v \in V : Made(fl, f, c, lg, c.trans[n], v)
      BY <3>1 DEF Adds
    <3> QED
      BY <1>2, <1>3, <3>1, <3>2
  <2>2. CASE ~(n <= Len(c.trans))
    <3>1. n \in Len(c.trans) + 1 .. Len(d.trans)
      BY <1>2, <2>2
    <3> QED
      BY <3>1 DEF Adds
  <2> QED
    BY <2>1, <2>2
<1>5. ASSUME NEW v \in V \union W
      PROVE  \E n \in Len(b.trans) + 1 .. Len(d.trans) : Made(fl, f, d, lg, d.trans[n], v)
  <2>1. CASE v \in V
    <3>1. PICK n \in Len(b.trans) + 1 .. Len(c.trans) : Made(fl, f, c, lg, c.trans[n], v)
      BY <2>1 DEF Adds
    <3>2. n \in 1 .. Len(c.trans) /\ n \in Len(b.trans) + 1 .. Len(d.trans)
      BY <1>2
    <3> QED
      BY <1>3, <3>1, <3>2
  <2>2. CASE v \in W
    <3>1. PICK n \in Len(c.trans) + 1 .. Len(d.trans) : Made(fl, f, d, lg, d.trans[n], v)
      BY <2>2 DEF Adds
    <3>2. n \in Len(b.trans) + 1 .. Len(d.trans)
      BY <1>2
    <3> QED
      BY <3>1, <3>2
  <2> QED
    BY <2>1, <2>2
<1> QED
  BY <1>1, <1>4, <1>5 DEF Adds

\* A list made for a guard, with the level in it, stands for that guard ...
LEMMA CreatedStands ==
  ASSUME NEW f, NEW h, Lists(h), NEW lg, Guarded(f, h, lg), NEW i \in DOMAIN lg,
         NEW conds, IsSequence(conds), NEW g, g = Create(h, conds), NEW v, v.shared = FALSE,
         \A c \in v.guards : c[1] # "level", Range(conds) = v.guards \union LevelOf(v.at)
  PROVE  Widens(f, h, g, lg, i, {}) /\ GuardStands(g, lg, Fresh(h, conds), v)
<1>1. /\ Extends(h, g, lg, i, {}) /\ Fresh(h, conds) \in 0 .. Len(g)
      /\ Reached(g, Fresh(h, conds)) = Len(h) + 1 .. Len(g)
      /\ Conds(g, Reached(g, Fresh(h, conds))) = Range(conds)
  BY CreateExtends
<1>2. Widens(f, h, g, lg, i, {})
  BY <1>1, ExtendsWidens
<1>3. /\ Len(h) \in Nat /\ Len(conds) \in Nat /\ Len(g) = Len(h) + Len(conds)
      /\ \A a \in 0 .. Len(h) : Reached(g, a) = Reached(h, a) /\ Reached(h, a) \subseteq 1 .. Len(h)
      /\ \A j \in DOMAIN lg : lg[j] \in 0 .. Len(h)
  <2>1. Len(g) = Len(h) + Len(conds) /\ \A a \in 0 .. Len(h) : Reached(g, a) = Reached(h, a)
    BY CreatedConds, CreatedNodes
  <2>2. Len(h) \in Nat /\ Len(conds) \in Nat
    BY HeapFacts, SequenceFacts
  <2>3. \A a \in 0 .. Len(h) : Reached(h, a) \subseteq 1 .. Len(h)
    BY ReachedUnfold
  <2>4. \A j \in DOMAIN lg : lg[j] \in 1 .. Len(h)
    BY DEF Guarded
  <2> QED
    BY <2>1, <2>2, <2>3, <2>4
<1>4. Reached(g, Fresh(h, conds)) \intersect Shared(g, lg) = {}
  <2>1. Shared(g, lg) \subseteq 1 .. Len(h)
    BY <1>3 DEF Shared
  <2>2. (Len(h) + 1 .. Len(g)) \intersect (1 .. Len(h)) = {}
    BY <1>3
  <2> QED
    BY <1>1, <2>1, <2>2
<1>5. OwnNodes(g, lg, Fresh(h, conds)) = Reached(g, Fresh(h, conds))
  BY <1>4 DEF OwnNodes
<1> QED
  BY <1>1, <1>2, <1>4, <1>5 DEF GuardStands

\* ... as does one that ends in the guard of its level ...
LEMMA SharingStands ==
  ASSUME NEW f, NEW h, Lists(h), NEW lg, Guarded(f, h, lg), NEW i \in DOMAIN lg,
         NEW guard, guard = lg[i],
         NEW conds, IsSequence(conds), NEW root, root = Fresh(h, conds),
         NEW g, g = Link(Create(h, conds), root, guard),
         NEW u, u = Linked(root, guard), NEW v, v.shared = TRUE, v.at = i,
         \A c \in v.guards : c[1] # "level", Range(conds) = v.guards
  PROVE  Widens(f, h, g, lg, i, {}) /\ GuardStands(g, lg, u, v)
<1>0. guard \in 1 .. Len(h)
  BY DEF Guarded
<1>1. /\ Extends(h, g, lg, i, {}) /\ u \in 0 .. Len(g)
      /\ Len(g) = Len(h) + Len(conds)
      /\ \A a \in 0 .. Len(h) : Reached(g, a) = Reached(h, a)
      /\ Reached(g, u) = (Len(h) + 1 .. Len(g)) \union Reached(h, guard)
      /\ Conds(g, Len(h) + 1 .. Len(g)) = Range(conds)
  <2>1. IsShare(h, conds, guard, g, u)
    BY <1>0 DEF IsShare
  <2>2. Shares(h, conds, guard, g, u, lg, i)
    BY <2>1, SharingExtends
  <2> QED
    BY <2>2 DEF Shares
<1>2. Widens(f, h, g, lg, i, {})
  BY <1>1, ExtendsWidens
<1>3. /\ Len(h) \in Nat /\ Len(conds) \in Nat
      /\ \A a \in 0 .. Len(h) : Reached(g, a) = Reached(h, a) /\ Reached(h, a) \subseteq 1 .. Len(h)
      /\ \A j \in DOMAIN lg : lg[j] \in 0 .. Len(h)
  <2>1. \A a \in 0 .. Len(h) : Reached(g, a) = Reached(h, a)
    BY <1>1
  <2>2. Len(h) \in Nat /\ Len(conds) \in Nat
    BY HeapFacts, SequenceFacts
  <2>3. \A a \in 0 .. Len(h) : Reached(h, a) \subseteq 1 .. Len(h)
    BY ReachedUnfold
  <2>4. \A j \in DOMAIN lg : lg[j] \in 1 .. Len(h)
    BY DEF Guarded
  <2> QED
    BY <2>1, <2>2, <2>3, <2>4
<1>4. Reached(h, guard) = Reached(g, guard) /\ Reached(g, guard) \subseteq Shared(g, lg)
  BY <1>3 DEF Shared
<1>5. (Len(h) + 1 .. Len(g)) \intersect Shared(g, lg) = {}
  <2>1. Shared(g, lg) \subseteq 1 .. Len(h)
    BY <1>3 DEF Shared
  <2>2. (Len(h) + 1 .. Len(g)) \intersect (1 .. Len(h)) = {}
    BY <1>3
  <2> QED
    BY <2>1, <2>2
<1> DEFINE new == Len(h) + 1 .. Len(g)
<1>6. Reached(g, u) = new \union Reached(g, guard) /\ new \intersect Shared(g, lg) = {}
  BY <1>1, <1>4, <1>5
<1>7. Conds(g, new) = Range(conds)
  BY <1>1
<1> HIDE DEF new
<1>8. Reached(g, u) \intersect Shared(g, lg) = Reached(g, guard) /\ OwnNodes(g, lg, u) = new
  BY <1>4, <1>6 DEF OwnNodes
<1> QED
  BY <1>1, <1>2, <1>7, <1>8 DEF GuardStands

\* ... and as does the guard of a transition that waits.
LEMMA WaitingStands ==
  ASSUME NEW f, NEW h, Lists(h), NEW lg, Guarded(f, h, lg), NEW i \in DOMAIN lg,
         NEW guard, guard = lg[i],
         NEW conds, IsSequence(conds), NEW guards, IsSequence(guards),
         \A c \in Range(guards) : c[1] = "pred", f[i + 1].dnf = << >> => Range(guards) = {},
         NEW v, v.shared = TRUE, v.at = i, \A c \in v.guards : c[1] # "level", Range(conds) = v.guards,
         NEW linked, linked = Link(Create(h, conds), Fresh(h, conds), guard),
         NEW u, u = Linked(Fresh(h, conds), guard),
         NEW g, g = Link(Create(linked, guards), u, Fresh(linked, guards))
  PROVE  Widens(f, h, g, lg, i, Range(guards)) /\ GuardStands(g, lg, u, v)
<1>0. \A j \in DOMAIN lg : lg[j] \in 1 .. Len(h)
  BY DEF Guarded
<1>1. /\ Extends(h, g, lg, i, Range(guards)) /\ u \in 1 .. Len(g)
      /\ \E own \in SUBSET (Len(h) + 1 .. Len(g)) :
           /\ Reached(g, u) = own \union Reached(g, guard)
           /\ own \intersect Shared(g, lg) = {} /\ Conds(g, own) = Range(conds)
  BY <1>0, WaitingExtends
<1>2. Widens(f, h, g, lg, i, Range(guards))
  BY <1>1, ExtendsWidens
<1>3. PICK own \in SUBSET (Len(h) + 1 .. Len(g)) :
        /\ Reached(g, u) = own \union Reached(g, guard)
        /\ own \intersect Shared(g, lg) = {} /\ Conds(g, own) = Range(conds)
  BY <1>1
<1>4. Reached(g, guard) \subseteq Shared(g, lg)
  BY DEF Shared
<1>5. Reached(g, u) \intersect Shared(g, lg) = Reached(g, guard) /\ OwnNodes(g, lg, u) = own
  BY <1>3, <1>4 DEF OwnNodes
<1>6. u \in 0 .. Len(g)
  BY <1>1
<1> QED
  BY <1>2, <1>3, <1>5, <1>6 DEF GuardStands

-------------------------------------------------------------------------------
\* The transitions of a match

\* The match before its assignments, and what the hops of a chain stand for.
IsBare(b, lg, t, w) ==
  /\ IsProduct(w) /\ EdgeSays(w) /\ w.sets = << >> /\ w.at \in DOMAIN lg
  /\ w.from = b.locs[t.from].name /\ w.to = t.goto /\ Len(w.to) # 4
  /\ GuardStands(b.heap, lg, t.when, w)
  /\ \E match \in BOOLEAN : Bare(t.reset, w, OnEdgeOf(w), match, w.edge, w.to = Final)

HopOf(w, place, name, y, behind) ==
  [from |-> place, to |-> name, edge |-> w.edge, at |-> w.at, goes |-> w.at,
   guards |-> w.guards \union IF w.shared THEN behind ELSE {}, shared |-> FALSE,
   sets |-> <<y>>, zeroes |-> FALSE]

LastOf(w, place, y) ==
  [from |-> place, to |-> w.to, edge |-> w.edge, at |-> w.at, goes |-> w.goes,
   guards |-> w.guards, shared |-> w.shared, sets |-> <<y>>, zeroes |-> w.zeroes]

\* Without assignments the match is made as it is.
LEMMA BareMade ==
  ASSUME feature \in Features, file \in Files, NEW b, NEW lg, NEW t, NEW w, IsBare(b, lg, t, w)
  PROVE  Made(file, feature, b, lg, t, w)
<1>1. PICK onEdge : onEdge = OnEdgeOf(w)
  OBVIOUS
<1>2. PICK final : final = (w.to = Final)
  OBVIOUS
<1>3. PICK match \in BOOLEAN : Bare(t.reset, w, onEdge, match, w.edge, final)
  BY <1>1, <1>2 DEF IsBare
<1>4. w.sets = << >> /\ Len(w.to) # 4
  BY DEF IsBare
<1>5. Effects(t.reset, w) /\ Once(t.reset, onEdge, match, w.edge, final)
  BY <1>3, <1>4, BareEffects
<1>6. OnceIn(file, feature, t.reset, onEdge, match, w.edge, final)
  BY <1>5, OnceHere
<1>7. onEdge = (OnEdgeOf(w) /\ Len(w.to) # 4)
  BY <1>1, <1>4 DEF OnEdgeOf
<1>8. Done(file, feature, t, w)
  BY <1>2, <1>4, <1>6, <1>7 DEF Done
<1>9. w.sets = StoredIn(feature, t.reset)
  BY <1>5 DEF Effects, StoredIn, Storing, StoresAt
<1> QED
  BY <1>5, <1>8, <1>9 DEF IsBare, Effects, Stands, Made

\* The last assignment is made by the match itself, from where the chain has come.
LEMMA LastMade ==
  ASSUME feature \in Features, file \in Files, NEW b, NEW lg, NEW t, NEW w, IsBare(b, lg, t, w),
         NEW y \in Storable, NEW d, d.heap = b.heap,
         NEW place, NEW u, d.locs[u.from].name = place, u.goto = t.goto,
         u.when = t.when, u.reset = Reset(t.reset, y, Holding(y)), NEW v, v = LastOf(w, place, y)
  PROVE  Made(file, feature, d, lg, u, v)
<1>1. PICK onEdge : onEdge = OnEdgeOf(w)
  OBVIOUS
<1>2. PICK final : final = (w.to = Final)
  OBVIOUS
<1>3. PICK match \in BOOLEAN : Bare(t.reset, w, onEdge, match, w.edge, final)
  BY <1>1, <1>2 DEF IsBare
<1>4. /\ v.from = place /\ v.to = w.to /\ v.edge = w.edge /\ v.at = w.at /\ v.goes = w.goes
      /\ v.guards = w.guards /\ v.shared = w.shared /\ v.sets = <<y>> /\ v.zeroes = w.zeroes
      /\ IsProduct(v)
  BY DEF LastOf, IsProduct
<1>5. /\ Effects(Reset(t.reset, y, Holding(y)), v)
      /\ Once(Reset(t.reset, y, Holding(y)), onEdge, match, w.edge, final)
  BY <1>3, <1>4, StoredBare
<1>6. PICK r : r = u.reset
  OBVIOUS
<1>7. OnceIn(file, feature, r, onEdge, match, v.edge, final)
  <2>1. Once(r, onEdge, match, v.edge, final)
    BY <1>4, <1>5, <1>6
  <2> QED
    BY <2>1, OnceHere
<1>8. onEdge = (OnEdgeOf(v) /\ Len(v.to) # 4) /\ final = (v.to = Final) /\ Len(v.to) # 4
  BY <1>1, <1>2, <1>4 DEF OnEdgeOf, IsBare
<1>9. Done(file, feature, u, v)
  BY <1>6, <1>7, <1>8 DEF Done
<1>10. Effects(r, v) /\ v.sets = StoredIn(feature, r)
  BY <1>5, <1>6 DEF Effects, StoredIn, Storing, StoresAt
<1>11. EdgeSays(v)
  BY <1>4 DEF EdgeSays, IsBare
<1>12. GuardStands(d.heap, lg, u.when, v)
  BY <1>4 DEF GuardStands, IsBare
<1>13. v.from = d.locs[u.from].name /\ v.to = u.goto /\ v.at \in DOMAIN lg
  BY <1>4 DEF IsBare
<1> QED
  BY <1>4, <1>6, <1>9, <1>10, <1>11, <1>12, <1>13 DEF Effects, Stands, Made

\* A hop has a copy of the guard and keeps all but what it stores.
LEMMA HopMade ==
  ASSUME feature \in Features, file \in Files, NEW b, NEW lg, NEW t, NEW w, IsBare(b, lg, t, w),
         Lists(b.heap), Guarded(feature, b.heap, lg),
         NEW y \in Storable, NEW place, NEW name, NEW m, NEW i, NEW nr, NEW k, name = PauseName(m, i, nr, k),
         NEW d, d.heap = Create(b.heap, Contents(b.heap, t.when)),
         NEW u, d.locs[u.from].name = place, u.goto = name,
         u.when = Fresh(b.heap, Contents(b.heap, t.when)),
         u.reset = Reset(Identities(AllNames), y, Holding(y)),
         NEW behind, behind = TailOf(b.heap, lg, w.at), NEW v, v = HopOf(w, place, name, y, behind)
  PROVE  Made(file, feature, d, lg, u, v) /\ Widens(feature, b.heap, d.heap, lg, w.at, {})
<1>0. PICK h : h = b.heap
  OBVIOUS
<1>1. Lists(h) /\ Guarded(feature, h, lg) /\ GuardStands(h, lg, t.when, w) /\ w.at \in DOMAIN lg
  BY <1>0 DEF IsBare
<1>2. /\ v.from = place /\ v.to = name /\ v.edge = w.edge /\ v.at = w.at /\ v.goes = v.at
      /\ v.guards = w.guards \union IF w.shared THEN behind ELSE {}
      /\ v.shared = FALSE /\ v.sets = <<y>> /\ v.zeroes = FALSE /\ IsProduct(v)
  BY DEF HopOf, IsProduct
<1>3. PICK conds : conds = Contents(h, t.when)
  OBVIOUS
<1>4. IsSequence(conds)
  <2>1. t.when \in 0 .. Len(h)
    BY <1>1 DEF GuardStands
  <2> QED
    BY <1>1, <1>3, <2>1, ContentsRead
<1>5. PICK S : S = Range(conds)
  OBVIOUS
<1>6. ReadOff(h, lg, t.when, w, S)
  BY <1>1, <1>3, <1>5, GuardRead
<1>7. S = v.guards \union LevelOf(v.at)
  BY <1>0, <1>2, <1>6 DEF ReadOff
<1>8. /\ \A c \in behind : c[1] = "pred"
      /\ \A c \in v.guards : c[1] # "level"
      /\ {c \in v.guards : c[1] = "edge"} = {c \in w.guards : c[1] = "edge"}
  <2>1. \A c \in behind : c[1] = "pred"
    BY <1>0, <1>1 DEF Guarded
  <2>2. \A c \in w.guards : c[1] # "level"
    BY <1>1 DEF GuardStands
  <2>3. \A c \in v.guards : c \in w.guards \/ c[1] = "pred"
    BY <1>2, <2>1
  <2>4. w.guards \subseteq v.guards
    BY <1>2
  <2> QED
    BY <2>1, <2>2, <2>3, <2>4
<1>9. PICK g : g = Create(h, conds)
  OBVIOUS
<1>10. Widens(feature, h, g, lg, w.at, {}) /\ GuardStands(g, lg, Fresh(h, conds), v)
  BY <1>1, <1>2, <1>4, <1>5, <1>7, <1>8, <1>9, CreatedStands
<1>11. EdgeSays(v)
  <2>1. EdgeSays(w)
    BY DEF IsBare
  <2>2. CASE w.edge = None /\ \A c \in w.guards : c[1] # "edge"
    <3>1. \A c \in v.guards : c[1] # "edge"
      BY <1>8, <2>2
    <3> QED
      BY <1>2, <2>2, <3>1 DEF EdgeSays
  <2>3. CASE {c \in w.guards : c[1] = "edge"} = {<<"edge", w.edge>>}
    <3>1. {c \in v.guards : c[1] = "edge"} = {<<"edge", v.edge>>}
      BY <1>2, <1>8, <2>3
    <3> QED
      BY <3>1 DEF EdgeSays
  <2> QED
    BY <2>1, <2>2, <2>3 DEF EdgeSays
<1>12. PICK r : r = Identities(AllNames)
  OBVIOUS
<1>13. PICK x : x = v
  OBVIOUS
<1>14. PICK onEdge, match, final : onEdge = FALSE /\ match = FALSE /\ final = (v.to = Final)
  OBVIOUS
<1>15. Bare(r, x, onEdge, match, v.edge, final)
  <2>1. r = Identities(file.signature \o Added(feature))
    BY <1>12 DEF AllNames
  <2>2. Bare(r, x, FALSE, FALSE, v.edge, final)
    BY <1>2, <1>13, <2>1, HopBare
  <2> QED
    BY <1>14, <2>2
<1>16. /\ Effects(Reset(r, y, Holding(y)), v)
       /\ Once(Reset(r, y, Holding(y)), onEdge, match, v.edge, final)
  <2>1. v.goes = x.goes /\ v.at = x.at /\ v.zeroes = x.zeroes /\ v.sets = <<y>>
    BY <1>2, <1>13
  <2> QED
    BY <1>15, <2>1, StoredBare
<1>17. PICK q : q = u.reset
  OBVIOUS
<1>18. Effects(q, v) /\ Once(q, onEdge, match, v.edge, final)
  BY <1>12, <1>16, <1>17
<1>19. OnceIn(file, feature, q, onEdge, match, v.edge, final)
  BY <1>18, OnceHere
<1>20. onEdge = (OnEdgeOf(v) /\ Len(v.to) # 4) /\ match \in BOOLEAN
  <2>1. Len(v.to) = 4
    BY <1>2 DEF PauseName
  <2> QED
    BY <1>14, <2>1
<1>21. Done(file, feature, u, v)
  BY <1>14, <1>17, <1>19, <1>20 DEF Done
<1>22. v.sets = StoredIn(feature, u.reset) /\ IsSequence(u.reset) /\ Moves(u.reset, v)
  BY <1>17, <1>18 DEF Effects, StoredIn, Storing, StoresAt
<1>23. GuardStands(d.heap, lg, u.when, v)
  BY <1>0, <1>3, <1>9, <1>10
<1>24. Widens(feature, b.heap, d.heap, lg, w.at, {})
  BY <1>0, <1>3, <1>9, <1>10
<1> QED
  BY <1>1, <1>2, <1>11, <1>21, <1>22, <1>23, <1>24 DEF Stands, Made

IsAutomaton(b) ==
  b = [locs |-> b.locs, inits |-> b.inits, vars |-> b.vars, heap |-> b.heap, trans |-> b.trans]

\* A transition put at the end, whatever it is.
LEMMA TransitionPut ==
  ASSUME NEW b, IsAutomaton(b), IsSequence(b.trans), NEW t, NEW d, d = AddTransition(b, t)
  PROVE  /\ d.locs = b.locs /\ d.heap = b.heap
         /\ Len(d.trans) = Len(b.trans) + 1 /\ d.trans[Len(b.trans) + 1] = t
<1>1. d.locs = b.locs /\ d.heap = b.heap /\ d.trans = Append(b.trans, t)
  BY DEF AddTransition, IsAutomaton
<1> QED
  BY <1>1, Appended

\* Another heap changes nothing else of an automaton.
LEMMA HeapPut ==
  ASSUME NEW b, IsAutomaton(b), NEW g, NEW d, d = WithHeap(b, g)
  PROVE  IsAutomaton(d) /\ d.locs = b.locs /\ d.trans = b.trans /\ d.vars = b.vars /\ d.heap = g
BY DEF WithHeap, IsAutomaton

\* The place the k-th hop leaves from.
Leaves(t, w, nr, k) == IF k = 1 THEN w.from ELSE PauseName(t.from, id, nr, k - 1)

\* The transition that the k-th assignment adds.
Hopped(behind, t, w, nr, assigned, k) ==
  IF k < Len(assigned)
  THEN HopOf(w, Leaves(t, w, nr, k), PauseName(t.from, id, nr, k), assigned[k], behind)
  ELSE LastOf(w, Leaves(t, w, nr, k), assigned[k])

\* One hop of the code's loop over the stored assignments adds the hopped transition and
\* nothing else.
LEMMA HopAdds ==
  ASSUME feature \in Features, file \in Files, NEW b, NEW lg, Good(b, lg), NEW t, Pending(b, lg, t),
         Guarded(feature, b.heap, lg), b.vars = AllNames,
         NEW w, IsBare(b, lg, t, w), NEW behind, behind = TailOf(b.heap, lg, w.at), NEW nr,
         NEW assigned, IsSequence(assigned), NEW k \in 1 .. Len(assigned),
         assigned[k] \in Storable, NEW d, d = Hop(b, t, k, nr, assigned)
  PROVE  Adds(file, feature, b, d, lg, {Hopped(behind, t, w, nr, assigned, k)}, w.at, {})
<1> DEFINE name == PauseName(t.from, id, nr, k - 1)
           c == IF k = 1 THEN b ELSE AddLocation(b, name, b.locs[t.from].inv)
           from == IF k = 1 THEN t.from ELSE Len(c.locs)
           goto == PauseName(t.from, id, nr, k)
           reset == Reset(Identities(b.vars), assigned[k], Holding(assigned[k]))
           n == Len(assigned)
           hop == [Copied(b, t) EXCEPT !.goto = goto, !.original = FALSE, !.reset = reset]
           u == [t EXCEPT !.from = from, !.reset = Reset(@, assigned[n], Holding(assigned[n]))]
           place == Leaves(t, w, nr, k)
           v == Hopped(behind, t, w, nr, assigned, k)
<1>1. d = IF k < n THEN AddTransition(WithCopy(c, t), [hop EXCEPT !.from = from])
          ELSE AddTransition(c, u)
  BY DEF Hop
<1>2. /\ IsAutomaton(b) /\ IsSequence(b.trans) /\ Lists(b.heap)
      /\ t = [from |-> t.from, goto |-> t.goto, original |-> t.original, when |-> t.when,
              reset |-> t.reset]
      /\ ~t.original
  BY DEF Good, Shaped, Pending, IsTransition, IsAutomaton
<1>3. /\ IsAutomaton(c) /\ c.heap = b.heap /\ c.trans = b.trans /\ c.locs[from].name = place
  <2>1. CASE k = 1
    <3>1. c = b /\ from = t.from /\ place = w.from
      BY <2>1 DEF Leaves
    <3>2. w.from = b.locs[t.from].name
      BY DEF IsBare
    <3> HIDE DEF c, from, place
    <3> QED
      BY <1>2, <3>1, <3>2
  <2>2. CASE k # 1
    <3>1. PICK inv : inv = b.locs[t.from].inv
      OBVIOUS
    <3>2. c = AddLocation(b, name, inv) /\ from = Len(c.locs) /\ place = name
      BY <2>2, <3>1 DEF Leaves
    <3> HIDE DEF c, from, name, place
    <3>3. /\ Good(c, lg) /\ c.heap = b.heap /\ c.trans = b.trans
          /\ Len(c.locs) = Len(b.locs) + 1 /\ c.locs[Len(b.locs) + 1].name = name
      BY <3>2, LocationAdded
    <3> QED
      BY <3>2, <3>3 DEF Good, Shaped, IsAutomaton
  <2> QED
    BY <2>1, <2>2
<1>4. w.at \in DOMAIN lg
  BY DEF IsBare
<1>5. PICK y : y = assigned[k]
  OBVIOUS
<1>6. y \in Storable
  BY <1>5
<1>8. CASE k < n
  <2>1. v = HopOf(w, place, goto, y, behind)
    BY <1>5, <1>8 DEF Hopped
  <2>2. PICK x : x = [hop EXCEPT !.from = from]
    OBVIOUS
  <2>3. d = AddTransition(WithCopy(c, t), x)
    BY <1>1, <1>8, <2>2
  <2>4. IsHopRecord(x, b, t, from, goto, reset)
    BY <1>2, <2>2 DEF IsHopRecord
  <2>5. x = [from |-> from, goto |-> goto, original |-> FALSE,
             when |-> Fresh(b.heap, Contents(b.heap, t.when)), reset |-> reset]
    BY <2>4, HopRecord
  <2>6. reset = Reset(Identities(AllNames), y, Holding(y))
    BY <1>5
  <2> HIDE DEF c, from, reset, hop, u, place, v
  <2>7. /\ x.from = from /\ x.goto = goto /\ ~x.original
        /\ x.when = Fresh(b.heap, Contents(b.heap, t.when)) /\ x.reset = reset
    BY <2>5
  <2>8. PICK g : g = Create(b.heap, Contents(b.heap, t.when))
    OBVIOUS
  <2>9. PICK e : e = WithCopy(c, t)
    OBVIOUS
  <2>10. e = WithHeap(c, g)
    BY <1>3, <2>8, <2>9 DEF WithCopy, WithHeap, Duplicate
  <2>11. IsAutomaton(e) /\ e.locs = c.locs /\ e.trans = b.trans /\ e.heap = g
    BY <1>3, <2>10, HeapPut
  <2>12. /\ d.locs = c.locs /\ d.heap = g
         /\ Len(d.trans) = Len(b.trans) + 1 /\ d.trans[Len(b.trans) + 1] = x
    <3>1. d = AddTransition(e, x) /\ IsSequence(e.trans)
      BY <1>2, <2>3, <2>9, <2>11
    <3> QED
      BY <2>11, <3>1, TransitionPut
  <2>13. Made(file, feature, d, lg, x, v) /\ Widens(feature, b.heap, d.heap, lg, w.at, {})
    <3>1. d.heap = Create(b.heap, Contents(b.heap, t.when))
      BY <2>8, <2>12
    <3>2. /\ d.locs[x.from].name = place /\ x.goto = goto
          /\ x.when = Fresh(b.heap, Contents(b.heap, t.when))
          /\ x.reset = Reset(Identities(AllNames), y, Holding(y))
      BY <1>3, <2>6, <2>7, <2>12
    <3>3. PICK m, i, r, j : m = t.from /\ i = id /\ r = nr /\ j = k
      OBVIOUS
    <3>4. goto = PauseName(m, i, r, j)
      BY <3>3
    <3> HIDE DEF goto
    <3> QED
      BY <1>2, <1>6, <2>1, <3>1, <3>2, <3>4, HopMade
  <2>20. Adds(file, feature, b, d, lg, {v}, w.at, {})
    BY <2>7, <2>12, <2>13, AddsOne
  <2> QED
    BY <2>20 DEF v
<1>9. CASE ~(k < n)
  <2>0. k = n
    <3>1. n \in Nat
      BY SequenceFacts
    <3> QED
      BY <1>9, <3>1
  <2>1. v = LastOf(w, place, y)
    BY <1>5, <1>9 DEF Hopped
  <2>2. PICK x : x = u
    OBVIOUS
  <2>3. d = AddTransition(c, x)
    BY <1>1, <1>9, <2>2
  <2>4. PICK r : r = Reset(t.reset, y, Holding(y))
    OBVIOUS
  <2>5. x = [from |-> from, goto |-> t.goto, original |-> t.original, when |-> t.when, reset |-> r]
    <3>1. Reset(t.reset, assigned[n], Holding(assigned[n])) = r
      BY <1>5, <2>0, <2>4
    <3>2. u = [t EXCEPT !.from = from, !.reset = Reset(t.reset, assigned[n], Holding(assigned[n]))]
      BY <1>2
    <3>3. u = [[t EXCEPT !.from = from] EXCEPT !.reset = r]
      BY <3>1, <3>2
    <3>4. PICK o : o = [t EXCEPT !.from = from]
      OBVIOUS
    <3> HIDE DEF u, from
    <3>5. o = [from |-> from, goto |-> t.goto, original |-> t.original, when |-> t.when, reset |-> t.reset]
      BY <1>2, <3>4
    <3>6. x = [o EXCEPT !.reset = r]
      BY <2>2, <3>3, <3>4
    <3> QED
      BY <3>5, <3>6
  <2> HIDE DEF c, from, u, place, v
  <2>6. x.from = from /\ x.goto = t.goto /\ ~x.original /\ x.when = t.when /\ x.reset = r
    BY <1>2, <2>5
  <2>7. /\ d.locs = c.locs /\ d.heap = b.heap
        /\ Len(d.trans) = Len(b.trans) + 1 /\ d.trans[Len(b.trans) + 1] = x
    <3>1. IsSequence(c.trans)
      BY <1>2, <1>3
    <3> QED
      BY <1>3, <2>3, <3>1, TransitionPut
  <2>8. Widens(feature, b.heap, d.heap, lg, w.at, {})
    BY <2>7, WidensItself
  <2>9. Made(file, feature, d, lg, x, v)
    <3>2. d.locs[x.from].name = place /\ x.reset = Reset(t.reset, y, Holding(y))
      BY <1>3, <2>4, <2>6, <2>7
    <3> QED
      BY <1>6, <2>1, <2>6, <2>7, <3>2, LastMade
  <2>20. Adds(file, feature, b, d, lg, {v}, w.at, {})
    BY <2>6, <2>7, <2>8, <2>9, AddsOne
  <2> QED
    BY <2>20 DEF v
<1> QED
  BY <1>8, <1>9

\* All that the assignments of a match add.
Ordered(behind, t, w, nr, assigned) ==
  IF Len(assigned) <= 1 THEN {[w EXCEPT !.sets = assigned]}
  ELSE {Hopped(behind, t, w, nr, assigned, k) : k \in 1 .. Len(assigned)}

\* A pending transition stands for the same while the automaton grows.
LEMMA BareKept ==
  ASSUME NEW f, NEW b, NEW c, NEW lg, Continues(b, c), NEW i, NEW C, Widens(f, b.heap, c.heap, lg, i, C),
         NEW t, t.from \in 1 .. Len(b.locs), NEW w, IsBare(b, lg, t, w)
  PROVE  IsBare(c, lg, t, w)
<1>1. c.locs[t.from] = b.locs[t.from]
  BY DEF Continues
<1>2. GuardStands(c.heap, lg, t.when, w)
  BY DEF Widens, IsBare
<1> QED
  BY <1>1, <1>2 DEF IsBare

\* With one assignment or none the match is the only transition added.
LEMMA SingleAdds ==
  ASSUME feature \in Features, file \in Files, NEW b, NEW lg, Good(b, lg), NEW t, Pending(b, lg, t),
         Guarded(feature, b.heap, lg), NEW w, IsBare(b, lg, t, w), NEW nr,
         NEW assigned, IsSequence(assigned), Len(assigned) <= 1,
         \A m \in DOMAIN assigned : assigned[m] \in Storable,
         NEW d, d = OrderedResets(b, t, nr, assigned), NEW v, v = [w EXCEPT !.sets = assigned]
  PROVE  Adds(file, feature, b, d, lg, {v}, w.at, {})
<1> DEFINE u == IF assigned = << >> THEN t
                ELSE [t EXCEPT !.reset = Reset(@, assigned[1], Holding(assigned[1]))]
<1>1. Len(assigned) \in Nat /\ DOMAIN assigned = 1 .. Len(assigned)
  BY SequenceFacts
<1>2. d = AddTransition(b, u)
  BY <1>1 DEF OrderedResets
<1>3. /\ IsAutomaton(b) /\ IsSequence(b.trans) /\ Lists(b.heap)
      /\ t = [from |-> t.from, goto |-> t.goto, original |-> t.original, when |-> t.when,
              reset |-> t.reset]
      /\ ~t.original
  BY DEF Good, Shaped, Pending, IsTransition, IsAutomaton
<1>4. IsProduct(w) /\ w.sets = << >> /\ w.at \in DOMAIN lg /\ w.from = b.locs[t.from].name
  BY DEF IsBare
<1>5. PICK x : x = u
  OBVIOUS
<1>6. /\ d.locs = b.locs /\ d.heap = b.heap
      /\ Len(d.trans) = Len(b.trans) + 1 /\ d.trans[Len(b.trans) + 1] = x
  <2>1. d = AddTransition(b, x)
    BY <1>2, <1>5
  <2> QED
    BY <1>3, <2>1, TransitionPut
<1>7. Widens(feature, b.heap, d.heap, lg, w.at, {})
  BY <1>6, WidensItself
<1>8. ~x.original /\ Made(file, feature, d, lg, x, v)
  <2>1. CASE assigned = << >>
    <3>1. x = t
      BY <1>5, <2>1
    <3>2. v = w
      <4>1. PICK s : s = assigned
        OBVIOUS
      <4>2. v = [w EXCEPT !.sets = s] /\ s = w.sets
        BY <1>4, <2>1, <4>1
      <4> QED
        BY <1>4, <4>2 DEF IsProduct
    <3>3. IsBare(d, lg, t, w)
      BY <1>6 DEF IsBare
    <3>4. Made(file, feature, d, lg, t, w)
      BY <3>3, BareMade
    <3> QED
      BY <1>3, <3>1, <3>2, <3>4
  <2>2. CASE assigned # << >>
    <3>1. Len(assigned) = 1 /\ 1 \in DOMAIN assigned
      <4>1. Len(assigned) # 0
        BY <2>2 DEF IsSequence
      <4> QED
        BY <1>1, <4>1
    <3>2. PICK y : y = assigned[1]
      OBVIOUS
    <3>3. y \in Storable /\ assigned = <<y>>
      <4>1. assigned = <<assigned[1]>>
        BY <3>1 DEF IsSequence
      <4> QED
        BY <3>1, <3>2, <4>1
    <3>4. v = LastOf(w, w.from, y)
      <4>1. v = [w EXCEPT !.sets = <<y>>]
        BY <3>3
      <4> QED
        BY <1>4, <4>1 DEF IsProduct, LastOf
    <3>5. PICK r : r = Reset(t.reset, y, Holding(y))
      OBVIOUS
    <3>6. x = [t EXCEPT !.reset = r]
      BY <1>5, <2>2, <3>2, <3>5
    <3>7. x.from = t.from /\ x.goto = t.goto /\ x.original = t.original /\ x.when = t.when /\ x.reset = r
      BY <1>3, <3>6
    <3>8. PICK place : place = w.from
      OBVIOUS
    <3>9. d.locs[x.from].name = place
      BY <1>4, <1>6, <3>7, <3>8
    <3>10. v = LastOf(w, place, y) /\ x.reset = Reset(t.reset, y, Holding(y)) /\ d.heap = b.heap
      BY <1>6, <3>4, <3>5, <3>7, <3>8
    <3> HIDE DEF u
    <3>11. Made(file, feature, d, lg, x, v)
      BY <3>3, <3>7, <3>9, <3>10, LastMade
    <3> QED
      BY <1>3, <3>7, <3>11
  <2> QED
    BY <2>1, <2>2
<1> HIDE DEF u
<1> QED
  BY <1>6, <1>7, <1>8, AddsOne

\* With several, one transition per assignment.
LEMMA OrderedAdds ==
  ASSUME feature \in Features, file \in Files, NEW b, NEW lg, Fine(b, lg), NEW t, Pending(b, lg, t),
         t.from \in Locs, Leads(b, t.goto), Guarded(feature, b.heap, lg), b.vars = AllNames,
         NEW w, IsBare(b, lg, t, w), NEW behind, behind = TailOf(b.heap, lg, w.at), NEW nr,
         NEW assigned, IsSequence(assigned), \A m \in DOMAIN assigned : assigned[m] # "level",
         Len(assigned) > 1 => IsTemporal(feature),
         \A m \in DOMAIN assigned : assigned[m] \in Storable,
         NEW d, d = OrderedResets(b, t, nr, assigned)
  PROVE  Adds(file, feature, b, d, lg, Ordered(behind, t, w, nr, assigned), w.at, {})
<1> DEFINE n == Len(assigned)
           step(k) == Hopped(behind, t, w, nr, assigned, k)
<1>1. Good(b, lg) /\ LeadOr(b, {})
  BY NothingMissing DEF Fine
<1>2. n \in Nat /\ DOMAIN assigned = 1 .. n /\ w.at \in DOMAIN lg
  BY SequenceFacts DEF IsBare
<1>3. CASE n > 1
  <2> DEFINE hops == CHOOSE f : AreHops(f, b, t, nr, assigned, n)
  <2>1. d = hops[n]
    BY <1>3 DEF OrderedResets, AreHops
  <2>2. hops[0] = b /\ \A k \in 1 .. n : hops[k] = Hop(hops[k - 1], t, k, nr, assigned)
    <3>1. \E f : AreHops(f, b, t, nr, assigned, n)
      BY <1>2, HopsUnfold
    <3>2. AreHops(hops, b, t, nr, assigned, n)
      BY <3>1
    <3> HIDE DEF hops
    <3>3. 0 \in 0 .. n /\ \A k \in 1 .. n : k \in 0 .. n /\ k # 0
      BY <1>2
    <3>4. hops[0] = b
      BY <3>2, <3>3 DEF AreHops
    <3>5. ASSUME NEW k \in 1 .. n PROVE hops[k] = Hop(hops[k - 1], t, k, nr, assigned)
      BY <3>2, <3>3 DEF AreHops
    <3> QED
      BY <3>4, <3>5
  <2> HIDE DEF hops
  <2> DEFINE names(k) == IF k = 0 THEN {} ELSE {PauseName(t.from, id, nr, k)}
             steps(k) == {step(j) : j \in 1 .. k}
             T == {k \in 0 .. n :
                     /\ Good(hops[k], lg) /\ Continues(b, hops[k])
                     /\ k < n => Pending(hops[k], lg, t) /\ LeadOr(hops[k], names(k))
                     /\ Adds(file, feature, b, hops[k], lg, steps(k), w.at, {})}
  <2>3. 0 \in T
    <3>1. Continues(b, b)
      BY <1>1, ContinuesItself
    <3>2. Widens(feature, b.heap, b.heap, lg, w.at, {})
      BY WidensItself
    <3>3. Adds(file, feature, b, b, lg, {}, w.at, {})
      BY <1>1, <3>2, AddsNothing
    <3>4. steps(0) = {} /\ names(0) = {} /\ 0 \in 0 .. n
      BY <1>2
    <3>5. Adds(file, feature, b, hops[0], lg, steps(0), w.at, {})
      BY <2>2, <3>3, <3>4
    <3>6. /\ Good(hops[0], lg) /\ Continues(b, hops[0]) /\ Pending(hops[0], lg, t)
          /\ LeadOr(hops[0], names(0))
      BY <1>1, <2>2, <3>1, <3>4
    <3> HIDE DEF steps, names
    <3> QED
      BY <3>4, <3>5, <3>6
  <2>4. ASSUME NEW k \in 1 .. n, k - 1 \in T PROVE k \in T
    <3> DEFINE c == hops[k - 1]
    <3>1. /\ Good(c, lg) /\ Continues(b, c) /\ Pending(c, lg, t) /\ LeadOr(c, names(k - 1))
          /\ Adds(file, feature, b, c, lg, steps(k - 1), w.at, {})
          /\ hops[k] = Hop(c, t, k, nr, assigned)
      BY <1>2, <2>2, <2>4
    <3> HIDE DEF c
    <3>2. (k = 1 => LeadOr(c, {})) /\ (k # 1 => LeadOr(c, {PauseName(t.from, id, nr, k - 1)}))
      <4>1. CASE k = 1
        BY <3>1, <4>1
      <4>2. CASE k # 1
        <5>1. k - 1 # 0
          BY <4>2
        <5> QED
          BY <3>1, <4>2, <5>1
      <4> QED
        BY <4>1, <4>2
    <3>3. Leads(c, t.goto)
      BY <1>1, <3>1, StillLeads
    <3>7. k # 1 => IsTemporal(feature)
      BY <1>3
    <3>4. /\ Good(hops[k], lg) /\ Continues(c, hops[k])
          /\ k < n => Pending(hops[k], lg, t) /\ LeadOr(hops[k], {PauseName(t.from, id, nr, k)})
      BY <3>1, <3>2, <3>3, <3>7, HopStep
    <3>5. Continues(b, hops[k])
      BY <1>1, <3>1, <3>4, ContinuesFurther
    <3>6. k # 0 /\ k \in 0 .. n
      OBVIOUS
    <3>8. Widens(feature, b.heap, c.heap, lg, w.at, {})
      BY <3>1 DEF Adds
    <3>9. Guarded(feature, c.heap, lg) /\ TailOf(c.heap, lg, w.at) = behind
      BY <1>2, <3>8 DEF Widens
    <3>10. IsBare(c, lg, t, w)
      <4>1. t.from \in 1 .. Len(b.locs)
        BY DEF Pending, IsTransition
      <4> QED
        BY <3>1, <3>8, <4>1, BareKept
    <3>11. c.vars = AllNames
      BY <3>1 DEF Continues
    <3>12. Adds(file, feature, c, hops[k], lg, {step(k)}, w.at, {})
      <4>1. assigned[k] \in Storable
        BY <1>2
      <4> QED
        BY <3>1, <3>9, <3>10, <3>11, <4>1, HopAdds
    <3>13. Adds(file, feature, b, hops[k], lg, steps(k), w.at, {})
      <4>1. Adds(file, feature, b, hops[k], lg, steps(k - 1) \union {step(k)}, w.at, {} \union {})
        BY <1>1, <3>1, <3>4, <3>12, AddsFurther
      <4>2. steps(k - 1) \union {step(k)} = steps(k)
        <5>1. 1 .. k = (1 .. k - 1) \union {k}
          OBVIOUS
        <5> HIDE DEF step
        <5> QED
          BY <5>1
      <4>3. {} \union {} = {}
        OBVIOUS
      <4> HIDE DEF steps
      <4> QED
        BY <4>1, <4>2, <4>3
    <3> QED
      BY <3>4, <3>5, <3>6, <3>13
  <2> HIDE DEF T
  <2>5. \A k \in 0 .. n : k \in T
    BY <1>2, <2>3, <2>4, Upwards
  <2>6. Adds(file, feature, b, hops[n], lg, steps(n), w.at, {})
    <3>1. n \in T
      BY <1>2, <2>5
    <3> QED
      BY <3>1 DEF T
  <2>7. steps(n) = Ordered(behind, t, w, nr, assigned)
    BY <1>3 DEF Ordered
  <2> QED
    BY <2>1, <2>6, <2>7
<1>4. CASE ~(n > 1)
  <2>1. PICK v : v = [w EXCEPT !.sets = assigned]
    OBVIOUS
  <2>2. n <= 1
    BY <1>2, <1>4
  <2>3. Adds(file, feature, b, d, lg, {v}, w.at, {})
    BY <1>1, <2>1, <2>2, SingleAdds
  <2>4. Ordered(behind, t, w, nr, assigned) = {v}
    BY <2>1, <2>2 DEF Ordered
  <2> QED
    BY <2>3, <2>4
<1> QED
  BY <1>3, <1>4

\* What a match adds: its heap grows and its transitions follow.
LEMMA MatchAdds ==
  ASSUME feature \in Features, file \in Files, NEW b, NEW lg, Fine(b, lg), Guarded(feature, b.heap, lg),
         b.vars = AllNames, NEW g, Grows(b.heap, g, lg), NEW t, IsTransition(WithHeap(b, g), t), ~t.original,
         Reached(g, t.when) \subseteq (Len(b.heap) + 1 .. Len(g)) \union Shared(g, lg),
         t.from \in Locs, Leads(b, t.goto),
         NEW w, Widens(feature, b.heap, g, lg, w.at, {}), IsBare(WithHeap(b, g), lg, t, w),
         NEW behind, behind = TailOf(b.heap, lg, w.at), NEW nr,
         NEW assigned, IsSequence(assigned), \A m \in DOMAIN assigned : assigned[m] # "level",
         Len(assigned) > 1 => IsTemporal(feature),
         \A m \in DOMAIN assigned : assigned[m] \in Storable,
         NEW d, d = OrderedResets(WithHeap(b, g), t, nr, assigned)
  PROVE  Adds(file, feature, b, d, lg, Ordered(behind, t, w, nr, assigned), w.at, {})
<1> DEFINE c == WithHeap(b, g)
<1>1. Fine(c, lg) /\ Continues(b, c)
  BY GrownFine
<1>2. c.heap = g /\ c.trans = b.trans /\ c.vars = b.vars
  BY HeapGrown DEF Fine
<1>3. Pending(c, lg, t)
  BY HeapGrown DEF Fine
<1>4. Leads(c, t.goto)
  BY <1>1, StillFinal
<1>5. Guarded(feature, g, lg) /\ TailOf(g, lg, w.at) = behind
  BY DEF Widens, IsBare
<1>6. d = OrderedResets(c, t, nr, assigned) /\ IsBare(c, lg, t, w)
  OBVIOUS
<1> HIDE DEF c
<1>7. Fine(d, lg) /\ Continues(c, d)
  BY <1>1, <1>3, <1>4, <1>6, OrderedResetsFine
<1>8. Adds(file, feature, c, d, lg, Ordered(behind, t, w, nr, assigned), w.at, {})
  BY <1>1, <1>2, <1>3, <1>4, <1>5, <1>6, OrderedAdds
<1>9. Adds(file, feature, b, c, lg, {}, w.at, {})
  BY <1>2, AddsNothing DEF Fine
<1>10. PICK S : S = Ordered(behind, t, w, nr, assigned)
  OBVIOUS
<1>11. Adds(file, feature, b, d, lg, {} \union S, w.at, {} \union {})
  BY <1>1, <1>7, <1>8, <1>9, <1>10, AddsFurther DEF Fine
<1>12. {} \union S = S /\ {} \union {} = {}
  OBVIOUS
<1> QED
  BY <1>10, <1>11, <1>12

-------------------------------------------------------------------------------
\* The matches of a conjunct and the transitions that wait

\* The guard of a level is its level and what is behind it.
LEMMA GuardConds ==
  ASSUME NEW f, NEW h, Lists(h), NEW lg, Guarded(f, h, lg), NEW i \in DOMAIN lg
  PROVE  /\ IsSequence(Contents(h, lg[i]))
         /\ Range(Contents(h, lg[i])) = {Level(i)} \union TailOf(h, lg, i)
<1>1. lg[i] \in 1 .. Len(h) /\ h[lg[i]].cond = Level(i) /\ Len(h) \in Nat
  BY HeapFacts DEF Guarded
<1>2. lg[i] \in 0 .. Len(h)
  BY <1>1
<1>3. IsSequence(Contents(h, lg[i]))
  BY <1>2, ContentsRead
<1>4. Range(Contents(h, lg[i])) = Conds(h, Reached(h, lg[i]))
  BY ContentsRange DEF Conds
<1>5. lg[i] \in Reached(h, lg[i])
  BY <1>1, ReachedUnfold
<1>6. Conds(h, Reached(h, lg[i])) = {h[lg[i]].cond} \union Conds(h, Reached(h, lg[i]) \ {lg[i]})
  BY <1>5 DEF Conds
<1> QED
  BY <1>1, <1>3, <1>4, <1>6 DEF TailOf

\* What a match of term at level i asks for: its window, its event, its predicates.
AsksOwn(i, term) ==
  Range(TemporalGuards(i)) \union {<<"pred", p>> : p \in term.preds}

\* The guards the code puts on a match, as a list, are the conditions the model asks, as a set;
\* no one of them is about a level or an edge.
LEMMA OwnGuardsRead ==
  ASSUME NEW i, NEW term, IsFiniteSet(term.preds)
  PROVE  /\ IsSequence(TemporalGuards(i)) /\ IsSequence(ConjunctGuards(term))
         /\ Range(TemporalGuards(i) \o ConjunctGuards(term)) = AsksOwn(i, term)
         /\ \A c \in AsksOwn(i, term) : c[1] # "level" /\ c[1] # "edge"
<1>1. IsSequence(TemporalGuards(i)) /\ \A c \in Range(TemporalGuards(i)) : c[1] = "window"
  <2>1. IsSequence(TemporalGuards(i))
    BY ShortSequences DEF TemporalGuards
  <2>2. CASE Sub(i).delay = None
    BY <2>1, <2>2 DEF TemporalGuards, Range
  <2>3. CASE Sub(i).delay # None
    <3>1. PICK p : p = <<"window", i>>
      OBVIOUS
    <3>2. TemporalGuards(i) = <<p>> /\ p[1] = "window"
      BY <2>3, <3>1 DEF TemporalGuards
    <3>3. Range(<<p>>) = {p}
      BY DEF Range
    <3> QED
      BY <2>1, <3>2, <3>3
  <2> QED
    BY <2>2, <2>3
<1>2. IsSequence(ConjunctGuards(term)) /\ Range(ConjunctGuards(term)) = {<<"pred", p>> : p \in term.preds}
  BY ConjunctAll
<1>3. PICK T, P : T = TemporalGuards(i) /\ P = ConjunctGuards(term)
  OBVIOUS
<1>4. IsSequence(T) /\ IsSequence(P)
  BY <1>1, <1>2, <1>3
<1>5. Range(T \o P) = Range(T) \union Range(P)
  BY <1>4, RangeJoined
<1>6. AsksOwn(i, term) = Range(T) \union Range(P)
  BY <1>2, <1>3 DEF AsksOwn
<1>7. \A c \in AsksOwn(i, term) : c[1] # "level" /\ c[1] # "edge"
  BY <1>1, <1>2 DEF AsksOwn
<1> QED
  BY <1>3, <1>4, <1>5, <1>6, <1>7

\* The guards of an event are the threshold and what is asked of the derivative.
LEMMA EventGuardsRead ==
  ASSUME NEW i, NEW l
  PROVE  /\ Range(EventGuards(i, l))
              = IF ~IsPorvEvent(Sub(i)) THEN {}
                ELSE {<<"cross", Sub(i).event.of>>} \union SignGuard(Sub(i).event, l)
         /\ \A c \in Range(EventGuards(i, l)) : c[1] # "level" /\ c[1] # "edge"
<1>1. PICK p, S : p = <<"cross", Sub(i).event.of>> /\ S = SignGuard(Sub(i).event, l)
  OBVIOUS
<1>2. IsFiniteSet(S) /\ \A c \in S : c[1] \in {"rises", "falls"}
  BY <1>1, SignGuardShort
<1>3. IsSequence(SetToSeq(S)) /\ Range(SetToSeq(S)) = S
  BY <1>2, ListsAll
<1>4. IsSequence(<<p>>) /\ Range(<<p>>) = {p} /\ Range(<< >>) = {}
  BY ShortSequences DEF Range
<1>5. Range(<<p>> \o SetToSeq(S)) = {p} \union S
  BY <1>3, <1>4, RangeJoined
<1>6. EventGuards(i, l) = IF ~IsPorvEvent(Sub(i)) THEN << >> ELSE <<p>> \o SetToSeq(S)
  BY <1>1 DEF EventGuards
<1>7. p[1] = "cross"
  BY <1>1
<1>8. Range(EventGuards(i, l)) = IF ~IsPorvEvent(Sub(i)) THEN {} ELSE {p} \union S
  BY <1>4, <1>5, <1>6
<1>9. \A c \in Range(EventGuards(i, l)) : c[1] # "level" /\ c[1] # "edge"
  BY <1>2, <1>7, <1>8
<1> QED
  BY <1>1, <1>8, <1>9

\* The guards of a match by a self-loop, as the model asks them.
LEMMA LoopGuardsRead ==
  ASSUME NEW i, NEW l, NEW term, IsFiniteSet(term.preds)
  PROVE  /\ Range(TemporalGuards(i) \o EventGuards(i, l) \o ConjunctGuards(term))
              = AsksOwn(i, term) \union Range(EventGuards(i, l))
         /\ \A c \in AsksOwn(i, term) \union Range(EventGuards(i, l)) :
              c[1] # "level" /\ c[1] # "edge"
<1>1. PICK T, E, P : T = TemporalGuards(i) /\ E = EventGuards(i, l) /\ P = ConjunctGuards(term)
  OBVIOUS
<1>2. IsSequence(T) /\ IsSequence(E) /\ IsSequence(P)
  BY <1>1, OwnGuardsRead, EventGuardsListed
<1>3. Range(T \o P) = Range(T) \union Range(P)
  BY <1>2, RangeJoined
<1>4. IsSequence(T \o E) /\ Range(T \o E) = Range(T) \union Range(E)
  BY <1>2, RangeJoined, Concatenated
<1>5. Range((T \o E) \o P) = Range(T \o E) \union Range(P)
  BY <1>2, <1>4, RangeJoined
<1>6. AsksOwn(i, term) = Range(T) \union Range(P)
  BY <1>1, <1>3, OwnGuardsRead
<1>7. Range((T \o E) \o P) = AsksOwn(i, term) \union Range(E)
  BY <1>4, <1>5, <1>6
<1>8. \A c \in AsksOwn(i, term) \union Range(EventGuards(i, l)) : c[1] # "level" /\ c[1] # "edge"
  BY OwnGuardsRead, EventGuardsRead
<1> QED
  BY <1>1, <1>7, <1>8

\* What a match stores is declared.
LEMMA AssignedStorable ==
  ASSUME feature \in Features, NEW i, IsSub(i)
  PROVE  \A m \in DOMAIN Assigned(i) : Assigned(i)[m] \in Storable
<1>1. i + 1 \in DOMAIN feature /\ IsSequence(feature[i + 1].sets)
  BY SubsTyped DEF Sub
<1>2. PICK S : S = feature[i + 1].sets
  OBVIOUS
<1>3. IsSequence(S) /\ Range(S) \subseteq Range(Declared[feature])
  BY <1>1, <1>2, DistinctAssumption
<1>4. PICK own : own = IF i + 1 = Len(feature) THEN <<Value>> ELSE << >>
  OBVIOUS
<1>5. IsSequence(own) /\ Range(own) \subseteq {Value}
  BY <1>4, ShortSequences DEF Range
<1>6. Assigned(i) = S \o own
  BY <1>2, <1>4 DEF Assigned, Assignments
<1>7. Range(S \o own) = Range(S) \union Range(own)
  BY <1>3, <1>5, RangeJoined
<1>8. Range(Assigned(i)) \subseteq Storable
  BY <1>3, <1>5, <1>6, <1>7 DEF Storable
<1> QED
  BY <1>8 DEF Range

\* What a match of term at level i on transitions from l adds, where w is the
\* match without its assignments.
Matching(behind, l, i, w) ==
  Ordered(behind, [from |-> l], w, IF EventOnly(Sub(i)) THEN 0 ELSE dnfID, Assigned(i))

\* The hops the code orders on a transition are the matches of the model.
LEMMA MatchingFrom ==
  ASSUME NEW behind, NEW l, NEW i, NEW w, NEW t, t.from = l, NEW nr, nr = IF EventOnly(Sub(i)) THEN 0 ELSE dnfID
  PROVE  Ordered(behind, t, w, nr, Assigned(i)) = Matching(behind, l, i, w)
<1>1. PICK s : s = [from |-> l]
  OBVIOUS
<1>2. s.from = l
  BY <1>1
<1>3. \A k : Leaves(t, w, nr, k) = Leaves(s, w, nr, k)
  BY <1>2 DEF Leaves
<1>4. \A k : Hopped(behind, t, w, nr, Assigned(i), k) = Hopped(behind, s, w, nr, Assigned(i), k)
  BY <1>2, <1>3 DEF Hopped
<1> QED
  BY <1>1, <1>4 DEF Ordered, Matching

\* The match of term as a self-loop of l.
LoopOf(i, l, term) ==
  [from |-> <<l>>, to |-> IF IsLast(i) THEN Final ELSE <<l>>, edge |-> None, at |-> i,
   goes |-> NextId(i), guards |-> AsksOwn(i, term) \union Range(EventGuards(i, l)),
   shared |-> ~EventOnly(Sub(i)), sets |-> << >>,
   zeroes |-> IsLast(i) /\ ~EventOnly(Sub(i)) /\ IsTemporal(feature)]

LoopSays(i, w) ==
  /\ w.goes = NextId(i) /\ w.at = i
  /\ IsLast(i) => w.to = Final
  /\ w.zeroes = (IsLast(i) /\ ~EventOnly(Sub(i)) /\ IsTemporal(feature))

\* The resets the code gives a self-loop do what the model says of one, with the time to zero
\* on the last sub-condition.
LEMMA LoopDoes ==
  ASSUME feature \in Features, file \in Files, NEW i, IsSub(i), NEW w, LoopSays(i, w),
         NEW s, s = LoopResets(i, AllNames),
         NEW r, r = IF IsLast(i) /\ ~EventOnly(Sub(i)) THEN TimeToZero(s) ELSE s
  PROVE  Bare(r, w, FALSE, TRUE, w.edge, w.to = Final)
<1>1. PICK v : v = [goes |-> NextId(i), at |-> i, zeroes |-> FALSE]
  OBVIOUS
<1>2. v.goes = NextId(i) /\ v.at = i /\ v.zeroes = FALSE
  BY <1>1
<1>3. PICK xs, e, final : xs = AllNames /\ e = w.edge /\ final = (w.to = Final)
  OBVIOUS
<1>4. s = LoopResets(i, xs)
  BY <1>3
<1>5. Bare(s, v, FALSE, TRUE, e, final) /\ Count(s, "time") = IF IsTemporal(feature) THEN 1 ELSE 0
  <2>1. xs = AllNames
    BY <1>3
  <2>2. Bare(s, v, FALSE, TRUE, e, final)
    BY <1>2, <1>4, <2>1, LoopBare, Zenon
  <2>3. Count(s, "time") = IF IsTemporal(feature) THEN 1 ELSE 0
    BY <1>2, <1>4, <2>1, LoopBare, Zenon
  <2> QED
    BY <2>2, <2>3
<1>6. CASE IsLast(i) /\ ~EventOnly(Sub(i))
  <2>1. w.zeroes = (Count(s, "time") # 0)
    BY <1>5, <1>6 DEF LoopSays
  <2>2. w.goes = v.goes /\ w.at = v.at
    BY <1>2 DEF LoopSays
  <2>3. Bare(TimeToZero(s), w, FALSE, TRUE, e, TRUE)
    BY <1>5, <2>1, <2>2, ZeroedBare
  <2>4. final = TRUE
    BY <1>3, <1>6 DEF LoopSays
  <2> QED
    BY <1>3, <1>6, <2>3, <2>4
<1>7. CASE ~(IsLast(i) /\ ~EventOnly(Sub(i)))
  <2>1. w.zeroes = v.zeroes /\ w.goes = v.goes /\ w.at = v.at
    BY <1>2, <1>7 DEF LoopSays
  <2>2. Bare(s, w, FALSE, TRUE, e, final)
    BY <1>5, <2>1 DEF Bare, Moves
  <2> QED
    BY <1>3, <1>7, <2>2
<1> QED
  BY <1>6, <1>7

\* The model's self-loop from a location, field by field.
LoopReads(i, l, term, w) ==
  /\ LoopSays(i, w) /\ IsProduct(w) /\ w.edge = None /\ w.sets = << >>
  /\ w.from = <<l>> /\ w.to = (IF IsLast(i) THEN Final ELSE <<l>>)
  /\ w.guards = AsksOwn(i, term) \union Range(EventGuards(i, l)) /\ w.shared = ~EventOnly(Sub(i))

LEMMA LoopOfSays ==
  ASSUME NEW i, NEW l, NEW term, NEW w, w = LoopOf(i, l, term)
  PROVE  LoopReads(i, l, term, w)
<1>1. PICK from, to, edge, goes, guards, shared, zeroes :
        /\ from = <<l>> /\ to = (IF IsLast(i) THEN Final ELSE <<l>>) /\ edge = None /\ goes = NextId(i)
        /\ guards = AsksOwn(i, term) \union Range(EventGuards(i, l)) /\ shared = ~EventOnly(Sub(i))
        /\ zeroes = (IsLast(i) /\ ~EventOnly(Sub(i)) /\ IsTemporal(feature))
  OBVIOUS
<1>2. w = [from |-> from, to |-> to, edge |-> edge, at |-> i, goes |-> goes, guards |-> guards,
           shared |-> shared, sets |-> << >>, zeroes |-> zeroes]
  BY <1>1, Zenon DEF LoopOf
<1>3. /\ w.from = from /\ w.to = to /\ w.edge = edge /\ w.at = i /\ w.goes = goes /\ w.guards = guards
      /\ w.shared = shared /\ w.sets = << >> /\ w.zeroes = zeroes
  BY <1>2
<1>4. IsProduct(w)
  BY <1>2, <1>3 DEF IsProduct
<1>5. LoopSays(i, w)
  BY <1>1, <1>3, Zenon DEF LoopSays
<1> QED
  BY <1>1, <1>3, <1>4, <1>5, Zenon DEF LoopReads

\* Adding the self-loop of a sub-condition to a location adds the matches of that loop and
\* nothing else.
LEMMA SelfLoopAdds ==
  ASSUME feature \in Features, file \in Files, NEW b, Fine(b, levelGuard), Leads(b, Final),
         Guarded(feature, b.heap, levelGuard), b.vars = AllNames, NEW i \in DOMAIN levelGuard, IsSub(i),
         NEW l \in Locs, NEW term, IsFiniteSet(term.preds),
         NEW behind, behind = TailOf(b.heap, levelGuard, i), NEW d, d = SelfLoop(b, i, l, term)
  PROVE  Adds(file, feature, b, d, levelGuard, Matching(behind, l, i, LoopOf(i, l, term)), i, {})
<1> DEFINE own == TemporalGuards(i) \o EventGuards(i, l) \o ConjunctGuards(term)
           shares == ~EventOnly(Sub(i))
           made == own \o IF EventOnly(Sub(i)) THEN Contents(b.heap, levelGuard[i]) ELSE << >>
           root == Fresh(b.heap, made)
           heap == Create(b.heap, made)
           resets == <<<<"level", Number(NextId(i))>>>> \o LoopIdentities(b.vars) \o TemporalResets
           t == [from |-> l, goto |-> IF IsLast(i) THEN Final ELSE <<l>>, original |-> FALSE,
                 when |-> IF shares THEN Linked(root, levelGuard[i]) ELSE root,
                 reset |-> IF IsLast(i) /\ shares THEN TimeToZero(resets) ELSE resets]
           g == IF shares THEN Link(heap, root, levelGuard[i]) ELSE heap
           nr == IF shares THEN dnfID ELSE 0
           w == LoopOf(i, l, term)
<1>1. d = OrderedResets(WithHeap(b, g), t, nr, Assigned(i))
  BY DEF SelfLoop, WithHeap
<1>2. /\ Lists(b.heap) /\ levelGuard[i] \in 1 .. Len(b.heap) /\ Len(b.heap) \in Nat
      /\ \A n \in DOMAIN levelGuard : levelGuard[n] \in 1 .. Len(b.heap)
  BY Sizes DEF Fine, Good, Shaped
<1>3. /\ IsSequence(own) /\ Range(own) = AsksOwn(i, term) \union Range(EventGuards(i, l))
      /\ \A c \in AsksOwn(i, term) \union Range(EventGuards(i, l)) : c[1] # "level" /\ c[1] # "edge"
  BY OwnGuardsListed, LoopGuardsRead
<1>4. /\ t.from = l /\ t.original = FALSE /\ t.goto = (IF IsLast(i) THEN Final ELSE <<l>>)
      /\ t.when = IF shares THEN Linked(root, levelGuard[i]) ELSE root
  OBVIOUS
<1>5. t = [from |-> t.from, goto |-> t.goto, original |-> t.original, when |-> t.when,
           reset |-> t.reset]
  <2> HIDE DEF resets, root, own
  <2> QED
    OBVIOUS
<1>6. t.reset = IF IsLast(i) /\ shares THEN TimeToZero(resets) ELSE resets
  OBVIOUS
<1>7. resets = LoopResets(i, AllNames)
  BY DEF LoopResets
<1>8. /\ LoopSays(i, w) /\ IsProduct(w) /\ w.edge = None /\ w.sets = << >> /\ w.at = i
      /\ w.from = <<l>> /\ w.to = (IF IsLast(i) THEN Final ELSE <<l>>)
      /\ w.guards = AsksOwn(i, term) \union Range(EventGuards(i, l)) /\ w.shared = ~EventOnly(Sub(i))
  <2>1. PICK x : x = LoopOf(i, l, term)
    OBVIOUS
  <2> HIDE DEF own, t, resets, root, g, nr, w
  <2>2. /\ LoopSays(i, x) /\ IsProduct(x) /\ x.edge = None /\ x.sets = << >>
        /\ x.from = <<l>> /\ x.to = (IF IsLast(i) THEN Final ELSE <<l>>)
        /\ x.guards = AsksOwn(i, term) \union Range(EventGuards(i, l)) /\ x.shared = ~EventOnly(Sub(i))
    <3>1. LoopReads(i, l, term, x)
      BY <2>1, LoopOfSays
    <3> QED
      BY <3>1, Zenon DEF LoopReads
  <2>3. x.at = i
    BY <2>2 DEF LoopSays
  <2>4. w = x
    BY <2>1 DEF w
  <2> QED
    BY <2>2, <2>3, <2>4
<1>9. /\ IsSequence(Assigned(i)) /\ \A n \in DOMAIN Assigned(i) : Assigned(i)[n] # "level"
      /\ Len(Assigned(i)) > 1 => IsTemporal(feature)
      /\ \A m \in DOMAIN Assigned(i) : Assigned(i)[m] \in Storable
  BY SubsTyped, AssignedStorable
<1>10. nr = IF EventOnly(Sub(i)) THEN 0 ELSE dnfID
  OBVIOUS
<1> HIDE DEF own, t, resets, w, nr
<1>11. Bare(t.reset, w, FALSE, TRUE, w.edge, w.to = Final)
  <2>1. PICK r : r = t.reset
    OBVIOUS
  <2>2. r = IF IsLast(i) /\ ~EventOnly(Sub(i)) THEN TimeToZero(resets) ELSE resets
    BY <1>6, <2>1
  <2>3. Bare(r, w, FALSE, TRUE, w.edge, w.to = Final)
    BY <1>7, <1>8, <2>2, LoopDoes, Zenon
  <2> QED
    BY <2>1, <2>3
<1>12. Settled(t)
  <2>1. PICK xs, s : xs = b.vars /\ s = resets
    OBVIOUS
  <2>2. IsSequence(xs)
    BY <2>1 DEF Fine, Good, Shaped
  <2>3. s = <<<<"level", Number(NextId(i))>>>> \o LoopIdentities(xs) \o TemporalResets
    BY <2>1 DEF resets
  <2>4. IsSequence(s) /\ LastReset(s, "level") = Number(NextId(i))
    BY <2>2, <2>3, LoopSettles
  <2>5. IsSequence(TimeToZero(s)) /\ LastReset(TimeToZero(s), "level") = LastReset(s, "level")
    BY <2>4, LevelZeroed
  <2>6. IsSequence(t.reset) /\ LastReset(t.reset, "level") = Number(NextId(i))
    BY <1>6, <2>1, <2>4, <2>5
  <2> QED
    BY <1>4, <2>6, MatchSettled
<1>13. /\ Grows(b.heap, g, levelGuard) /\ t.when \in 0 .. Len(g)
       /\ Reached(g, t.when) \subseteq (Len(b.heap) + 1 .. Len(g)) \union Shared(g, levelGuard)
       /\ Widens(feature, b.heap, g, levelGuard, i, {})
       /\ GuardStands(g, levelGuard, t.when, w)
  <2>1. CASE EventOnly(Sub(i))
    <3>1. PICK h, conds, q : h = b.heap /\ conds = made /\ q = Contents(h, levelGuard[i])
      OBVIOUS
    <3>2. IsSequence(q) /\ Range(q) = {Level(i)} \union TailOf(h, levelGuard, i)
      BY <1>2, <3>1, GuardConds
    <3>3. TailOf(h, levelGuard, i) = {}
      BY <2>1, <3>1 DEF Guarded, EventOnly, Sub
    <3>4. conds = own \o q
      BY <2>1, <3>1
    <3>5. IsSequence(conds) /\ Range(conds) = Range(own) \union Range(q)
      BY <1>3, <3>2, <3>4, Concatenated, RangeJoined
    <3>6. g = Create(h, conds) /\ t.when = Fresh(h, conds)
      BY <1>4, <2>1, <3>1
    <3>7. /\ Grows(h, Create(h, conds), levelGuard) /\ Fresh(h, conds) \in 0 .. Len(Create(h, conds))
          /\ Reached(Create(h, conds), Fresh(h, conds)) = Len(h) + 1 .. Len(Create(h, conds))
      BY <1>2, <3>1, <3>5, CreateGrows
    <3>8. i # -1
      BY DEF IsSub
    <3>9. Range(conds) = w.guards \union LevelOf(w.at) /\ w.shared = FALSE
      BY <1>3, <1>8, <2>1, <3>2, <3>3, <3>5, <3>8 DEF LevelOf
    <3>10. \A c \in w.guards : c[1] # "level"
      BY <1>3, <1>8
    <3> HIDE DEF g
    <3>11. Widens(feature, h, g, levelGuard, i, {}) /\ GuardStands(g, levelGuard, Fresh(h, conds), w)
      BY <1>2, <3>1, <3>5, <3>6, <3>9, <3>10, CreatedStands
    <3> QED
      BY <3>1, <3>6, <3>7, <3>11
  <2>2. CASE ~EventOnly(Sub(i))
    <3>1. PICK h, conds, guard, r, link, u :
            /\ h = b.heap /\ conds = made /\ guard = levelGuard[i]
            /\ r = Fresh(h, conds) /\ link = Link(Create(h, conds), r, guard) /\ u = Linked(r, guard)
      OBVIOUS
    <3>2. g = link /\ t.when = u
      BY <1>4, <2>2, <3>1
    <3>3. conds = own \o << >>
      BY <2>2, <3>1
    <3>4. conds = own
      BY <1>3, <3>3, EmptyJoined
    <3>5. Lists(h) /\ IsSequence(conds) /\ \A n \in DOMAIN levelGuard : levelGuard[n] \in 1 .. Len(h)
      BY <1>2, <1>3, <3>1, <3>4
    <3>6. /\ Grows(h, link, levelGuard) /\ u \in 0 .. Len(link)
          /\ Reached(link, u) \subseteq (Len(h) + 1 .. Len(link)) \union Shared(link, levelGuard)
      BY <3>1, <3>5, GuardShared
    <3>7. Range(conds) = w.guards /\ w.shared = TRUE /\ \A c \in w.guards : c[1] # "level"
      BY <1>3, <1>8, <2>2, <3>4
    <3> HIDE DEF g
    <3>8. Guarded(feature, h, levelGuard)
      BY <3>1
    <3>9. Widens(feature, h, link, levelGuard, i, {}) /\ GuardStands(link, levelGuard, u, w)
      <4>1. PICK v : v = w
        OBVIOUS
      <4>2. v.shared = TRUE /\ v.at = i /\ (\A c \in v.guards : c[1] # "level") /\ Range(conds) = v.guards
        BY <1>8, <3>7, <4>1
      <4>3. IsSequence(conds) /\ Lists(h) /\ link = Link(Create(h, conds), r, guard)
        BY <3>1, <3>5
      <4>4. guard = levelGuard[i] /\ r = Fresh(h, conds) /\ u = Linked(r, guard)
        BY <3>1
      <4>5. Widens(feature, h, link, levelGuard, i, {}) /\ GuardStands(link, levelGuard, u, v)
        BY <3>8, <4>2, <4>3, <4>4, SharingStands
      <4> QED
        BY <4>1, <4>5
    <3> QED
      BY <3>1, <3>2, <3>6, <3>9
  <2> QED
    BY <2>1, <2>2
<1> HIDE DEF g
<1>14. Leads(b, t.goto) /\ l \in 1 .. Len(b.locs)
  BY <1>4, PlacesLead
<1>15. WithHeap(b, g).locs = b.locs /\ WithHeap(b, g).heap = g
  BY <1>13, HeapGrown DEF Fine
<1>16. IsTransition(WithHeap(b, g), t)
  BY <1>4, <1>5, <1>12, <1>13, <1>14, <1>15 DEF IsTransition
<1>17. b.locs[l].name = <<l>>
  BY <1>14 DEF Fine, Good, Shaped, IsLocation
<1>18. IsBare(WithHeap(b, g), levelGuard, t, w)
  <2>1. EdgeSays(w) /\ ~OnEdgeOf(w)
    BY <1>3, <1>8 DEF EdgeSays, OnEdgeOf
  <2>2. w.from = WithHeap(b, g).locs[t.from].name /\ w.to = t.goto
    BY <1>4, <1>8, <1>15, <1>17
  <2>3. Len(w.to) # 4
    BY <1>8 DEF Final
  <2>4. \E match \in BOOLEAN : Bare(t.reset, w, OnEdgeOf(w), match, w.edge, w.to = Final)
    <3>1. OnEdgeOf(w) = FALSE
      BY <2>1 DEF OnEdgeOf
    <3> QED
      BY <1>11, <3>1, Zenon
  <2>5. GuardStands(WithHeap(b, g).heap, levelGuard, t.when, w)
    BY <1>13, <1>15
  <2> QED
    BY <1>8, <2>1, <2>2, <2>3, <2>4, <2>5 DEF IsBare
<1>19. Adds(file, feature, b, d, levelGuard, Ordered(behind, t, w, nr, Assigned(i)), w.at, {})
  BY <1>1, <1>4, <1>8, <1>9, <1>13, <1>14, <1>16, <1>18, MatchAdds
<1>20. Ordered(behind, t, w, nr, Assigned(i)) = Matching(behind, l, i, w)
  <2>1. PICK s, q : s = t /\ q = nr
    OBVIOUS
  <2>2. s.from = l /\ q = IF EventOnly(Sub(i)) THEN 0 ELSE dnfID
    BY <1>4, <1>10, <2>1
  <2>3. Ordered(behind, s, w, q, Assigned(i)) = Matching(behind, l, i, w)
    BY <2>2, MatchingFrom, Zenon
  <2> QED
    BY <2>1, <2>3
<1> QED
  BY <1>8, <1>19, <1>20 DEF w

\* The match of term on a copy of transition e of the model, what stands behind the
\* guard of its level being copied.
EdgeMatch(i, e, term, behind) ==
  [from |-> <<e.from>>, to |-> IF IsLast(i) THEN Final ELSE <<e.to>>, edge |-> e, at |-> i,
   goes |-> NextId(i), guards |-> ({<<"edge", e>>} \union AsksOwn(i, term)) \union behind,
   shared |-> FALSE, sets |-> << >>, zeroes |-> IsLast(i)]

EdgeStepSays(i, w) ==
  w.goes = NextId(i) /\ w.at = i /\ w.zeroes = IsLast(i) /\ (IsLast(i) => w.to = Final)

IsEdgeMatch(i, e, term, behind, w) ==
  /\ EdgeStepSays(i, w) /\ IsProduct(w) /\ w.edge = e /\ w.sets = << >>
  /\ w.from = <<e.from>> /\ w.to = (IF IsLast(i) THEN Final ELSE <<e.to>>)
  /\ w.guards = ({<<"edge", e>>} \union AsksOwn(i, term)) \union behind /\ w.shared = FALSE

\* The model's match on an edge, field by field.
LEMMA EdgeMatchSays ==
  ASSUME NEW i, NEW e, NEW term, NEW behind, NEW w, w = EdgeMatch(i, e, term, behind)
  PROVE  IsEdgeMatch(i, e, term, behind, w)
<1>1. PICK from, to, goes, guards, zeroes :
        /\ from = <<e.from>> /\ to = (IF IsLast(i) THEN Final ELSE <<e.to>>) /\ goes = NextId(i)
        /\ guards = ({<<"edge", e>>} \union AsksOwn(i, term)) \union behind /\ zeroes = IsLast(i)
  OBVIOUS
<1>2. w = [from |-> from, to |-> to, edge |-> e, at |-> i, goes |-> goes, guards |-> guards,
           shared |-> FALSE, sets |-> << >>, zeroes |-> zeroes]
  BY <1>1, Zenon DEF EdgeMatch
<1>3. /\ w.from = from /\ w.to = to /\ w.edge = e /\ w.at = i /\ w.goes = goes /\ w.guards = guards
      /\ w.shared = FALSE /\ w.sets = << >> /\ w.zeroes = zeroes
  BY <1>2
<1>4. IsProduct(w)
  BY <1>2, <1>3 DEF IsProduct
<1>5. EdgeStepSays(i, w)
  BY <1>1, <1>3, Zenon DEF EdgeStepSays
<1> QED
  BY <1>1, <1>3, <1>4, <1>5, Zenon DEF IsEdgeMatch

\* The resets the code gives a match on an edge do what the model says of one.
LEMMA EdgeDoes ==
  ASSUME feature \in Features, file \in Files, NEW i, IsSub(i), NEW e, IsEdge(e), NEW w, EdgeStepSays(i, w),
         NEW q, IsTold(q, e, Added(feature)), NEW s, s = StepResets(i, q),
         NEW r, r = IF IsLast(i) THEN TimeToZero(s) ELSE s
  PROVE  Bare(r, w, TRUE, TRUE, e, w.to = Final)
<1>1. PICK v : v = [goes |-> NextId(i), at |-> i, zeroes |-> FALSE]
  OBVIOUS
<1>2. v.goes = NextId(i) /\ v.at = i /\ v.zeroes = FALSE
  BY <1>1
<1>3. PICK final : final = (w.to = Final)
  OBVIOUS
<1>5. Bare(s, v, TRUE, TRUE, e, final) /\ Count(s, "time") # 0
  <2>1. Bare(s, v, TRUE, TRUE, e, final)
    BY <1>2, EdgeBare, Zenon
  <2>2. Count(s, "time") # 0
    BY <1>2, EdgeBare, Zenon
  <2> QED
    BY <2>1, <2>2
<1>6. CASE IsLast(i)
  <2>1. w.zeroes = (Count(s, "time") # 0)
    BY <1>5, <1>6 DEF EdgeStepSays
  <2>2. w.goes = v.goes /\ w.at = v.at
    BY <1>2 DEF EdgeStepSays
  <2>3. Bare(TimeToZero(s), w, TRUE, TRUE, e, TRUE)
    BY <1>5, <2>1, <2>2, ZeroedBare
  <2>4. final = TRUE
    BY <1>3, <1>6 DEF EdgeStepSays
  <2> QED
    BY <1>3, <1>6, <2>3, <2>4
<1>7. CASE ~IsLast(i)
  <2>1. w.zeroes = v.zeroes /\ w.goes = v.goes /\ w.at = v.at
    <3>1. IsLast(i) = FALSE
      BY <1>7 DEF IsLast
    <3> QED
      BY <1>2, <3>1, Zenon DEF EdgeStepSays
  <2>2. Bare(s, w, TRUE, TRUE, e, final)
    BY <1>5, <2>1 DEF Bare, Moves
  <2> QED
    BY <1>3, <1>7, <2>2
<1> QED
  BY <1>6, <1>7

\* t is the transition of b read from e, before a level is asked for.
IsModel(b, t, e) ==
  /\ IsEdge(e) /\ t.original /\ t.from = e.from /\ t.goto = <<e.to>>
  /\ IsTold(t.reset, e, Added(feature)) /\ Asks(b.heap, t.when, {<<"edge", e>>})

\* Adding the match of a sub-condition on one edge adds the matches of that edge and nothing
\* else.
LEMMA OnEdgeAdds ==
  ASSUME feature \in Features, file \in Files, NEW b, Fine(b, levelGuard), Leads(b, Final),
         Guarded(feature, b.heap, levelGuard), b.vars = AllNames, NEW i \in DOMAIN levelGuard, IsSub(i),
         NEW n \in 1 .. Len(b.trans), NEW t, t = b.trans[n], t.from \in Locs, NEW e, IsModel(b, t, e),
         NEW term, IsFiniteSet(term.preds),
         NEW behind, behind = TailOf(b.heap, levelGuard, i), NEW d, d = OnEdge(b, i, t, term)
  PROVE  Adds(file, feature, b, d, levelGuard, Matching(behind, e.from, i, EdgeMatch(i, e, term, behind)), i, {})
<1> DEFINE made == Contents(b.heap, t.when) \o TemporalGuards(i) \o ConjunctGuards(term)
                     \o Contents(b.heap, levelGuard[i])
           resets == LevelTaken(t.reset) \o <<<<"level", Number(NextId(i))>>>> \o TemporalResets
           u == [from |-> t.from, goto |-> IF IsLast(i) THEN Final ELSE t.goto, original |-> FALSE,
                 when |-> Fresh(b.heap, made),
                 reset |-> IF IsLast(i) THEN TimeToZero(resets) ELSE resets]
           g == Create(b.heap, made)
           nr == IF EventOnly(Sub(i)) THEN 0 ELSE dnfID
           w == EdgeMatch(i, e, term, behind)
<1>1. d = OrderedResets(WithHeap(b, g), u, nr, Assigned(i))
  BY DEF OnEdge, WithHeap
<1>2. /\ Lists(b.heap) /\ levelGuard[i] \in 1 .. Len(b.heap) /\ Len(b.heap) \in Nat
      /\ IsTransition(b, t)
  BY Sizes DEF Fine, Good, Shaped
<1>14. /\ w.at = i
       /\ EdgeStepSays(i, w) /\ IsProduct(w) /\ w.edge = e /\ w.sets = << >>
       /\ w.from = <<e.from>> /\ w.to = (IF IsLast(i) THEN Final ELSE <<e.to>>)
       /\ w.guards = ({<<"edge", e>>} \union AsksOwn(i, term)) \union behind /\ w.shared = FALSE
  <2>1. PICK x : x = EdgeMatch(i, e, term, behind)
    OBVIOUS
  <2>2. /\ EdgeStepSays(i, x) /\ IsProduct(x) /\ x.edge = e /\ x.sets = << >>
        /\ x.from = <<e.from>> /\ x.to = (IF IsLast(i) THEN Final ELSE <<e.to>>)
        /\ x.guards = ({<<"edge", e>>} \union AsksOwn(i, term)) \union behind /\ x.shared = FALSE
    <3>1. IsEdgeMatch(i, e, term, behind, x)
      BY <2>1, EdgeMatchSays
    <3> QED
      BY <3>1 DEF IsEdgeMatch
  <2>3. x.at = i
    BY <2>2 DEF EdgeStepSays
  <2> QED
    BY <2>1, <2>2, <2>3
<1> HIDE DEF w
<1>3. /\ IsSequence(made) /\ Range(made) = w.guards \union LevelOf(w.at)
      /\ \A c \in w.guards : c[1] # "level"
  <2>1. PICK C, T, P, L : /\ C = Contents(b.heap, t.when) /\ T = TemporalGuards(i)
                          /\ P = ConjunctGuards(term) /\ L = Contents(b.heap, levelGuard[i])
    OBVIOUS
  <2>2. IsSequence(T) /\ IsSequence(P) /\ Range(T \o P) = AsksOwn(i, term)
    BY <2>1, OwnGuardsRead
  <2>3. IsSequence(L) /\ Range(L) = {Level(i)} \union behind
    BY <1>2, <2>1, GuardConds
  <2>4. IsSequence(C) /\ Range(C) = {<<"edge", e>>}
    <3>1. t.when \in 0 .. Len(b.heap)
      BY <1>2 DEF IsTransition
    <3>2. IsSequence(Contents(b.heap, t.when))
      BY <1>2, <3>1, ContentsRead
    <3>3. Range(Contents(b.heap, t.when)) = {<<"edge", e>>}
      BY ContentsRange DEF IsModel, Asks
    <3> QED
      BY <2>1, <3>2, <3>3
  <2>5. Range(T \o P) = Range(T) \union Range(P)
    BY <2>2, RangeJoined
  <2>6. IsSequence(C \o T) /\ Range(C \o T) = Range(C) \union Range(T)
    BY <2>2, <2>4, Concatenated, RangeJoined
  <2>7. IsSequence((C \o T) \o P) /\ Range((C \o T) \o P) = Range(C \o T) \union Range(P)
    BY <2>2, <2>6, Concatenated, RangeJoined
  <2>8. /\ IsSequence(((C \o T) \o P) \o L)
        /\ Range(((C \o T) \o P) \o L) = Range((C \o T) \o P) \union Range(L)
    BY <2>3, <2>7, Concatenated, RangeJoined
  <2>9. made = ((C \o T) \o P) \o L
    BY <2>1
  <2> HIDE DEF made
  <2>10. PICK R : R = Range(made)
    OBVIOUS
  <2>11. R = ({<<"edge", e>>} \union AsksOwn(i, term)) \union ({Level(i)} \union behind)
    BY <2>2, <2>3, <2>4, <2>5, <2>6, <2>7, <2>8, <2>9, <2>10
  <2>12. i # -1
    BY DEF IsSub
  <2>13. R = w.guards \union LevelOf(w.at)
    BY <1>14, <2>11, <2>12 DEF LevelOf
  <2>14. \A c \in AsksOwn(i, term) : c[1] # "level"
    BY OwnGuardsRead
  <2>15. \A c \in behind : c[1] # "level"
    BY DEF Guarded
  <2>16. \A c \in w.guards : c[1] # "level"
    BY <1>14, <2>14, <2>15
  <2> QED
    BY <2>8, <2>9, <2>10, <2>13, <2>16
<1>4. /\ u.from = t.from /\ u.original = FALSE /\ u.goto = (IF IsLast(i) THEN Final ELSE t.goto)
      /\ u.when = Fresh(b.heap, made)
  OBVIOUS
<1>5. u = [from |-> u.from, goto |-> u.goto, original |-> u.original, when |-> u.when,
           reset |-> u.reset]
  <2> HIDE DEF resets, made
  <2> QED
    OBVIOUS
<1>15. u.reset = IF IsLast(i) THEN TimeToZero(resets) ELSE resets
  OBVIOUS
<1>16. t.from = e.from /\ t.goto = <<e.to>> /\ IsEdge(e) /\ IsTold(t.reset, e, Added(feature))
  BY DEF IsModel
<1>12. Settled(u)
  <2>2. PICK old : old = t.reset
    OBVIOUS
  <2>3. IsSequence(old)
    BY <1>2, <2>2 DEF IsTransition, Settled
  <2>4. resets = LevelTaken(old) \o <<<<"level", Number(NextId(i))>>>> \o TemporalResets
    BY <2>2
  <2> HIDE DEF resets, u
  <2>5. IsSequence(resets) /\ LastReset(resets, "level") = Number(NextId(i))
    BY <2>3, <2>4, EdgeSettles
  <2>6. /\ IsSequence(TimeToZero(resets))
        /\ LastReset(TimeToZero(resets), "level") = LastReset(resets, "level")
    BY <2>5, LevelZeroed
  <2>7. IsSequence(u.reset) /\ LastReset(u.reset, "level") = Number(NextId(i))
    BY <1>15, <2>5, <2>6
  <2>9. PICK place : place = e.to
    OBVIOUS
  <2>10. u.goto = IF IsLast(i) THEN Final ELSE <<place>>
    BY <1>4, <1>16, <2>9
  <2> QED
    BY <2>7, <2>10, MatchSettled
<1>13. /\ IsSequence(Assigned(i)) /\ \A m \in DOMAIN Assigned(i) : Assigned(i)[m] # "level"
       /\ Len(Assigned(i)) > 1 => IsTemporal(feature)
       /\ \A m \in DOMAIN Assigned(i) : Assigned(i)[m] \in Storable
  BY SubsTyped, AssignedStorable
<1>17. nr = IF EventOnly(Sub(i)) THEN 0 ELSE dnfID
  OBVIOUS
<1>18. resets = StepResets(i, t.reset)
  BY DEF StepResets
<1> HIDE DEF made, u, resets
<1>6. /\ Grows(b.heap, g, levelGuard) /\ u.when \in 0 .. Len(g)
      /\ Reached(g, u.when) = Len(b.heap) + 1 .. Len(g)
  BY <1>2, <1>3, <1>4, CreateGrows
<1>19. Widens(feature, b.heap, g, levelGuard, i, {}) /\ GuardStands(g, levelGuard, u.when, w)
  <2>1. PICK conds, v : conds = made /\ v = w
    OBVIOUS
  <2>2. /\ v.shared = FALSE /\ IsSequence(conds) /\ Range(conds) = v.guards \union LevelOf(v.at)
        /\ \A c \in v.guards : c[1] # "level"
    BY <1>3, <1>14, <2>1
  <2>3. g = Create(b.heap, conds) /\ u.when = Fresh(b.heap, conds)
    BY <1>4, <2>1
  <2> HIDE DEF g
  <2>4. Widens(feature, b.heap, g, levelGuard, i, {}) /\ GuardStands(g, levelGuard, Fresh(b.heap, conds), v)
    BY <1>2, <2>2, <2>3, CreatedStands
  <2> QED
    BY <2>1, <2>3, <2>4
<1> HIDE DEF g, nr
<1>7. Leads(b, u.goto) /\ u.from \in 1 .. Len(b.locs)
  <2>1. Leads(b, t.goto)
    BY DEF Fine, AllLead
  <2> QED
    BY <1>2, <1>4, <2>1 DEF IsTransition
<1>8. WithHeap(b, g).locs = b.locs /\ WithHeap(b, g).heap = g
  BY <1>6, HeapGrown DEF Fine
<1>9. IsTransition(WithHeap(b, g), u)
  BY <1>4, <1>5, <1>6, <1>7, <1>8, <1>12 DEF IsTransition
<1>10. Reached(g, u.when) \subseteq (Len(b.heap) + 1 .. Len(g)) \union Shared(g, levelGuard)
  BY <1>6
<1>20. Bare(u.reset, w, TRUE, TRUE, e, w.to = Final)
  <2>1. PICK r, q, s : r = u.reset /\ q = t.reset /\ s = resets
    OBVIOUS
  <2>2. IsTold(q, e, Added(feature)) /\ s = StepResets(i, q)
    BY <1>16, <1>18, <2>1
  <2>3. r = IF IsLast(i) THEN TimeToZero(s) ELSE s
    BY <1>15, <2>1
  <2>4. Bare(r, w, TRUE, TRUE, e, w.to = Final)
    BY <1>14, <1>16, <2>2, <2>3, EdgeDoes, Zenon
  <2> QED
    BY <2>1, <2>4
<1>21. IsBare(WithHeap(b, g), levelGuard, u, w)
  <2>1. OnEdgeOf(w) = TRUE /\ EdgeSays(w)
    <3>1. PICK p : p = <<"edge", e>>
      OBVIOUS
    <3>2. p[1] = "edge" /\ p \in w.guards
      BY <1>14, <3>1
    <3>3. \A c \in AsksOwn(i, term) \union behind : c[1] # "edge"
      <4>1. \A c \in AsksOwn(i, term) : c[1] # "edge"
        BY OwnGuardsRead
      <4>2. \A c \in behind : c[1] # "edge"
        BY DEF Guarded
      <4> QED
        BY <4>1, <4>2
    <3>4. {c \in w.guards : c[1] = "edge"} = {p}
      BY <1>14, <3>1, <3>2, <3>3
    <3> QED
      BY <1>14, <3>1, <3>2, <3>4 DEF EdgeSays, OnEdgeOf
  <2>2. w.from = WithHeap(b, g).locs[u.from].name /\ w.to = u.goto
    <3>1. b.locs[t.from].name = <<t.from>>
      BY <1>4, <1>7 DEF Fine, Good, Shaped, IsLocation
    <3> QED
      BY <1>4, <1>8, <1>14, <1>16, <3>1
  <2>3. Len(w.to) # 4
    BY <1>14 DEF Final
  <2>4. \E match \in BOOLEAN : Bare(u.reset, w, OnEdgeOf(w), match, w.edge, w.to = Final)
    BY <1>14, <1>20, <2>1, Zenon
  <2>5. GuardStands(WithHeap(b, g).heap, levelGuard, u.when, w)
    BY <1>8, <1>19
  <2> QED
    BY <1>14, <2>1, <2>2, <2>3, <2>4, <2>5 DEF IsBare
<1>11. Adds(file, feature, b, d, levelGuard, Ordered(behind, u, w, nr, Assigned(i)), w.at, {})
  BY <1>1, <1>4, <1>6, <1>7, <1>9, <1>10, <1>13, <1>14, <1>19, <1>21, MatchAdds
<1>22. Ordered(behind, u, w, nr, Assigned(i)) = Matching(behind, e.from, i, w)
  <2>1. PICK l, s, q : l = e.from /\ s = u /\ q = nr
    OBVIOUS
  <2>2. s.from = l /\ q = IF EventOnly(Sub(i)) THEN 0 ELSE dnfID
    BY <1>4, <1>16, <1>17, <2>1
  <2>3. Ordered(behind, s, w, q, Assigned(i)) = Matching(behind, l, i, w)
    BY <2>2, MatchingFrom, Zenon
  <2> QED
    BY <2>1, <2>3
<1> QED
  BY <1>11, <1>14, <1>22 DEF w

\* A copy of transition e of the model that waits at level i.
WaitOf(i, e) ==
  [from |-> <<e.from>>, to |-> <<e.to>>, edge |-> e, at |-> i, goes |-> i, guards |-> {<<"edge", e>>},
   shared |-> TRUE, sets |-> << >>, zeroes |-> FALSE]

IsWaiting(i, e, w) ==
  /\ IsProduct(w) /\ w.edge = e /\ w.at = i /\ w.goes = i /\ w.sets = << >> /\ w.zeroes = FALSE
  /\ w.from = <<e.from>> /\ w.to = <<e.to>> /\ w.guards = {<<"edge", e>>} /\ w.shared = TRUE

\* The model's edge that waits on a level, field by field.
LEMMA WaitOfSays ==
  ASSUME NEW i, NEW e, NEW w, w = WaitOf(i, e)
  PROVE  IsWaiting(i, e, w)
<1>1. PICK from, to, guards : from = <<e.from>> /\ to = <<e.to>> /\ guards = {<<"edge", e>>}
  OBVIOUS
<1>2. w = [from |-> from, to |-> to, edge |-> e, at |-> i, goes |-> i, guards |-> guards,
           shared |-> TRUE, sets |-> << >>, zeroes |-> FALSE]
  BY <1>1, Zenon DEF WaitOf
<1>3. /\ w.from = from /\ w.to = to /\ w.edge = e /\ w.at = i /\ w.goes = i /\ w.guards = guards
      /\ w.shared = TRUE /\ w.sets = << >> /\ w.zeroes = FALSE
  BY <1>2
<1>4. IsProduct(w)
  BY <1>2, <1>3 DEF IsProduct
<1> QED
  BY <1>1, <1>3, <1>4, Zenon DEF IsWaiting

\* Every node of such a guard says edge, and of no other transition.
LEMMA EdgeGuard ==
  ASSUME NEW w, NEW e, w.edge = e, w.guards = {<<"edge", e>>}
  PROVE  OnEdgeOf(w) = TRUE /\ EdgeSays(w) /\ \A c \in w.guards : c[1] # "level"
<1>1. PICK p : p = <<"edge", e>>
  OBVIOUS
<1>2. p[1] = "edge" /\ w.guards = {p}
  BY <1>1
<1>3. {c \in w.guards : c[1] = "edge"} = {p}
  BY <1>2
<1> QED
  BY <1>1, <1>2, <1>3 DEF EdgeSays, OnEdgeOf

\* Adding the copy of an edge that waits on its level adds that copy and nothing else, and the
\* guards it is given widen the level's.
LEMMA WaitAdds ==
  ASSUME feature \in Features, file \in Files, NEW b, Fine(b, levelGuard),
         Guarded(feature, b.heap, levelGuard), NEW i \in DOMAIN levelGuard,
         NEW n \in 1 .. Len(b.trans), NEW t, t = b.trans[n], t.from \in Locs, NEW e, IsModel(b, t, e),
         NEW guards, IsSequence(guards), \A c \in Range(guards) : c[1] = "pred",
         feature[i + 1].dnf = << >> => Range(guards) = {}, NEW d, d = Wait(b, i, t, guards)
  PROVE  Adds(file, feature, b, d, levelGuard, {WaitOf(i, e)}, i, Range(guards))
<1> DEFINE conds == Contents(b.heap, t.when)
           root == Fresh(b.heap, conds)
           linked == Link(Create(b.heap, conds), root, levelGuard[i])
           when == Linked(root, levelGuard[i])
           u == [t EXCEPT !.original = FALSE, !.when = when]
           g == Link(Create(linked, guards), when, Fresh(linked, guards))
           c == WithHeap(b, g)
<1>1. /\ Lists(b.heap) /\ Len(b.heap) \in Nat
      /\ levelGuard[i] \in 1 .. Len(b.heap)
      /\ IsTransition(b, t) /\ IsAutomaton(b) /\ IsSequence(b.trans)
  BY Sizes DEF Fine, Good, Shaped, IsAutomaton
<1>2. u = [from |-> t.from, goto |-> t.goto, original |-> FALSE, when |-> when, reset |-> t.reset]
  <2>1. PICK from0, goto0, original0, when0, reset0 :
          t = [from |-> from0, goto |-> goto0, original |-> original0, when |-> when0,
               reset |-> reset0]
    BY <1>1 DEF IsTransition
  <2> HIDE DEF when
  <2>2. PICK no : no = FALSE
    OBVIOUS
  <2>3. PICK w : w = [t EXCEPT !.original = no]
    OBVIOUS
  <2>4. w = [from |-> from0, goto |-> goto0, original |-> no, when |-> when0, reset |-> reset0]
    BY <2>1, <2>3
  <2>5. u = [w EXCEPT !.when = when]
    BY <2>2, <2>3
  <2>6. [w EXCEPT !.when = when]
          = [from |-> from0, goto |-> goto0, original |-> no, when |-> when, reset |-> reset0]
    BY <2>4
  <2>7. t.from = from0 /\ t.goto = goto0 /\ t.reset = reset0
    BY <2>1
  <2> QED
    BY <2>2, <2>5, <2>6, <2>7
<1>3. u.from = t.from /\ u.goto = t.goto /\ u.original = FALSE /\ u.when = when /\ u.reset = t.reset
  <2> HIDE DEF u, when
  <2> QED
    BY <1>2
<1>4. d = AddTransition(c, u)
  BY <1>3 DEF Wait, WithHeap, Duplicate
<1>5. IsSequence(conds) /\ Range(conds) = {<<"edge", e>>}
  <2>1. t.when \in 0 .. Len(b.heap)
    BY <1>1 DEF IsTransition
  <2>2. IsSequence(Contents(b.heap, t.when))
    BY <1>1, <2>1, ContentsRead
  <2>3. Range(Contents(b.heap, t.when)) = {<<"edge", e>>}
    BY ContentsRange DEF IsModel, Asks
  <2> QED
    BY <2>2, <2>3
<1>6. PICK w : w = WaitOf(i, e)
  OBVIOUS
<1>7. IsWaiting(i, e, w)
  BY <1>6, WaitOfSays
<1>8. OnEdgeOf(w) = TRUE /\ EdgeSays(w) /\ \A x \in w.guards : x[1] # "level"
  BY <1>7, EdgeGuard DEF IsWaiting
<1> HIDE DEF u
<1>9. Widens(feature, b.heap, g, levelGuard, i, Range(guards)) /\ GuardStands(g, levelGuard, when, w)
  <2>1. PICK h, cs, guard : h = b.heap /\ cs = conds /\ guard = levelGuard[i]
    OBVIOUS
  <2>2. PICK lk : lk = Link(Create(h, cs), Fresh(h, cs), guard)
    OBVIOUS
  <2>3. PICK v, m : v = Linked(Fresh(h, cs), guard) /\ m = Link(Create(lk, guards), v, Fresh(lk, guards))
    OBVIOUS
  <2>4. g = m /\ when = v
    BY <2>1, <2>2, <2>3
  <2>5. Lists(h) /\ Guarded(feature, h, levelGuard) /\ IsSequence(cs) /\ Range(cs) = w.guards
    BY <1>1, <1>5, <1>7, <2>1 DEF IsWaiting
  <2>6. w.shared = TRUE /\ w.at = i
    BY <1>7 DEF IsWaiting
  <2> HIDE DEF g, when, conds, linked, root
  <2>7. Widens(feature, h, m, levelGuard, i, Range(guards)) /\ GuardStands(m, levelGuard, v, w)
    <3>1. guard = levelGuard[i]
      BY <2>1
    <3>2. m = Link(Create(lk, guards), v, Fresh(lk, guards)) /\ v = Linked(Fresh(h, cs), guard)
      BY <2>3
    <3> QED
      BY <1>8, <2>2, <2>5, <2>6, <3>1, <3>2, WaitingStands
  <2> QED
    BY <2>1, <2>4, <2>7
<1> HIDE DEF g, when, conds, linked, root
<1>10. IsAutomaton(c) /\ c.locs = b.locs /\ c.trans = b.trans /\ c.heap = g
  BY <1>1, HeapPut
<1>11. /\ d.locs = c.locs /\ d.heap = c.heap
       /\ Len(d.trans) = Len(c.trans) + 1 /\ d.trans[Len(c.trans) + 1] = u
  <2>1. IsSequence(c.trans)
    BY <1>1, <1>10
  <2> HIDE DEF c
  <2>2. IsAutomaton(c) /\ d = AddTransition(c, u)
    BY <1>4, <1>10
  <2> QED
    BY <2>1, <2>2, TransitionPut
<1> HIDE DEF c
<1>12. IsBare(d, levelGuard, u, w)
  <2>1. w.from = d.locs[u.from].name /\ w.to = u.goto
    <3>1. t.from \in 1 .. Len(b.locs) /\ t.from = e.from /\ t.goto = <<e.to>>
      BY <1>1 DEF IsTransition, IsModel
    <3>2. b.locs[t.from].name = <<t.from>>
      BY <3>1 DEF Fine, Good, Shaped, IsLocation
    <3> QED
      BY <1>3, <1>7, <1>10, <1>11, <3>1, <3>2 DEF IsWaiting
  <2>2. Len(w.to) # 4
    BY <1>7 DEF IsWaiting
  <2>3. Bare(u.reset, w, TRUE, FALSE, e, w.to = Final)
    <3>1. PICK r, final : r = u.reset /\ final = (w.to = Final)
      OBVIOUS
    <3>2. r = Resets[e] \o Identities(Added(feature)) /\ IsEdge(e)
      BY <1>3, <3>1 DEF IsModel, IsTold
    <3>3. w.goes = w.at /\ w.zeroes = FALSE
      BY <1>7 DEF IsWaiting
    <3>4. Bare(r, w, TRUE, FALSE, e, final)
      BY <3>2, <3>3, ModelBare
    <3> QED
      BY <3>1, <3>4
  <2>4. \E match \in BOOLEAN : Bare(u.reset, w, OnEdgeOf(w), match, w.edge, w.to = Final)
    <3>1. w.edge = e
      BY <1>7 DEF IsWaiting
    <3> QED
      BY <1>8, <2>3, <3>1, Zenon
  <2>5. GuardStands(d.heap, levelGuard, u.when, w)
    BY <1>3, <1>9, <1>10, <1>11
  <2>6. IsProduct(w) /\ w.sets = << >> /\ w.at \in DOMAIN levelGuard
    BY <1>7 DEF IsWaiting
  <2> QED
    BY <1>8, <2>1, <2>2, <2>4, <2>5, <2>6 DEF IsBare
<1>13. Made(file, feature, d, levelGuard, u, w)
  BY <1>12, BareMade
<1>14. Widens(feature, b.heap, d.heap, levelGuard, i, Range(guards))
  BY <1>9, <1>10, <1>11
<1>15. Adds(file, feature, b, d, levelGuard, {w}, i, Range(guards))
  <2>1. PICK C : C = Range(guards)
    OBVIOUS
  <2>2. Adds(file, feature, b, d, levelGuard, {w}, i, C)
    BY <1>3, <1>10, <1>11, <1>13, <1>14, <2>1, AddsOne DEF Fine
  <2> QED
    BY <2>1, <2>2
<1> QED
  BY <1>6, <1>15

\* Transitions of the model stay what they are while others are added.
LEMMA ModelContinues ==
  ASSUME NEW b, NEW lg, Fine(b, lg), NEW c, Continues(b, c), NEW n \in 1 .. Len(b.trans),
         NEW e, IsModel(b, b.trans[n], e)
  PROVE  IsModel(c, c.trans[n], e)
<1>1. c.trans[n] = b.trans[n] /\ SameConds(b.heap, c.heap)
  BY DEF Continues
<1>2. b.trans[n].original
  BY DEF IsModel
<1>3. Reached(c.heap, b.trans[n].when) = Reached(b.heap, b.trans[n].when)
  BY <1>2 DEF Continues
<1>4. Lists(b.heap) /\ b.trans[n].when \in 0 .. Len(b.heap)
  BY DEF Fine, Good, Shaped, IsTransition
<1>5. PICK conds : conds = {<<"edge", e>>}
  OBVIOUS
<1>6. Asks(b.heap, b.trans[n].when, conds)
  BY <1>5 DEF IsModel
<1>7. Asks(c.heap, b.trans[n].when, conds)
  BY <1>1, <1>3, <1>4, <1>6, AsksKept
<1> QED
  BY <1>1, <1>5, <1>7 DEF IsModel

\* The originals of a location are what is read from the file.
ReadFrom(es, ns) == \A n \in ns : IsModel(ha, ha.trans[n], es[n])

EdgeMatching(behind, i, term, e) == Matching(behind, e.from, i, EdgeMatch(i, e, term, behind))

AllMatching(behind, i, term, es, ns) == UNION {EdgeMatching(behind, i, term, es[m]) : m \in ns}

\* Going through the edges out of a location adds the matches of each of them and nothing else.
LEMMA OnEdgesAdds ==
  ASSUME feature \in Features, file \in Files, Fine(ha, levelGuard),
         NEW b, Fine(b, levelGuard), Continues(ha, b), Leads(b, Final), Guarded(feature, b.heap, levelGuard),
         b.vars = AllNames, NEW i \in DOMAIN levelGuard, IsSub(i), here \in Locs,
         NEW ns \in SUBSET Originals(here), NEW es, ReadFrom(es, ns), NEW term, IsFiniteSet(term.preds),
         NEW behind, behind = TailOf(b.heap, levelGuard, i), NEW d, d = OnEdges(b, i, ns, term)
  PROVE  Continues(b, d) /\ Adds(file, feature, b, d, levelGuard, AllMatching(behind, i, term, es, ns), i, {})
<1> DEFINE n == Len(ha.trans)
           f == CHOOSE f : AreMatches(f, b, i, ns, term, n)
           M(m) == EdgeMatching(behind, i, term, es[m])
           hits(k) == UNION {M(m) : m \in {j \in ns : j <= k}}
<1>1. n \in Nat /\ DOMAIN ha.trans = 1 .. n /\ Good(b, levelGuard)
  BY Sizes DEF Fine
<1>2. d = f[n]
  BY DEF OnEdges, AreMatches
<1>3. /\ f[0] = b
      /\ \A k \in 1 .. n : f[k] = IF k \in ns THEN OnEdge(f[k - 1], i, ha.trans[k], term) ELSE f[k - 1]
  <2>1. \E g : AreMatches(g, b, i, ns, term, n)
    BY <1>1, MatchesUnfold
  <2>2. AreMatches(f, b, i, ns, term, n)
    BY <2>1
  <2> HIDE DEF f
  <2>3. 0 \in 0 .. n /\ \A k \in 1 .. n : k \in 0 .. n /\ k # 0
    BY <1>1
  <2>4. f[0] = b
    BY <2>2, <2>3 DEF AreMatches
  <2>5. ASSUME NEW k \in 1 .. n
        PROVE f[k] = IF k \in ns THEN OnEdge(f[k - 1], i, ha.trans[k], term) ELSE f[k - 1]
    BY <2>2, <2>3 DEF AreMatches
  <2> QED
    BY <2>4, <2>5
<1>8. ns \subseteq 1 .. n
  BY <1>1 DEF Originals
<1> HIDE DEF f, M
<1> DEFINE T == {k \in 0 .. n : /\ Fine(f[k], levelGuard) /\ Continues(ha, f[k]) /\ Leads(f[k], Final)
                               /\ Continues(b, f[k])
                               /\ Adds(file, feature, b, f[k], levelGuard, hits(k), i, {})}
<1>4. 0 \in T
  <2>1. Continues(b, b)
    BY <1>1, ContinuesItself
  <2>2. hits(0) = {}
    BY <1>1, <1>8
  <2>3. Widens(feature, b.heap, b.heap, levelGuard, i, {})
    BY WidensItself
  <2>4. Adds(file, feature, b, b, levelGuard, {}, i, {})
    BY <1>1, <2>3, AddsNothing
  <2>5. Adds(file, feature, b, f[0], levelGuard, hits(0), i, {})
    BY <1>3, <2>2, <2>4
  <2> HIDE DEF hits
  <2> QED
    BY <1>1, <1>3, <2>1, <2>5
<1>5. ASSUME NEW k \in 1 .. n, k - 1 \in T PROVE k \in T
  <2> DEFINE c == f[k - 1]
  <2>1. /\ Fine(c, levelGuard) /\ Continues(ha, c) /\ Leads(c, Final) /\ k \in 0 .. n
        /\ Continues(b, c) /\ Adds(file, feature, b, c, levelGuard, hits(k - 1), i, {})
        /\ f[k] = IF k \in ns THEN OnEdge(c, i, ha.trans[k], term) ELSE c
    BY <1>1, <1>3, <1>5
  <2> HIDE DEF c
  <2>2. CASE k \in ns
    <3>1. PICK t, e : t = ha.trans[k] /\ e = es[k]
      OBVIOUS
    <3>2. k \in 1 .. Len(c.trans) /\ t = c.trans[k]
      <4>1. Len(c.trans) \in Nat
        BY <2>1, Sizes DEF Fine
      <4> QED
        BY <1>1, <2>1, <3>1, <4>1 DEF Continues
    <3>3. f[k] = OnEdge(c, i, t, term)
      BY <2>1, <2>2, <3>1
    <3>6. t.original /\ t.from \in Locs
      BY <2>2, <3>1 DEF Originals
    <3>4. Fine(f[k], levelGuard) /\ Continues(c, f[k])
      BY <2>1, <3>2, <3>3, <3>6, OnEdgeFine
    <3>5. Continues(ha, f[k]) /\ Leads(f[k], Final) /\ Continues(b, f[k])
      BY <2>1, <3>4, ContinuesFine, StillFinal
    <3>7. IsModel(c, t, e)
      <4>1. IsModel(ha, ha.trans[k], e)
        BY <2>2, <3>1 DEF ReadFrom
      <4> QED
        BY <1>1, <2>1, <3>2, <4>1, ModelContinues
    <3>8. Guarded(feature, c.heap, levelGuard) /\ TailOf(c.heap, levelGuard, i) = behind
      BY <2>1 DEF Adds, Widens
    <3>9. c.vars = AllNames
      BY <2>1 DEF Continues
    <3>10. PICK S : S = EdgeMatching(behind, i, term, e)
      OBVIOUS
    <3>11. Adds(file, feature, c, f[k], levelGuard, S, i, {})
      <4>1. Adds(file, feature, c, f[k], levelGuard, Matching(behind, e.from, i, EdgeMatch(i, e, term, behind)), i, {})
        BY <2>1, <3>2, <3>3, <3>6, <3>7, <3>8, <3>9, OnEdgeAdds
      <4> QED
        BY <3>10, <4>1 DEF EdgeMatching
    <3>12. Adds(file, feature, b, f[k], levelGuard, hits(k - 1) \union S, i, {} \union {})
      <4> HIDE DEF hits
      <4> QED
        BY <1>1, <2>1, <3>4, <3>11, AddsFurther DEF Fine
    <3>13. hits(k) = hits(k - 1) \union S /\ {} \union {} = {}
      <4>1. S = M(k)
        BY <3>1, <3>10 DEF M
      <4>2. {j \in ns : j <= k} = {j \in ns : j <= k - 1} \union {k}
        <5>1. \A j \in ns : j <= k <=> j <= k - 1 \/ j = k
          BY <1>1, <1>8
        <5> QED
          BY <2>2, <5>1
      <4> QED
        BY <4>1, <4>2
    <3> HIDE DEF hits
    <3> QED
      BY <2>1, <3>4, <3>5, <3>12, <3>13
  <2>3. CASE k \notin ns
    <3>1. {j \in ns : j <= k} = {j \in ns : j <= k - 1}
      <4>1. \A j \in ns : j <= k <=> j <= k - 1
        <5>1. \A j \in ns : j # k
          BY <2>3
        <5>2. \A j \in ns : j \in 1 .. n
          BY <1>8
        <5> QED
          BY <1>1, <5>1, <5>2
      <4> QED
        BY <4>1
    <3>2. hits(k) = hits(k - 1)
      BY <3>1
    <3> HIDE DEF hits
    <3> QED
      BY <2>1, <2>3, <3>2
  <2> QED
    BY <2>2, <2>3
<1> HIDE DEF T
<1>6. \A k \in 0 .. n : k \in T
  BY <1>1, <1>4, <1>5, Upwards
<1>7. n \in T
  BY <1>1, <1>6
<1>9. hits(n) = AllMatching(behind, i, term, es, ns)
  <2>1. {j \in ns : j <= n} = ns
    BY <1>1, <1>8
  <2> QED
    BY <2>1 DEF M, AllMatching
<1>10. Continues(b, f[n]) /\ Adds(file, feature, b, f[n], levelGuard, hits(n), i, {})
  <2> HIDE DEF hits
  <2> QED
    BY <1>7 DEF T
<1> QED
  BY <1>2, <1>9, <1>10

\* All the copies of a location that wait: if there is one, the guards that are
\* appended are behind the guard of the level from then on.
LEMMA WaitAllAdds ==
  ASSUME feature \in Features, file \in Files, Fine(ha, levelGuard), Leads(ha, Final), id \in DOMAIN levelGuard,
         Guarded(feature, ha.heap, levelGuard),
         NEW es, ReadFrom(es, Originals(here)), here \in Locs,
         NEW guards, IsSequence(guards), \A c \in Range(guards) : c[1] = "pred",
         feature[id + 1].dnf = << >> => Range(guards) = {}, NEW d, d = WaitAll(guards)
  PROVE  Adds(file, feature, ha, d, levelGuard, {WaitOf(id, es[m]) : m \in Originals(here)}, id,
              IF Originals(here) = {} THEN {} ELSE Range(guards))
<1> DEFINE n == Len(ha.trans)
           f == CHOOSE f : AreWaits(f, guards, n)
           ns == Originals(here)
           upto(k) == {j \in ns : j <= k}
           hits(k) == {WaitOf(id, es[m]) : m \in upto(k)}
           behind(k) == IF upto(k) = {} THEN {} ELSE Range(guards)
<1>1. n \in Nat /\ DOMAIN ha.trans = 1 .. n /\ Good(ha, levelGuard)
  BY Sizes DEF Fine
<1>2. d = f[n]
  BY DEF WaitAll, AreWaits
<1>3. /\ f[0] = ha
      /\ \A k \in 1 .. n : f[k] = IF k \in ns THEN Wait(f[k - 1], id, ha.trans[k], guards) ELSE f[k - 1]
  <2>1. \E g : AreWaits(g, guards, n)
    BY <1>1, WaitsUnfold
  <2>2. AreWaits(f, guards, n)
    BY <2>1
  <2> HIDE DEF f
  <2>3. 0 \in 0 .. n /\ \A k \in 1 .. n : k \in 0 .. n /\ k # 0
    BY <1>1
  <2>4. f[0] = ha
    BY <2>2, <2>3 DEF AreWaits
  <2>5. ASSUME NEW k \in 1 .. n
        PROVE f[k] = IF k \in Originals(here) THEN Wait(f[k - 1], id, ha.trans[k], guards) ELSE f[k - 1]
    BY <2>2, <2>3 DEF AreWaits
  <2> QED
    BY <2>4, <2>5
<1>8. ns \subseteq 1 .. n
  BY <1>1 DEF Originals
<1>9. \A m \in DOMAIN guards : guards[m][1] # "edge"
  BY DEF Range
<1> HIDE DEF f
<1> DEFINE T == {k \in 0 .. n : /\ Fine(f[k], levelGuard) /\ Continues(ha, f[k]) /\ Leads(f[k], Final)
                               /\ Adds(file, feature, ha, f[k], levelGuard, hits(k), id, behind(k))}
<1>4. 0 \in T
  <2>1. Continues(ha, ha)
    BY <1>1, ContinuesItself
  <2>2. upto(0) = {}
    BY <1>1, <1>8
  <2>3. Widens(feature, ha.heap, ha.heap, levelGuard, id, {})
    BY WidensItself
  <2>4. Adds(file, feature, ha, ha, levelGuard, {}, id, {})
    BY <1>1, <2>3, AddsNothing
  <2>6. hits(0) = {} /\ behind(0) = {}
    BY <2>2
  <2>5. Adds(file, feature, ha, f[0], levelGuard, hits(0), id, behind(0))
    <3> HIDE DEF hits, behind
    <3> QED
      BY <1>3, <2>4, <2>6
  <2> HIDE DEF hits, behind
  <2> QED
    BY <1>1, <1>3, <2>1, <2>5
<1>5. ASSUME NEW k \in 1 .. n, k - 1 \in T PROVE k \in T
  <2> DEFINE c == f[k - 1]
  <2>1. /\ Fine(c, levelGuard) /\ Continues(ha, c) /\ Leads(c, Final) /\ k \in 0 .. n
        /\ Adds(file, feature, ha, c, levelGuard, hits(k - 1), id, behind(k - 1))
        /\ f[k] = IF k \in ns THEN Wait(c, id, ha.trans[k], guards) ELSE c
    <3> HIDE DEF hits, behind
    <3> QED
      BY <1>1, <1>3, <1>5
  <2> HIDE DEF c
  <2>2. CASE k \in ns
    <3>1. PICK t, e : t = ha.trans[k] /\ e = es[k]
      OBVIOUS
    <3>2. k \in 1 .. Len(c.trans) /\ t = c.trans[k]
      <4>1. Len(c.trans) \in Nat
        BY <2>1, Sizes DEF Fine
      <4> QED
        BY <1>1, <2>1, <3>1, <4>1 DEF Continues
    <3>3. f[k] = Wait(c, id, t, guards)
      BY <2>1, <2>2, <3>1
    <3>6. t.original /\ t.from \in Locs
      BY <2>2, <3>1 DEF Originals
    <3>4. Fine(f[k], levelGuard) /\ Continues(c, f[k])
      BY <1>9, <2>1, <3>2, <3>3, WaitFine
    <3>5. Continues(ha, f[k]) /\ Leads(f[k], Final)
      BY <2>1, <3>4, ContinuesFine, StillFinal
    <3>7. IsModel(c, t, e)
      <4>1. IsModel(ha, ha.trans[k], e)
        BY <2>2, <3>1 DEF ReadFrom
      <4> QED
        BY <1>1, <2>1, <3>2, <4>1, ModelContinues
    <3>8. Guarded(feature, c.heap, levelGuard)
      BY <2>1 DEF Adds, Widens
    <3>10. PICK S, C : S = {WaitOf(id, e)} /\ C = Range(guards)
      OBVIOUS
    <3>11. Adds(file, feature, c, f[k], levelGuard, S, id, C)
      <4>1. Adds(file, feature, c, f[k], levelGuard, {WaitOf(id, e)}, id, Range(guards))
        BY <2>1, <3>2, <3>3, <3>6, <3>7, <3>8, WaitAdds
      <4> QED
        BY <3>10, <4>1
    <3>12. Adds(file, feature, ha, f[k], levelGuard, hits(k - 1) \union S, id, behind(k - 1) \union C)
      <4> HIDE DEF hits, behind
      <4> QED
        BY <1>1, <2>1, <3>4, <3>5, <3>11, AddsFurther DEF Fine
    <3>13. upto(k) = upto(k - 1) \union {k}
      <4>1. \A j \in ns : j <= k <=> j <= k - 1 \/ j = k
        BY <1>1, <1>8
      <4> QED
        BY <2>2, <4>1
    <3>14. hits(k) = hits(k - 1) \union S /\ behind(k) = behind(k - 1) \union C
      <4> HIDE DEF upto
      <4> QED
        BY <3>1, <3>10, <3>13
    <3> HIDE DEF hits, behind
    <3> QED
      BY <2>1, <3>4, <3>5, <3>12, <3>14
  <2>3. CASE k \notin ns
    <3>1. upto(k) = upto(k - 1)
      <4>1. \A j \in ns : j <= k <=> j <= k - 1
        <5>1. \A j \in ns : j # k
          BY <2>3
        <5>2. \A j \in ns : j \in 1 .. n
          BY <1>8
        <5> HIDE DEF ns
        <5> QED
          BY <1>1, <5>1, <5>2
      <4> QED
        BY <4>1
    <3>2. hits(k) = hits(k - 1) /\ behind(k) = behind(k - 1)
      <4> HIDE DEF upto
      <4> QED
        BY <3>1
    <3> HIDE DEF hits, behind
    <3> QED
      BY <2>1, <2>3, <3>2
  <2> QED
    BY <2>2, <2>3
<1> HIDE DEF T
<1>6. \A k \in 0 .. n : k \in T
  BY <1>1, <1>4, <1>5, Upwards
<1>7. n \in T
  BY <1>1, <1>6
<1>10. Adds(file, feature, ha, f[n], levelGuard, hits(n), id, behind(n))
  <2> HIDE DEF hits, behind
  <2> QED
    BY <1>7 DEF T
<1>11. upto(n) = ns
  BY <1>1, <1>8
<1> QED
  <2> HIDE DEF upto
  <2> QED
    BY <1>2, <1>10, <1>11

-------------------------------------------------------------------------------
\* The same transitions in LevelSequence

\* The parts of a feature are the same in both.
LEMMA SameParts ==
  /\ \A i : /\ LS!Sub(i) = Sub(i) /\ LS!IsLast(i) = IsLast(i) /\ LS!NextId(i) = NextId(i)
            /\ LS!Terms(i) = Terms(i) /\ LS!Assigned(i) = Assigned(i)
            /\ LS!TermNr(i, dnfID) = IF EventOnly(Sub(i)) THEN 0 ELSE dnfID
  /\ \A x : /\ LS!IsStateEvent(x) <=> IsStateEvent(x)
            /\ LS!IsPorvEvent(x) <=> IsPorvEvent(x)
            /\ LS!EventOnly(x) <=> EventOnly(x)
  /\ LS!IsTemporal(feature) <=> IsTemporal(feature)
  /\ LS!Locs = Locs /\ LS!Final = Final
<1>1. \A i : LS!Sub(i) = Sub(i) /\ LS!IsLast(i) = IsLast(i) /\ LS!NextId(i) = NextId(i)
  BY DEF LS!Sub, Sub, LS!IsLast, IsLast, LS!NextId, NextId
<1>2. \A x : /\ LS!IsStateEvent(x) <=> IsStateEvent(x)
             /\ LS!IsPorvEvent(x) <=> IsPorvEvent(x)
             /\ LS!EventOnly(x) <=> EventOnly(x)
  BY DEF LS!IsStateEvent, IsStateEvent, LS!IsPorvEvent, IsPorvEvent, LS!EventOnly, EventOnly
<1>3. \A i : LS!Terms(i) = Terms(i)
  BY DEF LS!Terms, Terms, LS!Conjuncts, Conjuncts, LS!EventOnly, EventOnly, LS!Sub, Sub
<1>4. \A i : LS!Assigned(i) = Assigned(i)
  BY DEF LS!Assigned, Assigned, LS!Assignments, Assignments
<1>5. \A i : LS!TermNr(i, dnfID) = IF EventOnly(Sub(i)) THEN 0 ELSE dnfID
  BY DEF LS!TermNr, LS!EventOnly, EventOnly, LS!Sub, Sub
<1>6. LS!IsTemporal(feature) <=> IsTemporal(feature)
  BY DEF LS!IsTemporal, IsTemporal
<1>7. LS!Locs = Locs /\ LS!Final = Final
  BY DEF LS!Locs, Locs, LS!Final, Final
<1> QED
  BY <1>1, <1>2, <1>3, <1>4, <1>5, <1>6, <1>7

\* The hops of a match.
IsPut(w, u, from, to, goes, guards, shared, sets, zeroes) ==
  u = [from |-> from, to |-> to, edge |-> w.edge, at |-> w.at, goes |-> goes, guards |-> guards,
       shared |-> shared, sets |-> sets, zeroes |-> zeroes]

\* A transition with other fields has those fields and keeps the others.
LEMMA HopPut ==
  ASSUME NEW w, IsProduct(w), NEW from, NEW to, NEW goes, NEW guards, NEW shared, NEW sets, NEW zeroes,
         NEW u, u = [w EXCEPT !.from = from, !.to = to, !.goes = goes, !.guards = guards,
                              !.shared = shared, !.sets = sets, !.zeroes = zeroes]
  PROVE  IsPut(w, u, from, to, goes, guards, shared, sets, zeroes)
  BY DEF IsProduct, IsPut

\* The last hop changes where it comes from and what it sets.
LEMMA LastPut ==
  ASSUME NEW w, IsProduct(w), NEW from, NEW sets, NEW u, u = [w EXCEPT !.from = from, !.sets = sets]
  PROVE  IsPut(w, u, from, w.to, w.goes, w.guards, w.shared, sets, w.zeroes)
  BY DEF IsProduct, IsPut

\* The k-th hop of the code is the abstract specification's.
LEMMA HoppedIs ==
  ASSUME NEW w, IsProduct(w), NEW behind, behind = Tails[w.at],
         NEW nr, nr = LS!TermNr(id, dnfID), NEW s, s.from = here,
         NEW assigned, IsSequence(assigned), NEW k \in 1 .. Len(assigned)
  PROVE  Hopped(behind, s, w, nr, assigned, k)
           = IF k < Len(assigned) THEN LS!Hop(w, assigned, k) ELSE LS!LastHop(w, assigned)
<1>1. Len(assigned) \in Nat
  BY SequenceFacts
<1>2. \A n : PauseName(s.from, id, nr, n) = LS!Pause(n)
  BY DEF PauseName, LS!Pause
<1>3. Leaves(s, w, nr, k) = LS!Place(w, k - 1)
  <2>1. k = 1 <=> k - 1 = 0
    OBVIOUS
  <2> QED
    BY <1>2, <2>1 DEF Leaves, LS!Place
<1>4. PICK when : when = LS!When(w)
  OBVIOUS
<1>5. when = w.guards \union IF w.shared THEN behind ELSE {}
  BY <1>4 DEF LS!When
<1>6. PICK from, to, y : from = LS!Place(w, k - 1) /\ to = LS!Pause(k) /\ y = <<assigned[k]>>
  OBVIOUS
<1>7. CASE k < Len(assigned)
  <2>1. PICK u : u = LS!Hop(w, assigned, k)
    OBVIOUS
  <2>2. u = [w EXCEPT !.from = from, !.to = to, !.goes = w.at, !.guards = when, !.shared = FALSE,
                      !.sets = y, !.zeroes = FALSE]
    BY <1>4, <1>6, <2>1 DEF LS!Hop
  <2>3. PICK no, goes : no = FALSE /\ goes = w.at
    OBVIOUS
  <2>4. u = [w EXCEPT !.from = from, !.to = to, !.goes = goes, !.guards = when, !.shared = no,
                      !.sets = y, !.zeroes = no]
    BY <2>2, <2>3
  <2>5. IsPut(w, u, from, to, goes, when, no, y, no)
    BY <2>4, HopPut
  <2>6. Hopped(behind, s, w, nr, assigned, k) = HopOf(w, from, to, assigned[k], behind)
    BY <1>2, <1>3, <1>6, <1>7 DEF Hopped
  <2>7. HopOf(w, from, to, assigned[k], behind) = u
    <3>1. u = [from |-> from, to |-> to, edge |-> w.edge, at |-> w.at, goes |-> goes, guards |-> when,
               shared |-> no, sets |-> y, zeroes |-> no]
      BY <2>5 DEF IsPut
    <3> QED
      BY <1>5, <1>6, <2>3, <3>1, Zenon DEF HopOf
  <2> QED
    BY <1>7, <2>1, <2>6, <2>7
<1>8. CASE ~(k < Len(assigned))
  <2>0. k = Len(assigned)
    BY <1>1, <1>8
  <2>1. PICK u : u = LS!LastHop(w, assigned)
    OBVIOUS
  <2>2. u = [w EXCEPT !.from = from, !.sets = y]
    BY <1>6, <2>0, <2>1 DEF LS!LastHop
  <2>3. IsPut(w, u, from, w.to, w.goes, w.guards, w.shared, y, w.zeroes)
    BY <2>2, LastPut
  <2>4. Hopped(behind, s, w, nr, assigned, k) = LastOf(w, from, assigned[k])
    BY <1>3, <1>6, <1>8 DEF Hopped
  <2>5. LastOf(w, from, assigned[k]) = u
    BY <1>6, <2>3 DEF IsPut, LastOf
  <2> QED
    BY <1>8, <2>1, <2>4, <2>5
<1> QED
  BY <1>7, <1>8

\* All hops of a match together are what the abstract specification orders.
LEMMA MatchingIs ==
  ASSUME feature \in Features, IsSub(id), NEW w, IsProduct(w), w.at = id,
         NEW behind, behind = Tails[id]
  PROVE  Matching(behind, here, id, w) = LS!OrderedResets(w, LS!Assigned(id))
<1>1. PICK assigned, nr, s : /\ assigned = Assigned(id) /\ s = [from |-> here]
                             /\ nr = IF EventOnly(Sub(id)) THEN 0 ELSE dnfID
  OBVIOUS
<1>2. IsSequence(assigned) /\ LS!Assigned(id) = assigned /\ nr = LS!TermNr(id, dnfID)
  BY <1>1, SubsTyped, SameParts
<1>3. s.from = here /\ Matching(behind, here, id, w) = Ordered(behind, s, w, nr, assigned)
  BY <1>1 DEF Matching
<1>4. Len(assigned) \in Nat
  BY <1>2, SequenceFacts
<1>5. CASE Len(assigned) <= 1
  BY <1>2, <1>3, <1>5 DEF Ordered, LS!OrderedResets
<1>6. CASE ~(Len(assigned) <= 1)
  <2> DEFINE n == Len(assigned)
             step(k) == Hopped(behind, s, w, nr, assigned, k)
             hop(k) == LS!Hop(w, assigned, k)
             last == LS!LastHop(w, assigned)
  <2>1. \A k \in 1 .. n : step(k) = IF k < n THEN hop(k) ELSE last
    BY <1>2, <1>3, HoppedIs
  <2>2. Ordered(behind, s, w, nr, assigned) = {step(k) : k \in 1 .. n}
    BY <1>6 DEF Ordered
  <2>3. LS!OrderedResets(w, assigned) = {hop(k) : k \in 1 .. n - 1} \union {last}
    BY <1>6 DEF LS!OrderedResets
  <2> HIDE DEF step, hop, last
  <2>4. n \in 1 .. n /\ \A k \in 1 .. n : k < n <=> k \in 1 .. n - 1
    BY <1>4, <1>6
  <2>5. step(n) = last /\ \A k \in 1 .. n - 1 : k \in 1 .. n /\ step(k) = hop(k)
    BY <1>4, <2>1, <2>4
  <2>6. {step(k) : k \in 1 .. n} = {hop(k) : k \in 1 .. n - 1} \union {last}
    BY <2>1, <2>4, <2>5
  <2> QED
    BY <1>2, <1>3, <2>2, <2>3, <2>6
<1> QED
  BY <1>5, <1>6

\* The matches themselves, and what waits.
LEMMA GuardsAre ==
  ASSUME NEW i, NEW term, IsFiniteSet(term.preds)
  PROVE  /\ LS!TemporalGuards(i) = Range(TemporalGuards(i))
         /\ \A l : LS!EventGuards(i, l) = Range(EventGuards(i, l))
         /\ LS!PredGuards(term) = {<<"pred", p>> : p \in term.preds}
         /\ LS!PredGuards(term) = Range(ConjunctGuards(term))
<1>1. Range(<< >>) = {} /\ \A p : Range(<<p>>) = {p}
  BY DEF Range
<1>2. LS!TemporalGuards(i) = Range(TemporalGuards(i))
  <2>1. PICK p : p = <<"window", i>>
    OBVIOUS
  <2>2. TemporalGuards(i) = IF Sub(i).delay = None THEN << >> ELSE <<p>>
    BY <2>1 DEF TemporalGuards
  <2>3. LS!TemporalGuards(i) = IF Sub(i).delay = None THEN {} ELSE {p}
    BY <2>1 DEF LS!TemporalGuards, LS!Sub, Sub
  <2> QED
    BY <1>1, <2>2, <2>3
<1>3. ASSUME NEW l PROVE LS!EventGuards(i, l) = Range(EventGuards(i, l))
  <2>1. PICK S, p : S = SignGuard(Sub(i).event, l) /\ p = <<"cross", Sub(i).event.of>>
    OBVIOUS
  <2>2. LS!SignGuard(Sub(i).event, l) = S
    BY <2>1 DEF LS!SignGuard, SignGuard, LS!Derivative, Derivative
  <2>3. LS!EventGuards(i, l) = IF ~IsPorvEvent(Sub(i)) THEN {} ELSE {p} \union S
    BY <2>1, <2>2, SameParts DEF LS!EventGuards
  <2>4. Range(EventGuards(i, l)) = IF ~IsPorvEvent(Sub(i)) THEN {} ELSE {p} \union S
    BY <2>1, EventGuardsRead
  <2> QED
    BY <2>3, <2>4
<1>4. LS!PredGuards(term) = {<<"pred", p>> : p \in term.preds}
  BY DEF LS!PredGuards
<1>5. Range(ConjunctGuards(term)) = {<<"pred", p>> : p \in term.preds}
  BY ConjunctAll
<1> QED
  BY <1>2, <1>3, <1>4, <1>5

\* The self-loop is the abstract specification's.
LEMMA LoopIs ==
  ASSUME NEW i, NEW l, NEW term, IsFiniteSet(term.preds)
  PROVE  LS!SelfLoop(i, l, term) = LoopOf(i, l, term)
<1>1. PICK T, E, P, A : /\ T = Range(TemporalGuards(i)) /\ E = Range(EventGuards(i, l))
                        /\ P = {<<"pred", p>> : p \in term.preds} /\ A = AsksOwn(i, term)
  OBVIOUS
<1>2. A = T \union P /\ (T \union E) \union P = A \union E
  BY <1>1 DEF AsksOwn
<1>3. LS!TemporalGuards(i) = T /\ LS!EventGuards(i, l) = E /\ LS!PredGuards(term) = P
  BY <1>1, GuardsAre
<1>4. /\ LS!IsLast(i) = IsLast(i) /\ LS!NextId(i) = NextId(i) /\ LS!Sub(i) = Sub(i)
      /\ LS!EventOnly(Sub(i)) = EventOnly(Sub(i)) /\ LS!IsTemporal(feature) = IsTemporal(feature)
      /\ LS!Final = Final
  BY SameParts DEF LS!EventOnly, EventOnly, LS!IsTemporal, IsTemporal
<1>5. PICK g : g = A \union E
  OBVIOUS
<1>6. (LS!TemporalGuards(i) \union LS!EventGuards(i, l)) \union LS!PredGuards(term) = g
  BY <1>2, <1>3, <1>5
<1> QED
  BY <1>1, <1>4, <1>5, <1>6, Zenon DEF LS!SelfLoop, LoopOf

\* The match on an edge is the abstract specification's.
LEMMA EdgeMatchIs ==
  ASSUME NEW i, NEW e, NEW term, IsFiniteSet(term.preds), NEW behind, behind = Tails[i]
  PROVE  LS!OnEdge(i, e, term) = EdgeMatch(i, e, term, behind)
<1>1. PICK T, P, A, p : /\ T = Range(TemporalGuards(i)) /\ p = {<<"edge", e>>}
                        /\ P = {<<"pred", x>> : x \in term.preds} /\ A = AsksOwn(i, term)
  OBVIOUS
<1>2. A = T \union P /\ (p \union T) \union P = p \union A
  BY <1>1 DEF AsksOwn
<1>3. LS!TemporalGuards(i) = T /\ LS!PredGuards(term) = P
  BY <1>1, GuardsAre
<1>4. LS!IsLast(i) = IsLast(i) /\ LS!NextId(i) = NextId(i) /\ LS!Final = Final
  BY SameParts
<1>5. PICK g : g = (p \union A) \union behind
  OBVIOUS
<1>6. (({<<"edge", e>>} \union LS!TemporalGuards(i)) \union LS!PredGuards(term)) \union Tails[i] = g
  BY <1>1, <1>2, <1>3, <1>5
<1> QED
  BY <1>1, <1>4, <1>5, <1>6, Zenon DEF LS!OnEdge, EdgeMatch

\* A transition of the model, at no level or at level k.
ModelAt(k, e) ==
  [from |-> <<e.from>>, to |-> <<e.to>>, edge |-> e, at |-> k, goes |-> k, guards |-> {<<"edge", e>>},
   shared |-> FALSE, sets |-> << >>, zeroes |-> FALSE]

\* A transition of the model that waits.
LEMMA WaitPut ==
  ASSUME NEW w, IsProduct(w), NEW i, NEW shared, NEW u, u = [w EXCEPT !.at = i, !.goes = i, !.shared = shared]
  PROVE  u = [from |-> w.from, to |-> w.to, edge |-> w.edge, at |-> i, goes |-> i, guards |-> w.guards,
              shared |-> shared, sets |-> w.sets, zeroes |-> w.zeroes]
  BY DEF IsProduct

\* The fields of a transition of the model.
IsAt(k, e, w) ==
  /\ IsProduct(w) /\ w.edge = e /\ w.at = k /\ w.goes = k /\ w.sets = << >> /\ w.zeroes = FALSE
  /\ w.from = <<e.from>> /\ w.to = <<e.to>> /\ w.guards = {<<"edge", e>>} /\ w.shared = FALSE

\* An edge of the automaton on level k, field by field.
LEMMA ModelAtSays ==
  ASSUME NEW k, NEW e, NEW w, w = ModelAt(k, e)
  PROVE  IsAt(k, e, w)
<1>1. PICK from, to, guards : from = <<e.from>> /\ to = <<e.to>> /\ guards = {<<"edge", e>>}
  OBVIOUS
<1>2. w = [from |-> from, to |-> to, edge |-> e, at |-> k, goes |-> k, guards |-> guards,
           shared |-> FALSE, sets |-> << >>, zeroes |-> FALSE]
  BY <1>1, Zenon DEF ModelAt
<1>3. /\ w.from = from /\ w.to = to /\ w.edge = e /\ w.at = k /\ w.goes = k /\ w.guards = guards
      /\ w.shared = FALSE /\ w.sets = << >> /\ w.zeroes = FALSE
  BY <1>2
<1>4. IsProduct(w)
  BY <1>2, <1>3, Zenon DEF IsProduct
<1> QED
  BY <1>1, <1>3, <1>4, Zenon DEF IsAt

\* The waiting edge and the original one are the abstract specification's.
LEMMA WaitIs ==
  ASSUME NEW i, NEW e
  PROVE  LS!Waiting(i, e) = WaitOf(i, e) /\ LS!Original(e) = ModelAt(-1, e)
<1>1. LS!Original(e) = ModelAt(-1, e)
  BY DEF LS!Original, LS!NoLevel, ModelAt
<1>2. PICK w : w = ModelAt(-1, e)
  OBVIOUS
<1>3. PICK u : u = LS!Waiting(i, e)
  OBVIOUS
<1>4. u = [w EXCEPT !.at = i, !.goes = i, !.shared = TRUE]
  BY <1>1, <1>2, <1>3, Zenon DEF LS!Waiting
<1>8. IsAt(-1, e, w)
  BY <1>2, ModelAtSays
<1>5. /\ IsProduct(w) /\ w.edge = e /\ w.sets = << >> /\ w.zeroes = FALSE
      /\ w.from = <<e.from>> /\ w.to = <<e.to>> /\ w.guards = {<<"edge", e>>} /\ w.shared = FALSE
  BY <1>8 DEF IsAt
<1>6. u = [from |-> w.from, to |-> w.to, edge |-> w.edge, at |-> i, goes |-> i, guards |-> w.guards,
           shared |-> TRUE, sets |-> w.sets, zeroes |-> w.zeroes]
  BY <1>4, <1>5, WaitPut
<1>7. u = WaitOf(i, e)
  BY <1>5, <1>6, Zenon DEF WaitOf
<1> QED
  BY <1>1, <1>3, <1>7

-------------------------------------------------------------------------------
\* Another level guard

\* With the guard of level j everything stands for what it stood for.
Raises(f, h, lg, g, more, j) ==
  /\ Guarded(f, g, more)
  /\ \A a, v : GuardStands(h, lg, a, v) => GuardStands(g, more, a, v)
  /\ TailOf(g, more, j) = {}
  /\ \A i \in DOMAIN lg : TailOf(g, more, i) = TailOf(h, lg, i)

\* A new list has the new nodes, the others have those they had.
NodesNew(h, conds) ==
  /\ \A a \in 0 .. Len(h) : Reached(Create(h, conds), a) = Reached(h, a)
  /\ Reached(Create(h, conds), Fresh(h, conds)) = Len(h) + 1 .. Len(h) + Len(conds)

\* So it is when a list is created.
LEMMA NewNodes ==
  ASSUME NEW h, Lists(h), NEW conds, IsSequence(conds)
  PROVE  NodesNew(h, conds)
<1>1. \A a \in 0 .. Len(h) : Reached(Create(h, conds), a) = Reached(h, a)
  BY CreatedNodes
<1>2. Reached(Create(h, conds), Fresh(h, conds)) = Len(h) + 1 .. Len(h) + Len(conds)
  BY CreatedNodes
<1> QED
  BY <1>1, <1>2 DEF NodesNew

\* The guard of a level is a new node that no transition has yet.
LEMMA LevelStands ==
  ASSUME NEW f, NEW h, Lists(h), NEW lg, Guarded(f, h, lg), NEW j \in 0 .. Len(f) - 1, j \notin DOMAIN lg,
         NEW conds, conds = <<Level(j)>>, NEW g, g = Create(h, conds),
         NEW more, DOMAIN more = DOMAIN lg \union {j}, \A i \in DOMAIN lg : more[i] = lg[i],
         more[j] = Fresh(h, conds)
  PROVE  Raises(f, h, lg, g, more, j)
<1>1. IsSequence(conds) /\ Len(conds) = 1 /\ conds[1] = Level(j) /\ conds # << >>
  BY ShortSequences
<1>2. Len(h) \in Nat /\ more[j] = Len(h) + 1
  BY <1>1, HeapFacts DEF Fresh
<1>3. /\ \A a \in 0 .. Len(h) : Reached(g, a) = Reached(h, a)
      /\ Reached(g, Len(h) + 1) = {Len(h) + 1}
  <2>1. /\ \A a \in 0 .. Len(h) : Reached(Create(h, conds), a) = Reached(h, a)
        /\ Reached(Create(h, conds), Fresh(h, conds)) = Len(h) + 1 .. Len(h) + Len(conds)
    <3>1. NodesNew(h, conds)
      BY <1>1, NewNodes
    <3> QED
      BY <3>1 DEF NodesNew
  <2>2. Len(h) + 1 .. Len(h) + Len(conds) = {Len(h) + 1}
    BY <1>1, <1>2
  <2> QED
    BY <1>2, <2>1, <2>2
<1>4. Len(g) = Len(h) + 1 /\ SameConds(h, g) /\ g[Len(h) + 1].cond = Level(j)
  <2>1. Len(g) = Len(h) + Len(conds) /\ SameConds(h, g)
    <3>1. Extends(h, g, lg, j, {})
      BY <1>1, CreateExtends
    <3>2. SameConds(h, g)
      BY <3>1 DEF Extends
    <3>3. Len(Create(h, conds)) = Len(h) + Len(conds)
      BY <1>1, CreatedConds
    <3> QED
      BY <3>2, <3>3
  <2>2. Conds(g, Len(h) + 1 .. Len(h) + Len(conds)) = Range(conds)
    BY <1>1, NewConds DEF SameConds
  <2>3. Len(h) + 1 .. Len(h) + Len(conds) = {Len(h) + 1} /\ Range(conds) = {Level(j)}
    <3>1. DOMAIN conds = {1}
      BY <1>1, SequenceFacts
    <3> QED
      BY <1>1, <1>2, <3>1 DEF Range
  <2> QED
    BY <1>1, <2>1, <2>2, <2>3 DEF Conds
<1>5. \A a \in 0 .. Len(h) : Reached(h, a) \subseteq 1 .. Len(h)
  BY ReachedUnfold
<1>6. \A i \in DOMAIN lg : /\ i \in DOMAIN more /\ more[i] = lg[i] /\ lg[i] \in 1 .. Len(h) /\ lg[i] \in 0 .. Len(h)
                           /\ Reached(g, more[i]) = Reached(h, lg[i]) /\ Reached(h, lg[i]) \subseteq 1 .. Len(h)
  BY <1>2, <1>3, <1>5 DEF Guarded
<1>7. \A S \in SUBSET (1 .. Len(h)) : Conds(g, S) = Conds(h, S)
  BY <1>4, CondsKept
<1>8. \A i \in DOMAIN lg : TailOf(g, more, i) = TailOf(h, lg, i)
  BY <1>6, <1>7 DEF TailOf
<1>9. TailOf(g, more, j) = {}
  BY <1>2, <1>3 DEF TailOf, Conds
<1>10. Guarded(f, g, more)
  <2>1. DOMAIN more \subseteq 0 .. Len(f) - 1
    BY DEF Guarded
  <2>2. ASSUME NEW i \in DOMAIN more
        PROVE  /\ more[i] \in 1 .. Len(g) /\ g[more[i]].cond = Level(i)
               /\ \A c \in TailOf(g, more, i) : c[1] = "pred"
               /\ f[i + 1].dnf = << >> => TailOf(g, more, i) = {}
    <3>1. CASE i = j
      BY <1>2, <1>4, <1>9, <3>1
    <3>2. CASE i \in DOMAIN lg
      <4>1. more[i] \in 1 .. Len(g)
        BY <1>2, <1>4, <1>6, <3>2
      <4>2. g[more[i]].cond = Level(i)
        BY <1>4, <1>6, <3>2 DEF SameConds, Guarded
      <4> QED
        BY <1>8, <3>2, <4>1, <4>2 DEF Guarded
    <3> QED
      BY <3>1, <3>2
  <2>3. ASSUME NEW i \in DOMAIN more, NEW k \in DOMAIN more, i # k
        PROVE  Reached(g, more[i]) \intersect Reached(g, more[k]) = {}
    <3>1. CASE i \in DOMAIN lg /\ k \in DOMAIN lg
      BY <1>6, <2>3, <3>1 DEF Guarded
    <3>2. CASE i = j
      BY <1>2, <1>3, <1>6, <2>3, <3>2
    <3>3. CASE k = j
      BY <1>2, <1>3, <1>6, <2>3, <3>3
    <3> QED
      BY <3>1, <3>2, <3>3
  <2> QED
    BY <2>1, <2>2, <2>3 DEF Guarded
<1>11. /\ Shared(g, more) = Shared(h, lg) \union {Len(h) + 1}
       /\ Shared(h, lg) \subseteq 1 .. Len(h)
  BY <1>2, <1>3, <1>6 DEF Shared
<1>12. ASSUME NEW a, NEW v, GuardStands(h, lg, a, v)
       PROVE  GuardStands(g, more, a, v)
  <2>1. a \in 0 .. Len(h) /\ a \in 0 .. Len(g)
    BY <1>2, <1>4, <1>12 DEF GuardStands
  <2>2. Reached(g, a) = Reached(h, a) /\ Reached(h, a) \subseteq 1 .. Len(h)
    BY <1>3, <1>5, <2>1
  <2>3. Reached(g, a) \intersect Shared(g, more) = Reached(h, a) \intersect Shared(h, lg)
    BY <1>2, <1>11, <2>2
  <2>4. OwnNodes(g, more, a) = OwnNodes(h, lg, a) /\ OwnNodes(h, lg, a) \subseteq 1 .. Len(h)
    BY <1>2, <1>11, <2>2 DEF OwnNodes
  <2>5. Conds(g, OwnNodes(g, more, a)) = Conds(h, OwnNodes(h, lg, a))
    BY <1>7, <2>4
  <2>6. v.shared => v.at \in DOMAIN lg /\ v.at \in DOMAIN more /\ Reached(g, more[v.at]) = Reached(h, lg[v.at])
    BY <1>6, <1>12 DEF GuardStands
  <2> QED
    BY <1>12, <2>1, <2>3, <2>5, <2>6 DEF GuardStands
<1> QED
  BY <1>8, <1>9, <1>10, <1>12 DEF Raises

\* Guards stand in g as in h where they reach the same nodes.
GuardsAs(f, h, g, lg) ==
  /\ Guarded(f, g, lg)
  /\ \A i \in DOMAIN lg : TailOf(g, lg, i) = TailOf(h, lg, i)
  /\ \A a, v : GuardStands(h, lg, a, v) /\ Reached(g, a) = Reached(h, a) => GuardStands(g, lg, a, v)

\* Nor does the guard of an original transition reach any other.
LEMMA GuardSame ==
  ASSUME NEW f, NEW h, Lists(h), NEW lg, Guarded(f, h, lg), NEW g, Len(h) <= Len(g), Len(g) \in Nat,
         SameConds(h, g), LevelsKept(h, g, lg)
  PROVE  GuardsAs(f, h, g, lg)
<1>1. Len(h) \in Nat /\ \A a \in 0 .. Len(h) : Reached(h, a) \subseteq 1 .. Len(h)
  BY HeapFacts, ReachedUnfold
<1>2. \A i \in DOMAIN lg : lg[i] \in 1 .. Len(h) /\ lg[i] \in 0 .. Len(h) /\ Reached(g, lg[i]) = Reached(h, lg[i])
  BY <1>1 DEF Guarded, LevelsKept
<1>3. \A S \in SUBSET (1 .. Len(h)) : Conds(g, S) = Conds(h, S)
  BY CondsKept
<1>4. \A i \in DOMAIN lg : TailOf(g, lg, i) = TailOf(h, lg, i)
  BY <1>1, <1>2, <1>3 DEF TailOf
<1>5. Guarded(f, g, lg)
  <2>1. \A i \in DOMAIN lg : lg[i] \in 1 .. Len(g) /\ g[lg[i]].cond = Level(i)
    BY <1>1, <1>2 DEF SameConds, Guarded
  <2> QED
    BY <1>2, <1>4, <2>1 DEF Guarded
<1>6. Shared(g, lg) = Shared(h, lg)
  BY <1>2 DEF Shared
<1>7. ASSUME NEW a, NEW v, GuardStands(h, lg, a, v), Reached(g, a) = Reached(h, a)
      PROVE  GuardStands(g, lg, a, v)
  <2>1. a \in 0 .. Len(h) /\ a \in 0 .. Len(g)
    BY <1>1, <1>7 DEF GuardStands
  <2>2. OwnNodes(g, lg, a) = OwnNodes(h, lg, a) /\ OwnNodes(h, lg, a) \subseteq 1 .. Len(h)
    BY <1>1, <1>6, <1>7, <2>1 DEF OwnNodes
  <2>3. Conds(g, OwnNodes(g, lg, a)) = Conds(h, OwnNodes(h, lg, a))
    BY <1>3, <2>2
  <2>4. v.shared => v.at \in DOMAIN lg /\ Reached(g, lg[v.at]) = Reached(h, lg[v.at])
    BY <1>2, <1>7 DEF GuardStands
  <2> QED
    BY <1>6, <1>7, <2>1, <2>3, <2>4 DEF GuardStands
<1> QED
  BY <1>4, <1>5, <1>7 DEF GuardsAs

-------------------------------------------------------------------------------
\* The transitions of the model

\* The level that the transitions of the model are at.
LevelNow == IF pc \in {"vars", "sweep", "gate"} THEN -1 ELSE 0

\* What is read of a file are transitions between its variables.
LEMMA EdgesAreRead ==
  ASSUME NEW f \in Files, Accepted(f), NEW es, es = EdgesRead(f)
  PROVE  /\ IsSequence(es) /\ Len(es) \in Nat /\ DOMAIN es = 1 .. Len(es)
         /\ \A n \in 1 .. Len(es) :
              /\ es[n].from \in Locs /\ es[n] \in EdgePool
              /\ \E k \in DOMAIN f.properties : f.properties[k].kind = "trans" /\ f.properties[k].edge = es[n]
<1>1. es \in Seq(EdgesFrom(f))
  BY EdgesTyped
<1>2. Len(es) \in Nat /\ DOMAIN es = 1 .. Len(es) /\ es = [k \in 1 .. Len(es) |-> es[k]]
  BY <1>1, SequenceIsFunction
<1>3. IsSequence(es)
  BY <1>2, SequenceMade
<1>4. \A n \in 1 .. Len(es) : es[n] \in EdgesFrom(f)
  BY <1>1, <1>2
<1> QED
  BY <1>2, <1>3, <1>4 DEF EdgesFrom

\* Each resets variables of the model only.
LEMMA ReadIsEdge ==
  ASSUME file \in Files, Accepted(file), NEW es, es = EdgesRead(file), NEW n \in 1 .. Len(es)
  PROVE  IsEdge(es[n]) /\ es[n].from \in Locs
<1>1. /\ es[n].from \in Locs /\ es[n] \in EdgePool
      /\ \E k \in DOMAIN file.properties : file.properties[k].kind = "trans" /\ file.properties[k].edge = es[n]
  BY EdgesAreRead
<1>2. IsSequence(Resets[es[n]])
  BY <1>1, ListsAssumption
<1>3. \A r \in Range(Resets[es[n]]) : r[1] \in Range(file.signature)
  BY <1>1, DistinctAssumption
<1>4. \A m \in DOMAIN Resets[es[n]] : Resets[es[n]][m] \in Range(Resets[es[n]])
  BY DEF Range
<1> QED
  BY <1>1, <1>2, <1>3, <1>4 DEF IsEdge

\* A transition of the model as it stands in the list, at level k.
Originally(b, t, e, k, told) ==
  /\ IsEdge(e) /\ t.original /\ t.from = e.from /\ t.goto = <<e.to>> /\ e.from \in Locs
  /\ IsTold(t.reset, e, told) /\ Asks(b.heap, t.when, {<<"edge", e>>} \union LevelOf(k))

\* It stands for the transition that LevelSequence begins with, then for the one
\* it gates.
LEMMA OriginalStands ==
  ASSUME feature \in Features, file \in Files, NEW b, NEW lg, Fine(b, lg),
         NEW n \in 1 .. Len(b.trans), NEW t, t = b.trans[n], NEW e, NEW k,
         NEW told, IsSequence(told), IsInjective(told), Range(told) \subseteq Range(Added(feature)),
         Originally(b, t, e, k, told), NEW v, v = ModelAt(k, e)
  PROVE  Stands(feature, b, lg, t, v)
<1>1. IsAt(k, e, v)
  BY ModelAtSays
<1>2. OnEdgeOf(v) = TRUE /\ EdgeSays(v) /\ \A c \in v.guards : c[1] # "level"
  BY <1>1, EdgeGuard DEF IsAt
<1>3. KeepsTold(t.reset, e, told)
  <2>1. IsEdge(e) /\ IsTold(t.reset, e, told)
    BY DEF Originally
  <2>2. PICK r : r = t.reset
    OBVIOUS
  <2> QED
    BY <2>1, <2>2, ToldMoves
<1>4. IsSequence(t.reset) /\ StoresNothing(t.reset) /\ Moves(t.reset, v)
  BY <1>1, <1>3 DEF KeepsTold, IsAt
<1>5. v.sets = StoredIn(feature, t.reset)
  <2>1. Storing(t.reset) = << >>
    BY <1>4, NothingStored
  <2>2. StoredIn(feature, t.reset) = Storing(t.reset)
    BY Zenon DEF StoredIn, Storing, StoresAt
  <2> QED
    BY <1>1, <2>1, <2>2 DEF IsAt
<1>6. v.from = b.locs[t.from].name /\ v.to = t.goto
  <2>1. t.from \in Locs /\ t.from \in 1 .. Len(b.locs) /\ IsLocation(b, t.from)
    BY DEF Originally, Fine, Good, Shaped, IsTransition
  <2> QED
    BY <1>1, <2>1 DEF Originally, IsLocation, IsAt
<1>7. GuardStands(b.heap, lg, t.when, v)
  <2>1. t.when \in 0 .. Len(b.heap)
    BY DEF Fine, Good, Shaped, IsTransition
  <2>2. Reached(b.heap, t.when) \intersect Shared(b.heap, lg) = {}
    BY DEF Fine, Good, Untouched, Originally
  <2>3. OwnNodes(b.heap, lg, t.when) = Reached(b.heap, t.when)
    BY <2>2 DEF OwnNodes
  <2>4. Conds(b.heap, Reached(b.heap, t.when)) = {<<"edge", e>>} \union LevelOf(k)
    BY DEF Conds, Originally, Asks
  <2>5. v.shared = FALSE /\ v.guards = {<<"edge", e>>} /\ v.at = k
    BY <1>1 DEF IsAt
  <2> QED
    BY <1>2, <2>1, <2>2, <2>3, <2>4, <2>5 DEF GuardStands
<1> QED
  BY <1>1, <1>2, <1>4, <1>5, <1>6, <1>7 DEF Stands, IsAt

\* Every transition of the file is there as it was read, whatever has been added to it.
ReadIn(t, e, k, told) ==
  /\ IsSequence(told) /\ IsInjective(told) /\ Range(told) \subseteq Range(Added(feature))
  /\ added = << >> => told = Added(feature)
  /\ Originally(ha, t, e, k, told)

\* A transition read from the file is where it was read, with the edge it was read from.
LEMMA ReadStays ==
  ASSUME ListsInv, ReadInv, NEW es, es = EdgesRead(file), NEW n \in 1 .. Len(es)
  PROVE  n \in 1 .. Len(ha.trans) /\ \E told : ReadIn(ha.trans[n], es[n], LevelNow, told)
<1>1. feature \in Features /\ file \in Files /\ Accepted(file)
  BY DEF ListsInv, ReadInv
<1>2. PICK told : Tells(told, added, feature) /\ Copies(file, ha, told, Behind0)
  BY DEF ReadInv
<1>3. IsCopy(ha, n, es[n], told, Behind0)
  BY <1>2 DEF Copies
<1>4. IsEdge(es[n]) /\ es[n].from \in Locs
  BY <1>1, ReadIsEdge
<1>5. Behind0 = LevelOf(LevelNow)
  <2>1. CASE pc \in {"vars", "sweep", "gate"}
    <3>1. Behind0 = {} /\ LevelNow = -1
      BY <2>1 DEF Behind0, LevelNow
    <3> QED
      BY <3>1 DEF LevelOf
  <2>2. CASE pc \notin {"vars", "sweep", "gate"}
    <3>1. Behind0 = {Level(0)} /\ LevelNow = 0
      BY <2>2 DEF Behind0, LevelNow
    <3> QED
      BY <3>1 DEF LevelOf
  <2> QED
    BY <2>1, <2>2
<1>6. Originally(ha, ha.trans[n], es[n], LevelNow, told)
  BY <1>3, <1>4, <1>5 DEF IsCopy, Originally, IsTold
<1>7. IsSequence(told) /\ IsSequence(added) /\ told \o added = Added(feature)
  BY <1>2 DEF Tells
<1>8. IsInjective(told \o added)
  <2>1. IsInjective(Added(feature))
    BY <1>1, NamesApart
  <2> QED
    BY <1>7, <2>1
<1>9. IsInjective(told)
  BY <1>7, <1>8, InjectiveJoined
<1>10. Range(told \o added) = Range(told) \union Range(added)
  BY <1>7, RangeJoined
<1>11. Range(told) \subseteq Range(Added(feature))
  BY <1>7, <1>10
<1>12. added = << >> => told = Added(feature)
  BY <1>7, EmptyJoined
<1> QED
  BY <1>3, <1>6, <1>7, <1>9, <1>11, <1>12 DEF IsCopy, ReadIn

-------------------------------------------------------------------------------
\* What the lists come to

\* What has been made since the model was read stands for transitions of LevelSequence.
MadeSince(fl, f, b, lg, n0) ==
  \A n \in n0 + 1 .. Len(b.trans) : ~b.trans[n].original /\ \E v : Made(fl, f, b, lg, b.trans[n], v)

ProductInv ==
  /\ Guarded(feature, ha.heap, levelGuard)
  /\ ha.vars \o added = AllNames
  /\ edges = {EdgesRead(file)[n] : n \in 1 .. Len(EdgesRead(file))}
  /\ MadeSince(file, feature, ha, levelGuard, Len(EdgesRead(file)))
  /\ pc = "vars" => Len(ha.trans) = Len(EdgesRead(file))

TailsOf(f, h, lg) == [i \in 0 .. Len(f) - 1 |-> IF i \in DOMAIN lg THEN TailOf(h, lg, i) ELSE {}]

\* The automaton b reads as the transitions of the set T, each for one of them.
Reads(f, b, lg, T) ==
  /\ \A v : v \in T <=> \E n \in 1 .. Len(b.trans) : Stands(f, b, lg, b.trans[n], v)
  /\ \A n \in 1 .. Len(b.trans) : \E v : Stands(f, b, lg, b.trans[n], v)
  /\ \A t, v, w : Stands(f, b, lg, t, v) /\ Stands(f, b, lg, t, w) => v = w

\* How the lists are read: every transition for one of LevelSequence.
ReadsAs ==
  /\ Reads(feature, ha, levelGuard, Transitions)
  /\ Tails = TailsOf(feature, ha.heap, levelGuard)
  /\ \A n \in 1 .. Len(EdgesRead(file)) :
       /\ n \in 1 .. Len(ha.trans)
       /\ Stands(feature, ha, levelGuard, ha.trans[n], ModelAt(LevelNow, EdgesRead(file)[n]))

\* The lists of the code read as the transitions, the tails and the phase of the abstract
\* specification.
LEMMA ListsRead ==
  ASSUME ListsInv, ReadInv, ProductInv
  PROVE  ReadsAs
<1>1. /\ Fine(ha, levelGuard) /\ Lists(ha.heap) /\ Len(ha.trans) \in Nat /\ DOMAIN ha.trans = 1 .. Len(ha.trans)
      /\ Guarded(feature, ha.heap, levelGuard) /\ feature \in Features /\ file \in Files /\ Accepted(file)
  BY Sizes DEF ListsInv, Fine, ReadInv, ProductInv
<1>2. PICK es : es = EdgesRead(file)
  OBVIOUS
<1>3. ASSUME NEW n \in 1 .. Len(es)
      PROVE  n \in 1 .. Len(ha.trans) /\ Stands(feature, ha, levelGuard, ha.trans[n], ModelAt(LevelNow, es[n]))
  <2>1. PICK told : n \in 1 .. Len(ha.trans) /\ ReadIn(ha.trans[n], es[n], LevelNow, told)
    BY <1>2, ReadStays
  <2>2. PICK t, e, k, v : t = ha.trans[n] /\ e = es[n] /\ k = LevelNow /\ v = ModelAt(k, e)
    OBVIOUS
  <2>3. /\ IsSequence(told) /\ IsInjective(told) /\ Range(told) \subseteq Range(Added(feature))
        /\ Originally(ha, t, e, k, told)
    BY <2>1, <2>2 DEF ReadIn
  <2>4. Stands(feature, ha, levelGuard, t, v)
    BY <1>1, <2>1, <2>2, <2>3, OriginalStands
  <2> QED
    BY <2>1, <2>2, <2>4
<1>4. \A t, v : Stands(feature, ha, levelGuard, t, v) => v = Abstract(t)
  BY <1>1, StandsRead
<1>5. ASSUME NEW n \in 1 .. Len(ha.trans)
      PROVE  \E v : Stands(feature, ha, levelGuard, ha.trans[n], v)
  <2>1. CASE n \in 1 .. Len(es)
    BY <1>3, <2>1
  <2>2. CASE n \notin 1 .. Len(es)
    <3>1. Len(es) \in Nat
      BY <1>1, <1>2, EdgesAreRead
    <3>2. n \in Len(es) + 1 .. Len(ha.trans)
      BY <1>1, <2>2, <3>1
    <3>3. \E v : Made(file, feature, ha, levelGuard, ha.trans[n], v)
      BY <1>2, <3>2 DEF ProductInv, MadeSince
    <3> QED
      BY <3>3 DEF Made
  <2> QED
    BY <2>1, <2>2
<1>6. ASSUME NEW v
      PROVE  v \in Transitions <=> \E n \in 1 .. Len(ha.trans) : Stands(feature, ha, levelGuard, ha.trans[n], v)
  <2>1. v \in Transitions <=> \E n \in 1 .. Len(ha.trans) : v = Abstract(ha.trans[n])
    BY <1>1 DEF Transitions
  <2> QED
    BY <1>4, <1>5, <2>1
<1>7. ASSUME NEW i \in DOMAIN levelGuard PROVE Behind(i) = TailOf(ha.heap, levelGuard, i)
  <2>1. PICK g, h : g = levelGuard[i] /\ h = ha.heap
    OBVIOUS
  <2>2. Lists(h) /\ g \in 1 .. Len(h)
    BY <1>1, <2>1 DEF Guarded
  <2>3. Range(Tail(Contents(h, g))) = Conds(h, Reached(h, g) \ {g})
    BY <2>2, TailRead
  <2> QED
    BY <2>1, <2>3 DEF Behind, TailOf
<1>8. Tails = TailsOf(feature, ha.heap, levelGuard)
  BY <1>7 DEF Tails, TailsOf
<1> QED
  BY <1>2, <1>3, <1>4, <1>5, <1>6, <1>8 DEF ReadsAs, Reads

-------------------------------------------------------------------------------
\* From one automaton to the next

\* Sets with the same elements are one set.
LEMMA SameElements ==
  ASSUME NEW S, NEW T, \A x : x \in S <=> x \in T
  PROVE  S = T
  OBVIOUS

\* What stood for something stands for it still.
StandsOn(f, b, lg, d, more) ==
  \A t, v : t.from \in 1 .. Len(b.locs) /\ Stands(f, b, lg, t, v) => Stands(f, d, more, t, v)

\* When the lists add V, what they read as grows by V.
LEMMA AddsReads ==
  ASSUME NEW fl, NEW f, NEW b, NEW lg, Good(b, lg), NEW c, Good(c, lg), Continues(b, c),
         NEW V, NEW i, NEW C, Adds(fl, f, b, c, lg, V, i, C),
         NEW d, d.trans = c.trans, NEW more, StandsOn(f, c, lg, d, more),
         NEW S, Reads(f, b, lg, S), NEW T, Reads(f, d, more, T)
  PROVE  T = S \union V
<1>1. /\ Len(b.trans) \in Nat /\ Len(c.trans) \in Nat /\ Len(b.trans) <= Len(c.trans)
      /\ \A n \in 1 .. Len(b.trans) : c.trans[n] = b.trans[n] /\ b.trans[n].from \in 1 .. Len(b.locs)
      /\ \A n \in 1 .. Len(c.trans) : c.trans[n].from \in 1 .. Len(c.locs)
  BY Sizes DEF Continues, Good, Shaped, IsTransition
<1>2. ASSUME NEW n \in 1 .. Len(b.trans), NEW v, Stands(f, b, lg, b.trans[n], v)
      PROVE  n \in 1 .. Len(d.trans) /\ Stands(f, d, more, d.trans[n], v)
  <2>1. n \in 1 .. Len(c.trans)
    BY <1>1
  <2>2. PICK t : t = b.trans[n]
    OBVIOUS
  <2>3. t.from \in 1 .. Len(b.locs) /\ Stands(f, b, lg, t, v) /\ t.from \in 1 .. Len(c.locs)
    BY <1>1, <1>2, <2>1, <2>2
  <2>4. Widens(f, b.heap, c.heap, lg, i, C)
    BY DEF Adds
  <2>5. Stands(f, c, lg, t, v)
    BY <2>3, <2>4, StandsKept
  <2>6. Stands(f, d, more, t, v)
    BY <2>3, <2>5 DEF StandsOn
  <2> QED
    BY <1>1, <2>1, <2>2, <2>6
<1>3. ASSUME NEW n \in Len(b.trans) + 1 .. Len(c.trans), NEW v, Made(fl, f, c, lg, c.trans[n], v)
      PROVE  n \in 1 .. Len(d.trans) /\ Stands(f, d, more, d.trans[n], v)
  <2>1. n \in 1 .. Len(c.trans) /\ c.trans[n].from \in 1 .. Len(c.locs)
    BY <1>1
  <2>2. Stands(f, c, lg, c.trans[n], v)
    BY <1>3 DEF Made
  <2> QED
    BY <2>1, <2>2 DEF StandsOn
<1>4. ASSUME NEW v \in S PROVE v \in T
  <2>1. PICK n \in 1 .. Len(b.trans) : Stands(f, b, lg, b.trans[n], v)
    BY DEF Reads
  <2> QED
    BY <1>2, <2>1 DEF Reads
<1>5. ASSUME NEW v \in V PROVE v \in T
  <2>1. PICK n \in Len(b.trans) + 1 .. Len(c.trans) : Made(fl, f, c, lg, c.trans[n], v)
    BY DEF Adds
  <2> QED
    BY <1>3, <2>1 DEF Reads
<1>6. ASSUME NEW v \in T PROVE v \in S \/ v \in V
  <2>1. PICK n \in 1 .. Len(d.trans) : Stands(f, d, more, d.trans[n], v)
    BY DEF Reads
  <2>2. CASE n \in 1 .. Len(b.trans)
    <3>1. \E w \in S : Stands(f, b, lg, b.trans[n], w)
      BY <2>2 DEF Reads
    <3>2. PICK w \in S : Stands(f, b, lg, b.trans[n], w)
      BY <3>1
    <3>3. Stands(f, d, more, d.trans[n], w)
      BY <1>2, <2>2, <3>2
    <3>4. v = w
      BY <2>1, <3>3 DEF Reads
    <3> QED
      BY <3>2, <3>4
  <2>3. CASE n \notin 1 .. Len(b.trans)
    <3>1. n \in Len(b.trans) + 1 .. Len(c.trans)
      BY <1>1, <2>1, <2>3
    <3>2. PICK w \in V : Made(fl, f, c, lg, c.trans[n], w)
      BY <3>1 DEF Adds
    <3>3. Stands(f, d, more, d.trans[n], w)
      BY <1>3, <3>1, <3>2
    <3>4. v = w
      BY <2>1, <3>3 DEF Reads
    <3> QED
      BY <3>2, <3>4
  <2> QED
    BY <2>2, <2>3
<1> QED
  BY <1>4, <1>5, <1>6, SameElements

\* What stands for something stands for it on.
LEMMA StandsOnItself ==
  ASSUME NEW f, NEW b, NEW lg
  PROVE  StandsOn(f, b, lg, b, lg)
  BY DEF StandsOn

\* What a longer list of the guards says.
LEMMA RaisedOn ==
  ASSUME NEW f, NEW b, NEW lg, NEW d, NEW more, NEW j, d.locs = b.locs,
         Raises(f, b.heap, lg, d.heap, more, j)
  PROVE  StandsOn(f, b, lg, d, more)
  BY DEF StandsOn, Raises, Stands

\* What has been made stays so.
LEMMA MadeStays ==
  ASSUME NEW fl, NEW f, NEW b, NEW lg, Good(b, lg), NEW n0 \in Nat, MadeSince(fl, f, b, lg, n0),
         NEW d, d.trans = b.trans, NEW more, DOMAIN lg \subseteq DOMAIN more, StandsOn(f, b, lg, d, more)
  PROVE  MadeSince(fl, f, d, more, n0)
<1>1. /\ Len(b.trans) \in Nat /\ \A n \in 1 .. Len(b.trans) : b.trans[n].from \in 1 .. Len(b.locs)
  BY Sizes DEF Good, Shaped, IsTransition
<1>2. ASSUME NEW n \in n0 + 1 .. Len(d.trans)
      PROVE  ~d.trans[n].original /\ \E v : Made(fl, f, d, more, d.trans[n], v)
  <2>1. n \in n0 + 1 .. Len(b.trans) /\ n \in 1 .. Len(b.trans) /\ d.trans[n] = b.trans[n]
    BY <1>1
  <2>2. PICK t : t = b.trans[n]
    OBVIOUS
  <2>3. ~t.original /\ t.from \in 1 .. Len(b.locs)
    BY <1>1, <2>1, <2>2 DEF MadeSince
  <2>4. PICK v : Made(fl, f, b, lg, t, v)
    BY <2>1, <2>2 DEF MadeSince
  <2>5. Stands(f, d, more, t, v) /\ v.at \in DOMAIN more /\ Done(fl, f, t, v)
    BY <2>3, <2>4 DEF StandsOn, Made
  <2>6. Made(fl, f, d, more, t, v)
    BY <2>5 DEF Made
  <2> QED
    BY <2>1, <2>2, <2>3, <2>6
<1> QED
  BY <1>2 DEF MadeSince

\* The transitions since the n0-th were made by the product; so are those that are added to
\* them.
LEMMA MadeFurther ==
  ASSUME NEW fl, NEW f, NEW b, NEW lg, Good(b, lg), NEW c, Good(c, lg), Continues(b, c),
         NEW n0 \in Nat, MadeSince(fl, f, b, lg, n0), NEW V, NEW i, NEW C, Adds(fl, f, b, c, lg, V, i, C)
  PROVE  MadeSince(fl, f, c, lg, n0)
<1>1. /\ Len(b.trans) \in Nat /\ Len(c.trans) \in Nat /\ Len(b.trans) <= Len(c.trans)
      /\ \A n \in 1 .. Len(b.trans) : c.trans[n] = b.trans[n] /\ b.trans[n].from \in 1 .. Len(b.locs)
  BY Sizes DEF Continues, Good, Shaped, IsTransition
<1>2. ASSUME NEW n \in n0 + 1 .. Len(c.trans)
      PROVE  ~c.trans[n].original /\ \E v : Made(fl, f, c, lg, c.trans[n], v)
  <2>1. CASE n \in 1 .. Len(b.trans)
    <3>1. n \in n0 + 1 .. Len(b.trans)
      BY <1>1, <2>1
    <3>2. PICK t : t = b.trans[n]
      OBVIOUS
    <3>3. ~t.original /\ t.from \in 1 .. Len(b.locs) /\ c.trans[n] = t
      BY <1>1, <2>1, <3>1, <3>2 DEF MadeSince
    <3>4. PICK v : Made(fl, f, b, lg, t, v)
      BY <3>1, <3>2 DEF MadeSince
    <3>5. Stands(f, b, lg, t, v) /\ v.at \in DOMAIN lg /\ Done(fl, f, t, v)
      BY <3>4 DEF Made
    <3>6. Widens(f, b.heap, c.heap, lg, i, C)
      BY DEF Adds
    <3>7. Stands(f, c, lg, t, v)
      BY <3>3, <3>5, <3>6, StandsKept
    <3>8. Made(fl, f, c, lg, t, v)
      BY <3>5, <3>7 DEF Made
    <3> QED
      BY <3>3, <3>8
  <2>2. CASE n \notin 1 .. Len(b.trans)
    <3>1. n \in Len(b.trans) + 1 .. Len(c.trans)
      BY <1>1, <2>2
    <3> QED
      BY <3>1 DEF Adds
  <2> QED
    BY <2>1, <2>2
<1> QED
  BY <1>2 DEF MadeSince

\* The tails s are r with C behind the level guard i.
Lengthens(r, s, i, C) == s = [r EXCEPT ![i] = @ \union C] /\ (C = {} => s = r)

\* What is appended behind a level guard is behind all that share it.
LEMMA AddsTails ==
  ASSUME NEW f, NEW h, NEW g, NEW lg, NEW i \in DOMAIN lg, i \in 0 .. Len(f) - 1, NEW C, Widens(f, h, g, lg, i, C),
         NEW r, r = TailsOf(f, h, lg), NEW s, s = TailsOf(f, g, lg)
  PROVE  Lengthens(r, s, i, C)
<1>1. \A j \in DOMAIN lg : TailOf(g, lg, j) = TailOf(h, lg, j) \union IF j = i THEN C ELSE {}
  BY DEF Widens
<1>2. /\ DOMAIN r = 0 .. Len(f) - 1 /\ DOMAIN s = 0 .. Len(f) - 1
      /\ \A j \in 0 .. Len(f) - 1 : /\ r[j] = IF j \in DOMAIN lg THEN TailOf(h, lg, j) ELSE {}
                                    /\ s[j] = IF j \in DOMAIN lg THEN TailOf(g, lg, j) ELSE {}
  BY DEF TailsOf
<1>3. \A j \in 0 .. Len(f) - 1 : s[j] = IF j = i THEN r[i] \union C ELSE r[j]
  BY <1>1, <1>2
<1>4. s = [j \in 0 .. Len(f) - 1 |-> s[j]] /\ r = [j \in 0 .. Len(f) - 1 |-> r[j]]
  BY DEF TailsOf
<1>5. s = [r EXCEPT ![i] = @ \union C]
  BY <1>2, <1>3, <1>4
<1>6. C = {} => s = r
  BY <1>2, <1>3, <1>4
<1> QED
  BY <1>5, <1>6 DEF Lengthens

\* Behind a new level guard is nothing.
LEMMA RaisedTails ==
  ASSUME NEW f, NEW h, NEW g, NEW lg, NEW more, NEW j, Raises(f, h, lg, g, more, j),
         DOMAIN more = DOMAIN lg \union {j}
  PROVE  TailsOf(f, g, more) = TailsOf(f, h, lg)
<1>1. /\ TailOf(g, more, j) = {} /\ \A i \in DOMAIN lg : TailOf(g, more, i) = TailOf(h, lg, i)
  BY DEF Raises
<1>2. CASE j \in DOMAIN lg
  BY <1>1, <1>2 DEF TailsOf
<1>3. CASE j \notin DOMAIN lg
  BY <1>1, <1>3 DEF TailsOf
<1> QED
  BY <1>2, <1>3

\* So it is for the model that was read.
LEMMA ProductInitially ==
  ASSUME Init
  PROVE  ProductInv
<1>1. PICK es : es = EdgesRead(file)
  OBVIOUS
<1>2. /\ Len(es) \in Nat /\ DOMAIN es = 1 .. Len(es) /\ edges = {es[n] : n \in DOMAIN es}
      /\ DOMAIN levelGuard = {} /\ Len(ha.trans) = Len(es)
  BY <1>1, ModelMade
<1>3. Guarded(feature, ha.heap, levelGuard)
  BY <1>2 DEF Guarded
<1>4. ha.vars \o added = AllNames
  BY DEF Init, AllNames
<1>5. edges = {es[n] : n \in 1 .. Len(es)}
  BY <1>2
<1>6. \A n \in Len(es) + 1 .. Len(ha.trans) : FALSE
  BY <1>2
<1>7. MadeSince(file, feature, ha, levelGuard, Len(es))
  BY <1>6 DEF MadeSince
<1> QED
  BY <1>1, <1>2, <1>3, <1>4, <1>5, <1>7 DEF ProductInv

\* What a step has to show.
LEMMA ProductNext ==
  ASSUME ProductInv, UNCHANGED <<file, feature, edges>>, Guarded(feature, ha'.heap, levelGuard'),
         ha'.vars \o added' = ha.vars \o added,
         MadeSince(file, feature, ha', levelGuard', Len(EdgesRead(file))),
         pc' = "vars" => Len(ha'.trans) = Len(EdgesRead(file))
  PROVE  ProductInv'
<1>1. AllNames' = AllNames
  BY DEF AllNames
<1>2. (ha.vars \o added)' = AllNames'
  BY <1>1 DEF ProductInv
<1> QED
  BY <1>2 DEF ProductInv

\* Nothing is made as long as variables are added.
LEMMA NoneMade ==
  ASSUME NEW fl, NEW f, NEW b, NEW lg, NEW n0 \in Nat, Len(b.trans) = n0
  PROVE  MadeSince(fl, f, b, lg, n0)
<1>1. \A n \in n0 + 1 .. Len(b.trans) : FALSE
  OBVIOUS
<1> QED
  BY <1>1 DEF MadeSince

\* A feature has a first sub-expression.
LEMMA FeatureLength ==
  ASSUME NEW f \in Features
  PROVE  Len(f) \in Nat \ {0} /\ 0 \in 0 .. Len(f) - 1
<1>1. IsSequence(f) /\ f # << >>
  BY ListsAssumption
<1>2. PICK S : f \in Seq(S)
  BY <1>1 DEF IsSequence
<1> QED
  BY <1>1, <1>2

\* A variable moves from those to be added to those that are there.
LEMMA ProductVariable ==
  ASSUME ListsInv, ReadInv, ProductInv, AddVariable
  PROVE  ProductInv'
<1>1. /\ pc = "vars" /\ UNCHANGED <<file, feature, edges, levelGuard>> /\ added # << >> /\ added' = Tail(added)
      /\ IsSequence(added)
  BY DEF AddVariable, ReadInv, Tells
<1>2. /\ ha = [locs |-> ha.locs, inits |-> ha.inits, vars |-> ha.vars, heap |-> ha.heap, trans |-> ha.trans]
      /\ IsSequence(ha.vars) /\ DOMAIN ha.trans = 1 .. Len(ha.trans) /\ Len(ha.trans) \in Nat
  BY Sizes DEF ListsInv, Fine, Good, Shaped
<1> DEFINE vs == Append(ha.vars, Head(added))
           is == [n \in DOMAIN ha.inits |-> Zeroed(ha.inits[n], Head(added))]
           ts == [n \in DOMAIN ha.trans |-> Kept(ha.trans[n], Head(added))]
<1>3. ha' = [ha EXCEPT !.vars = vs, !.inits = is, !.trans = ts]
  BY DEF AddVariable
<1>4. ts = [n \in 1 .. Len(ha.trans) |-> ts[n]]
  BY <1>2
<1>5. vs \o Tail(added) = ha.vars \o added
  BY <1>1, <1>2, HeadMoved
<1> HIDE DEF vs, is, ts
<1>6. ha'.heap = ha.heap /\ ha'.vars = vs /\ ha'.trans = ts
  BY <1>2, <1>3
<1>7. Len(ts) = Len(ha.trans)
  BY <1>2, <1>4, SequenceMade
<1>8. PICK n0 : n0 = Len(EdgesRead(file))
  OBVIOUS
<1>9. n0 \in Nat /\ Len(ha'.trans) = n0
  BY <1>1, <1>2, <1>6, <1>7, <1>8 DEF ProductInv
<1>10. MadeSince(file, feature, ha', levelGuard', n0)
  BY <1>9, NoneMade
<1>11. Guarded(feature, ha'.heap, levelGuard')
  BY <1>1, <1>6 DEF ProductInv
<1>12. ha'.vars \o added' = ha.vars \o added
  BY <1>1, <1>5, <1>6
<1> QED
  BY <1>1, <1>8, <1>9, <1>10, <1>11, <1>12, ProductNext

\* The guard of the first level.
LEMMA BeginRaises ==
  ASSUME ListsInv, ProductInv, Begin
  PROVE  /\ ha'.trans = ha.trans /\ ha'.vars = ha.vars
         /\ Raises(feature, ha.heap, levelGuard, ha'.heap, levelGuard', 0)
         /\ DOMAIN levelGuard = {} /\ DOMAIN levelGuard' = {0}
         /\ \A l \in 1 .. Len(ha.locs) : ha'.locs[l] = ha.locs[l]
<1>1. /\ Fine(ha, levelGuard) /\ Lists(ha.heap) /\ DOMAIN levelGuard = {} /\ feature \in Features
      /\ Guarded(feature, ha.heap, levelGuard)
  BY Sizes DEF ListsInv, Begin, PlacesInv, Fine, ProductInv
<1> DEFINE c == AddLocation(ha, Final, <<True>>)
<1>2. ha' = LevelGuardMade(c, 0) /\ levelGuard' = [i \in {0} |-> Fresh(ha.heap, <<Level(0)>>)]
  BY DEF Begin
<1>3. /\ IsAutomaton(c) /\ c.trans = ha.trans /\ c.heap = ha.heap /\ c.vars = ha.vars
      /\ \A l \in 1 .. Len(ha.locs) : c.locs[l] = ha.locs[l]
  <2>1. PICK b, inv, name : b = ha /\ inv = <<True>> /\ name = Final
    OBVIOUS
  <2>2. Good(b, levelGuard)
    BY <1>1, <2>1 DEF Fine
  <2>3. /\ Good(AddLocation(b, name, inv), levelGuard)
        /\ AddLocation(b, name, inv).heap = b.heap /\ AddLocation(b, name, inv).trans = b.trans
        /\ AddLocation(b, name, inv).vars = b.vars
        /\ \A l \in 1 .. Len(b.locs) : AddLocation(b, name, inv).locs[l] = b.locs[l]
    BY <2>2, LocationAdded
  <2>4. IsAutomaton(AddLocation(b, name, inv))
    BY <2>3 DEF Good, Shaped, IsAutomaton
  <2> QED
    BY <2>1, <2>3, <2>4
<1> HIDE DEF c
<1>4. PICK g, conds : g = Create(c.heap, conds) /\ conds = <<Level(0)>>
  OBVIOUS
<1>5. ha' = [c EXCEPT !.heap = g]
  BY <1>2, <1>4 DEF LevelGuardMade
<1>6. ha'.trans = c.trans /\ ha'.vars = c.vars /\ ha'.heap = g /\ ha'.locs = c.locs
  BY <1>3, <1>5 DEF IsAutomaton
<1>7. PICK more, f, h, lg : more = levelGuard' /\ f = feature /\ h = ha.heap /\ lg = levelGuard
  OBVIOUS
<1>8. DOMAIN more = {0} /\ more[0] = Fresh(h, conds)
  BY <1>2, <1>4, <1>7
<1>9. 0 \in 0 .. Len(f) - 1
  BY <1>1, <1>7, FeatureLength
<1>10. 0 \notin DOMAIN lg /\ DOMAIN more = DOMAIN lg \union {0} /\ \A i \in DOMAIN lg : more[i] = lg[i]
  BY <1>1, <1>7, <1>8
<1>11. Lists(h) /\ Guarded(f, h, lg) /\ g = Create(h, conds)
  BY <1>1, <1>3, <1>4, <1>7
<1>12. Raises(f, h, lg, g, more, 0)
  BY <1>4, <1>8, <1>9, <1>10, <1>11, LevelStands
<1> QED
  BY <1>1, <1>3, <1>6, <1>7, <1>8, <1>12

\* Beginning the product leaves every transition standing for an edge of the file.
LEMMA ProductBegin ==
  ASSUME ListsInv, ProductInv, Begin
  PROVE  ProductInv'
<1>1. /\ ha'.trans = ha.trans /\ ha'.vars = ha.vars
      /\ Raises(feature, ha.heap, levelGuard, ha'.heap, levelGuard', 0)
  BY BeginRaises
<1>2. pc = "vars" /\ pc' = "sweep" /\ UNCHANGED <<file, feature, edges, added>>
  BY DEF Begin
<1>3. Guarded(feature, ha'.heap, levelGuard')
  BY <1>1 DEF Raises
<1>4. PICK n0 : n0 = Len(EdgesRead(file))
  OBVIOUS
<1>5. n0 \in Nat /\ Len(ha'.trans) = n0
  BY <1>1, <1>2, <1>4, Sizes DEF ProductInv, ListsInv, Fine
<1>6. MadeSince(file, feature, ha', levelGuard', n0)
  BY <1>5, NoneMade
<1>7. ha'.vars \o added' = ha.vars \o added
  BY <1>1, <1>2
<1> QED
  BY <1>2, <1>3, <1>4, <1>6, <1>7, ProductNext

-------------------------------------------------------------------------------
\* What the sweep adds

\* Where the sweep is.
InSweep ==
  /\ feature \in Features /\ file \in Files /\ Accepted(file) /\ Fine(ha, levelGuard) /\ Leads(ha, Final)
  /\ Guarded(feature, ha.heap, levelGuard) /\ DOMAIN levelGuard = 0 .. id /\ id \in DOMAIN levelGuard
  /\ IsSub(id) /\ here \in Locs /\ ha.vars = AllNames /\ TailOf(ha.heap, levelGuard, id) = Tails[id]
  /\ added = << >> /\ LevelNow = -1

\* In the sweep the position is one of a location, a level and a conjunct.
LEMMA Sweeping ==
  ASSUME ListsInv, ReadInv, ProductInv, pc = "sweep"
  PROVE  InSweep
<1>1. /\ feature \in Features /\ file \in Files /\ Accepted(file) /\ Fine(ha, levelGuard) /\ Leads(ha, Final)
      /\ DOMAIN levelGuard = 0 .. id /\ IsSub(id) /\ here \in Locs /\ added = << >>
      /\ Guarded(feature, ha.heap, levelGuard) /\ ha.vars \o added = AllNames /\ IsSequence(ha.vars)
  BY DEF ListsInv, ReadInv, ProductInv, PlacesInv, Fine, Good, Shaped
<1>2. id \in DOMAIN levelGuard
  BY <1>1, SubsTyped DEF IsSub
<1>3. ha.vars = AllNames
  BY <1>1, EmptyJoined
<1>4. Tails = TailsOf(feature, ha.heap, levelGuard)
  BY ListsRead DEF ReadsAs
<1>5. TailOf(ha.heap, levelGuard, id) = Tails[id]
  BY <1>1, <1>2, <1>4 DEF TailsOf, IsSub
<1>6. LevelNow = -1
  BY DEF LevelNow
<1> QED
  BY <1>1, <1>2, <1>3, <1>5, <1>6 DEF InSweep

\* A self-loop.
LEMMA LoopAdded ==
  ASSUME ListsInv, ReadInv, ProductInv, MatchByLoop
  PROVE  Adds(file, feature, ha, ha', levelGuard,
              LS!OrderedResets(LS!SelfLoop(id, here, Term), LS!Assigned(id)), id, {})
<1>1. pc = "sweep" /\ dnfID \in DOMAIN Terms(id) /\ ha' = SelfLoop(ha, id, here, Term)
  BY DEF MatchByLoop, InTerm
<1>2. InSweep
  BY <1>1, Sweeping
<1>3. IsFiniteSet(Term.preds)
  BY <1>1, <1>2, SubsTyped DEF Term, InSweep
<1>4. PICK b, d, i, l, term, behind, w :
        /\ b = ha /\ d = ha' /\ i = id /\ l = here /\ term = Term
        /\ behind = TailOf(ha.heap, levelGuard, id) /\ w = LoopOf(id, here, Term)
  OBVIOUS
<1>5. /\ Fine(b, levelGuard) /\ Leads(b, Final) /\ Guarded(feature, b.heap, levelGuard) /\ b.vars = AllNames
      /\ i \in DOMAIN levelGuard /\ IsSub(i) /\ l \in Locs /\ IsFiniteSet(term.preds)
      /\ behind = TailOf(b.heap, levelGuard, i) /\ d = SelfLoop(b, i, l, term) /\ feature \in Features
      /\ file \in Files
  BY <1>1, <1>2, <1>3, <1>4 DEF InSweep
<1>6. Adds(file, feature, b, d, levelGuard, Matching(behind, l, i, LoopOf(i, l, term)), i, {})
  BY <1>5, SelfLoopAdds
<1>7. IsProduct(w) /\ w.at = id
  <2>1. w = LoopOf(id, here, Term)
    BY <1>4
  <2>2. LoopReads(id, here, Term, w)
    BY <2>1, LoopOfSays
  <2>3. LoopSays(id, w) /\ IsProduct(w)
    BY <2>2, Zenon DEF LoopReads
  <2> QED
    BY <2>3 DEF LoopSays
<1>8. behind = Tails[id]
  BY <1>2, <1>4 DEF InSweep
<1>9. Matching(behind, here, id, w) = LS!OrderedResets(w, LS!Assigned(id))
  BY <1>5, <1>4, <1>7, <1>8, MatchingIs
<1>10. LS!SelfLoop(id, here, Term) = LoopOf(id, here, Term)
  BY <1>3, LoopIs
<1>11. Matching(behind, l, i, LoopOf(i, l, term)) = LS!OrderedResets(LS!SelfLoop(id, here, Term), LS!Assigned(id))
  BY <1>4, <1>9, <1>10
<1> QED
  BY <1>4, <1>6, <1>11

\* The transitions of the model that leave the location in hand are the first of its list.
LEMMA OriginalsRead ==
  ASSUME ListsInv, ReadInv, ProductInv, pc = "sweep", NEW es, es = EdgesRead(file)
  PROVE  /\ ReadFrom(es, Originals(here))
         /\ \A n \in Originals(here) : es[n] \in edges /\ es[n].from = here /\ ha.trans[n].goto = <<es[n].to>>
         /\ \A e \in edges : e.from = here => \E n \in Originals(here) : es[n] = e
<1>1. InSweep
  BY Sweeping
<1>2. Len(ha.trans) \in Nat /\ DOMAIN ha.trans = 1 .. Len(ha.trans) /\ Len(es) \in Nat
  BY <1>1, Sizes, EdgesAreRead DEF InSweep, Fine
<1>3. ASSUME NEW n \in 1 .. Len(es)
      PROVE  /\ n \in DOMAIN ha.trans /\ IsModel(ha, ha.trans[n], es[n])
             /\ ha.trans[n].original /\ ha.trans[n].from = es[n].from /\ ha.trans[n].goto = <<es[n].to>>
  <2>1. PICK told : n \in 1 .. Len(ha.trans) /\ ReadIn(ha.trans[n], es[n], LevelNow, told)
    BY ReadStays
  <2>2. PICK t, e, k : t = ha.trans[n] /\ e = es[n] /\ k = LevelNow
    OBVIOUS
  <2>3. told = Added(feature) /\ Originally(ha, t, e, k, told) /\ k = -1
    BY <1>1, <2>1, <2>2 DEF ReadIn, InSweep
  <2>4. LevelOf(k) = {}
    BY <2>3 DEF LevelOf
  <2>5. {<<"edge", e>>} \union LevelOf(k) = {<<"edge", e>>}
    BY <2>4
  <2>6. IsModel(ha, t, e)
    BY <2>3, <2>5 DEF Originally, IsModel
  <2>7. t.original /\ t.from = e.from /\ t.goto = <<e.to>>
    BY <2>3 DEF Originally
  <2> QED
    BY <1>2, <2>1, <2>2, <2>6, <2>7
<1>4. ASSUME NEW n \in DOMAIN ha.trans, ha.trans[n].original PROVE n \in 1 .. Len(es)
  <2>1. \A m \in Len(es) + 1 .. Len(ha.trans) : ~ha.trans[m].original
    BY DEF ProductInv, MadeSince
  <2> QED
    BY <1>2, <1>4, <2>1
<1>5. \A n \in Originals(here) : n \in 1 .. Len(es) /\ es[n].from = here
  BY <1>3, <1>4 DEF Originals
<1>6. \A n \in 1 .. Len(es) : es[n].from = here => n \in Originals(here)
  BY <1>3 DEF Originals
<1>7. edges = {es[n] : n \in 1 .. Len(es)}
  BY DEF ProductInv
<1>8. ReadFrom(es, Originals(here))
  BY <1>3, <1>5 DEF ReadFrom
<1>9. \A n \in Originals(here) : es[n] \in edges /\ es[n].from = here /\ ha.trans[n].goto = <<es[n].to>>
  BY <1>3, <1>5, <1>7
<1>10. \A e \in edges : e.from = here => \E n \in Originals(here) : es[n] = e
  BY <1>6, <1>7
<1> QED
  BY <1>8, <1>9, <1>10

\* Those on which the event happens.
LEMMA EventEdgesRead ==
  ASSUME ListsInv, ReadInv, ProductInv, pc = "sweep", NEW es, es = EdgesRead(file)
  PROVE  /\ \A n \in Entering(id, here) \union Exiting(id, here) : n \in Originals(here) /\ es[n] \in LS!EventEdges(id, here)
         /\ \A e \in LS!EventEdges(id, here) : \E n \in Entering(id, here) \union Exiting(id, here) : es[n] = e
<1>1. /\ \A n \in Originals(here) : es[n] \in edges /\ es[n].from = here /\ ha.trans[n].goto = <<es[n].to>>
      /\ \A e \in edges : e.from = here => \E n \in Originals(here) : es[n] = e
  BY OriginalsRead
<1>2. \A x, y : <<x>> = <<y>> => x = y
  OBVIOUS
<1>3. LS!Sub(id) = Sub(id)
  BY SameParts
<1>4. PICK ev : ev = Sub(id).event
  OBVIOUS
<1>5. \A e : e \in LS!EventEdges(id, here) <=>
               /\ e \in edges /\ e.from = here
               /\ (ev.type \in {1, 0} /\ e.to = ev.of) \/ (ev.type \in {2, 0} /\ here = ev.of)
  <2>1. PICK sub : sub = LS!Sub(id)
    OBVIOUS
  <2>2. sub.event = ev
    BY <1>3, <1>4, <2>1
  <2>3. LS!EventEdges(id, here) =
          {e \in edges : /\ e.from = here
                         /\ (sub.event.type \in {1, 0} /\ e.to = sub.event.of) \/ (sub.event.type \in {2, 0} /\ here = sub.event.of)}
    BY <2>1 DEF LS!EventEdges
  <2> QED
    BY <2>2, <2>3
<1>6. \A n : n \in Entering(id, here) \union Exiting(id, here) <=>
               /\ n \in Originals(here)
               /\ \/ ev.type \in {1, 0} /\ ha.trans[n].goto = <<ev.of>>
                  \/ ev.type \in {2, 0} /\ here = ev.of
  BY <1>4 DEF Entering, Exiting
<1>7. ASSUME NEW n \in Entering(id, here) \union Exiting(id, here)
      PROVE  n \in Originals(here) /\ es[n] \in LS!EventEdges(id, here)
  <2>1. PICK e : e = es[n]
    OBVIOUS
  <2>2. n \in Originals(here) /\ e \in edges /\ e.from = here /\ ha.trans[n].goto = <<e.to>>
    BY <1>1, <1>6, <2>1
  <2>3. ha.trans[n].goto = <<ev.of>> => e.to = ev.of
    BY <1>2, <2>2
  <2>4. (ev.type \in {1, 0} /\ e.to = ev.of) \/ (ev.type \in {2, 0} /\ here = ev.of)
    <3>1. \/ ev.type \in {1, 0} /\ ha.trans[n].goto = <<ev.of>>
          \/ ev.type \in {2, 0} /\ here = ev.of
      BY <1>6
    <3> QED
      BY <2>3, <3>1
  <2> QED
    BY <1>5, <2>1, <2>2, <2>4
<1>8. ASSUME NEW e \in LS!EventEdges(id, here)
      PROVE  \E n \in Entering(id, here) \union Exiting(id, here) : es[n] = e
  <2>1. e \in edges /\ e.from = here /\ ((ev.type \in {1, 0} /\ e.to = ev.of) \/ (ev.type \in {2, 0} /\ here = ev.of))
    BY <1>5
  <2>2. PICK n \in Originals(here) : es[n] = e
    BY <1>1, <2>1
  <2>3. ha.trans[n].goto = <<e.to>>
    BY <1>1, <2>2
  <2> QED
    BY <1>6, <2>1, <2>2, <2>3
<1> QED
  BY <1>7, <1>8

\* State events: the transitions that enter their location, then those that leave it.
LEMMA EdgesAdded ==
  ASSUME ListsInv, ReadInv, ProductInv, MatchOnEdges
  PROVE  Adds(file, feature, ha, ha', levelGuard,
              UNION {LS!OrderedResets(LS!OnEdge(id, e, Term), LS!Assigned(id)) : e \in LS!EventEdges(id, here)}, id, {})
<1>1. /\ pc = "sweep" /\ dnfID \in DOMAIN Terms(id)
      /\ ha' = OnEdges(OnEdges(ha, id, Entering(id, here), Term), id, Exiting(id, here), Term)
  BY DEF MatchOnEdges, InTerm
<1>2. InSweep
  BY <1>1, Sweeping
<1>3. IsFiniteSet(Term.preds)
  BY <1>1, <1>2, SubsTyped DEF Term, InSweep
<1>4. PICK es : es = EdgesRead(file)
  OBVIOUS
<1>5. PICK b, i, term, behind, enter, exit :
        /\ b = ha /\ i = id /\ term = Term /\ behind = TailOf(ha.heap, levelGuard, id)
        /\ enter = Entering(id, here) /\ exit = Exiting(id, here)
  OBVIOUS
<1>6. PICK c, d : c = OnEdges(b, i, enter, term) /\ d = OnEdges(c, i, exit, term)
  OBVIOUS
<1>7. /\ enter \in SUBSET Originals(here) /\ exit \in SUBSET Originals(here)
      /\ ReadFrom(es, enter) /\ ReadFrom(es, exit)
  <2>1. ReadFrom(es, Originals(here))
    BY <1>1, <1>4, OriginalsRead
  <2>2. enter \in SUBSET Originals(here) /\ exit \in SUBSET Originals(here)
    BY <1>5 DEF Entering, Exiting
  <2> QED
    BY <2>1, <2>2 DEF ReadFrom
<1>8. /\ feature \in Features /\ file \in Files /\ Fine(b, levelGuard) /\ Continues(ha, b) /\ Leads(b, Final)
      /\ Guarded(feature, b.heap, levelGuard) /\ b.vars = AllNames /\ i \in DOMAIN levelGuard /\ IsSub(i)
      /\ here \in Locs /\ IsFiniteSet(term.preds) /\ behind = TailOf(b.heap, levelGuard, i) /\ Fine(ha, levelGuard)
  BY <1>2, <1>3, <1>5, ContinuesItself DEF InSweep, Fine
<1>9. PICK V, W : V = AllMatching(behind, i, term, es, enter) /\ W = AllMatching(behind, i, term, es, exit)
  OBVIOUS
<1>10. Continues(b, c) /\ Adds(file, feature, b, c, levelGuard, V, i, {})
  <2>1. Continues(b, c) /\ Adds(file, feature, b, c, levelGuard, AllMatching(behind, i, term, es, enter), i, {})
    BY <1>6, <1>7, <1>8, OnEdgesAdds
  <2> QED
    BY <1>9, <2>1
<1>11. Fine(c, levelGuard) /\ Continues(ha, c) /\ Leads(c, Final)
  BY <1>6, <1>7, <1>8, OnEdgesFine
<1>12. Widens(feature, b.heap, c.heap, levelGuard, i, {})
  BY <1>10 DEF Adds
<1>13. Guarded(feature, c.heap, levelGuard) /\ behind = TailOf(c.heap, levelGuard, i)
  <2>1. TailOf(c.heap, levelGuard, i) = TailOf(b.heap, levelGuard, i) \union {}
    BY <1>8, <1>12 DEF Widens
  <2> QED
    BY <1>8, <1>12, <2>1 DEF Widens
<1>14. c.vars = AllNames
  BY <1>8, <1>10 DEF Continues
<1>15. Continues(c, d) /\ Adds(file, feature, c, d, levelGuard, W, i, {})
  <2>1. Continues(c, d) /\ Adds(file, feature, c, d, levelGuard, AllMatching(behind, i, term, es, exit), i, {})
    BY <1>6, <1>7, <1>8, <1>11, <1>13, <1>14, OnEdgesAdds
  <2> QED
    BY <1>9, <2>1
<1>16. Fine(d, levelGuard)
  BY <1>6, <1>7, <1>8, <1>11, OnEdgesFine
<1>17. Adds(file, feature, b, d, levelGuard, V \union W, i, {} \union {})
  BY <1>8, <1>10, <1>11, <1>15, <1>16, AddsFurther DEF Fine
<1>18. \A e : e \in LS!EventEdges(id, here) <=> \E m \in enter \union exit : es[m] = e
  BY <1>1, <1>4, <1>5, EventEdgesRead
<1>19. \A m \in enter \union exit : EdgeMatching(behind, i, term, es[m]) = LS!OrderedResets(LS!OnEdge(id, es[m], Term), LS!Assigned(id))
  <2> SUFFICES ASSUME NEW m \in enter \union exit
               PROVE  EdgeMatching(behind, i, term, es[m]) = LS!OrderedResets(LS!OnEdge(id, es[m], Term), LS!Assigned(id))
    OBVIOUS
  <2>1. PICK e, w : e = es[m] /\ w = EdgeMatch(id, e, Term, behind)
    OBVIOUS
  <2>2. e.from = here
    BY <1>1, <1>4, <1>7, <2>1, OriginalsRead
  <2>3. behind = Tails[id]
    BY <1>2, <1>5 DEF InSweep
  <2>4. IsProduct(w) /\ w.at = id
    <3>1. IsEdgeMatch(id, e, Term, behind, w)
      BY <2>1, EdgeMatchSays
    <3> QED
      BY <3>1 DEF IsEdgeMatch, EdgeStepSays
  <2>5. IsSub(id)
    BY <1>2 DEF InSweep
  <2>6. Matching(behind, here, id, w) = LS!OrderedResets(w, LS!Assigned(id))
    BY <1>8, <2>3, <2>4, <2>5, MatchingIs
  <2>7. LS!OnEdge(id, e, Term) = w
    BY <1>3, <2>1, <2>3, EdgeMatchIs
  <2> QED
    BY <1>5, <2>1, <2>2, <2>6, <2>7 DEF EdgeMatching
<1>20. V \union W = UNION {LS!OrderedResets(LS!OnEdge(id, e, Term), LS!Assigned(id)) : e \in LS!EventEdges(id, here)}
  <2>1. ASSUME NEW v
        PROVE  v \in V \union W <=> \E m \in enter \union exit : v \in EdgeMatching(behind, i, term, es[m])
    BY <1>9 DEF AllMatching
  <2>2. PICK F : F = [e \in LS!EventEdges(id, here) |-> LS!OrderedResets(LS!OnEdge(id, e, Term), LS!Assigned(id))]
    OBVIOUS
  <2>3. \A m \in enter \union exit : es[m] \in LS!EventEdges(id, here) /\ EdgeMatching(behind, i, term, es[m]) = F[es[m]]
    BY <1>18, <1>19, <2>2
  <2>4. ASSUME NEW v
        PROVE  v \in V \union W <=> v \in UNION {F[e] : e \in LS!EventEdges(id, here)}
    BY <1>18, <2>1, <2>3
  <2>5. V \union W = UNION {F[e] : e \in LS!EventEdges(id, here)}
    BY <2>4
  <2>6. UNION {F[e] : e \in LS!EventEdges(id, here)} = UNION {LS!OrderedResets(LS!OnEdge(id, e, Term), LS!Assigned(id)) : e \in LS!EventEdges(id, here)}
    BY <2>2
  <2> QED
    BY <2>5, <2>6
<1>21. d = ha'
  BY <1>1, <1>5, <1>6
<1>22. {} \union {} = {}
  OBVIOUS
<1> QED
  BY <1>5, <1>17, <1>20, <1>21, <1>22

\* The copies that wait.
LEMMA WaitsAdded ==
  ASSUME ListsInv, ReadInv, ProductInv, pc = "sweep",
         NEW guards, IsSequence(guards), \A c \in Range(guards) : c[1] = "pred",
         feature[id + 1].dnf = << >> => Range(guards) = {}, NEW d, d = WaitAll(guards),
         NEW V, V = {LS!Waiting(id, e) : e \in LS!Leaving},
         NEW C, C = IF LS!Leaving = {} THEN {} ELSE Range(guards)
  PROVE  /\ Fine(d, levelGuard) /\ Continues(ha, d) /\ Leads(d, Final)
         /\ Adds(file, feature, ha, d, levelGuard, V, id, C)
<1>1. InSweep
  BY Sweeping
<1>2. PICK es : es = EdgesRead(file)
  OBVIOUS
<1>3. /\ ReadFrom(es, Originals(here))
      /\ \A n \in Originals(here) : es[n] \in edges /\ es[n].from = here
      /\ \A e \in edges : e.from = here => \E n \in Originals(here) : es[n] = e
  BY <1>2, OriginalsRead
<1>4. \A e : e \in LS!Leaving <=> \E n \in Originals(here) : es[n] = e
  BY <1>3 DEF LS!Leaving
<1>5. PICK W, D : W = {WaitOf(id, es[m]) : m \in Originals(here)} /\ D = IF Originals(here) = {} THEN {} ELSE Range(guards)
  OBVIOUS
<1>6. Adds(file, feature, ha, d, levelGuard, W, id, D)
  <2>1. /\ feature \in Features /\ file \in Files /\ Fine(ha, levelGuard) /\ Leads(ha, Final) /\ id \in DOMAIN levelGuard
        /\ Guarded(feature, ha.heap, levelGuard) /\ here \in Locs
    BY <1>1 DEF InSweep
  <2> QED
    BY <1>3, <1>5, <2>1, WaitAllAdds
<1>7. \A e : LS!Waiting(id, e) = WaitOf(id, e)
  BY WaitIs
<1>8. V = W
  BY <1>4, <1>5, <1>7
<1>9. C = D
  BY <1>4, <1>5
<1>10. \A m \in DOMAIN guards : guards[m][1] # "edge"
  BY DEF Range
<1>11. Fine(d, levelGuard) /\ Continues(ha, d) /\ Leads(d, Final)
  BY <1>1, <1>10, WaitAllFine DEF InSweep
<1> QED
  BY <1>6, <1>8, <1>9, <1>11

\* What is retained before the sweep goes on: d, with the transitions V more, and the
\* conditions C behind the guard of the level.
Retains(d, V, C) ==
  /\ Fine(d, levelGuard) /\ Continues(ha, d) /\ Leads(d, Final)
  /\ Adds(file, feature, ha, d, levelGuard, V, id, C)

\* A location no match leaves: its original edges wait on the level, without a guard.
LEMMA AllRetained ==
  ASSUME ListsInv, ReadInv, ProductInv, RetainAll
  PROVE  \E d : NextLocation(d) /\ Retains(d, {LS!Waiting(id, e) : e \in LS!Leaving}, {})
<1>1. pc = "sweep" /\ NextLocation(WaitAll(<< >>))
  BY DEF RetainAll, NextLocation
<1>2. PICK guards, d : guards = << >> /\ d = WaitAll(guards)
  OBVIOUS
<1>3. IsSequence(guards) /\ Range(guards) = {}
  BY <1>2, ShortSequences DEF Range
<1>4. PICK V, C : V = {LS!Waiting(id, e) : e \in LS!Leaving} /\ C = IF LS!Leaving = {} THEN {} ELSE Range(guards)
  OBVIOUS
<1>5. /\ Fine(d, levelGuard) /\ Continues(ha, d) /\ Leads(d, Final)
      /\ Adds(file, feature, ha, d, levelGuard, V, id, C)
  BY <1>1, <1>2, <1>3, <1>4, WaitsAdded
<1>6. C = {}
  BY <1>3, <1>4
<1> QED
  BY <1>1, <1>2, <1>4, <1>5, <1>6 DEF Retains

\* A location with a match: its original edges wait on the level, and the guards of the first
\* conjunct without first_match go behind the guard of the level.
LEMMA OpenRetained ==
  ASSUME ListsInv, ReadInv, ProductInv, RetainOpen
  PROVE  \E d : NextLocation(d) /\ Retains(d, {LS!Waiting(id, e) : e \in LS!Leaving},
                                           IF LS!Leaving = {} THEN {} ELSE LS!OpenGuards(id))
<1>1. pc = "sweep" /\ NextLocation(WaitAll(ConjunctGuards(FirstOpen(id)))) /\ OpenTerms(id) # {}
  BY DEF RetainOpen, NextLocation
<1>2. feature \in Features /\ IsSub(id)
  BY <1>1, Sweeping DEF InSweep
<1>3. PICK guards, d, term : guards = ConjunctGuards(term) /\ d = WaitAll(guards) /\ term = FirstOpen(id)
  OBVIOUS
<1>4. IsFiniteSet(term.preds)
  <2>1. PICK first \in OpenTerms(id) : \A m \in OpenTerms(id) : first <= m
    <3>1. OpenTerms(id) \in SUBSET Nat
      BY <1>2, SubsTyped, SequenceFacts DEF OpenTerms
    <3> QED
      BY <1>1, <3>1, LeastOfNats
  <2>2. (CHOOSE m \in OpenTerms(id) : \A n \in OpenTerms(id) : m <= n) \in OpenTerms(id)
    BY <2>1
  <2> QED
    BY <1>2, <1>3, <2>2, SubsTyped DEF FirstOpen, OpenTerms
<1>5. IsSequence(guards) /\ Range(guards) = {<<"pred", p>> : p \in term.preds}
  BY <1>3, <1>4, ConjunctAll
<1>6. \A c \in Range(guards) : c[1] = "pred"
  BY <1>5
<1>7. feature[id + 1].dnf # << >>
  <2>1. PICK k \in DOMAIN Sub(id).dnf : TRUE
    BY <1>1 DEF OpenTerms
  <2>2. DOMAIN << >> = {}
    BY ShortSequences
  <2> QED
    BY <2>1, <2>2 DEF Sub
<1>8. PICK V, C : V = {LS!Waiting(id, e) : e \in LS!Leaving} /\ C = IF LS!Leaving = {} THEN {} ELSE Range(guards)
  OBVIOUS
<1>9. /\ Fine(d, levelGuard) /\ Continues(ha, d) /\ Leads(d, Final)
      /\ Adds(file, feature, ha, d, levelGuard, V, id, C)
  BY <1>1, <1>3, <1>5, <1>6, <1>7, <1>8, WaitsAdded
<1>10. LS!OpenGuards(id) = Range(guards)
  <2>1. LS!Sub(id) = Sub(id)
    BY SameParts
  <2>2. LS!Open(id) = OpenTerms(id)
    BY <2>1 DEF LS!Open, OpenTerms
  <2>3. LS!OpenGuards(id) = LS!PredGuards(term)
    BY <1>3, <2>1, <2>2 DEF LS!OpenGuards, FirstOpen
  <2> QED
    BY <1>3, <1>4, <2>3, GuardsAre
<1> QED
  BY <1>1, <1>3, <1>8, <1>9, <1>10 DEF Retains

\* Before the first sub-condition, and where all conjuncts are first_match, no edge waits.
LEMMA NoneRetained ==
  ASSUME ListsInv, ReadInv, ProductInv, RetainNone
  PROVE  NextLocation(ha) /\ Retains(ha, {}, {})
<1>1. pc = "sweep" /\ NextLocation(ha)
  BY DEF RetainNone, NextLocation
<1>2. InSweep
  BY <1>1, Sweeping
<1>3. Fine(ha, levelGuard) /\ Leads(ha, Final) /\ Good(ha, levelGuard) /\ Guarded(feature, ha.heap, levelGuard)
  BY <1>2 DEF InSweep, Fine
<1>4. Continues(ha, ha)
  BY <1>3, ContinuesItself
<1>5. Widens(feature, ha.heap, ha.heap, levelGuard, id, {})
  BY <1>3, WidensItself
<1>6. PICK b, c : b = ha /\ c = ha
  OBVIOUS
<1>7. c.trans = b.trans /\ Widens(feature, b.heap, c.heap, levelGuard, id, {}) /\ Good(b, levelGuard)
  BY <1>3, <1>5, <1>6
<1>8. Adds(file, feature, b, c, levelGuard, {}, id, {})
  BY <1>7, AddsNothing
<1> QED
  BY <1>1, <1>3, <1>4, <1>6, <1>8 DEF Retains

\* An automaton that is well formed after the step is so with the variables of the step written
\* out.
LEMMA FineHere ==
  ASSUME edges' = edges, Fine(ha, levelGuard)'
  PROVE  Fine(ha', levelGuard')
BY DEF Fine, Good, Shaped, Parted, Untouched, AllLead, Leads, IsTransition, IsLocation, Shared,
       Reached, Nodes, Lists, IsHeap, Lengths, IsNode, IsSequence, Locs,
       Settled, LastReset, Number, Final, IsPauseName, PauseName

\* On from d, to the next location or to a level with a guard of its own.
Moved(d) ==
  /\ ha'.trans = d.trans /\ ha'.vars = d.vars /\ Guarded(feature, ha'.heap, levelGuard')
  /\ StandsOn(feature, d, levelGuard, ha', levelGuard') /\ DOMAIN levelGuard \subseteq DOMAIN levelGuard'
  /\ TailsOf(feature, ha'.heap, levelGuard') = TailsOf(feature, d.heap, levelGuard)

\* Going on to the next location, or with the next level guard to the next sub-condition, keeps
\* the transitions and what they stand for.
LEMMA MovedOn ==
  ASSUME ListsInv, pc = "sweep", NEW d, Fine(d, levelGuard), Guarded(feature, d.heap, levelGuard), NextLocation(d)
  PROVE  Moved(d)
<1>1. /\ DOMAIN levelGuard = 0 .. id /\ IsSub(id) /\ feature \in Features
  BY DEF ListsInv, PlacesInv
<1>2. Len(feature) \in Nat /\ id \in Nat /\ id < Len(feature)
  BY <1>1, SubsTyped DEF IsSub
<1>3. CASE ~(LastHere /\ ~IsLast(id))
  <2>1. ha' = d /\ levelGuard' = levelGuard
    BY <1>3 DEF NextLocation
  <2>2. StandsOn(feature, d, levelGuard, d, levelGuard)
    BY StandsOnItself
  <2> QED
    BY <2>1, <2>2 DEF Moved
<1>4. CASE LastHere /\ ~IsLast(id)
  <2>1. /\ ha' = LevelGuardMade(d, id + 1)
        /\ levelGuard' = [i \in DOMAIN levelGuard \union {id + 1} |->
                            IF i = id + 1 THEN Fresh(d.heap, <<Level(i)>>) ELSE levelGuard[i]]
    BY <1>4 DEF NextLocation
  <2>2. PICK more, j, f, h, lg, conds, g :
          /\ more = levelGuard' /\ j = id + 1 /\ f = feature /\ h = d.heap /\ lg = levelGuard
          /\ conds = <<Level(j)>> /\ g = Create(h, conds)
    OBVIOUS
  <2>3. /\ j \notin DOMAIN lg /\ DOMAIN more = DOMAIN lg \union {j}
        /\ more[j] = Fresh(h, conds)
    BY <1>1, <1>2, <2>1, <2>2
  <2>4. \A i \in DOMAIN lg : more[i] = lg[i]
    BY <2>1, <2>2, <2>3
  <2>5. j \in 0 .. Len(f) - 1
    BY <1>2, <1>4, <2>2 DEF IsLast
  <2>6. Lists(h) /\ Guarded(f, h, lg)
    BY <2>2, Sizes DEF Fine
  <2>7. Raises(f, h, lg, g, more, j)
    BY <2>2, <2>3, <2>4, <2>5, <2>6, LevelStands
  <2>8. ha' = [d EXCEPT !.heap = g] /\ IsAutomaton(d)
    BY <2>1, <2>2 DEF LevelGuardMade, Fine, Good, Shaped, IsAutomaton
  <2>9. PICK e : e = ha'
    OBVIOUS
  <2>10. e.locs = d.locs /\ e.heap = g /\ e.trans = d.trans /\ e.vars = d.vars
    BY <2>8, <2>9 DEF IsAutomaton
  <2>11. Raises(f, d.heap, lg, e.heap, more, j)
    BY <2>2, <2>7, <2>10
  <2>12. StandsOn(f, d, lg, e, more)
    BY <2>10, <2>11, RaisedOn
  <2>13. TailsOf(f, g, more) = TailsOf(f, h, lg)
    BY <2>3, <2>7, RaisedTails
  <2>14. Guarded(f, g, more)
    BY <2>7 DEF Raises
  <2> QED
    BY <2>2, <2>3, <2>9, <2>10, <2>12, <2>13, <2>14 DEF Moved
<1> QED
  BY <1>3, <1>4

\* What the sweep adds leaves what stood before, and stands itself.
LEMMA SweepMade ==
  ASSUME ListsInv, ProductInv, file \in Files, Accepted(file), UNCHANGED <<file, feature, edges, added>>, pc' # "vars",
         NEW d, Fine(d, levelGuard), Continues(ha, d), NEW V, NEW C,
         Adds(file, feature, ha, d, levelGuard, V, id, C), Moved(d)
  PROVE  ProductInv'
<1>1. PICK fl, f, b, lg, e, more, n0, i :
        /\ fl = file /\ f = feature /\ b = ha /\ lg = levelGuard /\ e = ha' /\ more = levelGuard'
        /\ n0 = Len(EdgesRead(file)) /\ i = id
  OBVIOUS
<1>2. n0 \in Nat
  BY <1>1, EdgesAreRead
<1>3. Good(b, lg) /\ Good(d, lg) /\ MadeSince(fl, f, b, lg, n0) /\ Continues(b, d)
  BY <1>1 DEF ListsInv, Fine, ProductInv
<1>4. Adds(fl, f, b, d, lg, V, i, C)
  BY <1>1
<1>5. MadeSince(fl, f, d, lg, n0)
  BY <1>2, <1>3, <1>4, MadeFurther
<1>6. e.trans = d.trans /\ DOMAIN lg \subseteq DOMAIN more /\ StandsOn(f, d, lg, e, more)
  BY <1>1 DEF Moved
<1>7. MadeSince(fl, f, e, more, n0)
  BY <1>2, <1>3, <1>5, <1>6, MadeStays
<1>8. ha'.vars \o added' = ha.vars \o added
  BY DEF Moved, Continues
<1>9. Guarded(feature, ha'.heap, levelGuard')
  BY DEF Moved
<1> QED
  BY <1>1, <1>7, <1>8, <1>9, ProductNext

\* A conjunct of the sweep: the automaton is d at once.
LEMMA MovedToItself ==
  ASSUME NEW V, NEW C, Adds(file, feature, ha, ha', levelGuard, V, id, C), levelGuard' = levelGuard
  PROVE  Moved(ha')
<1>1. Guarded(feature, ha'.heap, levelGuard)
  BY DEF Adds, Widens
<1>2. StandsOn(feature, ha', levelGuard, ha', levelGuard)
  BY StandsOnItself
<1> QED
  BY <1>1, <1>2 DEF Moved

\* What is added for a conjunct.
TermAdded(V) == Adds(file, feature, ha, ha', levelGuard, V, id, {})

\* What each of the three ways to handle a conjunct adds: nothing, the matches of its self-
\* loop, or those on the edges of its event.
LEMMA TermsAdded ==
  ASSUME ListsInv, ReadInv, ProductInv
  PROVE  /\ SkipTerm => TermAdded({})
         /\ MatchByLoop => TermAdded(LS!OrderedResets(LS!SelfLoop(id, here, Term), LS!Assigned(id)))
         /\ MatchOnEdges => TermAdded(UNION {LS!OrderedResets(LS!OnEdge(id, e, Term), LS!Assigned(id)) :
                                               e \in LS!EventEdges(id, here)})
<1>1. ASSUME SkipTerm PROVE TermAdded({})
  <2>1. ha' = ha
    BY <1>1 DEF SkipTerm
  <2>2. Good(ha, levelGuard) /\ Guarded(feature, ha.heap, levelGuard)
    BY DEF ListsInv, Fine, ProductInv
  <2>3. PICK b, c : b = ha /\ c = ha'
    OBVIOUS
  <2>4. Widens(feature, b.heap, c.heap, levelGuard, id, {}) /\ c.trans = b.trans /\ Good(b, levelGuard)
    BY <2>1, <2>2, <2>3, WidensItself
  <2>5. Adds(file, feature, b, c, levelGuard, {}, id, {})
    BY <2>4, AddsNothing
  <2> QED
    BY <2>3, <2>5 DEF TermAdded
<1>2. MatchByLoop => TermAdded(LS!OrderedResets(LS!SelfLoop(id, here, Term), LS!Assigned(id)))
  BY LoopAdded DEF TermAdded
<1>3. MatchOnEdges => TermAdded(UNION {LS!OrderedResets(LS!OnEdge(id, e, Term), LS!Assigned(id)) :
                                         e \in LS!EventEdges(id, here)})
  BY EdgesAdded DEF TermAdded
<1> QED
  BY <1>1, <1>2, <1>3

\* Handling a conjunct keeps every transition standing for a transition of the product.
LEMMA ProductTerm ==
  ASSUME ListsInv, ReadInv, ProductInv, SkipTerm \/ MatchByLoop \/ MatchOnEdges
  PROVE  ProductInv'
<1>1. PICK V : TermAdded(V)
  BY TermsAdded
<1>2. /\ pc = "sweep" /\ pc' = "sweep" /\ UNCHANGED <<file, feature, edges, added, levelGuard>>
  BY DEF SkipTerm, MatchByLoop, MatchOnEdges, InTerm, NextTerm
<1>3. Continues(ha, ha') /\ Fine(ha', levelGuard)
  <2>1. Continues(ha, ha') /\ ListsInv'
    BY TermKeeps
  <2>2. Fine(ha, levelGuard)'
    BY <2>1 DEF ListsInv
  <2> QED
    BY <1>2, <2>1, <2>2, FineHere
<1>4. Adds(file, feature, ha, ha', levelGuard, V, id, {})
  BY <1>1 DEF TermAdded
<1>5. Moved(ha')
  BY <1>2, <1>4, MovedToItself
<1>6. file \in Files /\ Accepted(file) /\ pc' # "vars"
  BY <1>2 DEF ReadInv
<1> QED
  BY <1>2, <1>3, <1>4, <1>5, <1>6, SweepMade

\* Retaining the edges of a location keeps every transition standing for a transition of the
\* product.
LEMMA ProductRetain ==
  ASSUME ListsInv, ReadInv, ProductInv, RetainAll \/ RetainOpen \/ RetainNone
  PROVE  ProductInv'
<1>1. PICK d, V, C : NextLocation(d) /\ Retains(d, V, C)
  <2>1. CASE RetainAll
    BY <2>1, AllRetained
  <2>2. CASE RetainOpen
    BY <2>2, OpenRetained
  <2>3. CASE RetainNone
    BY <2>3, NoneRetained
  <2> QED
    BY <2>1, <2>2, <2>3
<1>2. /\ pc = "sweep" /\ pc' \in {"sweep", "gate"} /\ UNCHANGED <<file, feature, edges, added>>
  BY <1>1 DEF NextLocation
<1>3. Fine(d, levelGuard) /\ Continues(ha, d) /\ Adds(file, feature, ha, d, levelGuard, V, id, C)
  BY <1>1 DEF Retains
<1>4. Guarded(feature, d.heap, levelGuard)
  BY <1>3 DEF Adds, Widens
<1>5. Moved(d)
  BY <1>1, <1>2, <1>3, <1>4, MovedOn
<1>6. file \in Files /\ Accepted(file) /\ pc' # "vars"
  BY <1>2 DEF ReadInv
<1> QED
  BY <1>2, <1>3, <1>5, <1>6, SweepMade

\* The gate: what was made stands as it did.
Gatekept(f, b, lg, d) ==
  /\ Guarded(f, d.heap, lg) /\ d.trans = b.trans /\ d.vars = b.vars
  /\ \A i \in DOMAIN lg : TailOf(d.heap, lg, i) = TailOf(b.heap, lg, i)
  /\ \A n \in 1 .. Len(b.trans) : ~b.trans[n].original =>
       \A v : Stands(f, b, lg, b.trans[n], v) => Stands(f, d, lg, b.trans[n], v)

\* The gate guards the original transitions with a level; the added ones stand for what they
\* stood for.
LEMMA GateStands ==
  ASSUME NEW f, NEW b, NEW lg, Fine(b, lg), Guarded(f, b.heap, lg), NEW d, d = Gated(b)
  PROVE  Gatekept(f, b, lg, d)
<1>1. Fine(d, lg) /\ Gates(b, d) /\ GatedTo(b, d, Len(b.trans)) /\ LevelsKept(b.heap, d.heap, lg)
  BY GatedFine
<1>2. PICK h, g : h = b.heap /\ g = d.heap
  OBVIOUS
<1>3. /\ Lists(h) /\ Guarded(f, h, lg) /\ Len(h) <= Len(g) /\ Len(g) \in Nat /\ SameConds(h, g) /\ LevelsKept(h, g, lg)
      /\ Len(b.trans) \in Nat
  BY <1>1, <1>2, Sizes DEF Fine, Gates
<1>4. /\ Guarded(f, g, lg) /\ \A i \in DOMAIN lg : TailOf(g, lg, i) = TailOf(h, lg, i)
      /\ \A a, v : GuardStands(h, lg, a, v) /\ Reached(g, a) = Reached(h, a) => GuardStands(g, lg, a, v)
  <2>1. GuardsAs(f, h, g, lg)
    BY <1>3, GuardSame
  <2> QED
    BY <2>1 DEF GuardsAs
<1>5. ASSUME NEW n \in 1 .. Len(b.trans), ~b.trans[n].original, NEW v, Stands(f, b, lg, b.trans[n], v)
      PROVE  Stands(f, d, lg, b.trans[n], v)
  <2>1. PICK t : t = b.trans[n]
    OBVIOUS
  <2>2. Reached(g, t.when) = Reached(h, t.when)
    BY <1>1, <1>2, <1>5, <2>1 DEF GatedTo
  <2>3. d.locs = b.locs
    BY <1>1 DEF Gates
  <2>4. Stands(f, b, lg, t, v)
    BY <1>5, <2>1
  <2>5. GuardStands(g, lg, t.when, v)
    <3>1. GuardStands(h, lg, t.when, v)
      BY <1>2, <2>4 DEF Stands
    <3> QED
      BY <1>4, <2>2, <3>1
  <2>6. Stands(f, d, lg, t, v)
    BY <1>2, <2>3, <2>4, <2>5 DEF Stands
  <2> QED
    BY <2>1, <2>6
<1>6. d.trans = b.trans /\ d.vars = b.vars
  BY <1>1 DEF Gates
<1> QED
  BY <1>2, <1>4, <1>5, <1>6 DEF Gatekept

\* The gate keeps every transition standing for a transition of the product.
LEMMA ProductGate ==
  ASSUME ListsInv, ReadInv, ProductInv, Gate
  PROVE  ProductInv'
<1>1. ha' = Gated(ha) /\ pc' = "built" /\ UNCHANGED <<file, edges, feature, added, levelGuard>>
  BY DEF Gate
<1>2. PICK fl, f, b, lg, d, n0 :
        fl = file /\ f = feature /\ b = ha /\ lg = levelGuard /\ d = ha' /\ n0 = Len(EdgesRead(file))
  OBVIOUS
<1>3. Fine(b, lg) /\ Guarded(f, b.heap, lg) /\ d = Gated(b) /\ MadeSince(fl, f, b, lg, n0)
  BY <1>1, <1>2 DEF ListsInv, ProductInv
<1>4. Gatekept(f, b, lg, d)
  BY <1>3, GateStands
<1>5. n0 \in Nat /\ Len(b.trans) \in Nat
  BY <1>2, <1>3, EdgesAreRead, Sizes DEF ReadInv, Fine
<1>6. MadeSince(fl, f, d, lg, n0)
  <2>1. ASSUME NEW n \in n0 + 1 .. Len(b.trans)
        PROVE  ~b.trans[n].original /\ \E v : Made(fl, f, d, lg, b.trans[n], v)
    <3>1. n \in 1 .. Len(b.trans)
      BY <1>5
    <3>2. PICK v : ~b.trans[n].original /\ Made(fl, f, b, lg, b.trans[n], v)
      BY <1>3 DEF MadeSince
    <3>3. Stands(f, d, lg, b.trans[n], v)
      BY <1>4, <3>1, <3>2 DEF Gatekept, Made
    <3>4. Made(fl, f, d, lg, b.trans[n], v)
      BY <3>2, <3>3 DEF Made
    <3> QED
      BY <3>2, <3>4
  <2>2. d.trans = b.trans
    BY <1>4 DEF Gatekept
  <2> QED
    BY <2>1, <2>2 DEF MadeSince
<1>7. Guarded(f, d.heap, lg) /\ d.vars = b.vars
  BY <1>4 DEF Gatekept
<1> QED
  BY <1>1, <1>2, <1>6, <1>7, ProductNext

\* addTimeBound: invariants only.
LEMMA BoundSame ==
  ASSUME ListsInv, Bound
  PROVE  /\ ha'.heap = ha.heap /\ ha'.trans = ha.trans /\ ha'.vars = ha.vars
         /\ \A l \in 1 .. Len(ha.locs) : ha'.locs[l].name = ha.locs[l].name
<1>1. IsAutomaton(ha) /\ DOMAIN ha.locs = 1 .. Len(ha.locs) /\ \A l \in 1 .. Len(ha.locs) : IsLocation(ha, l)
  BY Sizes DEF ListsInv, Fine, Good, Shaped, IsAutomaton
<1> DEFINE ls == [l \in DOMAIN ha.locs |-> Bounded(ha.locs[l])]
<1>2. CASE ~IsTemporal(feature)
  <2>1. ha' = ha
    BY <1>2 DEF Bound
  <2> QED
    BY <2>1
<1>3. CASE IsTemporal(feature)
  <2>1. ha' = [ha EXCEPT !.locs = ls]
    BY <1>3 DEF Bound
  <2>2. \A l \in DOMAIN ha.locs : ls[l] = Bounded(ha.locs[l])
    OBVIOUS
  <2> HIDE DEF ls
  <2>3. ha'.locs = ls /\ ha'.heap = ha.heap /\ ha'.trans = ha.trans /\ ha'.vars = ha.vars
    BY <1>1, <2>1 DEF IsAutomaton
  <2>4. ASSUME NEW l \in 1 .. Len(ha.locs) PROVE ls[l].name = ha.locs[l].name
    <3>1. PICK loc, inv : loc = ha.locs[l] /\ inv = Append(loc.inv, BoundOf(loc.name))
      OBVIOUS
    <3>2. loc = [name |-> loc.name, plain |-> loc.plain, inv |-> loc.inv]
      BY <1>1, <3>1 DEF IsLocation
    <3>3. ls[l] = [loc EXCEPT !.inv = inv]
      BY <1>1, <2>2, <3>1 DEF Bounded
    <3>4. ls[l].name = loc.name
      BY <3>2, <3>3
    <3> QED
      BY <3>1, <3>4
  <2> QED
    BY <2>3, <2>4
<1> QED
  BY <1>2, <1>3

\* Steps after the product is made, and none.
LEMMA ProductStays ==
  ASSUME ListsInv, ReadInv, ProductInv, UNCHANGED <<file, feature, edges, added, levelGuard>>,
         ha'.heap = ha.heap, ha'.trans = ha.trans, ha'.vars = ha.vars, pc' = "vars" => pc = "vars",
         \A l \in 1 .. Len(ha.locs) : ha'.locs[l].name = ha.locs[l].name
  PROVE  ProductInv' /\ StandsOn(feature, ha, levelGuard, ha', levelGuard')
<1>1. PICK fl, f, b, lg, d, n0 :
        fl = file /\ f = feature /\ b = ha /\ lg = levelGuard /\ d = ha' /\ n0 = Len(EdgesRead(file))
  OBVIOUS
<1>2. StandsOn(f, b, lg, d, lg)
  <2>1. d.heap = b.heap /\ \A l \in 1 .. Len(b.locs) : d.locs[l].name = b.locs[l].name
    BY <1>1
  <2> QED
    BY <2>1 DEF StandsOn, Stands
<1>3. n0 \in Nat /\ Good(b, lg) /\ MadeSince(fl, f, b, lg, n0)
  BY <1>1, EdgesAreRead DEF ReadInv, ListsInv, Fine, ProductInv
<1>4. d.trans = b.trans /\ DOMAIN lg \subseteq DOMAIN lg
  BY <1>1
<1>5. MadeSince(fl, f, d, lg, n0)
  BY <1>2, <1>3, <1>4, MadeStays
<1>6. ha'.vars \o added' = ha.vars \o added
  OBVIOUS
<1>7. Guarded(feature, ha'.heap, levelGuard')
  BY DEF ProductInv
<1>8. MadeSince(file, feature, ha', levelGuard', Len(EdgesRead(file)))
  BY <1>1, <1>5
<1>9. pc' = "vars" => Len(ha'.trans) = Len(EdgesRead(file))
  BY DEF ProductInv
<1>10. ProductInv'
  BY <1>6, <1>7, <1>8, <1>9, ProductNext
<1> QED
  BY <1>1, <1>2, <1>10

\* Every step of the program keeps every transition standing for a transition of the product.
LEMMA ProductKept ==
  ASSUME ListsInv, ReadInv, ProductInv, [FileNext]_xmlVars
  PROVE  ProductInv'
<1>1. CASE Build
  <2>1. CASE AddVariable
    BY <2>1, ProductVariable
  <2>2. CASE Begin
    BY <2>2, ProductBegin
  <2>3. CASE SkipTerm \/ MatchByLoop \/ MatchOnEdges
    BY <2>3, ProductTerm
  <2>4. CASE RetainAll \/ RetainOpen \/ RetainNone
    BY <2>4, ProductRetain
  <2>5. CASE Gate
    BY <2>5, ProductGate
  <2> QED
    BY <1>1, <2>1, <2>2, <2>3, <2>4, <2>5 DEF Build
<1>2. CASE Bound
  <2>1. UNCHANGED <<file, feature, edges, added, levelGuard>> /\ pc' = "bound"
    BY <1>2 DEF Bound
  <2> QED
    BY <1>2, <2>1, BoundSame, ProductStays
<1>3. CASE Write
  <2>1. UNCHANGED <<file, feature, edges, added, levelGuard, ha>> /\ pc' = "written"
    BY <1>3 DEF Write
  <2> QED
    BY <2>1, ProductStays
<1>4. CASE UNCHANGED xmlVars
  <2>1. UNCHANGED <<file, feature, edges, added, levelGuard, ha, pc>>
    BY <1>4 DEF xmlVars, vars
  <2> QED
    BY <2>1, ProductStays
<1> QED
  BY <1>1, <1>2, <1>3, <1>4 DEF FileNext

\* All that is known of the lists.
AllInv == ModelInv /\ ProductInv

\* The invariants of the lists, of what was read and of the product hold together always.
LEMMA AllAlways == FileSpec => []AllInv
<1>1. FileInit => ProductInv
  BY ProductInitially DEF FileInit
<1>2. ModelInv /\ ProductInv /\ [FileNext]_xmlVars => ProductInv'
  BY ProductKept DEF ModelInv, FileInv
<1>3. FileSpec => []ModelInv
  BY ModelAlways
<1>4. ModelInv /\ ProductInv <=> AllInv
  BY DEF AllInv
<1> QED
  BY <1>1, <1>2, <1>3, <1>4, PTL DEF FileSpec

-------------------------------------------------------------------------------
\* Every step is one of LevelSequence, or none

\* What the sweep adds is added to the transitions that the lists stand for.
LEMMA SweepReads ==
  ASSUME ListsInv, ReadsAs, ReadsAs', feature' = feature, NEW d, Fine(d, levelGuard), Continues(ha, d),
         id \in DOMAIN levelGuard, IsSub(id), NEW V, NEW C,
         Adds(file, feature, ha, d, levelGuard, V, id, C), Moved(d)
  PROVE  /\ Transitions' = Transitions \union V
         /\ Tails' = [Tails EXCEPT ![id] = @ \union C] /\ (C = {} => Tails' = Tails)
<1>1. PICK fl, f, b, lg, e, more, i, S, T, r, s, u :
        /\ fl = file /\ f = feature /\ b = ha /\ lg = levelGuard /\ e = ha' /\ more = levelGuard' /\ i = id
        /\ S = Transitions /\ T = Transitions' /\ r = Tails /\ s = TailsOf(feature, d.heap, levelGuard) /\ u = Tails'
  OBVIOUS
<1>2. Reads(f, b, lg, S) /\ Reads(f, e, more, T)
  BY <1>1 DEF ReadsAs
<1>3. r = TailsOf(f, b.heap, lg) /\ u = TailsOf(f, e.heap, more)
  BY <1>1 DEF ReadsAs
<1>4. /\ Good(b, lg) /\ Good(d, lg) /\ Continues(b, d) /\ Adds(fl, f, b, d, lg, V, i, C)
      /\ e.trans = d.trans /\ StandsOn(f, d, lg, e, more) /\ u = s
  BY <1>1, <1>3 DEF ListsInv, Fine, Moved
<1>5. T = S \union V
  BY <1>2, <1>4, AddsReads
<1>6. PICK h, g : h = b.heap /\ g = d.heap
  OBVIOUS
<1>7. i \in DOMAIN lg /\ i \in 0 .. Len(f) - 1 /\ Widens(f, h, g, lg, i, C)
  BY <1>1, <1>4, <1>6 DEF Adds, IsSub
<1>8. r = TailsOf(f, h, lg) /\ s = TailsOf(f, g, lg)
  BY <1>1, <1>3, <1>6
<1>9. Lengthens(r, s, i, C)
  BY <1>7, <1>8, AddsTails
<1>10. s = [r EXCEPT ![i] = @ \union C] /\ (C = {} => s = r)
  BY <1>9 DEF Lengthens
<1> QED
  BY <1>1, <1>4, <1>5, <1>10

\* A conjunct.
LEMMA TermReads ==
  ASSUME ListsInv, ReadInv, ProductInv, ReadsAs, ReadsAs', SkipTerm \/ MatchByLoop \/ MatchOnEdges,
         NEW V, TermAdded(V)
  PROVE  Transitions' = Transitions \union V /\ Tails' = Tails
<1>1. pc = "sweep" /\ UNCHANGED <<file, feature, edges, added, levelGuard>>
  BY DEF SkipTerm, MatchByLoop, MatchOnEdges, InTerm, NextTerm
<1>2. id \in DOMAIN levelGuard /\ IsSub(id)
  BY <1>1, Sweeping DEF InSweep
<1>3. Continues(ha, ha') /\ Fine(ha', levelGuard)
  <2>1. Continues(ha, ha') /\ ListsInv'
    BY TermKeeps
  <2>2. Fine(ha, levelGuard)'
    BY <2>1 DEF ListsInv
  <2> QED
    BY <1>1, <2>1, <2>2, FineHere
<1>4. PICK C : C = {}
  OBVIOUS
<1>5. Adds(file, feature, ha, ha', levelGuard, V, id, C)
  BY <1>4 DEF TermAdded
<1>6. Moved(ha')
  BY <1>1, <1>5, MovedToItself
<1>7. feature' = feature
  BY <1>1
<1>8. /\ Transitions' = Transitions \union V
      /\ Tails' = [Tails EXCEPT ![id] = @ \union C] /\ (C = {} => Tails' = Tails)
  BY <1>2, <1>3, <1>5, <1>6, <1>7, SweepReads
<1> QED
  BY <1>4, <1>8

\* The parts of a conjunct's step.
LEMMA TermParts ==
  ASSUME pc = "sweep", pc' = "sweep", UNCHANGED <<edges, feature, id, here>>, Tails' = Tails, dnfID' = dnfID + 1,
         dnfID \in DOMAIN Terms(id)
  PROVE  /\ LS!NextTerm /\ Phase = "sweep" /\ dnfID \in DOMAIN LS!Terms(id)
         /\ LS!Term = Term /\ (LS!InContext <=> InContext)
         /\ (LS!IsStateEvent(LS!Sub(id)) <=> IsStateEvent(Sub(id)))
<1>1. Phase = "sweep" /\ Phase' = "sweep"
  BY DEF Phase
<1>2. LS!Terms(id) = Terms(id) /\ LS!Sub(id) = Sub(id)
  BY SameParts
<1>3. LS!Term = Term
  BY <1>2 DEF LS!Term, Term
<1>4. LS!InContext <=> InContext
  BY <1>3 DEF LS!InContext, InContext
<1>5. LS!NextTerm
  BY <1>1 DEF LS!NextTerm
<1>6. LS!IsStateEvent(LS!Sub(id)) <=> IsStateEvent(Sub(id))
  <2>1. \A x : LS!IsStateEvent(x) <=> IsStateEvent(x)
    BY SameParts
  <2> QED
    BY <1>2, <2>1
<1> QED
  BY <1>1, <1>2, <1>3, <1>4, <1>5, <1>6

\* Handling a conjunct is a step of the abstract specification.
LEMMA TermRefines ==
  ASSUME ListsInv, ReadInv, ProductInv, ReadsAs, ReadsAs', SkipTerm \/ MatchByLoop \/ MatchOnEdges
  PROVE  LS!Next
<1>1. /\ pc = "sweep" /\ pc' = "sweep" /\ UNCHANGED <<edges, feature, id, here>> /\ dnfID' = dnfID + 1
      /\ dnfID \in DOMAIN Terms(id)
  BY DEF SkipTerm, MatchByLoop, MatchOnEdges, InTerm, NextTerm
<1>2. CASE SkipTerm
  <2>1. PICK V : V = {}
    OBVIOUS
  <2>2. TermAdded(V)
    BY <1>2, <2>1, TermsAdded
  <2>3. Transitions' = Transitions \union V /\ Tails' = Tails
    BY <1>2, <2>2, TermReads
  <2>4. Transitions' = Transitions
    BY <2>1, <2>3
  <2>5. LS!NextTerm /\ Phase = "sweep" /\ dnfID \in DOMAIN LS!Terms(id) /\ (LS!InContext <=> InContext)
    BY <1>1, <2>3, TermParts
  <2>6. LS!SkipTerm
    BY <1>2, <2>4, <2>5 DEF LS!SkipTerm, SkipTerm
  <2> QED
    BY <2>6 DEF LS!Next, LS!Build
<1>3. CASE MatchByLoop
  <2>1. PICK V : V = LS!OrderedResets(LS!SelfLoop(id, here, Term), LS!Assigned(id))
    OBVIOUS
  <2>2. TermAdded(V)
    BY <1>3, <2>1, TermsAdded
  <2>3. Transitions' = Transitions \union V /\ Tails' = Tails
    BY <1>3, <2>2, TermReads
  <2>5. /\ LS!NextTerm /\ Phase = "sweep" /\ dnfID \in DOMAIN LS!Terms(id) /\ (LS!InContext <=> InContext)
        /\ LS!Term = Term /\ (LS!IsStateEvent(LS!Sub(id)) <=> IsStateEvent(Sub(id)))
    BY <1>1, <2>3, TermParts
  <2>6. Transitions' = Transitions \union LS!OrderedResets(LS!SelfLoop(id, here, LS!Term), LS!Assigned(id))
    BY <2>1, <2>3, <2>5
  <2>7. InContext /\ ~IsStateEvent(Sub(id))
    BY <1>3 DEF MatchByLoop
  <2>8. LS!MatchByLoop
    BY <2>5, <2>6, <2>7 DEF LS!MatchByLoop
  <2> QED
    BY <2>8 DEF LS!Next, LS!Build
<1>4. CASE MatchOnEdges
  <2>1. PICK V : V = UNION {LS!OrderedResets(LS!OnEdge(id, e, Term), LS!Assigned(id)) : e \in LS!EventEdges(id, here)}
    OBVIOUS
  <2>2. TermAdded(V)
    BY <1>4, <2>1, TermsAdded
  <2>3. Transitions' = Transitions \union V /\ Tails' = Tails
    BY <1>4, <2>2, TermReads
  <2>5. /\ LS!NextTerm /\ Phase = "sweep" /\ dnfID \in DOMAIN LS!Terms(id) /\ (LS!InContext <=> InContext)
        /\ LS!Term = Term /\ (LS!IsStateEvent(LS!Sub(id)) <=> IsStateEvent(Sub(id)))
    BY <1>1, <2>3, TermParts
  <2>6. Transitions' = Transitions \union
          UNION {LS!OrderedResets(LS!OnEdge(id, e, LS!Term), LS!Assigned(id)) : e \in LS!EventEdges(id, here)}
    BY <2>1, <2>3, <2>5
  <2>7. InContext /\ IsStateEvent(Sub(id))
    BY <1>4 DEF MatchOnEdges
  <2>8. LS!MatchOnEdges
    BY <2>5, <2>6, <2>7 DEF LS!MatchOnEdges
  <2> QED
    BY <2>8 DEF LS!Next, LS!Build
<1> QED
  BY <1>2, <1>3, <1>4

\* A level is asked for by the transitions at that level.
LEMMA AtRead ==
  ASSUME NEW f, NEW h, Lists(h), NEW lg, Guarded(f, h, lg), NEW a, NEW v, GuardStands(h, lg, a, v), NEW i \in Nat
  PROVE  InList(h, a, Level(i)) <=> v.at = i
<1>1. PICK conds : conds = Range(Contents(h, a))
  OBVIOUS
<1>2. {c \in conds : c[1] = "level"} = LevelOf(v.at)
  <2>1. ReadOff(h, lg, a, v, conds)
    BY <1>1, GuardRead
  <2> QED
    BY <2>1 DEF ReadOff
<1>3. conds = {h[x].cond : x \in Reached(h, a)}
  <2>1. a \in 0 .. Len(h)
    BY DEF GuardStands
  <2> QED
    BY <1>1, <2>1, ContentsRange
<1>4. InList(h, a, Level(i)) <=> Level(i) \in conds
  BY <1>3 DEF InList
<1>5. Level(i) \in conds <=> Level(i) \in LevelOf(v.at)
  <2>1. Level(i)[1] = "level"
    BY DEF Level
  <2> QED
    BY <1>2, <2>1
<1>6. Level(i) \in LevelOf(v.at) <=> v.at = i
  BY DEF LevelOf, Level
<1> QED
  BY <1>4, <1>5, <1>6

\* The locations of the model are those named <<l>>.
LEMMA PlainNames ==
  ASSUME ListsInv, ReadInv, pc = "sweep", NEW l \in 1 .. Len(ha.locs)
  PROVE  /\ ha.locs[l].plain <=> l \in Locs
         /\ ha.locs[l].name = <<here>> <=> l = here
<1>1. IsLocation(ha, l) /\ LastLoc < Len(ha.locs) /\ ArePlaces(file, ha, Limited, IsTemporal(feature))
  BY DEF ListsInv, Fine, Good, Shaped, ReadInv
<1>2. here \in Locs /\ here \in 1 .. Len(ha.locs) /\ IsLocation(ha, here) /\ LastLoc \in Nat \ {0}
  <2>1. here \in Locs /\ LastLoc \in Nat \ {0} /\ Len(ha.locs) \in Nat
    BY ListsAssumption, Sizes DEF ListsInv, PlacesInv, Fine
  <2>2. here \in 1 .. Len(ha.locs)
    BY <1>1, <2>1 DEF Locs
  <2> QED
    BY <2>1, <2>2 DEF ListsInv, Fine, Good, Shaped
<1>3. CASE l \in Locs
  <2>1. ha.locs[l].name = <<l>>
    BY <1>1, <1>3 DEF IsLocation
  <2> QED
    BY <1>1, <1>2, <1>3, <2>1 DEF IsLocation
<1>4. CASE l \notin Locs
  <2>1. IsPlace(file, ha.locs[l], l, Limited, IsTemporal(feature))
    BY <1>1 DEF ArePlaces
  <2>2. l >= LastLoc + 1 /\ l # here
    BY <1>2, <1>4 DEF Locs
  <2>3. ha.locs[l].name = Final \/ \E m, i, nr, k : ha.locs[l].name = PauseName(m, i, nr, k)
    <3>1. l = LastLoc + 1 \/ l > LastLoc + 1
      BY <1>2, <2>2
    <3>2. CASE l = LastLoc + 1
      BY <2>1, <3>2 DEF IsPlace
    <3>3. CASE l > LastLoc + 1
      BY <2>1, <3>3 DEF IsPlace
    <3> QED
      BY <3>1, <3>2, <3>3
  <2>4. Len(ha.locs[l].name) # 1
    <3>1. Len(Final) = 0 /\ \A m, i, nr, k : Len(PauseName(m, i, nr, k)) = 4
      BY DEF Final, PauseName
    <3>2. PICK p : p = ha.locs[l].name
      OBVIOUS
    <3>3. CASE p = Final
      <4>1. Len(p) = 0
        BY <3>1, <3>3
      <4> QED
        BY <3>2, <4>1
    <3>4. CASE \E m, i, nr, k : p = PauseName(m, i, nr, k)
      <4>1. Len(p) = 4
        BY <3>1, <3>4
      <4> QED
        BY <3>2, <4>1
    <3> QED
      BY <2>3, <3>2, <3>3, <3>4
  <2>5. ha.locs[l].name # <<here>>
    <3>1. Len(<<here>>) = 1
      OBVIOUS
    <3> QED
      BY <2>4, <3>1
  <2> QED
    BY <1>1, <1>4, <2>2, <2>5 DEF IsLocation
<1> QED
  BY <1>3, <1>4

\* The last location has none behind it.
LEMMA LastHereIs ==
  ASSUME ListsInv, ReadInv, pc = "sweep"
  PROVE  LastHere <=> here = LastLoc
<1>1. /\ here \in Locs /\ LastLoc \in Nat \ {0} /\ Len(ha.locs) \in Nat /\ DOMAIN ha.locs = 1 .. Len(ha.locs)
      /\ LastLoc < Len(ha.locs)
  BY ListsAssumption, Sizes DEF ListsInv, PlacesInv, Fine, ReadInv
<1>2. \A l \in 1 .. Len(ha.locs) : ha.locs[l].plain <=> l \in Locs
  BY PlainNames
<1>3. LastHere <=> \A l \in 1 .. Len(ha.locs) : l > here => l \notin Locs
  BY <1>1, <1>2 DEF LastHere
<1>4. here \in 1 .. LastLoc /\ LastLoc \in 1 .. Len(ha.locs)
  BY <1>1 DEF Locs
<1>5. (\A l \in 1 .. Len(ha.locs) : l > here => l \notin Locs) <=> here = LastLoc
  BY <1>1, <1>4 DEF Locs
<1> QED
  BY <1>3, <1>5

\* Whether a transition at this level leaves the location.
LEMMA HasTransIs ==
  ASSUME ListsInv, ReadInv, ProductInv, ReadsAs, pc = "sweep"
  PROVE  HasTransAtLevel(here, id) <=> LS!HasTransAtLevel(here, id)
<1>1. PICK T : T = Transitions
  OBVIOUS
<1>2. Reads(feature, ha, levelGuard, T)
  BY <1>1 DEF ReadsAs
<1>3. DOMAIN ha.trans = 1 .. Len(ha.trans) /\ Lists(ha.heap) /\ Guarded(feature, ha.heap, levelGuard)
  BY Sizes DEF ListsInv, Fine, ProductInv
<1>4. id \in Nat
  BY SubsTyped DEF ListsInv, PlacesInv, IsSub
<1>5. \A n \in 1 .. Len(ha.trans) : \A v : Stands(feature, ha, levelGuard, ha.trans[n], v) =>
        (ha.trans[n].from = here /\ InList(ha.heap, ha.trans[n].when, Level(id)) <=> v.from = <<here>> /\ v.at = id)
  <2> SUFFICES ASSUME NEW n \in 1 .. Len(ha.trans), NEW v, Stands(feature, ha, levelGuard, ha.trans[n], v)
               PROVE  ha.trans[n].from = here /\ InList(ha.heap, ha.trans[n].when, Level(id))
                        <=> v.from = <<here>> /\ v.at = id
    OBVIOUS
  <2>1. PICK t : t = ha.trans[n]
    OBVIOUS
  <2>2. t.from \in 1 .. Len(ha.locs)
    BY <2>1 DEF ListsInv, Fine, Good, Shaped, IsTransition
  <2>3. v.from = ha.locs[t.from].name /\ GuardStands(ha.heap, levelGuard, t.when, v)
    BY <2>1 DEF Stands
  <2>4. v.from = <<here>> <=> t.from = here
    BY <2>2, <2>3, PlainNames
  <2>5. InList(ha.heap, t.when, Level(id)) <=> v.at = id
    BY <1>3, <1>4, <2>3, AtRead
  <2> QED
    BY <2>1, <2>4, <2>5
<1>6. (\E n \in 1 .. Len(ha.trans) : ha.trans[n].from = here /\ InList(ha.heap, ha.trans[n].when, Level(id)))
        <=> \E v \in T : v.from = <<here>> /\ v.at = id
  BY <1>2, <1>5 DEF Reads
<1>7. HasTransAtLevel(here, id)
        <=> \E n \in 1 .. Len(ha.trans) : ha.trans[n].from = here /\ InList(ha.heap, ha.trans[n].when, Level(id))
  BY <1>3 DEF HasTransAtLevel
<1>8. LS!HasTransAtLevel(here, id) <=> \E v \in T : v.from = <<here>> /\ v.at = id
  BY <1>1 DEF LS!HasTransAtLevel
<1> QED
  BY <1>6, <1>7, <1>8

\* The end of a location.
LEMMA LocationReads ==
  ASSUME ListsInv, ReadInv, ProductInv, ReadsAs, ReadsAs', NEW d, NextLocation(d), NEW V, NEW C, Retains(d, V, C)
  PROVE  /\ Transitions' = Transitions \union V
         /\ Tails' = [Tails EXCEPT ![id] = @ \union C] /\ (C = {} => Tails' = Tails)
         /\ LS!NextLocation
<1>1. pc = "sweep" /\ UNCHANGED <<file, edges, feature, added>>
  BY DEF NextLocation
<1>2. id \in DOMAIN levelGuard /\ IsSub(id)
  BY <1>1, Sweeping DEF InSweep
<1>3. Fine(d, levelGuard) /\ Continues(ha, d) /\ Adds(file, feature, ha, d, levelGuard, V, id, C)
  BY DEF Retains
<1>4. Guarded(feature, d.heap, levelGuard)
  BY <1>3 DEF Adds, Widens
<1>5. Moved(d)
  BY <1>1, <1>3, <1>4, MovedOn
<1>6. feature' = feature
  BY <1>1
<1>7. /\ Transitions' = Transitions \union V
      /\ Tails' = [Tails EXCEPT ![id] = @ \union C] /\ (C = {} => Tails' = Tails)
  BY <1>2, <1>3, <1>5, <1>6, SweepReads
<1>8. LastHere <=> here = LastLoc
  BY <1>1, LastHereIs
<1>9. /\ dnfID \notin DOMAIN Terms(id) /\ dnfID' = 1
      /\ here' = (IF here = LastLoc THEN 1 ELSE here + 1)
      /\ id' = (IF here = LastLoc THEN id + 1 ELSE id)
      /\ pc' = (IF here = LastLoc /\ IsLast(id) THEN "gate" ELSE "sweep")
  BY <1>8 DEF NextLocation
<1>10. Phase = "sweep" /\ Phase' = pc'
  BY <1>1, <1>9 DEF Phase
<1>11. LS!Terms(id) = Terms(id) /\ LS!IsLast(id) = IsLast(id)
  BY SameParts
<1>12. LS!NextLocation
  BY <1>1, <1>9, <1>10, <1>11 DEF LS!NextLocation
<1> QED
  BY <1>7, <1>12

\* What asks for the event, or is open, is read off the feature.
LEMMA OpenIs ==
  /\ LS!Open(id) = OpenTerms(id)
  /\ LS!FirstEvent(id) <=> FirstEvent(id)
<1>1. LS!Sub(id) = Sub(id)
  BY SameParts
<1> QED
  BY <1>1 DEF LS!Open, OpenTerms, LS!FirstEvent, FirstEvent

\* Retaining the edges of a location is a step of the abstract specification.
LEMMA RetainRefines ==
  ASSUME ListsInv, ReadInv, ProductInv, ReadsAs, ReadsAs', RetainAll \/ RetainOpen \/ RetainNone
  PROVE  LS!Next
<1>1. pc = "sweep"
  BY DEF RetainAll, RetainOpen, RetainNone, NextLocation
<1>2. HasTransAtLevel(here, id) <=> LS!HasTransAtLevel(here, id)
  BY <1>1, HasTransIs
<1>3. CASE RetainAll
  <2>1. PICK V, C : V = {LS!Waiting(id, e) : e \in LS!Leaving} /\ C = {}
    OBVIOUS
  <2>2. PICK d : NextLocation(d) /\ Retains(d, V, C)
    BY <1>3, <2>1, AllRetained
  <2>3. Transitions' = Transitions \union V /\ (C = {} => Tails' = Tails) /\ LS!NextLocation
    BY <2>2, LocationReads
  <2>4. Transitions' = Transitions \union {LS!Waiting(id, e) : e \in LS!Leaving} /\ Tails' = Tails
    BY <2>1, <2>3
  <2>5. id # 0 /\ ~LS!HasTransAtLevel(here, id)
    BY <1>2, <1>3 DEF RetainAll
  <2>6. LS!RetainAll
    BY <2>3, <2>4, <2>5 DEF LS!RetainAll
  <2> QED
    BY <2>6 DEF LS!Next, LS!Build
<1>4. CASE RetainOpen
  <2>1. PICK V, C : V = {LS!Waiting(id, e) : e \in LS!Leaving} /\ C = IF LS!Leaving = {} THEN {} ELSE LS!OpenGuards(id)
    OBVIOUS
  <2>2. PICK d : NextLocation(d) /\ Retains(d, V, C)
    BY <1>4, <2>1, OpenRetained
  <2>3. /\ Transitions' = Transitions \union V
        /\ Tails' = [Tails EXCEPT ![id] = @ \union C] /\ (C = {} => Tails' = Tails) /\ LS!NextLocation
    BY <2>2, LocationReads
  <2>4. Transitions' = Transitions \union {LS!Waiting(id, e) : e \in LS!Leaving}
    BY <2>1, <2>3
  <2>5. Tails' = IF LS!Leaving = {} THEN Tails ELSE [Tails EXCEPT ![id] = @ \union LS!OpenGuards(id)]
    BY <2>1, <2>3
  <2>6. id # 0 /\ LS!HasTransAtLevel(here, id) /\ ~LS!FirstEvent(id) /\ LS!Open(id) # {}
    BY <1>2, <1>4, OpenIs DEF RetainOpen
  <2>7. LS!RetainOpen
    BY <2>3, <2>4, <2>5, <2>6 DEF LS!RetainOpen
  <2> QED
    BY <2>7 DEF LS!Next, LS!Build
<1>5. CASE RetainNone
  <2>1. PICK V, C : V = {} /\ C = {}
    OBVIOUS
  <2>2. NextLocation(ha) /\ Retains(ha, V, C)
    BY <1>5, <2>1, NoneRetained
  <2>3. Transitions' = Transitions \union V /\ (C = {} => Tails' = Tails) /\ LS!NextLocation
    BY <2>2, LocationReads
  <2>4. Transitions' = Transitions /\ Tails' = Tails
    BY <2>1, <2>3
  <2>5. \/ id = 0
        \/ LS!HasTransAtLevel(here, id) /\ (LS!FirstEvent(id) \/ LS!Open(id) = {})
    <3>1. \/ id = 0
          \/ HasTransAtLevel(here, id) /\ (FirstEvent(id) \/ OpenTerms(id) = {})
      BY <1>5 DEF RetainNone
    <3>2. (LS!FirstEvent(id) <=> FirstEvent(id)) /\ LS!Open(id) = OpenTerms(id)
      BY OpenIs
    <3> QED
      BY <1>2, <3>1, <3>2, Zenon
  <2>6. LS!RetainNone
    BY <2>3, <2>4, <2>5 DEF LS!RetainNone
  <2> QED
    BY <2>6 DEF LS!Next, LS!Build
<1> QED
  BY <1>3, <1>4, <1>5

\* The same transitions stand for the same.
LEMMA ReadsSame ==
  ASSUME NEW f, NEW b, NEW lg, Good(b, lg), NEW d, d.trans = b.trans, NEW more, StandsOn(f, b, lg, d, more),
         NEW S, Reads(f, b, lg, S), NEW T, Reads(f, d, more, T)
  PROVE  T = S
<1>1. \A n \in 1 .. Len(b.trans) : b.trans[n].from \in 1 .. Len(b.locs)
  BY DEF Good, Shaped, IsTransition
<1>2. \A n \in 1 .. Len(b.trans) : \A v : Stands(f, b, lg, b.trans[n], v) => Stands(f, d, more, b.trans[n], v)
  BY <1>1 DEF StandsOn
<1>3. /\ \A v : v \in S <=> \E n \in 1 .. Len(b.trans) : Stands(f, b, lg, b.trans[n], v)
      /\ \A n \in 1 .. Len(b.trans) : \E v : Stands(f, b, lg, b.trans[n], v)
  BY DEF Reads
<1>4. /\ \A v : v \in T <=> \E n \in 1 .. Len(b.trans) : Stands(f, d, more, b.trans[n], v)
      /\ \A t, v, w : Stands(f, d, more, t, v) /\ Stands(f, d, more, t, w) => v = w
  BY DEF Reads
<1>5. ASSUME NEW v \in T PROVE v \in S
  <2>1. PICK n \in 1 .. Len(b.trans) : Stands(f, d, more, b.trans[n], v)
    BY <1>4, <1>5
  <2>2. PICK w : Stands(f, b, lg, b.trans[n], w)
    BY <1>3
  <2>3. v = w
    BY <1>2, <1>4, <2>1, <2>2
  <2> QED
    BY <1>3, <2>2, <2>3
<1>6. ASSUME NEW v \in S PROVE v \in T
  <2>1. PICK n \in 1 .. Len(b.trans) : Stands(f, b, lg, b.trans[n], v)
    BY <1>3, <1>6
  <2> QED
    BY <1>2, <1>4, <2>1
<1> QED
  BY <1>5, <1>6

IsTheModel(T, es, k) == \A v : v \in T <=> \E n \in 1 .. Len(es) : v = ModelAt(k, es[n])

StandForModel(f, b, lg, es, k) == \A n \in 1 .. Len(es) : Stands(f, b, lg, b.trans[n], ModelAt(k, es[n]))

\* As long as no others are made, there are those of the model.
LEMMA OnlyRead ==
  ASSUME NEW f, NEW b, NEW lg, NEW T, Reads(f, b, lg, T), NEW es, NEW k, Len(b.trans) = Len(es),
         StandForModel(f, b, lg, es, k)
  PROVE  IsTheModel(T, es, k)
<1>1. /\ \A v : v \in T <=> \E n \in 1 .. Len(es) : Stands(f, b, lg, b.trans[n], v)
      /\ \A t, v, w : Stands(f, b, lg, t, v) /\ Stands(f, b, lg, t, w) => v = w
  BY DEF Reads
<1>2. ASSUME NEW v PROVE v \in T <=> \E n \in 1 .. Len(es) : v = ModelAt(k, es[n])
  <2>1. ASSUME v \in T PROVE \E n \in 1 .. Len(es) : v = ModelAt(k, es[n])
    <3>1. PICK n \in 1 .. Len(es) : Stands(f, b, lg, b.trans[n], v)
      BY <1>1, <2>1
    <3>2. Stands(f, b, lg, b.trans[n], ModelAt(k, es[n]))
      BY DEF StandForModel
    <3>3. v = ModelAt(k, es[n])
      BY <1>1, <3>1, <3>2
    <3> QED
      BY <3>3
  <2>2. ASSUME NEW n \in 1 .. Len(es), v = ModelAt(k, es[n]) PROVE v \in T
    <3>1. Stands(f, b, lg, b.trans[n], v)
      BY <2>2 DEF StandForModel
    <3> QED
      BY <1>1, <3>1
  <2> QED
    BY <2>1, <2>2
<1> QED
  BY <1>2 DEF IsTheModel

\* A variable more is nothing to the transitions of the product.
LEMMA VariableRefines ==
  ASSUME ListsInv, ReadInv, ProductInv, ProductInv', ReadsAs, ReadsAs', AddVariable
  PROVE  UNCHANGED LS!vars
<1>1. /\ pc = "vars" /\ pc' = "vars" /\ UNCHANGED <<file, edges, feature, levelGuard, id, here, dnfID>>
      /\ ha'.heap = ha.heap
  <2>1. ha = [locs |-> ha.locs, inits |-> ha.inits, vars |-> ha.vars, heap |-> ha.heap, trans |-> ha.trans]
    BY DEF ListsInv, Fine, Good, Shaped
  <2>2. /\ pc = "vars" /\ UNCHANGED <<file, edges, feature, levelGuard, id, here, dnfID, pc>>
        /\ ha' = [ha EXCEPT !.vars = Append(@, Head(added)),
                            !.inits = [n \in DOMAIN @ |-> Zeroed(@[n], Head(added))],
                            !.trans = [n \in DOMAIN @ |-> Kept(@[n], Head(added))]]
    BY DEF AddVariable
  <2>3. PICK vs, is, ts : ha' = [ha EXCEPT !.vars = vs, !.inits = is, !.trans = ts]
    BY <2>2
  <2> QED
    BY <2>1, <2>2, <2>3
<1>2. PICK es, f, b, d, lg, S, T : /\ es = EdgesRead(file) /\ f = feature /\ b = ha /\ d = ha' /\ lg = levelGuard
                                  /\ S = Transitions /\ T = Transitions'
  OBVIOUS
<1>3. Reads(f, b, lg, S) /\ Reads(f, d, lg, T)
  BY <1>1, <1>2 DEF ReadsAs
<1>4. Len(b.trans) = Len(es) /\ Len(d.trans) = Len(es)
  BY <1>1, <1>2 DEF ProductInv
<1>5. PICK k : k = -1 /\ LevelNow = k /\ LevelNow' = k
  BY <1>1 DEF LevelNow
<1>6. StandForModel(f, b, lg, es, k)
  BY <1>2, <1>5 DEF ReadsAs, StandForModel
<1>7. StandForModel(f, d, lg, es, k)
  BY <1>1, <1>2, <1>5 DEF ReadsAs, StandForModel
<1>8. IsTheModel(S, es, k)
  BY <1>3, <1>4, <1>6, OnlyRead
<1>9. IsTheModel(T, es, k)
  BY <1>3, <1>4, <1>7, OnlyRead
<1>10. T = S
  <2>1. \A v : v \in T <=> v \in S
    BY <1>8, <1>9 DEF IsTheModel
  <2> QED
    BY <2>1, SameElements
<1>11. Tails' = Tails
  BY <1>1 DEF ReadsAs
<1>12. Phase' = Phase
  BY <1>1 DEF Phase
<1> QED
  BY <1>1, <1>2, <1>10, <1>11, <1>12 DEF LS!vars

\* Nor are the first level guard and the location FINAL.
LEMMA BeginRefines ==
  ASSUME ListsInv, ReadInv, ProductInv, ReadsAs, ReadsAs', Begin
  PROVE  UNCHANGED LS!vars
<1>1. /\ pc = "vars" /\ pc' = "sweep" /\ UNCHANGED <<file, edges, feature, id, here, dnfID>>
  BY DEF Begin
<1>2. PICK f, b, d, lg, more, S, T : /\ f = feature /\ b = ha /\ d = ha' /\ lg = levelGuard /\ more = levelGuard'
                                     /\ S = Transitions /\ T = Transitions'
  OBVIOUS
<1>3. Reads(f, b, lg, S) /\ Reads(f, d, more, T)
  BY <1>1, <1>2 DEF ReadsAs
<1>4. /\ d.trans = b.trans /\ Raises(f, b.heap, lg, d.heap, more, 0)
      /\ DOMAIN lg = {} /\ DOMAIN more = {0} /\ \A l \in 1 .. Len(b.locs) : d.locs[l] = b.locs[l]
  BY <1>2, BeginRaises
<1>5. StandsOn(f, b, lg, d, more)
  BY <1>4 DEF StandsOn, Stands, Raises
<1>6. Good(b, lg)
  BY <1>2 DEF ListsInv, Fine
<1>7. T = S
  BY <1>3, <1>4, <1>5, <1>6, ReadsSame
<1>8. TailsOf(f, d.heap, more) = TailsOf(f, b.heap, lg)
  BY <1>4, RaisedTails
<1>9. Tails' = Tails
  BY <1>1, <1>2, <1>8 DEF ReadsAs
<1>10. Phase' = Phase
  BY <1>1 DEF Phase
<1> QED
  BY <1>1, <1>2, <1>7, <1>9, <1>10 DEF LS!vars

\* Nor is what happens once it is built.
LEMMA StaysRefines ==
  ASSUME ListsInv, ReadInv, ProductInv, ReadsAs, ReadsAs',
         UNCHANGED <<file, feature, edges, added, levelGuard, id, here, dnfID>>,
         ha'.heap = ha.heap, ha'.trans = ha.trans, ha'.vars = ha.vars, pc' = "vars" => pc = "vars",
         \A l \in 1 .. Len(ha.locs) : ha'.locs[l].name = ha.locs[l].name, Phase' = Phase
  PROVE  UNCHANGED LS!vars
<1>1. PICK f, b, d, lg, S, T : /\ f = feature /\ b = ha /\ d = ha' /\ lg = levelGuard
                               /\ S = Transitions /\ T = Transitions'
  OBVIOUS
<1>2. Reads(f, b, lg, S) /\ Reads(f, d, lg, T)
  BY <1>1 DEF ReadsAs
<1>3. StandsOn(feature, ha, levelGuard, ha', levelGuard')
  BY ProductStays
<1>4. StandsOn(f, b, lg, d, lg) /\ Good(b, lg) /\ d.trans = b.trans
  BY <1>1, <1>3 DEF ListsInv, Fine
<1>5. T = S
  BY <1>2, <1>4, ReadsSame
<1>6. Tails' = Tails
  BY DEF ReadsAs
<1> QED
  BY <1>1, <1>5, <1>6 DEF LS!vars

\* What becomes of a transition at the gate.
AtGate(v) == IF v.at = -1 THEN [v EXCEPT !.at = 0, !.goes = 0] ELSE v

\* A transition of the model is put at level 0.
LEMMA ModelAtGate ==
  ASSUME NEW e, NEW w, w = ModelAt(-1, e)
  PROVE  AtGate(w) = ModelAt(0, e)
<1>1. IsAt(-1, e, w)
  BY ModelAtSays
<1>2. IsProduct(w)
  BY <1>1 DEF IsAt
<1>3. PICK u : u = [w EXCEPT !.at = 0, !.goes = 0]
  OBVIOUS
<1>4. u = [from |-> w.from, to |-> w.to, edge |-> w.edge, at |-> 0, goes |-> 0, guards |-> w.guards,
           shared |-> w.shared, sets |-> w.sets, zeroes |-> w.zeroes]
  BY <1>2, <1>3 DEF IsProduct
<1>5. AtGate(w) = u
  BY <1>1, <1>3 DEF AtGate, IsAt
<1>6. /\ w.from = <<e.from>> /\ w.to = <<e.to>> /\ w.edge = e /\ w.guards = {<<"edge", e>>}
      /\ w.shared = FALSE /\ w.sets = << >> /\ w.zeroes = FALSE
  BY <1>1 DEF IsAt
<1> QED
  BY <1>4, <1>5, <1>6 DEF ModelAt

\* Transition by transition.
AllAtGate(f, b, lg, d) ==
  \A n \in 1 .. Len(b.trans) :
    \E v : Stands(f, b, lg, b.trans[n], v) /\ Stands(f, d, lg, d.trans[n], AtGate(v))

\* At the gate, every transition of the code is changed as the abstract specification changes
\* the one it stands for.
LEMMA EachAtGate ==
  ASSUME ListsInv, ReadInv, ProductInv, ReadsAs, ReadsAs', Gate
  PROVE  AllAtGate(feature, ha, levelGuard, ha')
<1>1. pc = "gate" /\ pc' = "built" /\ UNCHANGED <<file, edges, feature, levelGuard>> /\ ha' = Gated(ha)
  BY DEF Gate
<1>2. LevelNow = -1 /\ LevelNow' = 0
  BY <1>1 DEF LevelNow
<1>3. PICK es, f, b, d, lg : es = EdgesRead(file) /\ f = feature /\ b = ha /\ d = ha' /\ lg = levelGuard
  OBVIOUS
<1>4. Gatekept(f, b, lg, d)
  <2>1. Fine(b, lg) /\ Guarded(f, b.heap, lg) /\ d = Gated(b)
    BY <1>1, <1>3 DEF ListsInv, ProductInv
  <2> QED
    BY <2>1, GateStands
<1>5. d.trans = b.trans /\ Guarded(f, b.heap, lg)
  BY <1>3, <1>4 DEF Gatekept, ProductInv
<1>6. Len(b.trans) \in Nat /\ Len(es) \in Nat
  <2>1. Len(b.trans) \in Nat
    BY <1>3, Sizes DEF ListsInv, Fine
  <2>2. Len(es) \in Nat
    BY <1>3, EdgesAreRead DEF ReadInv
  <2> QED
    BY <2>1, <2>2
<1>7. ASSUME NEW n \in 1 .. Len(b.trans)
      PROVE  \E v : Stands(f, b, lg, b.trans[n], v) /\ Stands(f, d, lg, d.trans[n], AtGate(v))
  <2>1. CASE n \in 1 .. Len(es)
    <3>1. PICK v : v = ModelAt(-1, es[n])
      OBVIOUS
    <3>2. Stands(f, b, lg, b.trans[n], v)
      BY <1>2, <1>3, <2>1, <3>1 DEF ReadsAs
    <3>3. Stands(f, d, lg, d.trans[n], ModelAt(0, es[n]))
      BY <1>1, <1>2, <1>3, <2>1 DEF ReadsAs
    <3>4. AtGate(v) = ModelAt(0, es[n])
      BY <3>1, ModelAtGate
    <3> QED
      BY <3>2, <3>3, <3>4
  <2>2. CASE n \notin 1 .. Len(es)
    <3>1. n \in Len(es) + 1 .. Len(b.trans)
      BY <1>6, <2>2
    <3>2. MadeSince(file, f, b, lg, Len(es))
      BY <1>3 DEF ProductInv
    <3>3. PICK v : Made(file, f, b, lg, b.trans[n], v) /\ ~b.trans[n].original
      BY <3>1, <3>2 DEF MadeSince
    <3>4. Stands(f, b, lg, b.trans[n], v) /\ v.at \in DOMAIN lg
      BY <3>3 DEF Made
    <3>5. v.at # -1
      BY <1>5, <3>4 DEF Guarded
    <3>6. AtGate(v) = v
      BY <3>5 DEF AtGate
    <3>7. Stands(f, d, lg, b.trans[n], v)
      BY <1>4, <3>3, <3>4 DEF Gatekept
    <3> QED
      BY <1>5, <3>4, <3>6, <3>7
  <2> QED
    BY <2>1, <2>2
<1> QED
  BY <1>3, <1>7 DEF AllAtGate

\* The transitions of the product after the gate.
LEMMA GateReads ==
  ASSUME NEW f, NEW b, NEW lg, NEW d, d.trans = b.trans, AllAtGate(f, b, lg, d),
         NEW S, Reads(f, b, lg, S), NEW T, Reads(f, d, lg, T)
  PROVE  \A x : x \in T <=> \E v \in S : x = AtGate(v)
<1>1. /\ \A v : v \in S <=> \E n \in 1 .. Len(b.trans) : Stands(f, b, lg, b.trans[n], v)
      /\ \A t, v, w : Stands(f, b, lg, t, v) /\ Stands(f, b, lg, t, w) => v = w
  BY DEF Reads
<1>2. /\ \A v : v \in T <=> \E n \in 1 .. Len(b.trans) : Stands(f, d, lg, b.trans[n], v)
      /\ \A t, v, w : Stands(f, d, lg, t, v) /\ Stands(f, d, lg, t, w) => v = w
  BY DEF Reads
<1>3. \A n \in 1 .. Len(b.trans) :
        \E v : Stands(f, b, lg, b.trans[n], v) /\ Stands(f, d, lg, b.trans[n], AtGate(v))
  BY DEF AllAtGate
<1>4. ASSUME NEW x \in T PROVE \E v \in S : x = AtGate(v)
  <2>1. PICK n \in 1 .. Len(b.trans) : Stands(f, d, lg, b.trans[n], x)
    BY <1>2, <1>4
  <2>2. PICK v : Stands(f, b, lg, b.trans[n], v) /\ Stands(f, d, lg, b.trans[n], AtGate(v))
    BY <1>3
  <2>3. x = AtGate(v) /\ v \in S
    BY <1>1, <1>2, <2>1, <2>2
  <2> QED
    BY <2>3
<1>5. ASSUME NEW v \in S PROVE AtGate(v) \in T
  <2>1. PICK n \in 1 .. Len(b.trans) : Stands(f, b, lg, b.trans[n], v)
    BY <1>1, <1>5
  <2>2. PICK w : Stands(f, b, lg, b.trans[n], w) /\ Stands(f, d, lg, b.trans[n], AtGate(w))
    BY <1>3
  <2>3. v = w
    BY <1>1, <2>1, <2>2
  <2> QED
    BY <1>2, <2>2, <2>3
<1> QED
  BY <1>4, <1>5

\* The gate.
LEMMA GateRefines ==
  ASSUME ListsInv, ReadInv, ProductInv, ReadsAs, ReadsAs', Gate
  PROVE  LS!Next
<1>1. pc = "gate" /\ pc' = "built" /\ UNCHANGED <<file, edges, feature, levelGuard, id, here, dnfID>> /\ ha' = Gated(ha)
  BY DEF Gate
<1>2. PICK f, b, d, lg, S, T : /\ f = feature /\ b = ha /\ d = ha' /\ lg = levelGuard
                               /\ S = Transitions /\ T = Transitions'
  OBVIOUS
<1>3. Reads(f, b, lg, S) /\ Reads(f, d, lg, T)
  BY <1>1, <1>2 DEF ReadsAs
<1>4. Gatekept(f, b, lg, d)
  <2>1. Fine(b, lg) /\ Guarded(f, b.heap, lg) /\ d = Gated(b)
    BY <1>1, <1>2 DEF ListsInv, ProductInv
  <2> QED
    BY <2>1, GateStands
<1>5. AllAtGate(f, b, lg, d)
  BY <1>2, EachAtGate
<1>6. d.trans = b.trans /\ \A i \in DOMAIN lg : TailOf(d.heap, lg, i) = TailOf(b.heap, lg, i)
  BY <1>4 DEF Gatekept
<1>7. \A x : x \in T <=> \E v \in S : x = AtGate(v)
  BY <1>3, <1>5, <1>6, GateReads
<1>8. T = {AtGate(v) : v \in S}
  BY <1>7
<1>9. Transitions' = {IF t.at = LS!NoLevel THEN [t EXCEPT !.at = 0, !.goes = 0] ELSE t : t \in Transitions}
  BY <1>2, <1>8 DEF AtGate, LS!NoLevel
<1>10. TailsOf(f, d.heap, lg) = TailsOf(f, b.heap, lg)
  BY <1>6 DEF TailsOf
<1>11. Tails' = Tails
  BY <1>1, <1>2, <1>10 DEF ReadsAs
<1>12. Phase = "gate" /\ Phase' = "built"
  BY <1>1 DEF Phase
<1>13. LS!Gate
  BY <1>1, <1>9, <1>11, <1>12 DEF LS!Gate
<1> QED
  BY <1>13 DEF LS!Next, LS!Build

\* The product of LevelSequence begins with the transitions of the model.
LEMMA ProductBegins ==
  ASSUME ListsInv, ReadInv, ProductInv, ReadsAs, Init
  PROVE  LS!Init
<1>1. /\ edges \subseteq EdgePool /\ feature \in Features /\ id = 0 /\ here = 1 /\ dnfID = 1 /\ pc = "vars"
      /\ levelGuard = << >>
  BY DEF Init, ListsInv
<1>2. PICK es, f, b, lg, S, k : /\ es = EdgesRead(file) /\ f = feature /\ b = ha /\ lg = levelGuard
                                /\ S = Transitions /\ k = -1
  OBVIOUS
<1>3. LevelNow = k
  BY <1>1, <1>2 DEF LevelNow
<1>4. Reads(f, b, lg, S) /\ Len(b.trans) = Len(es)
  BY <1>1, <1>2 DEF ReadsAs, ProductInv
<1>5. StandForModel(f, b, lg, es, k)
  BY <1>2, <1>3 DEF ReadsAs, StandForModel
<1>6. IsTheModel(S, es, k)
  BY <1>4, <1>5, OnlyRead
<1>7. edges = {es[n] : n \in 1 .. Len(es)}
  BY <1>2 DEF ProductInv
<1>8. S = {LS!Original(e) : e \in edges}
  <2>1. PICK T : T = {LS!Original(e) : e \in edges}
    OBVIOUS
  <2>2. \A e : LS!Original(e) = ModelAt(k, e)
    BY <1>2, WaitIs
  <2>3. \A v : v \in T <=> \E n \in 1 .. Len(es) : v = ModelAt(k, es[n])
    BY <1>7, <2>1, <2>2
  <2>4. \A v : v \in S <=> v \in T
    BY <1>6, <2>3 DEF IsTheModel
  <2>5. S = T
    BY <2>4, SameElements
  <2> QED
    BY <2>1, <2>5
<1>9. Tails = [i \in LS!Levels |-> {}]
  <2>1. DOMAIN levelGuard = {}
    BY <1>1, ShortSequences
  <2> QED
    BY <2>1 DEF Tails, LS!Levels
<1>10. Phase = "sweep"
  BY <1>1 DEF Phase
<1> QED
  BY <1>1, <1>2, <1>8, <1>9, <1>10 DEF LS!Init

\* Every step on the lists is one of LevelSequence, or none.
LEMMA StepRefines ==
  ASSUME ListsInv, ReadInv, ProductInv, ProductInv', ReadsAs, ReadsAs', [FileNext]_xmlVars
  PROVE  [LS!Next]_LS!vars
<1>1. CASE Build
  <2>1. CASE AddVariable
    BY <2>1, VariableRefines
  <2>2. CASE Begin
    BY <2>2, BeginRefines
  <2>3. CASE SkipTerm \/ MatchByLoop \/ MatchOnEdges
    BY <2>3, TermRefines
  <2>4. CASE RetainAll \/ RetainOpen \/ RetainNone
    BY <2>4, RetainRefines
  <2>5. CASE Gate
    BY <2>5, GateRefines
  <2> QED
    BY <1>1, <2>1, <2>2, <2>3, <2>4, <2>5 DEF Build
<1>2. CASE Bound
  <2>1. UNCHANGED <<file, feature, edges, added, levelGuard, id, here, dnfID>> /\ pc = "built" /\ pc' = "bound"
    BY <1>2 DEF Bound
  <2>2. Phase' = Phase
    BY <2>1 DEF Phase
  <2>3. UNCHANGED LS!vars
    BY <1>2, <2>1, <2>2, BoundSame, StaysRefines
  <2> QED
    BY <2>3
<1>3. CASE Write
  <2>1. UNCHANGED <<file, feature, edges, added, levelGuard, ha, id, here, dnfID>> /\ pc = "bound" /\ pc' = "written"
    BY <1>3 DEF Write
  <2>2. Phase' = Phase
    BY <2>1 DEF Phase
  <2>3. UNCHANGED LS!vars
    BY <2>1, <2>2, StaysRefines
  <2> QED
    BY <2>3
<1>4. CASE UNCHANGED xmlVars
  <2>1. UNCHANGED <<file, feature, edges, added, levelGuard, ha, id, here, dnfID, pc>>
    BY <1>4 DEF xmlVars, vars
  <2>2. Phase' = Phase
    BY <2>1 DEF Phase
  <2>3. UNCHANGED LS!vars
    BY <2>1, <2>2, StaysRefines
  <2> QED
    BY <2>3
<1> QED
  BY <1>1, <1>2, <1>3, <1>4 DEF FileNext

\* The construction on the lists implements LevelSequence: where two guards share a node,
\* where one is a copy, what a hop keeps and in which order resets stand comes to the
\* product described there (levelSequence and all it calls).
THEOREM ProductRefined == FileSpec => Product
<1>1. AllInv => ListsInv /\ ReadInv /\ ProductInv
  BY DEF AllInv, ModelInv, FileInv
<1>2. AllInv => ReadsAs
  BY <1>1, ListsRead
<1>3. AllInv /\ ReadsAs /\ FileInit => LS!Init
  BY <1>1, ProductBegins DEF FileInit
<1>4. AllInv /\ AllInv' /\ ReadsAs /\ ReadsAs' /\ [FileNext]_xmlVars => [LS!Next]_LS!vars
  <2>1. AllInv' => ProductInv'
    BY DEF AllInv
  <2> QED
    BY <1>1, <2>1, StepRefines
<1>5. FileSpec => []AllInv
  BY AllAlways
<1> QED
  BY <1>2, <1>3, <1>4, <1>5, PTL DEF FileSpec, Product, LS!Spec

-------------------------------------------------------------------------------
\* No transition resets a variable twice

\* What ResetOnce says of one transition.
ResetsOnce(t) ==
  /\ \A k \in DOMAIN ha.vars : Times(t, ha.vars[k]) = Expected(t, ha.vars[k])
  /\ \A x \in Range(file.signature) :
       \/ LastReset(t.reset, x) = Does(t, x)
       \/ x \in TimeLike /\ t.goto = Final /\ LastReset(t.reset, x) = Number(0)
       \/ IsMatch(t) /\ OnOriginal(t) /\ x = Mistaken(EdgeOf(t))

\* How often it resets a variable depends on whether it is on a transition of the model
\* and whether it is a match.
LEMMA ExpectedIs ==
  ASSUME NEW t, NEW onEdge \in BOOLEAN, onEdge <=> OnOriginal(t) /\ ~IsHop(t),
         NEW match \in BOOLEAN, match <=> IsMatch(t) /\ ~IsHop(t), NEW e, onEdge => e = EdgeOf(t), NEW x
  PROVE  Expected(t, x) = ExpectedIn(file, feature, onEdge, match, e, x)
<1>1. \A y : Own(e, y) = Count(Resets[e], y)
  BY DEF Own, Count, Hits, Says
<1>2. CASE onEdge
  <2>1. e = EdgeOf(t) /\ OnOriginal(t) /\ ~IsHop(t)
    BY <1>2
  <2>2. CASE match
    BY <1>1, <1>2, <2>1, <2>2 DEF Expected, ExpectedIn
  <2>3. CASE ~match
    BY <1>1, <1>2, <2>1, <2>3 DEF Expected, ExpectedIn
  <2> QED
    BY <2>2, <2>3
<1>3. CASE ~onEdge
  <2>1. CASE match
    BY <1>3, <2>1 DEF Expected, ExpectedIn
  <2>2. CASE ~match
    BY <1>3, <2>2 DEF Expected, ExpectedIn
  <2> QED
    BY <2>1, <2>2
<1> QED
  BY <1>2, <1>3

\* What is known of a transition by what it stands for is known of it.
LEMMA DoneResetsOnce ==
  ASSUME Lists(ha.heap), Guarded(feature, ha.heap, levelGuard), feature \in Features, file \in Files,
         ha.vars = AllNames, NEW t, NEW v, Stands(feature, ha, levelGuard, t, v), Done(file, feature, t, v)
  PROVE  ResetsOnce(t)
<1>1. (OnOriginal(t) <=> OnEdgeOf(v)) /\ (OnEdgeOf(v) => EdgeOf(t) = v.edge)
  BY StandsRead
<1>2. v.to = t.goto
  BY DEF Stands
<1>3. PICK onEdge \in BOOLEAN : onEdge <=> (OnEdgeOf(v) /\ Len(v.to) # 4)
  OBVIOUS
<1>4. PICK match \in BOOLEAN :
        /\ match => Len(v.to) # 4
        /\ OnceIn(file, feature, t.reset, OnEdgeOf(v) /\ Len(v.to) # 4, match, v.edge, v.to = Final)
  BY DEF Done
<1>5. PICK e, final : e = v.edge /\ final = (v.to = Final)
  OBVIOUS
<1>6. onEdge = (OnEdgeOf(v) /\ Len(v.to) # 4)
  BY <1>3 DEF OnEdgeOf
<1>7. OnceIn(file, feature, t.reset, onEdge, match, e, final)
  BY <1>4, <1>5, <1>6
<1>8. IsHop(t) <=> Len(v.to) = 4
  BY <1>2 DEF IsHop
<1>9. (onEdge <=> OnOriginal(t) /\ ~IsHop(t)) /\ (onEdge => e = EdgeOf(t))
  BY <1>1, <1>3, <1>5, <1>8
<1>10. match <=> IsMatch(t)
  BY <1>7 DEF OnceIn, IsMatch
<1>11. match <=> IsMatch(t) /\ ~IsHop(t)
  BY <1>4, <1>8, <1>10
<1>12. ASSUME NEW k \in DOMAIN ha.vars PROVE Times(t, ha.vars[k]) = Expected(t, ha.vars[k])
  <2>1. PICK x : x = ha.vars[k]
    OBVIOUS
  <2>2. x \in Range(file.signature) \union Range(Added(feature))
    <3>1. x \in Range(AllNames)
      BY <2>1 DEF Range
    <3> QED
      BY <3>1, NamesApart DEF AllNames
  <2>3. Count(t.reset, x) = ExpectedIn(file, feature, onEdge, match, e, x)
    BY <1>7, <2>2 DEF OnceIn
  <2>4. Expected(t, x) = ExpectedIn(file, feature, onEdge, match, e, x)
    BY <1>9, <1>11, ExpectedIs
  <2>5. Times(t, x) = Count(t.reset, x)
    BY DEF Times, Count, Hits, Says
  <2> QED
    BY <2>1, <2>3, <2>4, <2>5
<1>13. ASSUME NEW x \in Range(file.signature)
       PROVE  \/ LastReset(t.reset, x) = Does(t, x)
              \/ x \in TimeLike /\ t.goto = Final /\ LastReset(t.reset, x) = Number(0)
              \/ IsMatch(t) /\ OnOriginal(t) /\ x = Mistaken(EdgeOf(t))
  <2>1. \/ LastReset(t.reset, x) = IF onEdge THEN LastReset(Resets[e], x) ELSE Of(x)
        \/ x \in TimeLike /\ final /\ LastReset(t.reset, x) = Number(0)
        \/ match /\ onEdge /\ x = Mistaken(e)
    BY <1>7 DEF OnceIn
  <2>2. Does(t, x) = IF onEdge THEN LastReset(Resets[e], x) ELSE Of(x)
    BY <1>9 DEF Does
  <2>3. CASE LastReset(t.reset, x) = IF onEdge THEN LastReset(Resets[e], x) ELSE Of(x)
    BY <2>2, <2>3
  <2>4. CASE x \in TimeLike /\ final /\ LastReset(t.reset, x) = Number(0)
    BY <1>2, <1>5, <2>4
  <2>5. CASE match /\ onEdge /\ x = Mistaken(e)
    BY <1>9, <1>10, <2>5
  <2> QED
    BY <2>1, <2>3, <2>4, <2>5
<1> QED
  BY <1>12, <1>13 DEF ResetsOnce

\* The transitions of the model reset what the model says, and keep what is added.
LEMMA ModelDone ==
  ASSUME ListsInv, ReadInv, ProductInv, added = << >>, NEW es, es = EdgesRead(file), NEW n \in 1 .. Len(es),
         NEW k, k = LevelNow, NEW v, v = ModelAt(k, es[n])
  PROVE  Done(file, feature, ha.trans[n], v)
<1>1. PICK t, e : t = ha.trans[n] /\ e = es[n]
  OBVIOUS
<1>2. PICK told : ReadIn(t, e, k, told)
  BY <1>1, ReadStays
<1>3. told = Added(feature) /\ IsEdge(e) /\ t.goto = <<e.to>> /\ IsTold(t.reset, e, told)
  BY <1>2 DEF ReadIn, Originally
<1>4. feature \in Features /\ file \in Files
  BY DEF ListsInv, ReadInv
<1>5. IsAt(k, e, v)
  BY <1>1, ModelAtSays
<1>6. v.goes = v.at /\ v.zeroes = FALSE /\ v.edge = e /\ v.guards = {<<"edge", e>>} /\ v.to = <<e.to>>
  BY <1>5 DEF IsAt
<1>7. PICK r, final, match, onEdge : r = t.reset /\ final = (v.to = Final) /\ match = FALSE /\ onEdge = TRUE
  OBVIOUS
<1>8. r = Resets[e] \o Identities(Added(feature))
  BY <1>3, <1>7 DEF IsTold
<1>9. Bare(r, v, TRUE, FALSE, e, final)
  BY <1>3, <1>4, <1>6, <1>8, ModelBare
<1>10. Once(r, onEdge, match, e, final)
  BY <1>7, <1>9 DEF Bare
<1>11. OnceIn(file, feature, r, onEdge, match, e, final)
  BY <1>10, OnceHere
<1>12. OnEdgeOf(v) = TRUE
  BY <1>6, EdgeGuard
<1>13. Len(v.to) # 4
  <2>1. Len(<<e.to>>) = 1
    OBVIOUS
  <2> QED
    BY <1>6, <2>1
<1>14. onEdge = (OnEdgeOf(v) /\ Len(v.to) # 4)
  BY <1>7, <1>12, <1>13
<1>15. Done(file, feature, t, v)
  BY <1>6, <1>7, <1>11, <1>14 DEF Done
<1> QED
  BY <1>1, <1>15

\* Every transition stands for one of the product, and resets each variable as it should.
LEMMA AllResetOnce ==
  ASSUME ListsInv, ReadInv, ProductInv
  PROVE  ResetOnce
<1> SUFFICES ASSUME pc \notin {"vars", "sweep", "gate"}, NEW n \in DOMAIN ha.trans
             PROVE  ResetsOnce(ha.trans[n])
  BY DEF ResetOnce, ResetsOnce
<1>1. ReadsAs
  BY ListsRead
<1>2. added = << >> /\ feature \in Features /\ file \in Files /\ Accepted(file)
  BY DEF ReadInv, ListsInv
<1>3. /\ Lists(ha.heap) /\ Guarded(feature, ha.heap, levelGuard) /\ ha.vars \o added = AllNames /\ IsSequence(ha.vars)
      /\ DOMAIN ha.trans = 1 .. Len(ha.trans) /\ Len(ha.trans) \in Nat
  BY Sizes DEF ListsInv, ProductInv, Fine, Good, Shaped
<1>4. ha.vars = AllNames
  BY <1>2, <1>3, EmptyJoined
<1>5. PICK es : es = EdgesRead(file)
  OBVIOUS
<1>6. Len(es) \in Nat
  BY <1>2, <1>5, EdgesAreRead
<1>7. \E v : Stands(feature, ha, levelGuard, ha.trans[n], v) /\ Done(file, feature, ha.trans[n], v)
  <2>1. CASE n \in 1 .. Len(es)
    <3>1. PICK k, v : k = LevelNow /\ v = ModelAt(k, es[n])
      OBVIOUS
    <3>2. Stands(feature, ha, levelGuard, ha.trans[n], v)
      BY <1>1, <1>5, <2>1, <3>1 DEF ReadsAs
    <3>3. Done(file, feature, ha.trans[n], v)
      BY <1>2, <1>5, <2>1, <3>1, ModelDone
    <3> QED
      BY <3>2, <3>3
  <2>2. CASE n \notin 1 .. Len(es)
    <3>1. n \in Len(es) + 1 .. Len(ha.trans)
      BY <1>3, <1>6, <2>2
    <3>2. MadeSince(file, feature, ha, levelGuard, Len(es))
      BY <1>5 DEF ProductInv
    <3>3. PICK v : Made(file, feature, ha, levelGuard, ha.trans[n], v)
      BY <3>1, <3>2 DEF MadeSince
    <3> QED
      BY <3>3 DEF Made
  <2> QED
    BY <2>1, <2>2
<1>8. PICK t : t = ha.trans[n]
  OBVIOUS
<1>9. PICK v : Stands(feature, ha, levelGuard, t, v) /\ Done(file, feature, t, v)
  BY <1>7, <1>8
<1>10. ResetsOnce(t)
  BY <1>2, <1>3, <1>4, <1>9, DoneResetsOnce
<1> QED
  BY <1>8, <1>10

\* No transition of the product, of a match, a hop, or one that waits, resets a variable twice
\* or not at all, but for those that ResetOnce names (createTransitionOnEvent,
\* createTransitionOnEventEdge, orderedResets, addLocalVariable).
THEOREM ResetOnceAlways == FileSpec => []ResetOnce
<1>1. AllInv => ResetOnce
  BY AllResetOnce DEF AllInv, ModelInv, FileInv
<1> QED
  BY <1>1, AllAlways, PTL

===============================================================================
