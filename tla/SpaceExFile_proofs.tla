-------------------------- MODULE SpaceExFile_proofs --------------------------
(***************************************************************************)
(* Proofs about ProductLists and SpaceExFile: what lists share, what is    *)
(* read from the model's file and still there, and what is written of it.  *)
(***************************************************************************)
EXTENDS SpaceExFile, FiniteSetTheorems, SequenceTheorems,
        WellFoundedInduction, TLAPS

\* A set of numbers that is not empty has a least one.
LEMMA LeastOfNats ==
  ASSUME NEW T \in SUBSET Nat, T # {}
  PROVE  \E k \in T : \A m \in T : k <= m
<1>1. PICK k \in T : \A m \in T : ~(<<m, k>> \in OpToRel(<, Nat))
  BY NatLessThanWellFounded, WFMin
<1>2. ASSUME NEW m \in T PROVE k <= m
  <2>1. m \in Nat /\ k \in Nat
    OBVIOUS
  <2>2. m < k => <<m, k>> \in OpToRel(<, Nat)
    BY <2>1 DEF OpToRel
  <2>3. ~(m < k)
    BY <1>1, <2>2
  <2> QED
    BY <2>1, <2>3
<1> QED
  BY <1>2

\* A set of numbers up to a bound has a greatest element.
LEMMA GreatestOfNats ==
  ASSUME NEW n \in Nat, NEW T \in SUBSET (1..n), T # {}
  PROVE  \E k \in T : \A m \in T : m <= k
<1> DEFINE R == {n - m : m \in T}
<1>1. R \in SUBSET Nat /\ R # {}
  <2>1. \A m \in T : m \in 1..n /\ n - m \in Nat
    OBVIOUS
  <2>2. PICK m : m \in T
    OBVIOUS
  <2>3. n - m \in R
    BY <2>2
  <2> QED
    BY <2>1, <2>3
<1>2. PICK r \in R : \A q \in R : r <= q
  BY <1>1, LeastOfNats
<1>3. PICK k \in T : r = n - k
  OBVIOUS
<1>4. ASSUME NEW m \in T PROVE m <= k
  <2>1. n - m \in R
    OBVIOUS
  <2>2. n - k <= n - m
    BY <1>2, <1>3, <2>1
  <2> QED
    BY <2>2
<1> QED
  BY <1>4

\* A set that has 0 and with every number below n the next one has all up to n:
\* there is no least one outside of it.
LEMMA Upwards ==
  ASSUME NEW n \in Nat, NEW T, 0 \in T, \A k \in 1..n : k - 1 \in T => k \in T
  PROVE  \A k \in 0..n : k \in T
<1> SUFFICES ASSUME NEW k \in 0..n, k \notin T PROVE FALSE
  OBVIOUS
<1> DEFINE rest == {m \in 0..n : m \notin T}
<1>1. rest \in SUBSET Nat /\ rest # {}
  OBVIOUS
<1>2. PICK m \in rest : \A l \in rest : m <= l
  BY <1>1, LeastOfNats
<1>3. m \in 1..n /\ m - 1 \in 0..n
  BY <1>2
<1>4. m - 1 \in T
  BY <1>2, <1>3
<1> QED
  BY <1>2, <1>3, <1>4

\* f takes the steps from start on.
Stepping(f, S, start, n, step) ==
  f \in [0..n -> S] /\ f[0] = start /\ \A k \in 1..n : f[k] = step[k][f[k - 1]]

\* A start and a step for every number up to n make a function.
LEMMA StepByStep ==
  ASSUME NEW S, NEW start \in S, NEW n \in Nat, NEW step \in [1..n -> [S -> S]]
  PROVE  \E f : Stepping(f, S, start, n, step)
<1> DEFINE Stepped(m, f) ==
      f \in [0..m -> S] /\ f[0] = start /\ \A k \in 1..m : f[k] = step[k][f[k - 1]]
    T == {m \in 0..n : \E f : Stepped(m, f)}
<1>1. 0 \in T
  <2>1. Stepped(0, [k \in 0..0 |-> start])
    OBVIOUS
  <2>2. 0 \in 0..n
    OBVIOUS
  <2> HIDE DEF Stepped
  <2> QED
    BY <2>1, <2>2
<1> HIDE DEF Stepped
<1>2. ASSUME NEW l \in 1..n, l - 1 \in T PROVE l \in T
  <2> DEFINE m == l - 1
  <2>1. m \in Nat /\ m <= n /\ m + 1 \in 1..n /\ m + 1 = l
    OBVIOUS
  <2>2. PICK f : Stepped(m, f)
    BY <1>2
  <2> HIDE DEF m
  <2> DEFINE g == [k \in 0 .. m + 1 |-> IF k = m + 1 THEN step[m + 1][f[m]] ELSE f[k]]
  <2>3. step[m + 1][f[m]] \in S
    BY <2>1, <2>2 DEF Stepped
  <2>4. g \in [0 .. m + 1 -> S] /\ g[0] = start
    BY <2>1, <2>2, <2>3 DEF Stepped
  <2>5. ASSUME NEW k \in 1 .. m + 1 PROVE g[k] = step[k][g[k - 1]]
    <3>1. CASE k = m + 1
      BY <2>1, <3>1
    <3>2. CASE k # m + 1
      <4>1. k \in 1..m /\ k - 1 \in 0..m /\ g[k] = f[k] /\ g[k - 1] = f[k - 1]
        BY <2>1, <3>2
      <4> QED
        BY <2>2, <4>1 DEF Stepped
    <3> QED
      BY <3>1, <3>2
  <2> HIDE DEF g
  <2>6. Stepped(l, g)
    BY <2>1, <2>4, <2>5 DEF Stepped
  <2> QED
    BY <2>6
<1> HIDE DEF T
<1>3. n \in T
  <2>1. \A k \in 1..n : k - 1 \in T => k \in T
    BY <1>2
  <2>2. \A k \in 0..n : k \in T
    BY <1>1, <2>1, Upwards
  <2> QED
    BY <2>2
<1> QED
  BY <1>3 DEF T, Stepped, Stepping

-------------------------------------------------------------------------------
\* Sequences of whatever there is

LEMMA SequenceFacts ==
  ASSUME NEW s, IsSequence(s)
  PROVE  Len(s) \in Nat /\ DOMAIN s = 1 .. Len(s)
BY DEF IsSequence

\* A function on 1..n is a sequence.
LEMMA SequenceMade ==
  ASSUME NEW n \in Nat, NEW s, s = [k \in 1..n |-> s[k]]
  PROVE  IsSequence(s) /\ Len(s) = n
<1> DEFINE S == {s[k] : k \in 1..n}
<1>1. s \in [1..n -> S]
  OBVIOUS
<1>2. s \in Seq(S) /\ Len(s) = n /\ DOMAIN s = 1..n
  BY <1>1
<1> QED
  BY <1>2 DEF IsSequence

LEMMA SequenceIsFunction ==
  ASSUME NEW S, NEW s \in Seq(S)
  PROVE  Len(s) \in Nat /\ s = [k \in 1 .. Len(s) |-> s[k]]
OBVIOUS

\* What Append does to the length and to every position.
LEMMA Appended ==
  ASSUME NEW s, IsSequence(s), NEW x
  PROVE  /\ IsSequence(Append(s, x)) /\ Len(Append(s, x)) = Len(s) + 1
         /\ \A k \in 1 .. Len(s) : Append(s, x)[k] = s[k]
         /\ Append(s, x)[Len(s) + 1] = x
<1> DEFINE S == {s[k] : k \in DOMAIN s} \union {x}
           t == Append(s, x)
<1>1. s \in Seq(S) /\ x \in S /\ DOMAIN s = 1 .. Len(s) /\ Len(s) \in Nat
  BY DEF IsSequence
<1>2. /\ t \in Seq(S) /\ Len(t) = Len(s) + 1 /\ t[Len(s) + 1] = x
      /\ \A k \in 1 .. Len(s) : t[k] = s[k]
  BY <1>1
<1>3. t = [k \in 1 .. Len(s) + 1 |-> t[k]]
  <2> HIDE DEF t, S
  <2> QED
    BY <1>2, SequenceIsFunction
<1>4. IsSequence(t)
  BY <1>1, <1>3, SequenceMade
<1> QED
  BY <1>2, <1>4

LEMMA ShortSequences ==
  /\ IsSequence(<< >>) /\ \A x : IsSequence(<<x>>)
<1>1. IsSequence(<< >>)
  BY DEF IsSequence
<1>2. ASSUME NEW x PROVE IsSequence(<<x>>)
  <2> DEFINE s == <<x>>
  <2>1. Len(s) = 1 /\ s = [k \in 1 .. 1 |-> s[k]]
    OBVIOUS
  <2> HIDE DEF s
  <2>2. IsSequence(s)
    BY <2>1, SequenceMade
  <2> QED
    BY <2>2 DEF s
<1> QED
  BY <1>1, <1>2

\* What \o does to the length and to every position.
LEMMA Concatenated ==
  ASSUME NEW s, IsSequence(s), NEW t, IsSequence(t)
  PROVE  /\ IsSequence(s \o t) /\ Len(s \o t) = Len(s) + Len(t)
         /\ \A k \in 1 .. Len(s) : (s \o t)[k] = s[k]
         /\ \A k \in 1 .. Len(t) : (s \o t)[Len(s) + k] = t[k]
<1> DEFINE S == {s[k] : k \in DOMAIN s} \union {t[k] : k \in DOMAIN t}
           u == s \o t
<1>1. s \in Seq(S) /\ t \in Seq(S) /\ Len(s) \in Nat /\ Len(t) \in Nat
  BY DEF IsSequence
<1>2. /\ u \in Seq(S) /\ Len(u) = Len(s) + Len(t)
      /\ \A k \in 1 .. Len(u) : u[k] = IF k <= Len(s) THEN s[k] ELSE t[k - Len(s)]
  BY <1>1
<1>3. u = [k \in 1 .. Len(s) + Len(t) |-> u[k]]
  <2> HIDE DEF u, S
  <2> QED
    BY <1>2, SequenceIsFunction
<1>4. IsSequence(u)
  <2>1. Len(s) + Len(t) \in Nat
    BY <1>1
  <2> HIDE DEF u
  <2> QED
    BY <1>3, <2>1, SequenceMade
<1> QED
  BY <1>1, <1>2, <1>4

\* Sequences of the same elements in the same order.
LEMMA SameSequence ==
  ASSUME NEW s, IsSequence(s), NEW t, IsSequence(t), Len(s) = Len(t),
         \A k \in 1 .. Len(s) : s[k] = t[k]
  PROVE  s = t
<1>1. PICK S, T : s \in Seq(S) /\ t \in Seq(T)
  BY DEF IsSequence
<1>2. s = [k \in 1 .. Len(s) |-> s[k]] /\ t = [k \in 1 .. Len(t) |-> t[k]]
  BY <1>1, SequenceIsFunction
<1> QED
  BY <1>2

LEMMA EmptyJoined ==
  ASSUME NEW s, IsSequence(s)
  PROVE  s \o << >> = s /\ << >> \o s = s
<1>1. PICK S : s \in Seq(S)
  BY DEF IsSequence
<1> QED
  BY <1>1, ConcatEmptySeq

\* Appending after joining is joining with what was appended to.
LEMMA AppendJoined ==
  ASSUME NEW s, IsSequence(s), NEW r, IsSequence(r), NEW x
  PROVE  s \o Append(r, x) = Append(s \o r, x)
<1>1. /\ IsSequence(s \o r) /\ Len(s \o r) = Len(s) + Len(r)
      /\ \A k \in 1 .. Len(s) : (s \o r)[k] = s[k]
      /\ \A k \in 1 .. Len(r) : (s \o r)[Len(s) + k] = r[k]
  BY Concatenated
<1>2. /\ IsSequence(Append(r, x)) /\ Len(Append(r, x)) = Len(r) + 1
      /\ \A k \in 1 .. Len(r) : Append(r, x)[k] = r[k] /\ Append(r, x)[Len(r) + 1] = x
  BY Appended, SequenceFacts
<1>3. PICK t, u, v, w : t = s \o r /\ u = Append(r, x) /\ v = s \o u /\ w = Append(t, x)
  OBVIOUS
<1>4. /\ IsSequence(v) /\ Len(v) = Len(s) + Len(u)
      /\ \A k \in 1 .. Len(s) : v[k] = s[k]
      /\ \A k \in 1 .. Len(u) : v[Len(s) + k] = u[k]
  BY <1>2, <1>3, Concatenated
<1>5. /\ IsSequence(w) /\ Len(w) = Len(t) + 1 /\ w[Len(t) + 1] = x
      /\ \A k \in 1 .. Len(t) : w[k] = t[k]
  BY <1>1, <1>3, Appended
<1>6. Len(s) \in Nat /\ Len(r) \in Nat
  BY SequenceFacts
<1>7. Len(u) = Len(r) + 1 /\ Len(t) = Len(s) + Len(r) /\ u[Len(r) + 1] = x
  <2>1. u[Len(r) + 1] = x
    BY <1>3, Appended
  <2> QED
    BY <1>1, <1>2, <1>3, <2>1
<1>8. ASSUME NEW k \in 1 .. Len(v) PROVE v[k] = w[k]
  <2>1. CASE k \in 1 .. Len(s)
    <3>1. k \in 1 .. Len(t) /\ t[k] = s[k]
      BY <1>1, <1>3, <1>6, <2>1
    <3> QED
      BY <1>4, <1>5, <2>1, <3>1
  <2>2. CASE k \in Len(s) + 1 .. Len(s) + Len(r)
    <3>1. PICK m : m = k - Len(s)
      OBVIOUS
    <3>2. m \in 1 .. Len(r) /\ m \in 1 .. Len(u) /\ k = Len(s) + m /\ k \in 1 .. Len(t)
      BY <1>6, <1>7, <2>2, <3>1
    <3>3. v[k] = u[m] /\ u[m] = r[m] /\ t[k] = r[m]
      BY <1>1, <1>2, <1>3, <1>4, <3>2
    <3> QED
      BY <1>5, <3>2, <3>3
  <2>3. CASE k = Len(s) + Len(r) + 1
    <3>1. Len(r) + 1 \in 1 .. Len(u) /\ k = Len(s) + (Len(r) + 1)
      BY <1>6, <1>7, <2>3
    <3> QED
      BY <1>4, <1>5, <1>7, <2>3, <3>1
  <2> QED
    BY <1>4, <1>6, <1>7, <2>1, <2>2, <2>3
<1>9. v = w
  <2>1. Len(v) = Len(w)
    BY <1>4, <1>5, <1>6, <1>7
  <2> QED
    BY <1>4, <1>5, <1>8, <2>1, SameSequence
<1> QED
  BY <1>3, <1>9

\* The first element of one sequence goes to the end of another.
LEMMA HeadMoved ==
  ASSUME NEW s, IsSequence(s), NEW r, IsSequence(r), r # << >>
  PROVE  IsSequence(Tail(r)) /\ Append(s, Head(r)) \o Tail(r) = s \o r
<1>1. PICK S, T : s \in Seq(S) /\ r \in Seq(T)
  BY DEF IsSequence
<1> DEFINE U == S \union T
<1>2. s \in Seq(U) /\ r \in Seq(U)
  BY <1>1
<1> HIDE DEF U
<1>3. PICK x, rest : x = Head(r) /\ rest = Tail(r)
  OBVIOUS
<1>4. x \in U /\ rest \in Seq(U) /\ Append(s, x) = s \o <<x>> /\ r = <<x>> \o rest
  <2>1. x \in U /\ rest \in Seq(U)
    BY <1>2, <1>3
  <2>2. Append(s, x) = s \o <<x>>
    BY <1>2, <2>1, AppendIsConcat
  <2>3. r = <<x>> \o rest
    BY <1>2, <1>3
  <2> QED
    BY <2>1, <2>2, <2>3
<1>5. <<x>> \in Seq(U)
  BY <1>4
<1>6. (s \o <<x>>) \o rest = s \o (<<x>> \o rest)
  BY <1>2, <1>4, <1>5, ConcatAssociative
<1>7. IsSequence(rest)
  <2>1. Len(rest) \in Nat /\ rest = [k \in 1 .. Len(rest) |-> rest[k]]
    BY <1>4, SequenceIsFunction
  <2> QED
    BY <2>1, SequenceMade
<1> QED
  BY <1>3, <1>4, <1>6, <1>7

LEMMA RangeJoined ==
  ASSUME NEW s, IsSequence(s), NEW r, IsSequence(r)
  PROVE  Range(s \o r) = Range(s) \union Range(r)
<1>1. /\ IsSequence(s \o r) /\ Len(s \o r) = Len(s) + Len(r)
      /\ \A k \in 1 .. Len(s) : (s \o r)[k] = s[k]
      /\ \A k \in 1 .. Len(r) : (s \o r)[Len(s) + k] = r[k]
  BY Concatenated
<1>2. PICK t : t = s \o r
  OBVIOUS
<1>3. /\ Len(s) \in Nat /\ DOMAIN s = 1 .. Len(s) /\ Len(r) \in Nat /\ DOMAIN r = 1 .. Len(r)
      /\ DOMAIN t = 1 .. Len(t) /\ Len(t) = Len(s) + Len(r)
  BY <1>1, <1>2, SequenceFacts
<1>4. \A k \in DOMAIN s : k \in DOMAIN t /\ t[k] = s[k]
  BY <1>1, <1>2, <1>3
<1>5. \A k \in DOMAIN r : Len(s) + k \in DOMAIN t /\ t[Len(s) + k] = r[k]
  BY <1>1, <1>2, <1>3
<1>6. \A k \in DOMAIN t : k \in DOMAIN s \/ (k - Len(s) \in DOMAIN r /\ k = Len(s) + (k - Len(s)))
  BY <1>3
<1>7. ASSUME NEW x PROVE x \in Range(t) <=> x \in Range(s) \/ x \in Range(r)
  <2>1. ASSUME x \in Range(t) PROVE x \in Range(s) \/ x \in Range(r)
    <3>1. PICK k \in DOMAIN t : x = t[k]
      BY <2>1 DEF Range
    <3>2. CASE k \in DOMAIN s
      BY <1>4, <3>1, <3>2 DEF Range
    <3>3. CASE k - Len(s) \in DOMAIN r /\ k = Len(s) + (k - Len(s))
      <4>1. t[k] = r[k - Len(s)]
        BY <1>5, <3>3
      <4> QED
        BY <3>1, <3>3, <4>1 DEF Range
    <3> QED
      BY <1>6, <3>2, <3>3
  <2>2. ASSUME x \in Range(s) PROVE x \in Range(t)
    BY <1>4, <2>2 DEF Range
  <2>3. ASSUME x \in Range(r) PROVE x \in Range(t)
    BY <1>5, <2>3 DEF Range
  <2> QED
    BY <2>1, <2>2, <2>3
<1> QED
  BY <1>2, <1>7

\* Reversing keeps what is in a sequence.
LEMMA Reversed ==
  ASSUME NEW s, IsSequence(s)
  PROVE  IsSequence(Reverse(s)) /\ Len(Reverse(s)) = Len(s) /\ Range(Reverse(s)) = Range(s)
<1> DEFINE r == Reverse(s)
<1>1. Len(s) \in Nat /\ DOMAIN s = 1 .. Len(s)
  BY SequenceFacts
<1>2. DOMAIN r = 1 .. Len(s) /\ \A k \in 1 .. Len(s) : r[k] = s[Len(s) - k + 1]
  BY DEF Reverse
<1>3. r = [k \in 1 .. Len(s) |-> r[k]]
  BY DEF Reverse
<1> HIDE DEF r
<1>4. IsSequence(r) /\ Len(r) = Len(s)
  BY <1>1, <1>3, SequenceMade
<1>5. \A k \in 1 .. Len(s) : Len(s) - k + 1 \in 1 .. Len(s) /\ k = Len(s) - (Len(s) - k + 1) + 1
  BY <1>1
<1>6. Range(r) = Range(s)
  BY <1>1, <1>2, <1>5 DEF Range
<1> QED
  BY <1>4, <1>6 DEF r

-------------------------------------------------------------------------------
\* Lists that end

IsNode(h, a) ==
  h[a] = [cond |-> h[a].cond, next |-> h[a].next] /\ h[a].next \in 0 .. Len(h)

IsHeap(h) == IsSequence(h) /\ \A a \in 1 .. Len(h) : IsNode(h, a)

\* How many nodes follow one another from each address.
Lengths(h, bound) ==
  {r \in [0 .. Len(h) -> 0 .. bound] :
     r[0] = 0 /\ \A a \in 1 .. Len(h) : r[a] = 1 + r[h[a].next]}

Lists(h) == IsHeap(h) /\ \E bound \in Nat : Lengths(h, bound) # {}

\* The parts of a heap whose lists end.
LEMMA HeapFacts ==
  ASSUME NEW h, Lists(h)
  PROVE  /\ Len(h) \in Nat /\ DOMAIN h = 1 .. Len(h) /\ IsSequence(h)
         /\ \A a \in 1 .. Len(h) : IsNode(h, a) /\ h[a].next \in 0 .. Len(h)
BY SequenceFacts DEF Lists, IsHeap, IsNode

\* What holds of NULL, and of an address if of the next one, holds of all.
LEMMA AlongLists ==
  ASSUME NEW h, Lists(h), NEW T, 0 \in T,
         \A a \in 1 .. Len(h) : h[a].next \in T => a \in T
  PROVE  \A a \in 0 .. Len(h) : a \in T
<1>0. PICK bound \in Nat : Lengths(h, bound) # {}
  BY DEF Lists
<1>1. PICK r \in Lengths(h, bound) : TRUE
  BY <1>0
<1>2. /\ r \in [0 .. Len(h) -> 0 .. bound] /\ r[0] = 0
      /\ \A a \in 1 .. Len(h) : r[a] = 1 + r[h[a].next]
  BY <1>1 DEF Lengths
<1>3. Len(h) \in Nat /\ \A a \in 1 .. Len(h) : h[a].next \in 0 .. Len(h)
  BY HeapFacts
<1> DEFINE K == {k \in 0 .. bound : \A a \in 0 .. Len(h) : r[a] <= k => a \in T}
<1>4. 0 \in K
  <2>1. ASSUME NEW a \in 0 .. Len(h), r[a] <= 0 PROVE a \in T
    <3>1. CASE a = 0
      BY <3>1
    <3>2. CASE a # 0
      <4>1. a \in 1 .. Len(h) /\ r[a] = 1 + r[h[a].next] /\ r[h[a].next] \in Nat
        BY <1>2, <1>3, <3>2
      <4> QED
        BY <2>1, <4>1
    <3> QED
      BY <3>1, <3>2
  <2> QED
    BY <2>1
<1>5. ASSUME NEW k \in 1 .. bound, k - 1 \in K PROVE k \in K
  <2>1. ASSUME NEW a \in 0 .. Len(h), r[a] <= k PROVE a \in T
    <3>1. CASE a = 0
      BY <3>1
    <3>2. CASE a # 0
      <4>1. /\ a \in 1 .. Len(h) /\ r[a] = 1 + r[h[a].next]
            /\ h[a].next \in 0 .. Len(h) /\ r[h[a].next] \in 0 .. bound
        BY <1>2, <1>3, <3>2
      <4>2. r[h[a].next] <= k - 1
        BY <2>1, <4>1
      <4>3. h[a].next \in T
        BY <1>5, <4>1, <4>2
      <4> QED
        BY <4>1, <4>3
    <3> QED
      BY <3>1, <3>2
  <2> QED
    BY <2>1
<1> HIDE DEF K
<1>6. \A k \in 0 .. bound : k \in K
  BY <1>4, <1>5, Upwards
<1>7. bound \in K
  BY <1>6
<1> QED
  BY <1>2, <1>7 DEF K

\* The function behind Nodes, unfolded at every address.
LEMMA NodesStep ==
  ASSUME NEW h, Lists(h), NEW f,
         f = [a \in 0 .. Len(h) |-> IF a = NULL THEN << >> ELSE <<a>> \o f[h[a].next]]
  PROVE  /\ f[0] = << >>
         /\ \A a \in 1 .. Len(h) : f[a] = <<a>> \o f[h[a].next]
<1>1. Len(h) \in Nat /\ \A a \in 1 .. Len(h) : h[a].next \in 0 .. Len(h)
  BY HeapFacts
<1>2. f[0] = << >>
  <2>1. 0 \in 0 .. Len(h)
    BY <1>1
  <2> QED
    BY <2>1 DEF NULL
<1>3. ASSUME NEW a \in 1 .. Len(h) PROVE f[a] = <<a>> \o f[h[a].next]
  <2>1. a \in 0 .. Len(h) /\ a # NULL
    BY <1>1 DEF NULL
  <2> QED
    BY <2>1
<1> QED
  BY <1>2, <1>3

\* Whatever satisfies its equations gives addresses of the heap.
LEMMA NodesTyped ==
  ASSUME NEW h, Lists(h), NEW f, f[0] = << >>,
         \A a \in 1 .. Len(h) : f[a] = <<a>> \o f[h[a].next]
  PROVE  \A a \in 0 .. Len(h) : f[a] \in Seq(1 .. Len(h))
<1>1. Len(h) \in Nat /\ \A a \in 1 .. Len(h) : h[a].next \in 0 .. Len(h)
  BY HeapFacts
<1> DEFINE T == {a \in 0 .. Len(h) : f[a] \in Seq(1 .. Len(h))}
<1>4. 0 \in T
  <2>1. f[0] \in Seq(1 .. Len(h)) /\ 0 \in 0 .. Len(h)
    BY <1>1
  <2> QED
    BY <2>1
<1>5. ASSUME NEW a \in 1 .. Len(h), h[a].next \in T PROVE a \in T
  <2>1. f[h[a].next] \in Seq(1 .. Len(h)) /\ a \in 0 .. Len(h)
    BY <1>1, <1>5
  <2>2. <<a>> \o f[h[a].next] \in Seq(1 .. Len(h))
    BY <2>1
  <2>3. f[a] = <<a>> \o f[h[a].next]
    OBVIOUS
  <2> QED
    BY <2>1, <2>2, <2>3
<1> HIDE DEF T
<1>6. \A a \in 0 .. Len(h) : a \in T
  BY <1>4, <1>5, AlongLists
<1> QED
  BY <1>6 DEF T

\* The nodes of a list are the first one and those of the rest.
LEMMA NodesUnfold ==
  ASSUME NEW h, Lists(h)
  PROVE  /\ Nodes(h, 0) = << >>
         /\ \A a \in 1 .. Len(h) : Nodes(h, a) = <<a>> \o Nodes(h, h[a].next)
         /\ \A a \in 0 .. Len(h) : Nodes(h, a) \in Seq(1 .. Len(h))
<1> DEFINE A == 0 .. Len(h)
           S == [A -> Seq(1 .. Len(h))]
           start == [a \in A |-> << >>]
           more(f) == [a \in A |-> IF a = NULL THEN << >> ELSE <<a>> \o f[h[a].next]]
<1>0. PICK bound \in Nat : Lengths(h, bound) # {}
  BY DEF Lists
<1>1. PICK r \in Lengths(h, bound) : TRUE
  BY <1>0
<1>2. /\ r \in [A -> 0 .. bound] /\ r[0] = 0
      /\ \A a \in 1 .. Len(h) : r[a] = 1 + r[h[a].next]
  BY <1>1 DEF Lengths
<1>3. Len(h) \in Nat /\ \A a \in 1 .. Len(h) : h[a].next \in A
  BY HeapFacts
<1>4. start \in S
  OBVIOUS
<1>5. ASSUME NEW f \in S PROVE more(f) \in S
  <2>1. ASSUME NEW a \in A PROVE (IF a = NULL THEN << >> ELSE <<a>> \o f[h[a].next]) \in Seq(1 .. Len(h))
    <3>1. CASE a = 0
      BY <3>1 DEF NULL
    <3>2. CASE a # 0
      <4>1. a \in 1 .. Len(h) /\ f[h[a].next] \in Seq(1 .. Len(h))
        BY <1>3, <1>5, <3>2
      <4> QED
        BY <3>2, <4>1 DEF NULL
    <3> QED
      BY <3>1, <3>2
  <2> QED
    BY <2>1
<1> DEFINE step == [k \in 1 .. bound |-> [f \in S |-> more(f)]]
<1> HIDE DEF S, start, more
<1>6. step \in [1 .. bound -> [S -> S]]
  BY <1>5
<1>7. PICK g : Stepping(g, S, start, bound, step)
  <2> HIDE DEF step
  <2> QED
    BY <1>4, <1>6, StepByStep
<1>8. /\ g \in [0 .. bound -> S] /\ g[0] = start
      /\ \A k \in 1 .. bound : g[k] = more(g[k - 1])
  <2>1. g \in [0 .. bound -> S] /\ g[0] = start /\ \A k \in 1 .. bound : g[k] = step[k][g[k - 1]]
    BY <1>7 DEF Stepping
  <2>2. ASSUME NEW k \in 1 .. bound PROVE g[k] = more(g[k - 1])
    <3>1. k - 1 \in 0 .. bound
      OBVIOUS
    <3>2. g[k - 1] \in S /\ g[k] = step[k][g[k - 1]]
      BY <2>1, <3>1
    <3> QED
      BY <3>2
  <2> QED
    BY <2>1, <2>2
<1> USE DEF S, start, more
<1> DEFINE all == [a \in A |-> g[r[a]][a]]
<1>9. all \in S
  BY <1>2, <1>8
<1>10. ASSUME NEW a \in A PROVE all[a] = IF a = NULL THEN << >> ELSE <<a>> \o all[h[a].next]
  <2>1. CASE a = 0
    BY <1>2, <1>8, <2>1 DEF NULL
  <2>2. CASE a # 0
    <3>1. a \in 1 .. Len(h) /\ h[a].next \in A /\ r[a] = 1 + r[h[a].next] /\ r[a] \in 0 .. bound
      BY <1>2, <1>3, <2>2
    <3>2. r[h[a].next] \in 0 .. bound
      BY <1>2, <3>1
    <3>3. r[a] \in 1 .. bound /\ r[a] - 1 = r[h[a].next]
      BY <3>1, <3>2
    <3>4. g[r[a]] = more(g[r[h[a].next]])
      BY <1>8, <3>3
    <3> QED
      BY <2>2, <3>1, <3>4 DEF NULL
  <2> QED
    BY <2>1, <2>2
<1> DEFINE Is(f) == f = [a \in A |-> IF a = NULL THEN << >> ELSE <<a>> \o f[h[a].next]]
           from == CHOOSE f : Is(f)
<1>11. Is(all)
  <2> HIDE DEF all
  <2>1. all = [a \in A |-> all[a]]
    BY <1>9
  <2> QED
    BY <1>10, <2>1
<1>12. Is(from)
  <2> HIDE DEF all, Is
  <2> QED
    BY <1>11
<1>13. \A a : Nodes(h, a) = from[a]
  BY DEF Nodes
<1> HIDE DEF from
<1>14. /\ from[0] = << >>
       /\ \A a \in 1 .. Len(h) : from[a] = <<a>> \o from[h[a].next]
       /\ \A a \in 0 .. Len(h) : from[a] \in Seq(1 .. Len(h))
  <2>1. from[0] = << >> /\ \A a \in 1 .. Len(h) : from[a] = <<a>> \o from[h[a].next]
    BY <1>12, NodesStep
  <2> QED
    BY <2>1, NodesTyped
<1> QED
  BY <1>13, <1>14

\* So are the nodes reached from an address.
LEMMA ReachedUnfold ==
  ASSUME NEW h, Lists(h)
  PROVE  /\ Reached(h, 0) = {}
         /\ \A a \in 1 .. Len(h) : Reached(h, a) = {a} \union Reached(h, h[a].next)
         /\ \A a \in 0 .. Len(h) : Reached(h, a) \subseteq 1 .. Len(h)
<1>1. Len(h) \in Nat /\ \A a \in 1 .. Len(h) : h[a].next \in 0 .. Len(h)
  BY HeapFacts
<1>2. /\ Nodes(h, 0) = << >>
      /\ \A a \in 1 .. Len(h) : Nodes(h, a) = <<a>> \o Nodes(h, h[a].next)
      /\ \A a \in 0 .. Len(h) : Nodes(h, a) \in Seq(1 .. Len(h))
  BY NodesUnfold
<1>3. Reached(h, 0) = {}
  BY <1>2 DEF Reached
<1>4. ASSUME NEW a \in 1 .. Len(h) PROVE Reached(h, a) = {a} \union Reached(h, h[a].next)
  <2> DEFINE s == Nodes(h, h[a].next)
  <2>1. s \in Seq(1 .. Len(h)) /\ Len(s) \in Nat
    BY <1>1, <1>2
  <2>2. Nodes(h, a) = <<a>> \o s
    BY <1>2
  <2> DEFINE t == <<a>> \o s
  <2>3. /\ DOMAIN t = 1 .. Len(s) + 1 /\ t[1] = a
        /\ \A n \in 1 .. Len(s) : t[n + 1] = s[n]
    BY <2>1
  <2>4. DOMAIN s = 1 .. Len(s)
    BY <2>1
  <2> HIDE DEF s, t
  <2>5. {t[n] : n \in DOMAIN t} = {a} \union {s[n] : n \in DOMAIN s}
    <3>1. ASSUME NEW n \in DOMAIN t PROVE t[n] \in {a} \union {s[m] : m \in DOMAIN s}
      <4>1. CASE n = 1
        BY <2>3, <4>1
      <4>2. CASE n # 1
        <5>1. n - 1 \in 1 .. Len(s) /\ t[n] = s[n - 1]
          BY <2>1, <2>3, <4>2
        <5> QED
          BY <2>4, <5>1
      <4> QED
        BY <4>1, <4>2
    <3>2. ASSUME NEW n \in DOMAIN s PROVE s[n] \in {t[m] : m \in DOMAIN t}
      <4>1. n + 1 \in DOMAIN t /\ t[n + 1] = s[n]
        BY <2>1, <2>3, <2>4
      <4> QED
        BY <4>1
    <3>3. a \in {t[m] : m \in DOMAIN t}
      <4>1. 1 \in DOMAIN t
        BY <2>1, <2>3
      <4> QED
        BY <2>3, <4>1
    <3> QED
      BY <3>1, <3>2, <3>3
  <2> QED
    BY <2>2, <2>5 DEF Reached, s, t
<1>5. ASSUME NEW a \in 0 .. Len(h) PROVE Reached(h, a) \subseteq 1 .. Len(h)
  <2>1. Nodes(h, a) \in Seq(1 .. Len(h))
    BY <1>2
  <2> QED
    BY <2>1 DEF Reached
<1> QED
  BY <1>3, <1>4, <1>5

\* The conditions of a list are as many as its nodes.
LEMMA ContentsRead ==
  ASSUME NEW h, Lists(h), NEW a \in 0 .. Len(h)
  PROVE  IsSequence(Contents(h, a)) /\ Len(Contents(h, a)) = Len(Nodes(h, a))
<1> DEFINE n == Len(Nodes(h, a))
           c == Contents(h, a)
<1>1. Nodes(h, a) \in Seq(1 .. Len(h))
  BY NodesUnfold
<1>2. n \in Nat /\ DOMAIN Nodes(h, a) = 1 .. n
  BY <1>1
<1>3. c = [k \in 1 .. n |-> c[k]]
  BY <1>2 DEF Contents
<1> HIDE DEF n, c
<1>4. IsSequence(c) /\ Len(c) = n
  BY <1>2, <1>3, SequenceMade
<1> QED
  BY <1>4 DEF n, c

\* Where the end of a list is.
LEMMA LastOfList ==
  ASSUME NEW h, Lists(h)
  PROVE  \A a \in 1 .. Len(h) :
           /\ LastNode(h, a) \in Reached(h, a) /\ h[LastNode(h, a)].next = 0
           /\ \A b \in Reached(h, a) : h[b].next = 0 => b = LastNode(h, a)
<1>1. Len(h) \in Nat /\ \A a \in 1 .. Len(h) : h[a].next \in 0 .. Len(h)
  BY HeapFacts
<1>2. /\ Nodes(h, 0) = << >>
      /\ \A a \in 1 .. Len(h) : Nodes(h, a) = <<a>> \o Nodes(h, h[a].next)
      /\ \A a \in 0 .. Len(h) : Nodes(h, a) \in Seq(1 .. Len(h))
  BY NodesUnfold
<1> DEFINE Good(a) == /\ LastNode(h, a) \in Reached(h, a) /\ h[LastNode(h, a)].next = 0
                      /\ \A b \in Reached(h, a) : h[b].next = 0 => b = LastNode(h, a)
           T == {a \in 0 .. Len(h) : a = 0 \/ Good(a)}
<1>3. 0 \in T
  BY <1>1
<1>4. ASSUME NEW a \in 1 .. Len(h), h[a].next \in T PROVE a \in T
  <2> DEFINE b == h[a].next
             s == Nodes(h, b)
  <2>1. b \in 0 .. Len(h) /\ s \in Seq(1 .. Len(h)) /\ Nodes(h, a) = <<a>> \o s
    BY <1>1, <1>2
  <2>2. Reached(h, a) = {a} \union Reached(h, b) /\ Reached(h, 0) = {}
    BY ReachedUnfold
  <2>3. CASE b = 0
    <3>1. Nodes(h, a) = <<a>> \o << >>
      BY <1>2, <2>1, <2>3
    <3>2. Len(<<a>> \o << >>) = 1 /\ (<<a>> \o << >>)[1] = a
      OBVIOUS
    <3>3. LastNode(h, a) = a
      BY <3>1, <3>2 DEF LastNode
    <3> QED
      BY <2>2, <2>3, <3>3
  <2>4. CASE b # 0
    <3>1. b \in 1 .. Len(h) /\ Good(b)
      BY <1>4, <2>1, <2>4
    <3>2. s = <<b>> \o Nodes(h, h[b].next) /\ Nodes(h, h[b].next) \in Seq(1 .. Len(h))
      BY <1>1, <1>2, <3>1
    <3> HIDE DEF s
    <3>3. Len(s) \in Nat \ {0}
      BY <1>1, <3>1, <3>2
    <3>4. Len(<<a>> \o s) = Len(s) + 1 /\ (<<a>> \o s)[Len(s) + 1] = s[Len(s)]
      BY <2>1, <3>3
    <3>5. LastNode(h, a) = LastNode(h, b)
      BY <2>1, <3>4 DEF LastNode, s
    <3> QED
      BY <2>2, <3>1, <3>5
  <2> QED
    BY <2>3, <2>4
<1> HIDE DEF T
<1>5. \A a \in 0 .. Len(h) : a \in T
  BY <1>3, <1>4, AlongLists
<1> QED
  <2>1. \A a \in 1 .. Len(h) : a \in 0 .. Len(h) /\ a # 0
    BY <1>1
  <2> QED
    BY <1>5, <2>1 DEF T

-------------------------------------------------------------------------------
\* New lists

\* g is h with the nodes of a new list behind it.
Appends(h, conds, g) ==
  /\ IsSequence(g) /\ Len(g) = Len(h) + Len(conds)
  /\ \A a \in 1 .. Len(h) : g[a] = h[a]
  /\ \A k \in 1 .. Len(conds) :
       g[Len(h) + k] =
         [cond |-> conds[k], next |-> IF k = Len(conds) THEN NULL ELSE Len(h) + k + 1]

\* Where the nodes of a new list are (createConditionNode, one after another).
LEMMA CreatedHeap ==
  ASSUME NEW h, Lists(h), NEW conds, IsSequence(conds)
  PROVE  Appends(h, conds, Create(h, conds))
<1> DEFINE new == [n \in DOMAIN conds |->
              [cond |-> conds[n], next |-> IF n = Len(conds) THEN NULL ELSE Len(h) + n + 1]]
<1>1. Len(conds) \in Nat /\ DOMAIN conds = 1 .. Len(conds)
  BY SequenceFacts
<1>2. /\ new = [n \in 1 .. Len(conds) |-> new[n]]
      /\ \A n \in 1 .. Len(conds) : new[n] =
           [cond |-> conds[n], next |-> IF n = Len(conds) THEN NULL ELSE Len(h) + n + 1]
  BY <1>1
<1>3. Create(h, conds) = h \o new
  BY DEF Create
<1> HIDE DEF new
<1>4. IsSequence(new) /\ Len(new) = Len(conds)
  BY <1>1, <1>2, SequenceMade
<1>5. /\ IsSequence(h \o new) /\ Len(h \o new) = Len(h) + Len(new)
      /\ \A k \in 1 .. Len(h) : (h \o new)[k] = h[k]
      /\ \A k \in 1 .. Len(new) : (h \o new)[Len(h) + k] = new[k]
  <2>1. IsSequence(h)
    BY HeapFacts
  <2> QED
    <3>1. PICK u : u = new
      OBVIOUS
    <3>2. IsSequence(u)
      BY <1>4, <3>1
    <3>3. /\ IsSequence(h \o u) /\ Len(h \o u) = Len(h) + Len(u)
          /\ \A k \in 1 .. Len(h) : (h \o u)[k] = h[k]
          /\ \A k \in 1 .. Len(u) : (h \o u)[Len(h) + k] = u[k]
      BY <2>1, <3>2, Concatenated
    <3> QED
      BY <3>1, <3>3
<1>6. PICK g : g = h \o new
  OBVIOUS
<1>7. Appends(h, conds, g)
  BY <1>2, <1>4, <1>5, <1>6 DEF Appends
<1> QED
  BY <1>3, <1>6, <1>7

\* A new list is a list, and no other one changes.
LEMMA CreatedLists ==
  ASSUME NEW h, Lists(h), NEW conds, IsSequence(conds)
  PROVE  Lists(Create(h, conds))
<1> DEFINE g == Create(h, conds)
           m == Len(h)
           n == Len(conds)
<1>1. /\ IsSequence(g) /\ Len(g) = m + n
      /\ \A a \in 1 .. m : g[a] = h[a]
      /\ \A k \in 1 .. n :
           g[m + k] = [cond |-> conds[k], next |-> IF k = n THEN NULL ELSE m + k + 1]
  <2>1. Appends(h, conds, g)
    BY CreatedHeap
  <2> QED
    BY <2>1 DEF Appends
<1>2. m \in Nat /\ \A a \in 1 .. m : IsNode(h, a) /\ h[a].next \in 0 .. m
  BY HeapFacts
<1>3. n \in Nat
  BY SequenceFacts
<1> HIDE DEF g, m, n
<1>4. ASSUME NEW a \in 1 .. m + n PROVE IsNode(g, a)
  <2>1. CASE a \in 1 .. m
    <3>1. h[a] = [cond |-> h[a].cond, next |-> h[a].next] /\ h[a].next \in 0 .. m
      BY <1>2, <2>1 DEF IsNode
    <3> QED
      BY <1>1, <1>2, <1>3, <2>1, <3>1 DEF IsNode
  <2>2. CASE a \notin 1 .. m
    <3>1. a - m \in 1 .. n /\ m + (a - m) = a
      BY <1>2, <1>3, <2>2
    <3>2. g[a] = [cond |-> conds[a - m], next |-> IF a - m = n THEN NULL ELSE a + 1]
      <4> DEFINE k == a - m
      <4>1. k \in 1 .. n /\ m + k = a
        BY <3>1
      <4> HIDE DEF k
      <4>2. g[m + k] = [cond |-> conds[k], next |-> IF k = n THEN NULL ELSE m + k + 1]
        BY <1>1, <4>1
      <4> QED
        BY <4>1, <4>2 DEF k
    <3>3. (IF a - m = n THEN NULL ELSE a + 1) \in 0 .. m + n
      BY <1>2, <1>3, <3>1 DEF NULL
    <3> QED
      BY <1>1, <3>2, <3>3 DEF IsNode
  <2> QED
    BY <2>1, <2>2
<1>5. IsHeap(g)
  BY <1>1, <1>4 DEF IsHeap
<1>6. PICK bound \in Nat : Lengths(h, bound) # {}
  BY DEF Lists
<1>7. PICK r \in Lengths(h, bound) : TRUE
  BY <1>6
<1>8. /\ r \in [0 .. m -> 0 .. bound] /\ r[0] = 0
      /\ \A a \in 1 .. m : r[a] = 1 + r[h[a].next]
  BY <1>7 DEF Lengths, m
<1> DEFINE q == [a \in 0 .. m + n |-> IF a <= m THEN r[a] ELSE m + n - a + 1]
<1>9. q \in [0 .. m + n -> 0 .. bound + n]
  <2>1. ASSUME NEW a \in 0 .. m + n PROVE (IF a <= m THEN r[a] ELSE m + n - a + 1) \in 0 .. bound + n
    BY <1>2, <1>3, <1>6, <1>8
  <2> QED
    BY <2>1
<1>10. q[0] = 0
  BY <1>2, <1>3, <1>8
<1>11. ASSUME NEW a \in 1 .. m + n PROVE q[a] = 1 + q[g[a].next]
  <2>1. CASE a \in 1 .. m
    <3>1. g[a].next = h[a].next /\ h[a].next \in 0 .. m /\ r[a] = 1 + r[h[a].next]
      BY <1>1, <1>2, <1>8, <2>1
    <3> QED
      BY <1>2, <1>3, <2>1, <3>1
  <2>2. CASE a \notin 1 .. m
    <3> DEFINE k == a - m
    <3>1. k \in 1 .. n /\ a = m + k
      BY <1>2, <1>3, <2>2
    <3> HIDE DEF k
    <3>2. g[a].next = IF k = n THEN 0 ELSE a + 1
      <4>1. g[m + k] = [cond |-> conds[k], next |-> IF k = n THEN NULL ELSE m + k + 1]
        BY <1>1, <3>1, Zenon
      <4> QED
        BY <3>1, <4>1 DEF NULL
    <3>3. CASE k = n
      <4>1. q[a] = 1 /\ g[a].next = 0
        BY <1>2, <1>3, <3>1, <3>2, <3>3
      <4> QED
        BY <1>10, <4>1
    <3>4. CASE k # n
      <4>1. g[a].next = a + 1 /\ a + 1 \in 0 .. m + n /\ ~(a <= m) /\ ~(a + 1 <= m)
        BY <1>2, <1>3, <3>1, <3>2, <3>4
      <4>2. q[a] = m + n - a + 1 /\ q[a + 1] = m + n - (a + 1) + 1
        BY <4>1
      <4> QED
        BY <1>2, <1>3, <4>1, <4>2
    <3> QED
      BY <3>3, <3>4
  <2> QED
    BY <2>1, <2>2
<1> HIDE DEF q
<1>12. q \in Lengths(g, bound + n)
  BY <1>1, <1>9, <1>10, <1>11 DEF Lengths
<1>13. bound + n \in Nat
  BY <1>3, <1>6
<1> QED
  BY <1>5, <1>12, <1>13 DEF Lists, g

\* What the nodes ask for then.
LEMMA CreatedConds ==
  ASSUME NEW h, Lists(h), NEW conds, IsSequence(conds)
  PROVE  /\ Len(Create(h, conds)) = Len(h) + Len(conds)
         /\ \A a \in 1 .. Len(h) : Create(h, conds)[a].cond = h[a].cond
         /\ \A k \in 1 .. Len(conds) : Create(h, conds)[Len(h) + k].cond = conds[k]
<1> DEFINE f == Create(h, conds)
<1>1. /\ Len(f) = Len(h) + Len(conds) /\ \A a \in 1 .. Len(h) : f[a] = h[a]
      /\ \A k \in 1 .. Len(conds) :
           f[Len(h) + k] = [cond |-> conds[k], next |-> IF k = Len(conds) THEN NULL ELSE Len(h) + k + 1]
  <2>1. Appends(h, conds, f)
    BY CreatedHeap
  <2> QED
    BY <2>1 DEF Appends
<1> HIDE DEF f
<1>2. ASSUME NEW k \in 1 .. Len(conds) PROVE f[Len(h) + k].cond = conds[k]
  <2>1. PICK next : next = IF k = Len(conds) THEN NULL ELSE Len(h) + k + 1
    OBVIOUS
  <2>2. f[Len(h) + k] = [cond |-> conds[k], next |-> next]
    BY <1>1, <2>1
  <2> QED
    BY <2>2
<1> QED
  BY <1>1, <1>2 DEF f

\* A new list consists of the new nodes, and the lists there were are the same.
LEMMA CreatedNodes ==
  ASSUME NEW h, Lists(h), NEW conds, IsSequence(conds)
  PROVE  /\ \A a \in 0 .. Len(h) :
              /\ Nodes(Create(h, conds), a) = Nodes(h, a)
              /\ Reached(Create(h, conds), a) = Reached(h, a)
         /\ Fresh(h, conds) \in 0 .. Len(h) + Len(conds)
         /\ Reached(Create(h, conds), Fresh(h, conds)) = Len(h) + 1 .. Len(h) + Len(conds)
<1> DEFINE g == Create(h, conds)
           m == Len(h)
           n == Len(conds)
<1>1. /\ IsSequence(g) /\ Len(g) = m + n
      /\ \A a \in 1 .. m : g[a] = h[a]
      /\ \A k \in 1 .. n :
           g[m + k] = [cond |-> conds[k], next |-> IF k = n THEN NULL ELSE m + k + 1]
  <2>1. Appends(h, conds, g)
    BY CreatedHeap
  <2> QED
    BY <2>1 DEF Appends
<1>2. m \in Nat /\ \A a \in 1 .. m : h[a].next \in 0 .. m
  BY HeapFacts
<1>3. n \in Nat /\ DOMAIN conds = 1 .. n
  BY SequenceFacts
<1>4. Lists(g)
  BY CreatedLists
<1>5. /\ Nodes(h, 0) = << >>
      /\ \A a \in 1 .. m : Nodes(h, a) = <<a>> \o Nodes(h, h[a].next)
  BY NodesUnfold
<1>6. /\ Nodes(g, 0) = << >>
      /\ \A a \in 1 .. m + n : Nodes(g, a) = <<a>> \o Nodes(g, g[a].next)
  BY <1>1, <1>4, NodesUnfold
<1>7. /\ Reached(g, 0) = {}
      /\ \A a \in 1 .. m + n : Reached(g, a) = {a} \union Reached(g, g[a].next)
  BY <1>1, <1>4, ReachedUnfold
<1> HIDE DEF g, m, n
<1>8. ASSUME NEW a \in 0 .. m PROVE Nodes(g, a) = Nodes(h, a)
  <2> DEFINE T == {b \in 0 .. m : Nodes(g, b) = Nodes(h, b)}
  <2>1. 0 \in T
    BY <1>2, <1>5, <1>6
  <2>2. ASSUME NEW b \in 1 .. m, h[b].next \in T PROVE b \in T
    <3>1. g[b] = h[b] /\ b \in 1 .. m + n /\ b \in 0 .. m
      BY <1>1, <1>2, <1>3
    <3> QED
      BY <1>5, <1>6, <2>2, <3>1
  <2> HIDE DEF T
  <2>3. \A b \in 0 .. m : b \in T
    BY <2>1, <2>2, AlongLists DEF m
  <2> QED
    BY <2>3 DEF T
<1>9. \A a \in 0 .. m : Reached(g, a) = Reached(h, a)
  BY <1>8 DEF Reached
<1>10. ASSUME NEW a \in m + 1 .. m + n PROVE Reached(g, a) = a .. m + n
  <2> DEFINE T == {b \in 0 .. m + n : b > m => Reached(g, b) = b .. m + n}
  <2>1. 0 \in T
    BY <1>2, <1>3
  <2>2. ASSUME NEW b \in 1 .. m + n, g[b].next \in T PROVE b \in T
    <3>1. CASE b > m
      <4> DEFINE k == b - m
      <4>1. k \in 1 .. n /\ b = m + k
        BY <1>2, <1>3, <3>1
      <4> HIDE DEF k
      <4>2. g[b].next = IF k = n THEN 0 ELSE b + 1
        <5>1. g[m + k] = [cond |-> conds[k], next |-> IF k = n THEN NULL ELSE m + k + 1]
          BY <1>1, <4>1, Zenon
        <5> QED
          BY <4>1, <5>1 DEF NULL
      <4>3. CASE k = n
        <5>1. Reached(g, b) = {b} /\ b = m + n
          BY <1>7, <4>1, <4>2, <4>3
        <5>2. b .. m + n = {b}
          BY <5>1
        <5> QED
          BY <5>1, <5>2
      <4>4. CASE k # n
        <5>1. Reached(g, b) = {b} \union Reached(g, b + 1)
          BY <1>7, <4>2, <4>4
        <5>2. Reached(g, b + 1) = b + 1 .. m + n
          BY <1>2, <2>2, <3>1, <4>2, <4>4
        <5>3. b .. m + n = {b} \union (b + 1 .. m + n)
          BY <1>2, <1>3
        <5>4. Reached(g, b) = b .. m + n
          BY <5>1, <5>2, <5>3
        <5> QED
          BY <1>2, <1>3, <5>4
      <4> QED
        BY <4>3, <4>4
    <3>2. CASE ~(b > m)
      BY <1>2, <1>3, <3>2
    <3> QED
      BY <3>1, <3>2
  <2> HIDE DEF T
  <2>3. \A b \in 0 .. m + n : b \in T
    BY <1>1, <1>4, <2>1, <2>2, AlongLists
  <2>4. a \in T /\ a > m
    BY <1>2, <1>3, <2>3
  <2> QED
    BY <2>4 DEF T
<1>11. CASE conds = << >>
  <2>1. n = 0 /\ Fresh(h, conds) = 0
    BY <1>3, <1>11 DEF Fresh, NULL, n
  <2>2. m + 1 .. m + n = {}
    BY <1>2, <2>1
  <2>3. Fresh(h, conds) \in 0 .. m + n
    BY <1>2, <1>3, <2>1
  <2>4. Reached(g, Fresh(h, conds)) = m + 1 .. m + n
    BY <1>7, <2>1, <2>2
  <2> QED
    BY <1>8, <1>9, <2>3, <2>4 DEF g, m, n
<1>12. CASE conds # << >>
  <2>1. n # 0
    <3>1. n = 0 => conds = << >>
      BY <1>3 DEF IsSequence
    <3> QED
      BY <1>12, <3>1
  <2>2. Fresh(h, conds) = m + 1 /\ m + 1 \in m + 1 .. m + n
    BY <1>2, <1>3, <1>12, <2>1 DEF Fresh, m
  <2>3. Reached(g, m + 1) = m + 1 .. m + n
    BY <1>10, <2>2
  <2>4. m + 1 \in 0 .. m + n
    BY <1>2, <1>3, <2>1
  <2> QED
    BY <1>8, <1>9, <2>2, <2>3, <2>4 DEF g, m, n
<1> QED
  BY <1>11, <1>12

-------------------------------------------------------------------------------
\* One list behind another

Hung(h, z, cond) == [h EXCEPT ![z].next = cond]

\* The nodes of h have the same conditions in g.
SameConds(h, g) == \A a \in 1 .. Len(h) : g[a].cond = h[a].cond

\* Hanging a list behind the node z changes one field of one node.
LEMMA HungHeap ==
  ASSUME NEW h, Lists(h), NEW z \in 1 .. Len(h), NEW cond \in 0 .. Len(h)
  PROVE  /\ IsHeap(Hung(h, z, cond)) /\ Len(Hung(h, z, cond)) = Len(h)
         /\ \A a \in 1 .. Len(h) :
              /\ Hung(h, z, cond)[a].cond = h[a].cond
              /\ Hung(h, z, cond)[a].next = IF a = z THEN cond ELSE h[a].next
<1> DEFINE g == Hung(h, z, cond)
           m == Len(h)
<1>1. /\ m \in Nat /\ DOMAIN h = 1 .. m /\ IsSequence(h)
      /\ \A a \in 1 .. m : IsNode(h, a) /\ h[a].next \in 0 .. m
  BY HeapFacts
<1>2. g = [a \in 1 .. m |-> IF a = z THEN [h[a] EXCEPT !.next = cond] ELSE h[a]]
  BY <1>1 DEF Hung
<1> HIDE DEF g, m
<1>3. g = [a \in 1 .. m |-> g[a]]
  BY <1>2
<1>4. IsSequence(g) /\ Len(g) = m
  BY <1>1, <1>3, SequenceMade
<1>5. ASSUME NEW a \in 1 .. m
      PROVE  /\ g[a] = [cond |-> h[a].cond, next |-> IF a = z THEN cond ELSE h[a].next]
             /\ g[a].next \in 0 .. m
  <2>1. h[a] = [cond |-> h[a].cond, next |-> h[a].next] /\ h[a].next \in 0 .. m
    BY <1>1 DEF IsNode
  <2>2. CASE a = z
    <3>1. g[a] = [h[a] EXCEPT !.next = cond]
      BY <1>2, <2>2
    <3>2. g[a] = [cond |-> h[a].cond, next |-> cond]
      BY <2>1, <3>1
    <3> QED
      BY <2>2, <3>2 DEF m
  <2>3. CASE a # z
    <3>1. g[a] = h[a]
      BY <1>2, <2>3
    <3> QED
      BY <2>1, <2>3, <3>1
  <2> QED
    BY <2>2, <2>3
<1>6. \A a \in 1 .. m : IsNode(g, a)
  <2> SUFFICES ASSUME NEW a \in 1 .. m PROVE IsNode(g, a)
    OBVIOUS
  <2>1. g[a] = [cond |-> h[a].cond, next |-> IF a = z THEN cond ELSE h[a].next]
    BY <1>5
  <2>2. g[a] = [cond |-> g[a].cond, next |-> g[a].next]
    BY <2>1
  <2> QED
    BY <1>4, <1>5, <2>2 DEF IsNode
<1> QED
  <2>1. IsHeap(g) /\ Len(g) = m
    BY <1>4, <1>6 DEF IsHeap
  <2>2. \A a \in 1 .. m : g[a].cond = h[a].cond /\ g[a].next = IF a = z THEN cond ELSE h[a].next
    <3> SUFFICES ASSUME NEW a \in 1 .. m
                 PROVE g[a].cond = h[a].cond /\ g[a].next = IF a = z THEN cond ELSE h[a].next
      OBVIOUS
    <3>1. g[a] = [cond |-> h[a].cond, next |-> IF a = z THEN cond ELSE h[a].next]
      BY <1>5
    <3> QED
      BY <3>1
  <2> QED
    BY <2>1, <2>2 DEF g, m

\* Lists still end, if z is the last node of its own and not in the one hung there.
LEMMA HungLists ==
  ASSUME NEW h, Lists(h), NEW z \in 1 .. Len(h), NEW cond \in 0 .. Len(h),
         h[z].next = 0, z \notin Reached(h, cond)
  PROVE  Lists(Hung(h, z, cond))
<1> DEFINE g == Hung(h, z, cond)
           m == Len(h)
<1>1. m \in Nat /\ \A a \in 1 .. m : h[a].next \in 0 .. m
  BY HeapFacts
<1>2. /\ IsHeap(g) /\ Len(g) = m
      /\ \A a \in 1 .. m : g[a].next = IF a = z THEN cond ELSE h[a].next
  BY HungHeap
<1>3. PICK bound \in Nat : Lengths(h, bound) # {}
  BY DEF Lists
<1>4. PICK r \in Lengths(h, bound) : TRUE
  BY <1>3
<1>5. /\ r \in [0 .. m -> 0 .. bound] /\ r[0] = 0
      /\ \A a \in 1 .. m : r[a] = 1 + r[h[a].next]
  BY <1>4 DEF Lengths
<1>6. /\ Reached(h, 0) = {}
      /\ \A a \in 1 .. m : Reached(h, a) = {a} \union Reached(h, h[a].next)
  BY ReachedUnfold
<1> DEFINE behind(a) == IF z \in Reached(h, a) THEN r[cond] ELSE 0
           q == [a \in 0 .. m |-> r[a] + behind(a)]
<1> HIDE DEF g
<1>7. ASSUME NEW a \in 0 .. m PROVE r[a] + behind(a) \in 0 .. bound + bound /\ behind(a) \in Nat
  <2>1. r[a] \in 0 .. bound /\ behind(a) \in 0 .. bound
    BY <1>3, <1>5
  <2> HIDE DEF behind
  <2> QED
    BY <1>3, <2>1
<1>8. q \in [0 .. m -> 0 .. bound + bound]
  <2> HIDE DEF behind
  <2> QED
    BY <1>7
<1>9. q[0] = 0
  BY <1>1, <1>5, <1>6
<1>10. ASSUME NEW a \in 1 .. m PROVE q[a] = 1 + q[g[a].next]
  <2>1. a \in 0 .. m /\ h[a].next \in 0 .. m /\ r[a] = 1 + r[h[a].next]
    BY <1>1, <1>5
  <2>2. CASE a = z
    <3>1. r[a] = 1 /\ behind(a) = r[cond] /\ behind(cond) = 0
      BY <1>5, <1>6, <2>1, <2>2
    <3>2. g[a].next = cond
      BY <1>2, <2>2
    <3>3. r[cond] \in Nat
      BY <1>5
    <3> HIDE DEF behind
    <3> QED
      BY <2>1, <3>1, <3>2, <3>3
  <2>3. CASE a # z
    <3>1. g[a].next = h[a].next
      BY <1>2, <2>3
    <3>2. behind(a) = behind(h[a].next)
      BY <1>6, <2>3
    <3> HIDE DEF behind
    <3>3. r[h[a].next] \in Nat /\ behind(a) \in Nat
      BY <1>5, <1>7, <2>1
    <3>4. q[a] = r[a] + behind(a) /\ q[h[a].next] = r[h[a].next] + behind(h[a].next)
      BY <2>1
    <3> HIDE DEF q
    <3> QED
      BY <2>1, <3>1, <3>2, <3>3, <3>4
  <2> QED
    BY <2>2, <2>3
<1> HIDE DEF q
<1>11. q \in Lengths(g, bound + bound)
  BY <1>2, <1>8, <1>9, <1>10 DEF Lengths
<1>12. bound + bound \in Nat
  BY <1>3
<1> QED
  BY <1>2, <1>11, <1>12 DEF Lists, g

\* Every list that ended in z goes on with the one at cond, and no other one changes.
LEMMA HungReached ==
  ASSUME NEW h, Lists(h), NEW z \in 1 .. Len(h), NEW cond \in 0 .. Len(h),
         h[z].next = 0, z \notin Reached(h, cond)
  PROVE  \A a \in 0 .. Len(h) :
           Reached(Hung(h, z, cond), a) =
             Reached(h, a) \union IF z \in Reached(h, a) THEN Reached(h, cond) ELSE {}
<1> DEFINE g == Hung(h, z, cond)
           m == Len(h)
           Then(a) == Reached(h, a) \union IF z \in Reached(h, a) THEN Reached(h, cond) ELSE {}
<1>1. m \in Nat /\ \A a \in 1 .. m : h[a].next \in 0 .. m
  BY HeapFacts
<1>2. /\ Lists(g) /\ Len(g) = m
      /\ \A a \in 1 .. m : g[a].next = IF a = z THEN cond ELSE h[a].next
  BY HungHeap, HungLists
<1>3. /\ Reached(h, 0) = {}
      /\ \A a \in 1 .. m : Reached(h, a) = {a} \union Reached(h, h[a].next)
  BY ReachedUnfold
<1>4. /\ Reached(g, 0) = {}
      /\ \A a \in 1 .. m : Reached(g, a) = {a} \union Reached(g, g[a].next)
  BY <1>2, ReachedUnfold
<1> HIDE DEF g
<1> DEFINE T == {a \in 0 .. m : Reached(g, a) = Then(a)}
<1>5. 0 \in T
  BY <1>1, <1>3, <1>4
<1>6. ASSUME NEW a \in 1 .. m, g[a].next \in T PROVE a \in T
  <2>1. Reached(g, a) = {a} \union Then(g[a].next) /\ a \in 0 .. m
    BY <1>1, <1>4, <1>6
  <2>2. CASE a = z
    <3>1. g[a].next = cond /\ Then(cond) = Reached(h, cond) /\ Reached(h, a) = {a}
      BY <1>2, <1>3, <2>2
    <3> QED
      BY <2>1, <2>2, <3>1
  <2>3. CASE a # z
    <3>1. g[a].next = h[a].next /\ Reached(h, a) = {a} \union Reached(h, h[a].next)
      BY <1>2, <1>3, <2>3
    <3>2. Then(a) = {a} \union Then(h[a].next)
      BY <2>3, <3>1
    <3> QED
      BY <2>1, <3>1, <3>2
  <2> QED
    BY <2>2, <2>3
<1> HIDE DEF T
<1>7. \A a \in 0 .. m : a \in T
  BY <1>2, <1>5, <1>6, AlongLists
<1> QED
  BY <1>7 DEF T, g

\* addConditionToList, when what is hung behind the list is not part of it.
LEMMA LinkedReached ==
  ASSUME NEW h, Lists(h), NEW root \in 1 .. Len(h), NEW cond \in 0 .. Len(h),
         LastNode(h, root) \notin Reached(h, cond), cond \notin Reached(h, root)
  PROVE  /\ Lists(Link(h, root, cond)) /\ Len(Link(h, root, cond)) = Len(h)
         /\ SameConds(h, Link(h, root, cond))
         /\ \A a \in 0 .. Len(h) :
              Reached(Link(h, root, cond), a) =
                Reached(h, a) \union IF LastNode(h, root) \in Reached(h, a) THEN Reached(h, cond) ELSE {}
<1> DEFINE z == LastNode(h, root)
           g == Link(h, root, cond)
<1>1. Len(h) \in Nat /\ root \in 0 .. Len(h)
  BY HeapFacts
<1>2. z \in Reached(h, root) /\ h[z].next = 0 /\ z \in 1 .. Len(h)
  BY <1>1, LastOfList, ReachedUnfold
<1> HIDE DEF z
<1>3. g = Hung(h, z, cond)
  BY DEF Link, Hung, NULL, z
<1> HIDE DEF g
<1>4. /\ Lists(Hung(h, z, cond)) /\ Len(Hung(h, z, cond)) = Len(h)
      /\ SameConds(h, Hung(h, z, cond))
  <2>1. cond \in 0 .. Len(h) /\ z \notin Reached(h, cond)
    BY DEF z
  <2>2. Lists(Hung(h, z, cond))
    BY <1>2, <2>1, HungLists
  <2>3. Len(Hung(h, z, cond)) = Len(h) /\ SameConds(h, Hung(h, z, cond))
    BY <1>2, <2>1, HungHeap DEF SameConds
  <2> QED
    BY <2>2, <2>3
<1>5. \A a \in 0 .. Len(h) :
        Reached(Hung(h, z, cond), a) =
          Reached(h, a) \union IF z \in Reached(h, a) THEN Reached(h, cond) ELSE {}
  BY <1>2, HungReached DEF z
<1> QED
  BY <1>3, <1>4, <1>5 DEF g, z

-------------------------------------------------------------------------------
\* What a sequence of resets does to a variable

Says(s, n, x) == s[n][1] = x

\* Either nothing is said of x, or the last thing said of it counts.
LEMMA LastResetWhere ==
  ASSUME NEW s, IsSequence(s), NEW x
  PROVE  \/ LastReset(s, x) = None /\ \A n \in DOMAIN s : ~Says(s, n, x)
         \/ \E n \in DOMAIN s :
              Says(s, n, x) /\ LastReset(s, x) = s[n][2] /\ \A m \in DOMAIN s : Says(s, m, x) => m <= n
<1> DEFINE hits == {n \in DOMAIN s : s[n][1] = x}
<1>1. LastReset(s, x) = IF hits = {} THEN None ELSE s[CHOOSE n \in hits : \A m \in hits : m <= n][2]
  BY DEF LastReset
<1>2. CASE hits = {}
  BY <1>1, <1>2 DEF Says
<1>3. CASE hits # {}
  <2>1. Len(s) \in Nat /\ hits \in SUBSET (1 .. Len(s))
    BY SequenceFacts
  <2>2. \E n \in hits : \A m \in hits : m <= n
    <3> HIDE DEF hits
    <3> QED
      BY <1>3, <2>1, GreatestOfNats
  <2> DEFINE n == CHOOSE k \in hits : \A m \in hits : m <= k
  <2>3. n \in hits /\ \A m \in hits : m <= n
    BY <2>2
  <2>4. LastReset(s, x) = s[n][2]
    BY <1>1, <1>3
  <2> HIDE DEF n
  <2> QED
    BY <2>3, <2>4 DEF Says
<1> QED
  BY <1>2, <1>3

\* The last reset of x is the one at n if none follows.
LEMMA LastResetAt ==
  ASSUME NEW s, IsSequence(s), NEW x, NEW n \in DOMAIN s, Says(s, n, x),
         \A m \in DOMAIN s : Says(s, m, x) => m <= n
  PROVE  LastReset(s, x) = s[n][2]
<1>1. PICK k \in DOMAIN s :
        Says(s, k, x) /\ LastReset(s, x) = s[k][2] /\ \A m \in DOMAIN s : Says(s, m, x) => m <= k
  BY LastResetWhere
<1>2. k \in Nat /\ n \in Nat /\ DOMAIN s = 1 .. Len(s) /\ Len(s) \in Nat
  BY SequenceFacts
<1>3. k = n
  BY <1>1, <1>2
<1> QED
  BY <1>1, <1>3

\* A variable nothing is said of.
LEMMA NeverReset ==
  ASSUME NEW s, NEW x, \A n \in DOMAIN s : ~Says(s, n, x)
  PROVE  LastReset(s, x) = None
BY DEF LastReset, Says

\* Two sequences that agree wherever one of them resets x.
LEMMA SameLastReset ==
  ASSUME NEW s, IsSequence(s), NEW r, IsSequence(r), NEW x, DOMAIN r = DOMAIN s,
         \A n \in DOMAIN s : Says(r, n, x) <=> Says(s, n, x),
         \A n \in DOMAIN s : Says(s, n, x) => r[n][2] = s[n][2]
  PROVE  LastReset(r, x) = LastReset(s, x)
<1>1. CASE \A n \in DOMAIN s : ~Says(s, n, x)
  BY <1>1, NeverReset
<1>2. CASE \E n \in DOMAIN s : Says(s, n, x)
  <2>1. PICK n \in DOMAIN s :
          Says(s, n, x) /\ LastReset(s, x) = s[n][2] /\ \A m \in DOMAIN s : Says(s, m, x) => m <= n
    BY <1>2, LastResetWhere
  <2>2. LastReset(r, x) = r[n][2]
    BY <2>1, LastResetAt
  <2> QED
    BY <2>1, <2>2
<1> QED
  BY <1>1, <1>2

\* One sequence behind the other.
LEMMA LastResetJoined ==
  ASSUME NEW s, IsSequence(s), NEW r, IsSequence(r), NEW x
  PROVE  /\ IsSequence(s \o r)
         /\ (\A n \in DOMAIN r : ~Says(r, n, x)) => LastReset(s \o r, x) = LastReset(s, x)
         /\ (\E n \in DOMAIN r : Says(r, n, x)) => LastReset(s \o r, x) = LastReset(r, x)
<1> DEFINE u == s \o r
<1>1. /\ IsSequence(u) /\ Len(u) = Len(s) + Len(r)
      /\ \A k \in 1 .. Len(s) : u[k] = s[k]
      /\ \A k \in 1 .. Len(r) : u[Len(s) + k] = r[k]
  BY Concatenated
<1>2. /\ Len(s) \in Nat /\ DOMAIN s = 1 .. Len(s) /\ Len(r) \in Nat /\ DOMAIN r = 1 .. Len(r)
      /\ DOMAIN u = 1 .. Len(u)
  BY <1>1, SequenceFacts
<1> HIDE DEF u
<1>3. \A n \in DOMAIN s : n \in DOMAIN u /\ (Says(u, n, x) <=> Says(s, n, x)) /\ u[n] = s[n]
  BY <1>1, <1>2 DEF Says
<1>4. \A n \in DOMAIN r :
        /\ Len(s) + n \in DOMAIN u /\ (Says(u, Len(s) + n, x) <=> Says(r, n, x))
        /\ u[Len(s) + n] = r[n]
  BY <1>1, <1>2 DEF Says
<1>5. \A m \in DOMAIN u : m \in DOMAIN s \/ (m > Len(s) /\ m - Len(s) \in DOMAIN r /\ m = Len(s) + (m - Len(s)))
  BY <1>1, <1>2
<1>6. ASSUME \A n \in DOMAIN r : ~Says(r, n, x) PROVE LastReset(u, x) = LastReset(s, x)
  <2>1. CASE \A n \in DOMAIN s : ~Says(s, n, x)
    <3>1. \A n \in DOMAIN u : ~Says(u, n, x)
      BY <1>3, <1>4, <1>5, <1>6, <2>1
    <3> QED
      BY <2>1, <3>1, NeverReset
  <2>2. CASE \E n \in DOMAIN s : Says(s, n, x)
    <3>1. PICK n \in DOMAIN s :
            Says(s, n, x) /\ LastReset(s, x) = s[n][2] /\ \A m \in DOMAIN s : Says(s, m, x) => m <= n
      BY <2>2, LastResetWhere
    <3>2. \A m \in DOMAIN u : Says(u, m, x) => m <= n
      BY <1>3, <1>4, <1>5, <1>6, <3>1
    <3>3. LastReset(u, x) = u[n][2]
      <4>1. IsSequence(u) /\ n \in DOMAIN u /\ Says(u, n, x)
        BY <1>1, <1>3, <3>1
      <4> QED
        BY <3>2, <4>1, LastResetAt
    <3> QED
      BY <1>3, <3>1, <3>3
  <2> QED
    BY <2>1, <2>2
<1>7. ASSUME \E n \in DOMAIN r : Says(r, n, x) PROVE LastReset(u, x) = LastReset(r, x)
  <2>1. PICK n \in DOMAIN r :
          Says(r, n, x) /\ LastReset(r, x) = r[n][2] /\ \A m \in DOMAIN r : Says(r, m, x) => m <= n
    BY <1>7, LastResetWhere
  <2>2. ASSUME NEW m \in DOMAIN u, Says(u, m, x) PROVE m <= Len(s) + n
    <3>1. CASE m \in DOMAIN s
      BY <1>2, <3>1
    <3>2. CASE m \notin DOMAIN s
      <4>1. m - Len(s) \in DOMAIN r /\ m = Len(s) + (m - Len(s))
        BY <1>5, <3>2
      <4>2. Says(r, m - Len(s), x)
        BY <1>4, <2>2, <4>1
      <4>3. m - Len(s) <= n
        BY <2>1, <4>1, <4>2
      <4> QED
        BY <1>1, <1>2, <4>3
    <3> QED
      BY <3>1, <3>2
  <2>3. Len(s) + n \in DOMAIN u /\ Says(u, Len(s) + n, x) /\ u[Len(s) + n] = r[n]
    BY <1>4, <2>1
  <2>4. LastReset(u, x) = u[Len(s) + n][2]
    BY <1>1, <2>2, <2>3, LastResetAt
  <2> QED
    BY <2>1, <2>3, <2>4
<1> QED
  BY <1>1, <1>6, <1>7 DEF u

\* The sequence of one reset.
LEMMA LastResetSingle ==
  ASSUME NEW x, NEW v
  PROVE  IsSequence(<<<<x, v>>>>) /\ LastReset(<<<<x, v>>>>, x) = v /\ Says(<<<<x, v>>>>, 1, x)
         /\ \A y : y # x => LastReset(<<<<x, v>>>>, y) = None
<1> DEFINE p == <<x, v>>
           s == <<p>>
<1>1. s[1] = p /\ DOMAIN s = {1} /\ IsSequence(s)
  BY ShortSequences
<1>2. p[1] = x /\ p[2] = v
  OBVIOUS
<1> HIDE DEF s, p
<1>3. Says(s, 1, x) /\ \A m \in DOMAIN s : m <= 1
  BY <1>1, <1>2 DEF Says
<1>4. LastReset(s, x) = v
  BY <1>1, <1>2, <1>3, LastResetAt
<1>5. ASSUME NEW y, y # x PROVE LastReset(s, y) = None
  <2>1. \A n \in DOMAIN s : ~Says(s, n, y)
    BY <1>1, <1>2, <1>5 DEF Says
  <2> QED
    BY <2>1, NeverReset
<1> QED
  BY <1>1, <1>3, <1>4, <1>5 DEF s, p

AgreeElsewhere(r, s, x) == \A y : y # x => LastReset(r, y) = LastReset(s, y)

\* A reset at the end counts for its variable and changes nothing for the others.
LEMMA LastResetAppended ==
  ASSUME NEW s, IsSequence(s), NEW x, NEW v, NEW p, p = <<x, v>>
  PROVE  /\ IsSequence(Append(s, p)) /\ LastReset(Append(s, p), x) = v
         /\ AgreeElsewhere(Append(s, p), s, x)
<1>1. /\ IsSequence(<<p>>) /\ LastReset(<<p>>, x) = v /\ Says(<<p>>, 1, x)
      /\ \A n \in DOMAIN <<p>> : n = 1 /\ 1 \in DOMAIN <<p>>
  BY LastResetSingle
<1>2. Append(s, p) = s \o <<p>>
  <2>1. PICK S : s \in Seq(S)
    BY DEF IsSequence
  <2>2. s \in Seq(S \union {p}) /\ p \in S \union {p}
    BY <2>1
  <2> QED
    BY <2>2, AppendIsConcat
<1>3. IsSequence(s \o <<p>>) /\ LastReset(s \o <<p>>, x) = v
  BY <1>1, LastResetJoined
<1>4. ASSUME NEW y, y # x PROVE LastReset(s \o <<p>>, y) = LastReset(s, y)
  <2>1. \A n \in DOMAIN <<p>> : ~Says(<<p>>, n, y)
    BY <1>1, <1>4 DEF Says
  <2> QED
    BY <1>1, <2>1, LastResetJoined
<1> QED
  BY <1>2, <1>3, <1>4 DEF AgreeElsewhere

\* Another variable is stored by the transition: what it does to x stays.
LEMMA ResetElsewhere ==
  ASSUME NEW s, IsSequence(s), NEW x, NEW y, x # y, NEW v
  PROVE  IsSequence(Reset(s, y, v)) /\ LastReset(Reset(s, y, v), x) = LastReset(s, x)
<1> DEFINE hits == {n \in DOMAIN s : s[n][1] = y}
           first == CHOOSE n \in hits : \A m \in hits : n <= m
           p == <<y, v>>
           r == [s EXCEPT ![first] = p]
<1>1. Reset(s, y, v) = IF hits = {} THEN s ELSE r
  BY DEF Reset
<1>2. CASE hits = {}
  BY <1>1, <1>2
<1>3. CASE hits # {}
  <2>1. Len(s) \in Nat /\ DOMAIN s = 1 .. Len(s) /\ hits \in SUBSET Nat /\ hits # {}
    BY <1>3, SequenceFacts
  <2>2. \E n \in hits : \A m \in hits : n <= m
    <3> HIDE DEF hits
    <3> QED
      BY <2>1, LeastOfNats
  <2>3. first \in hits
    BY <2>2
  <2>4. p[1] = y
    OBVIOUS
  <2> HIDE DEF first, p
  <2>5. first \in DOMAIN s /\ s[first][1] = y
    BY <2>3
  <2>6. s = [n \in 1 .. Len(s) |-> s[n]]
    BY SequenceIsFunction DEF IsSequence
  <2>7. r = [n \in 1 .. Len(s) |-> r[n]]
    BY <2>1, <2>6
  <2>8. IsSequence(r) /\ Len(r) = Len(s)
    BY <2>1, <2>7, SequenceMade
  <2>9. DOMAIN r = DOMAIN s /\ \A n \in DOMAIN s : r[n] = IF n = first THEN p ELSE s[n]
    BY <2>6
  <2> HIDE DEF r, hits
  <2>10. \A n \in DOMAIN s : (Says(r, n, x) <=> Says(s, n, x)) /\ (Says(s, n, x) => r[n][2] = s[n][2])
    BY <2>4, <2>5, <2>9 DEF Says
  <2>11. LastReset(r, x) = LastReset(s, x)
    BY <2>8, <2>9, <2>10, SameLastReset
  <2> QED
    BY <1>1, <1>3, <2>8, <2>11
<1> QED
  BY <1>2, <1>3

\* Entering FINAL sets the times to 0 and leaves every other variable alone.
LEMMA ZeroedElsewhere ==
  ASSUME NEW s, IsSequence(s), NEW x, x \notin TimeLike \union {"time"}
  PROVE  IsSequence(TimeToZero(s)) /\ LastReset(TimeToZero(s), x) = LastReset(s, x)
<1> DEFINE r == TimeToZero(s)
<1>1. Len(s) \in Nat /\ DOMAIN s = 1 .. Len(s)
  BY SequenceFacts
<1>2. /\ DOMAIN r = DOMAIN s
      /\ \A n \in DOMAIN s :
           r[n] = IF s[n][1] \in TimeLike \union {"time"} THEN <<s[n][1], Number(0)>> ELSE s[n]
  BY DEF TimeToZero
<1>3. r = [n \in 1 .. Len(s) |-> r[n]]
  BY <1>1 DEF TimeToZero
<1> HIDE DEF r
<1>4. IsSequence(r)
  BY <1>1, <1>3, SequenceMade
<1>5. ASSUME NEW n \in DOMAIN s
      PROVE  (Says(r, n, x) <=> Says(s, n, x)) /\ (Says(s, n, x) => r[n][2] = s[n][2])
  <2>1. CASE s[n][1] \in TimeLike \union {"time"}
    <3>1. PICK name, p : name = s[n][1] /\ p = <<name, Number(0)>>
      OBVIOUS
    <3>2. p[1] = name /\ r[n] = p
      BY <1>2, <2>1, <3>1
    <3> QED
      BY <2>1, <3>1, <3>2 DEF Says
  <2>2. CASE ~(s[n][1] \in TimeLike \union {"time"})
    BY <1>2, <2>2 DEF Says
  <2> QED
    BY <2>1, <2>2
<1>6. LastReset(r, x) = LastReset(s, x)
  BY <1>2, <1>4, <1>5, SameLastReset
<1> QED
  BY <1>4, <1>6 DEF r

\* The identities that a transition of the model has for its variables.
LEMMA IdentitiesRead ==
  ASSUME NEW xs, IsSequence(xs)
  PROVE  /\ IsSequence(Identities(xs)) /\ DOMAIN Identities(xs) = DOMAIN xs
         /\ \A n \in DOMAIN xs : Identities(xs)[n] = <<xs[n], Of(xs[n])>>
<1> DEFINE r == Identities(xs)
<1>1. Len(xs) \in Nat /\ DOMAIN xs = 1 .. Len(xs)
  BY SequenceFacts
<1>2. DOMAIN r = DOMAIN xs /\ \A n \in DOMAIN xs : r[n] = <<xs[n], Of(xs[n])>>
  BY DEF Identities
<1>3. r = [n \in 1 .. Len(xs) |-> r[n]]
  BY <1>1 DEF Identities
<1> HIDE DEF r
<1>4. IsSequence(r)
  BY <1>1, <1>3, SequenceMade
<1> QED
  BY <1>2, <1>4 DEF r

\* One variable more is one identity more.
LEMMA IdentitiesAppended ==
  ASSUME NEW xs, IsSequence(xs), NEW x, NEW p, p = <<x, Of(x)>>
  PROVE  Identities(Append(xs, x)) = Append(Identities(xs), p)
<1>1. PICK ys, r, s, t : ys = Append(xs, x) /\ r = Identities(xs) /\ s = Identities(ys) /\ t = Append(r, p)
  OBVIOUS
<1>2. /\ IsSequence(ys) /\ Len(ys) = Len(xs) + 1 /\ ys[Len(xs) + 1] = x
      /\ \A k \in 1 .. Len(xs) : ys[k] = xs[k]
  BY <1>1, Appended
<1>3. IsSequence(r) /\ DOMAIN r = DOMAIN xs /\ \A n \in DOMAIN xs : r[n] = <<xs[n], Of(xs[n])>>
  BY <1>1, IdentitiesRead
<1>4. IsSequence(s) /\ DOMAIN s = DOMAIN ys /\ \A n \in DOMAIN ys : s[n] = <<ys[n], Of(ys[n])>>
  BY <1>1, <1>2, IdentitiesRead
<1>5. /\ IsSequence(t) /\ Len(t) = Len(r) + 1 /\ t[Len(r) + 1] = p
      /\ \A k \in 1 .. Len(r) : t[k] = r[k]
  BY <1>1, <1>3, Appended
<1>6. /\ Len(xs) \in Nat /\ DOMAIN xs = 1 .. Len(xs) /\ DOMAIN ys = 1 .. Len(ys)
      /\ DOMAIN r = 1 .. Len(r) /\ Len(r) \in Nat /\ DOMAIN s = 1 .. Len(s) /\ Len(s) \in Nat
  BY <1>2, <1>3, <1>4, SequenceFacts
<1>7. Len(r) = Len(xs) /\ Len(s) = Len(xs) + 1
  BY <1>2, <1>3, <1>4, <1>6
<1>8. ASSUME NEW k \in 1 .. Len(s) PROVE s[k] = t[k]
  <2>1. s[k] = <<ys[k], Of(ys[k])>>
    BY <1>4, <1>6
  <2>2. CASE k \in 1 .. Len(xs)
    <3>1. t[k] = <<xs[k], Of(xs[k])>> /\ ys[k] = xs[k]
      BY <1>2, <1>3, <1>5, <1>6, <1>7, <2>2
    <3> QED
      BY <2>1, <3>1
  <2>3. CASE k = Len(xs) + 1
    BY <1>2, <1>5, <1>7, <2>1, <2>3
  <2> QED
    BY <1>6, <1>7, <2>2, <2>3
<1>9. s = t
  BY <1>4, <1>5, <1>7, <1>8, SameSequence
<1> QED
  BY <1>1, <1>9

\* A variable is kept by an identity or not said anything of.
LEMMA IdentitiesKeep ==
  ASSUME NEW xs, IsSequence(xs), NEW x
  PROVE  LastReset(Identities(xs), x) \in {None, Of(x)}
<1> DEFINE r == Identities(xs)
<1>1. /\ IsSequence(r) /\ DOMAIN r = DOMAIN xs
      /\ \A n \in DOMAIN xs : r[n] = <<xs[n], Of(xs[n])>>
  BY IdentitiesRead
<1> HIDE DEF r
<1>2. ASSUME NEW n \in DOMAIN r, Says(r, n, x) PROVE r[n][2] = Of(x)
  <2>1. PICK p, y, v : p = r[n] /\ y = xs[n] /\ v = Of(y) /\ p = <<y, v>>
    BY <1>1
  <2>2. p[1] = y /\ p[2] = v
    BY <2>1
  <2> QED
    BY <1>2, <2>1, <2>2 DEF Says
<1>3. LastReset(r, x) \in {None, Of(x)}
  BY <1>1, <1>2, LastResetWhere
<1> QED
  BY <1>3 DEF r

\* The identities of a self-loop one after another make a function.
AreKept(f, xs, n) ==
  f = [k \in 0 .. n |->
         IF k = 0 THEN << >>
         ELSE IF xs[k] \in {"level", "time"} THEN f[k - 1]
         ELSE Append(f[k - 1], <<xs[k], Of(xs[k])>>)]

\* There is such a function, for any number of variables.
LEMMA KeptUnfold ==
  ASSUME NEW xs, NEW n \in Nat
  PROVE  \E f : AreKept(f, xs, n)
<1> DEFINE Is(m, f) == AreKept(f, xs, m)
           T == {m \in 0 .. n : \E f : Is(m, f)}
           Further(s, k) == IF xs[k] \in {"level", "time"} THEN s ELSE Append(s, <<xs[k], Of(xs[k])>>)
<1>1. 0 \in T
  <2>1. Is(0, [k \in 0 .. 0 |-> << >>])
    BY DEF AreKept
  <2> HIDE DEF Is
  <2> QED
    BY <2>1
<1>2. ASSUME NEW m \in 1 .. n, m - 1 \in T PROVE m \in T
  <2>1. PICK f : Is(m - 1, f)
    BY <1>2
  <2> DEFINE g == [k \in 0 .. m |-> IF k = m THEN Further(f[m - 1], m) ELSE f[k]]
  <2>2. ASSUME NEW k \in 0 .. m
        PROVE  g[k] = IF k = 0 THEN << >> ELSE Further(g[k - 1], k)
    <3>1. CASE k = 0
      <4>1. f[0] = << >>
        BY <2>1 DEF AreKept
      <4> HIDE DEF Further
      <4> QED
        BY <3>1, <4>1
    <3>2. CASE k = m
      <4> HIDE DEF Further
      <4>1. g[k - 1] = f[m - 1]
        BY <3>2
      <4> QED
        BY <3>2, <4>1
    <3>3. CASE k # 0 /\ k # m
      <4>0. k \in 0 .. m - 1
        BY <3>3
      <4>1. f[k] = Further(f[k - 1], k)
        BY <2>1, <3>3, <4>0 DEF AreKept
      <4> HIDE DEF Further
      <4>2. k \in 0 .. m - 1 /\ g[k] = f[k] /\ g[k - 1] = f[k - 1]
        BY <3>3
      <4> QED
        BY <3>3, <4>1, <4>2
    <3> QED
      BY <3>1, <3>2, <3>3
  <2>3. Is(m, g)
    <3>1. g = [k \in 0 .. m |-> g[k]]
      OBVIOUS
    <3> HIDE DEF g
    <3> QED
      BY <2>2, <3>1 DEF AreKept
  <2> HIDE DEF g, Is
  <2> QED
    BY <2>3
<1> HIDE DEF T
<1>3. \A m \in 0 .. n : m \in T
  BY <1>1, <1>2, Upwards
<1>4. n \in T
  BY <1>3
<1> QED
  BY <1>4 DEF T

\* The identities of a self-loop never speak of level.
LEMMA LoopKeeps ==
  ASSUME NEW xs, IsSequence(xs)
  PROVE  IsSequence(LoopIdentities(xs)) /\ \A n \in DOMAIN LoopIdentities(xs) : ~Says(LoopIdentities(xs), n, "level")
<1> DEFINE N == Len(xs)
           f == CHOOSE g : AreKept(g, xs, N)
<1>1. N \in Nat
  BY SequenceFacts
<1>2. LoopIdentities(xs) = f[N]
  BY DEF LoopIdentities, AreKept
<1>3. AreKept(f, xs, N)
  BY <1>1, KeptUnfold
<1> HIDE DEF f
<1>4. /\ f[0] = << >>
      /\ \A k \in 1 .. N : f[k] = IF xs[k] \in {"level", "time"} THEN f[k - 1]
                                  ELSE Append(f[k - 1], <<xs[k], Of(xs[k])>>)
  <2>1. 0 \in 0 .. N /\ \A k \in 1 .. N : k \in 0 .. N /\ k # 0
    BY <1>1
  <2>2. f[0] = << >>
    BY <1>3, <2>1 DEF AreKept
  <2>3. ASSUME NEW k \in 1 .. N
        PROVE  f[k] = IF xs[k] \in {"level", "time"} THEN f[k - 1]
                      ELSE Append(f[k - 1], <<xs[k], Of(xs[k])>>)
    BY <1>3, <2>1 DEF AreKept
  <2> QED
    BY <2>2, <2>3
<1> DEFINE Right(s) == IsSequence(s) /\ \A n \in DOMAIN s : ~Says(s, n, "level")
           T == {k \in 0 .. N : Right(f[k])}
<1>5. 0 \in T
  BY <1>1, <1>4, ShortSequences
<1>6. ASSUME NEW k \in 1 .. N, k - 1 \in T PROVE k \in T
  <2>1. Right(f[k - 1])
    BY <1>6
  <2>2. CASE xs[k] \in {"level", "time"}
    <3>1. f[k] = f[k - 1]
      BY <1>4, <2>2
    <3> QED
      BY <2>1, <3>1
  <2>3. CASE xs[k] \notin {"level", "time"}
    <3>1. PICK s, y, p : s = f[k - 1] /\ y = xs[k] /\ p = <<y, Of(y)>>
      OBVIOUS
    <3>2. p[1] = y /\ y # "level" /\ f[k] = Append(s, p)
      BY <1>4, <2>3, <3>1
    <3>3. /\ IsSequence(f[k]) /\ Len(f[k]) = Len(s) + 1 /\ \A n \in 1 .. Len(s) : f[k][n] = s[n]
          /\ f[k][Len(s) + 1] = p
      BY <2>1, <3>1, <3>2, Appended
    <3>4. DOMAIN f[k] = 1 .. Len(s) + 1 /\ Len(s) \in Nat /\ DOMAIN s = 1 .. Len(s)
      BY <2>1, <3>1, <3>3, SequenceFacts
    <3>5. ASSUME NEW n \in DOMAIN f[k] PROVE ~Says(f[k], n, "level")
      <4>1. CASE n \in 1 .. Len(s)
        BY <2>1, <3>1, <3>3, <3>4, <4>1 DEF Says
      <4>2. CASE n = Len(s) + 1
        BY <3>2, <3>3, <4>2 DEF Says
      <4> QED
        BY <3>4, <4>1, <4>2
    <3>6. Right(f[k])
      BY <3>3, <3>5
    <3> HIDE DEF Right
    <3> QED
      BY <3>6
  <2> QED
    BY <2>2, <2>3
<1> HIDE DEF T
<1>7. \A k \in 0 .. N : k \in T
  BY <1>1, <1>5, <1>6, Upwards
<1>8. N \in T
  BY <1>1, <1>7
<1> QED
  BY <1>2, <1>8 DEF T

\* What SubSeq does to the length and to every position.
LEMMA PartOfSequence ==
  ASSUME NEW s, IsSequence(s), NEW m \in 1 .. Len(s) + 1, NEW n \in m - 1 .. Len(s)
  PROVE  IsSequence(SubSeq(s, m, n)) /\ Len(SubSeq(s, m, n)) = n - m + 1
         /\ \A k \in 1 .. n - m + 1 : SubSeq(s, m, n)[k] = s[k + m - 1]
<1> DEFINE r == SubSeq(s, m, n)
<1>1. Len(s) \in Nat /\ n - m + 1 \in Nat
  BY SequenceFacts
<1>2. r = [k \in 1 .. (1 + n) - m |-> s[k + m - 1]]
  OBVIOUS
<1>3. (1 + n) - m = n - m + 1
  BY <1>1
<1>4. \A k \in 1 .. n - m + 1 : r[k] = s[k + m - 1]
  BY <1>2, <1>3
<1>5. r = [k \in 1 .. n - m + 1 |-> r[k]]
  BY <1>2, <1>3
<1> HIDE DEF r
<1>6. IsSequence(r) /\ Len(r) = n - m + 1
  BY <1>1, <1>5, SequenceMade
<1> QED
  BY <1>4, <1>6 DEF r

\* Resets without those of level are still a sequence.
LEMMA TakenIsSequence ==
  ASSUME NEW s, IsSequence(s)
  PROVE  IsSequence(LevelTaken(s))
<1> DEFINE names == LevelLike \union {"level"}
           hits == {n \in DOMAIN s : s[n][1] \in names}
           first == CHOOSE n \in hits : \A m \in hits : n <= m
<1>1. LevelTaken(s) = IF hits = {} THEN s
                      ELSE SubSeq(s, 1, first - 1) \o SubSeq(s, first + 1, Len(s))
  BY DEF LevelTaken, WithoutFirst
<1>2. CASE hits = {}
  BY <1>1, <1>2
<1>3. CASE hits # {}
  <2>1. Len(s) \in Nat /\ DOMAIN s = 1 .. Len(s) /\ hits \in SUBSET Nat
    BY SequenceFacts
  <2>2. \E n \in hits : \A m \in hits : n <= m
    <3> HIDE DEF hits
    <3> QED
      BY <1>3, <2>1, LeastOfNats
  <2>3. first \in hits
    BY <2>2
  <2>4. first \in 1 .. Len(s)
    <3> HIDE DEF first
    <3> QED
      BY <2>1, <2>3
  <2> HIDE DEF first, hits
  <2>5. /\ 1 \in 1 .. Len(s) + 1 /\ first - 1 \in 1 - 1 .. Len(s)
        /\ first + 1 \in 1 .. Len(s) + 1 /\ Len(s) \in (first + 1) - 1 .. Len(s)
    BY <2>1, <2>4
  <2>6. IsSequence(SubSeq(s, 1, first - 1)) /\ IsSequence(SubSeq(s, first + 1, Len(s)))
    BY <2>5, PartOfSequence
  <2>7. IsSequence(SubSeq(s, 1, first - 1) \o SubSeq(s, first + 1, Len(s)))
    BY <2>6, Concatenated
  <2> QED
    BY <1>1, <1>3, <2>7
<1> QED
  BY <1>2, <1>3

-------------------------------------------------------------------------------
\* An automaton whose guards share level guards only

\* The nodes behind the level guards lg.
Shared(h, lg) == UNION {Reached(h, lg[i]) : i \in DOMAIN lg}

IsPauseName(name) == name = PauseName(name[1], name[2], name[3], name[4])

\* What a transition does to level shows where it leads.
Settled(t) ==
  /\ IsSequence(t.reset)
  /\ \/ t.goto = Final /\ LastReset(t.reset, "level") = Number(0)
     \/ t.goto = <<t.goto[1]>> /\ LastReset(t.reset, "level") # Number(0)
     \/ IsPauseName(t.goto)

IsTransition(b, t) ==
  /\ t = [from |-> t.from, goto |-> t.goto, original |-> t.original, when |-> t.when,
          reset |-> t.reset]
  /\ t.from \in 1 .. Len(b.locs)
  /\ t.when \in 0 .. Len(b.heap)
  /\ t.original \in BOOLEAN
  /\ Settled(t)

IsLocation(b, l) ==
  /\ b.locs[l] = [name |-> b.locs[l].name, plain |-> b.locs[l].plain, inv |-> b.locs[l].inv]
  /\ b.locs[l].plain <=> l \in Locs
  /\ l \in Locs => b.locs[l].name = <<l>>

Shaped(b, lg) ==
  /\ b = [locs |-> b.locs, inits |-> b.inits, vars |-> b.vars, heap |-> b.heap, trans |-> b.trans]
  /\ IsSequence(b.locs) /\ LastLoc <= Len(b.locs) /\ IsSequence(b.vars)
  /\ \A l \in 1 .. Len(b.locs) : IsLocation(b, l)
  /\ Lists(b.heap)
  /\ IsSequence(b.trans)
  /\ \A n \in 1 .. Len(b.trans) : IsTransition(b, b.trans[n])
  /\ \A i \in DOMAIN lg : lg[i] \in 1 .. Len(b.heap)

Parted(b, lg) ==
  \A m, n \in 1 .. Len(b.trans) :
    m # n => Reached(b.heap, b.trans[m].when) \intersect Reached(b.heap, b.trans[n].when)
               \subseteq Shared(b.heap, lg)

\* The original transitions share nothing at all, until the gate.
Untouched(b, lg) ==
  \A n \in 1 .. Len(b.trans) :
    b.trans[n].original =>
      /\ Reached(b.heap, b.trans[n].when) \intersect Shared(b.heap, lg) = {}
      /\ \E e \in edges : b.trans[n].goto = <<e.to>>

Good(b, lg) == Shaped(b, lg) /\ Parted(b, lg) /\ Untouched(b, lg)

\* A transition that is to be added.
Pending(b, lg, t) ==
  /\ IsTransition(b, t) /\ ~t.original
  /\ \A n \in 1 .. Len(b.trans) :
       Reached(b.heap, t.when) \intersect Reached(b.heap, b.trans[n].when) \subseteq Shared(b.heap, lg)

\* It leads to a location that there is, or to where a transition of the model does.
Leads(b, goto) ==
  \/ \E l \in 1 .. Len(b.locs) : b.locs[l].name = goto
  \/ \E e \in edges : goto = <<e.to>>

AllLead(b) == \A n \in 1 .. Len(b.trans) : Leads(b, b.trans[n].goto)

\* A pause location has the invariant of the location in which the match began.  As
\* there are several assignments, the feature keeps times.
IsPause(b, loc) ==
  /\ IsTemporal(feature)
  /\ \E m \in Locs :
       loc = [name |-> PauseName(m, loc.name[2], loc.name[3], loc.name[4]), plain |-> FALSE,
              inv |-> b.locs[m].inv]

\* The transitions of the model that the list at a names.
EdgesIn(h, a) == {h[x].cond[2] : x \in {y \in Reached(h, a) : h[y].cond[1] = "edge"}}

\* What is made of b keeps the locations, the transitions and the nodes there are,
\* and what the guards say of the transitions of the model.
Continues(b, c) ==
  /\ c.inits = b.inits /\ c.vars = b.vars
  /\ Len(b.locs) <= Len(c.locs) /\ \A l \in 1 .. Len(b.locs) : c.locs[l] = b.locs[l]
  /\ \A l \in Len(b.locs) + 1 .. Len(c.locs) : IsPause(b, c.locs[l])
  /\ Len(b.trans) <= Len(c.trans) /\ \A n \in 1 .. Len(b.trans) : c.trans[n] = b.trans[n]
  /\ Len(b.heap) <= Len(c.heap) /\ SameConds(b.heap, c.heap)
  /\ \A a \in 0 .. Len(b.heap) : EdgesIn(c.heap, a) = EdgesIn(b.heap, a)
  /\ \A n \in 1 .. Len(b.trans) :
       b.trans[n].original => Reached(c.heap, b.trans[n].when) = Reached(b.heap, b.trans[n].when)

Fine(b, lg) == Good(b, lg) /\ AllLead(b)

\* A transition that is pending is added and shares nothing that it may not share.
LEMMA TransitionAdded ==
  ASSUME NEW b, NEW lg, Good(b, lg), NEW t, Pending(b, lg, t)
  PROVE  /\ Good(AddTransition(b, t), lg)
         /\ AddTransition(b, t).locs = b.locs /\ AddTransition(b, t).heap = b.heap
         /\ AddTransition(b, t).inits = b.inits /\ AddTransition(b, t).vars = b.vars
         /\ Len(AddTransition(b, t).trans) = Len(b.trans) + 1
         /\ \A n \in 1 .. Len(b.trans) : AddTransition(b, t).trans[n] = b.trans[n]
         /\ AddTransition(b, t).trans[Len(b.trans) + 1] = t
<1> DEFINE c == AddTransition(b, t)
<1>1. /\ c.locs = b.locs /\ c.heap = b.heap /\ c.trans = Append(b.trans, t)
      /\ c.inits = b.inits /\ c.vars = b.vars
      /\ c = [locs |-> b.locs, inits |-> b.inits, vars |-> b.vars, heap |-> b.heap,
              trans |-> Append(b.trans, t)]
  BY DEF AddTransition, Good, Shaped
<1> HIDE DEF c
<1> DEFINE N == Len(b.trans)
<1>2. /\ IsSequence(c.trans) /\ Len(c.trans) = N + 1 /\ N \in Nat
      /\ \A n \in 1 .. N : c.trans[n] = b.trans[n]
      /\ c.trans[N + 1] = t
  BY <1>1, Appended, SequenceFacts DEF Good, Shaped
<1>3. c = [locs |-> c.locs, inits |-> c.inits, vars |-> c.vars, heap |-> c.heap, trans |-> c.trans]
  BY <1>1
<1>4. \A l \in 1 .. Len(b.locs) : IsLocation(c, l)
  BY <1>1 DEF Good, Shaped, IsLocation
<1>5. ASSUME NEW n \in 1 .. N + 1 PROVE IsTransition(c, c.trans[n])
  <2>1. CASE n \in 1 .. N
    <3>1. IsTransition(b, b.trans[n])
      BY <2>1 DEF Good, Shaped
    <3> QED
      BY <1>1, <1>2, <2>1, <3>1 DEF IsTransition
  <2>2. CASE n = N + 1
    <3>1. IsTransition(b, t)
      BY DEF Pending
    <3> QED
      BY <1>1, <1>2, <2>2, <3>1 DEF IsTransition
  <2> QED
    BY <1>2, <2>1, <2>2
<1>6. Shaped(c, lg)
  BY <1>1, <1>2, <1>3, <1>4, <1>5 DEF Good, Shaped
<1>7. Parted(c, lg)
  <2> SUFFICES ASSUME NEW m \in 1 .. N + 1, NEW n \in 1 .. N + 1, m # n
               PROVE  Reached(b.heap, c.trans[m].when) \intersect Reached(b.heap, c.trans[n].when)
                        \subseteq Shared(b.heap, lg)
    <3>1. c.heap = b.heap /\ Len(c.trans) = N + 1
      BY <1>1, <1>2
    <3> QED
      BY <3>1 DEF Parted
  <2>1. CASE m \in 1 .. N /\ n \in 1 .. N
    BY <1>2, <2>1 DEF Good, Parted
  <2>2. CASE m = N + 1
    <3>1. n \in 1 .. N
      BY <1>2, <2>2
    <3> QED
      BY <1>2, <2>2, <3>1 DEF Pending
  <2>3. CASE n = N + 1
    <3>1. m \in 1 .. N
      BY <1>2, <2>3
    <3> QED
      BY <1>2, <2>3, <3>1 DEF Pending
  <2> QED
    BY <1>2, <2>1, <2>2, <2>3
<1>8. Untouched(c, lg)
  <2> SUFFICES ASSUME NEW n \in 1 .. N + 1, c.trans[n].original
               PROVE  /\ Reached(b.heap, c.trans[n].when) \intersect Shared(b.heap, lg) = {}
                      /\ \E e \in edges : c.trans[n].goto = <<e.to>>
    BY <1>1, <1>2 DEF Untouched
  <2>1. n \in 1 .. N
    BY <1>2 DEF Pending
  <2> QED
    BY <1>2, <2>1 DEF Good, Untouched
<1> QED
  BY <1>1, <1>2, <1>6, <1>7, <1>8 DEF Good, c

\* A location that the model does not have.
IsMade(loc, name, inv) == loc = [name |-> name, plain |-> FALSE, inv |-> inv]

\* Adding a location does not disturb the lists.
LEMMA LocationAdded ==
  ASSUME NEW b, NEW lg, Good(b, lg), NEW name, NEW inv
  PROVE  /\ Good(AddLocation(b, name, inv), lg)
         /\ AddLocation(b, name, inv).heap = b.heap /\ AddLocation(b, name, inv).trans = b.trans
         /\ AddLocation(b, name, inv).inits = b.inits /\ AddLocation(b, name, inv).vars = b.vars
         /\ Len(AddLocation(b, name, inv).locs) = Len(b.locs) + 1
         /\ \A l \in 1 .. Len(b.locs) : AddLocation(b, name, inv).locs[l] = b.locs[l]
         /\ AddLocation(b, name, inv).locs[Len(b.locs) + 1].name = name
         /\ IsMade(AddLocation(b, name, inv).locs[Len(b.locs) + 1], name, inv)
<1> DEFINE c == AddLocation(b, name, inv)
           new == [name |-> name, plain |-> FALSE, inv |-> inv]
           N == Len(b.locs)
<1>1. /\ c.locs = Append(b.locs, new) /\ c.heap = b.heap /\ c.trans = b.trans
      /\ c.inits = b.inits /\ c.vars = b.vars
      /\ c = [locs |-> Append(b.locs, new), inits |-> b.inits, vars |-> b.vars, heap |-> b.heap,
              trans |-> b.trans]
  <2>1. c = [b EXCEPT !.locs = Append(b.locs, new)]
    BY DEF AddLocation
  <2>2. b = [locs |-> b.locs, inits |-> b.inits, vars |-> b.vars, heap |-> b.heap, trans |-> b.trans]
    BY DEF Good, Shaped
  <2> HIDE DEF c, new
  <2> QED
    BY <2>1, <2>2
<1> HIDE DEF c
<1>2. /\ IsSequence(c.locs) /\ Len(c.locs) = N + 1 /\ N \in Nat
      /\ \A l \in 1 .. N : c.locs[l] = b.locs[l]
      /\ c.locs[N + 1] = new
  BY <1>1, Appended, SequenceFacts DEF Good, Shaped
<1>3. c = [locs |-> c.locs, inits |-> c.inits, vars |-> c.vars, heap |-> c.heap, trans |-> c.trans]
  BY <1>1
<1>4. LastLoc \in Nat /\ LastLoc <= N
  BY ListsAssumption DEF Good, Shaped
<1>5. ASSUME NEW l \in 1 .. N + 1 PROVE IsLocation(c, l)
  <2>1. CASE l \in 1 .. N
    <3>1. IsLocation(b, l)
      BY <2>1 DEF Good, Shaped
    <3> QED
      BY <1>2, <2>1, <3>1 DEF IsLocation
  <2>2. CASE l = N + 1
    <3>1. l \notin Locs /\ c.locs[l] = new
      BY <1>2, <1>4, <2>2 DEF Locs
    <3> QED
      BY <3>1 DEF IsLocation
  <2> QED
    BY <1>2, <2>1, <2>2
<1>6. \A n \in 1 .. Len(b.trans) : IsTransition(c, b.trans[n])
  <2> SUFFICES ASSUME NEW n \in 1 .. Len(b.trans) PROVE IsTransition(c, b.trans[n])
    OBVIOUS
  <2>1. IsTransition(b, b.trans[n])
    BY DEF Good, Shaped
  <2> QED
    BY <1>1, <1>2, <2>1 DEF IsTransition
<1>7. Shaped(c, lg)
  <2> HIDE DEF new
  <2>1. LastLoc <= N + 1
    BY <1>2, <1>4
  <2>2. /\ Lists(c.heap) /\ IsSequence(c.trans)
        /\ \A n \in 1 .. Len(c.trans) : IsTransition(c, c.trans[n])
        /\ \A i \in DOMAIN lg : lg[i] \in 1 .. Len(c.heap)
    BY <1>1, <1>6 DEF Good, Shaped
  <2>3. IsSequence(c.vars)
    BY <1>1 DEF Good, Shaped
  <2> QED
    BY <1>2, <1>3, <1>5, <2>1, <2>2, <2>3 DEF Shaped
<1>8. Parted(c, lg) /\ Untouched(c, lg)
  BY <1>1 DEF Good, Parted, Untouched
<1>9. IsMade(new, name, inv) /\ new.name = name
  BY DEF IsMade
<1> HIDE DEF new
<1> QED
  BY <1>1, <1>2, <1>7, <1>8, <1>9 DEF Good, c

-------------------------------------------------------------------------------
\* New nodes

\* Nodes are added to a heap; if some list goes on with them it is that of a
\* level guard.
Grows(h, g, lg) ==
  /\ Lists(g) /\ Len(h) <= Len(g) /\ SameConds(h, g)
  /\ \E z \in 0 .. Len(h), new \in SUBSET (Len(h) + 1 .. Len(g)) :
       /\ new = {} \/ z \in Shared(h, lg)
       /\ \A a \in new : g[a].cond[1] # "edge"
       /\ \A a \in 0 .. Len(h) :
            Reached(g, a) = Reached(h, a) \union IF z \in Reached(h, a) THEN new ELSE {}

\* When a heap grows, a list goes on only behind a level guard, and by nothing that
\* another guard has of its own.
LEMMA GrownReached ==
  ASSUME NEW h, Lists(h), NEW lg, \A i \in DOMAIN lg : lg[i] \in 1 .. Len(h),
         NEW g, Grows(h, g, lg)
  PROVE  /\ Shared(h, lg) \subseteq Shared(g, lg)
         /\ \A a \in 0 .. Len(h) :
              /\ Reached(h, a) \subseteq Reached(g, a)
              /\ Reached(g, a) \subseteq Reached(h, a) \union Shared(g, lg)
              /\ Reached(h, a) \intersect Shared(h, lg) = {} =>
                   Reached(g, a) \intersect Shared(g, lg) = {}
              /\ Reached(h, a) \intersect Shared(h, lg) = {} => Reached(g, a) = Reached(h, a)
              /\ EdgesIn(g, a) = EdgesIn(h, a)
              /\ Reached(h, a) \subseteq 1 .. Len(h)
         /\ Shared(g, lg) \intersect 1 .. Len(h) \subseteq Shared(h, lg)
<1>1. Len(h) \in Nat
  BY HeapFacts
<1>2. \A a \in 0 .. Len(h) : Reached(h, a) \subseteq 1 .. Len(h)
  BY ReachedUnfold
<1>3. PICK z \in 0 .. Len(h), new \in SUBSET (Len(h) + 1 .. Len(g)) :
       /\ new = {} \/ z \in Shared(h, lg)
       /\ \A a \in new : g[a].cond[1] # "edge"
       /\ \A a \in 0 .. Len(h) :
            Reached(g, a) = Reached(h, a) \union IF z \in Reached(h, a) THEN new ELSE {}
  BY DEF Grows
<1>4. \A i \in DOMAIN lg : lg[i] \in 0 .. Len(h)
  BY <1>1
<1>5. new \intersect 1 .. Len(h) = {}
  BY <1>1
<1>6. \A a \in 0 .. Len(h) : Reached(h, a) \subseteq Reached(g, a)
  BY <1>3
<1>7. Shared(h, lg) \subseteq Shared(g, lg)
  BY <1>4, <1>6 DEF Shared
<1>8. new \subseteq Shared(g, lg)
  <2>1. CASE new = {}
    BY <2>1
  <2>2. CASE z \in Shared(h, lg)
    <3>1. PICK i \in DOMAIN lg : z \in Reached(h, lg[i])
      BY <2>2 DEF Shared
    <3>2. new \subseteq Reached(g, lg[i])
      BY <1>3, <1>4, <3>1
    <3> QED
      BY <3>2 DEF Shared
  <2> QED
    BY <1>3, <2>1, <2>2
<1>9. Shared(g, lg) \subseteq Shared(h, lg) \union new
  BY <1>3, <1>4 DEF Shared
<1>10. Shared(h, lg) \subseteq 1 .. Len(h)
  BY <1>2, <1>4 DEF Shared
<1>11. Shared(g, lg) \intersect 1 .. Len(h) \subseteq Shared(h, lg)
  BY <1>5, <1>9
<1>12. ASSUME NEW a \in 0 .. Len(h)
       PROVE  /\ Reached(g, a) \subseteq Reached(h, a) \union Shared(g, lg)
              /\ Reached(h, a) \intersect Shared(h, lg) = {} =>
                   Reached(g, a) \intersect Shared(g, lg) = {} /\ Reached(g, a) = Reached(h, a)
              /\ EdgesIn(g, a) = EdgesIn(h, a)
  <2>1. Reached(g, a) = Reached(h, a) \union IF z \in Reached(h, a) THEN new ELSE {}
    BY <1>3
  <2>2. Reached(g, a) \subseteq Reached(h, a) \union Shared(g, lg)
    BY <1>8, <2>1
  <2>3. ASSUME Reached(h, a) \intersect Shared(h, lg) = {}
        PROVE  Reached(g, a) \intersect Shared(g, lg) = {} /\ Reached(g, a) = Reached(h, a)
    <3>1. Reached(g, a) = Reached(h, a)
      BY <1>3, <2>1, <2>3
    <3>2. Reached(h, a) \subseteq 1 .. Len(h)
      BY <1>2
    <3> QED
      BY <1>11, <2>3, <3>1, <3>2
  <2>4. EdgesIn(g, a) = EdgesIn(h, a)
    <3>1. Reached(h, a) \subseteq 1 .. Len(h)
      BY <1>2
    <3>2. \A x \in Reached(h, a) : g[x].cond = h[x].cond
      BY <3>1 DEF Grows, SameConds
    <3>3. {y \in Reached(g, a) : g[y].cond[1] = "edge"} = {y \in Reached(h, a) : h[y].cond[1] = "edge"}
      BY <1>3, <2>1, <3>2
    <3> QED
      BY <3>2, <3>3 DEF EdgesIn
  <2> QED
    BY <2>2, <2>3, <2>4
<1> QED
  BY <1>2, <1>6, <1>7, <1>11, <1>12

WithHeap(b, g) == [b EXCEPT !.heap = g]

\* So an automaton whose heap grows stays good, and what was pending still is.
LEMMA HeapGrown ==
  ASSUME NEW b, NEW lg, Good(b, lg), NEW g, Grows(b.heap, g, lg)
  PROVE  /\ Good(WithHeap(b, g), lg)
         /\ WithHeap(b, g).locs = b.locs /\ WithHeap(b, g).trans = b.trans
         /\ WithHeap(b, g).heap = g
         /\ WithHeap(b, g).vars = b.vars /\ WithHeap(b, g).inits = b.inits
         /\ \A t : Pending(b, lg, t) => Pending(WithHeap(b, g), lg, t)
         /\ \A t : /\ IsTransition(WithHeap(b, g), t) /\ ~t.original
                   /\ Reached(g, t.when) \subseteq (Len(b.heap) + 1 .. Len(g)) \union Shared(g, lg)
                   => Pending(WithHeap(b, g), lg, t)
<1> DEFINE c == WithHeap(b, g)
           h == b.heap
<1>1. /\ c.locs = b.locs /\ c.trans = b.trans /\ c.heap = g /\ c.vars = b.vars /\ c.inits = b.inits
      /\ c = [locs |-> b.locs, inits |-> b.inits, vars |-> b.vars, heap |-> g, trans |-> b.trans]
  BY DEF WithHeap, Good, Shaped
<1> HIDE DEF c
<1>2. /\ Lists(h) /\ \A i \in DOMAIN lg : lg[i] \in 1 .. Len(h)
      /\ \A n \in 1 .. Len(b.trans) : IsTransition(b, b.trans[n])
  BY DEF Good, Shaped
<1>3. /\ Lists(g) /\ Len(h) <= Len(g) /\ Len(h) \in Nat /\ Len(g) \in Nat
  BY <1>2, HeapFacts DEF Grows
<1>4. /\ Shared(h, lg) \subseteq Shared(g, lg)
      /\ \A a \in 0 .. Len(h) :
           /\ Reached(h, a) \subseteq Reached(g, a)
           /\ Reached(g, a) \subseteq Reached(h, a) \union Shared(g, lg)
           /\ Reached(h, a) \intersect Shared(h, lg) = {} =>
                Reached(g, a) \intersect Shared(g, lg) = {}
           /\ Reached(h, a) \subseteq 1 .. Len(h)
  BY <1>2, GrownReached
<1>5. \A n \in 1 .. Len(b.trans) : b.trans[n].when \in 0 .. Len(h)
  BY <1>2 DEF IsTransition
<1>6. ASSUME NEW t, IsTransition(b, t) PROVE IsTransition(c, t)
  BY <1>1, <1>3, <1>6 DEF IsTransition
<1>7. Shaped(c, lg)
  <2>1. c = [locs |-> c.locs, inits |-> c.inits, vars |-> c.vars, heap |-> c.heap, trans |-> c.trans]
    BY <1>1
  <2>2. \A n \in 1 .. Len(c.trans) : IsTransition(c, c.trans[n])
    BY <1>1, <1>2, <1>6
  <2>3. \A l \in 1 .. Len(c.locs) : IsLocation(c, l)
    BY <1>1 DEF Good, Shaped, IsLocation
  <2>4. IsSequence(c.locs) /\ LastLoc <= Len(c.locs) /\ IsSequence(c.trans) /\ IsSequence(c.vars)
    BY <1>1 DEF Good, Shaped
  <2>5. \A i \in DOMAIN lg : lg[i] \in 1 .. Len(c.heap)
    BY <1>1, <1>2, <1>3
  <2> QED
    BY <1>1, <1>3, <2>1, <2>2, <2>3, <2>4, <2>5 DEF Shaped
<1>8. Parted(c, lg)
  <2> SUFFICES ASSUME NEW m \in 1 .. Len(b.trans), NEW n \in 1 .. Len(b.trans), m # n
               PROVE  Reached(g, b.trans[m].when) \intersect Reached(g, b.trans[n].when)
                        \subseteq Shared(g, lg)
    BY <1>1 DEF Parted
  <2>1. Reached(h, b.trans[m].when) \intersect Reached(h, b.trans[n].when) \subseteq Shared(h, lg)
    BY DEF Good, Parted
  <2> QED
    BY <1>4, <1>5, <2>1
<1>9. Untouched(c, lg)
  <2> SUFFICES ASSUME NEW n \in 1 .. Len(b.trans), b.trans[n].original
               PROVE  /\ Reached(g, b.trans[n].when) \intersect Shared(g, lg) = {}
                      /\ \E e \in edges : b.trans[n].goto = <<e.to>>
    BY <1>1 DEF Untouched
  <2>1. /\ Reached(h, b.trans[n].when) \intersect Shared(h, lg) = {}
        /\ \E e \in edges : b.trans[n].goto = <<e.to>>
    BY DEF Good, Untouched
  <2> QED
    BY <1>4, <1>5, <2>1
<1>10. ASSUME NEW t, Pending(b, lg, t) PROVE Pending(c, lg, t)
  <2>1. IsTransition(b, t) /\ ~t.original /\ t.when \in 0 .. Len(h)
    BY <1>10 DEF Pending, IsTransition
  <2>2. ASSUME NEW n \in 1 .. Len(b.trans)
        PROVE  Reached(g, t.when) \intersect Reached(g, b.trans[n].when) \subseteq Shared(g, lg)
    <3>1. Reached(h, t.when) \intersect Reached(h, b.trans[n].when) \subseteq Shared(h, lg)
      BY <1>10 DEF Pending
    <3> QED
      BY <1>4, <1>5, <2>1, <3>1
  <2> QED
    BY <1>1, <1>6, <2>1, <2>2 DEF Pending
<1>11. ASSUME NEW t, IsTransition(c, t), ~t.original,
              Reached(g, t.when) \subseteq (Len(h) + 1 .. Len(g)) \union Shared(g, lg)
       PROVE  Pending(c, lg, t)
  <2>1. ASSUME NEW n \in 1 .. Len(b.trans)
        PROVE  Reached(g, t.when) \intersect Reached(g, b.trans[n].when) \subseteq Shared(g, lg)
    <3>1. Reached(h, b.trans[n].when) \subseteq 1 .. Len(h)
      BY <1>4, <1>5
    <3>2. (Len(h) + 1 .. Len(g)) \intersect 1 .. Len(h) = {}
      BY <1>3
    <3> QED
      BY <1>4, <1>5, <1>11, <3>1, <3>2
  <2> QED
    BY <1>1, <1>11, <2>1 DEF Pending
<1> QED
  BY <1>1, <1>7, <1>8, <1>9, <1>10, <1>11 DEF Good, c

\* A new list by itself is growth.
LEMMA CreateGrows ==
  ASSUME NEW h, Lists(h), NEW conds, IsSequence(conds), NEW lg
  PROVE  /\ Grows(h, Create(h, conds), lg)
         /\ Fresh(h, conds) \in 0 .. Len(Create(h, conds))
         /\ Reached(Create(h, conds), Fresh(h, conds)) = Len(h) + 1 .. Len(Create(h, conds))
<1> DEFINE g == Create(h, conds)
<1>1. /\ Len(g) = Len(h) + Len(conds) /\ Lists(g)
      /\ \A a \in 0 .. Len(h) : Reached(g, a) = Reached(h, a)
      /\ Fresh(h, conds) \in 0 .. Len(h) + Len(conds)
      /\ Reached(g, Fresh(h, conds)) = Len(h) + 1 .. Len(h) + Len(conds)
      /\ SameConds(h, g)
  <2>1. Len(g) = Len(h) + Len(conds) /\ SameConds(h, g)
    <3>1. Appends(h, conds, g)
      BY CreatedHeap
    <3> QED
      BY <3>1 DEF Appends, SameConds
  <2>2. Lists(g)
    BY CreatedLists
  <2>3. /\ \A a \in 0 .. Len(h) : Reached(g, a) = Reached(h, a)
        /\ Fresh(h, conds) \in 0 .. Len(h) + Len(conds)
        /\ Reached(g, Fresh(h, conds)) = Len(h) + 1 .. Len(h) + Len(conds)
    BY CreatedNodes
  <2> QED
    BY <2>1, <2>2, <2>3
<1>2. Len(h) \in Nat /\ Len(conds) \in Nat
  BY HeapFacts, SequenceFacts
<1> HIDE DEF g
<1>3. Len(h) <= Len(g) /\ 0 \in 0 .. Len(h) /\ {} \in SUBSET (Len(h) + 1 .. Len(g))
  BY <1>1, <1>2
<1>4. \A a \in 0 .. Len(h) : Reached(g, a) = Reached(h, a) \union IF 0 \in Reached(h, a) THEN {} ELSE {}
  BY <1>1
<1>5. Grows(h, g, lg)
  BY <1>1, <1>3, <1>4 DEF Grows
<1> QED
  BY <1>1, <1>5 DEF g

\* A new list in front of a level guard.
LEMMA SharingGrows ==
  ASSUME NEW h, Lists(h), NEW conds, IsSequence(conds), NEW guard \in 1 .. Len(h),
         NEW root, root = Fresh(h, conds), NEW g, g = Link(Create(h, conds), root, guard),
         NEW u, u = Linked(root, guard)
  PROVE  /\ Lists(g) /\ Len(g) = Len(h) + Len(conds) /\ SameConds(h, g)
         /\ \A a \in 0 .. Len(h) : Reached(g, a) = Reached(h, a)
         /\ u \in 1 .. Len(g)
         /\ Reached(g, u) = (Len(h) + 1 .. Len(g)) \union Reached(h, guard)
<1> DEFINE f == Create(h, conds)
<1>1. /\ Len(f) = Len(h) + Len(conds) /\ Lists(f) /\ SameConds(h, f)
      /\ \A a \in 0 .. Len(h) : Reached(f, a) = Reached(h, a)
      /\ root \in 0 .. Len(f)
      /\ Reached(f, root) = Len(h) + 1 .. Len(f)
  <2>1. Len(f) = Len(h) + Len(conds) /\ SameConds(h, f)
    <3>1. Appends(h, conds, f)
      BY CreatedHeap
    <3> QED
      BY <3>1 DEF Appends, SameConds
  <2>2. Lists(f)
    BY CreatedLists
  <2>3. \A a \in 0 .. Len(h) : Reached(f, a) = Reached(h, a)
    BY CreatedNodes
  <2>4. root \in 0 .. Len(f) /\ Reached(f, root) = Len(h) + 1 .. Len(f)
    BY CreateGrows
  <2> QED
    BY <2>1, <2>2, <2>3, <2>4
<1>2. Len(h) \in Nat /\ Len(conds) \in Nat /\ guard \in 0 .. Len(h)
  BY HeapFacts, SequenceFacts
<1>3. \A a \in 0 .. Len(h) : Reached(h, a) \subseteq 1 .. Len(h)
  BY ReachedUnfold
<1>4. conds = << >> => Len(conds) = 0 /\ root = 0
  BY DEF Fresh, NULL
<1>5. Len(conds) = 0 => conds = << >>
  BY <1>2 DEF IsSequence
<1>6. conds # << >> => root = Len(h) + 1
  BY DEF Fresh
<1>9. g = Link(f, root, guard)
  OBVIOUS
<1> HIDE DEF f
<1>7. CASE conds = << >>
  <2>1. g = f /\ u = guard /\ Len(f) = Len(h)
    BY <1>1, <1>2, <1>4, <1>7, <1>9 DEF Link, Linked, NULL
  <2>2. Len(h) + 1 .. Len(f) = {}
    BY <1>2, <2>1
  <2>3. Reached(f, guard) = Reached(h, guard)
    BY <1>1, <1>2
  <2> QED
    BY <1>1, <1>2, <2>1, <2>2, <2>3
<1>8. CASE conds # << >>
  <2>1. root \in 1 .. Len(f) /\ root # NULL /\ guard \in 0 .. Len(f)
    BY <1>1, <1>2, <1>5, <1>6, <1>8 DEF NULL
  <2>2. LastNode(f, root) \in Len(h) + 1 .. Len(f)
    BY <1>1, <2>1, LastOfList
  <2>3. Reached(f, guard) = Reached(h, guard) /\ Reached(h, guard) \subseteq 1 .. Len(h)
    BY <1>1, <1>2, <1>3
  <2>4. LastNode(f, root) \notin Reached(f, guard) /\ guard \notin Reached(f, root)
    BY <1>1, <1>2, <2>2, <2>3
  <2>5. /\ Lists(g) /\ Len(g) = Len(f) /\ SameConds(f, g)
        /\ \A a \in 0 .. Len(f) :
             Reached(g, a) = Reached(f, a) \union
                             IF LastNode(f, root) \in Reached(f, a) THEN Reached(f, guard) ELSE {}
    BY <1>1, <1>9, <2>1, <2>4, LinkedReached
  <2>6. u = root
    BY <2>1 DEF Linked
  <2>7. ASSUME NEW a \in 0 .. Len(h) PROVE Reached(g, a) = Reached(h, a)
    <3>1. a \in 0 .. Len(f) /\ LastNode(f, root) \notin Reached(f, a)
      BY <1>1, <1>2, <1>3, <2>2
    <3> QED
      BY <1>1, <2>5, <3>1
  <2>8. Reached(g, u) = Reached(f, root) \union Reached(h, guard)
    <3>1. LastNode(f, root) \in Reached(f, root)
      BY <1>1, <2>1, LastOfList
    <3> QED
      BY <1>1, <2>3, <2>5, <2>6, <3>1
  <2>9. SameConds(h, g)
    BY <1>1, <1>2, <2>5 DEF SameConds
  <2> QED
    BY <1>1, <1>2, <2>1, <2>5, <2>6, <2>7, <2>8, <2>9
<1> QED
  BY <1>7, <1>8

\* The conditions of the nodes in a set.
Conds(h, S) == {h[x].cond : x \in S}

\* A heap grows, and the guard of level i alone goes on, with the conditions C.
Extends(h, g, lg, i, C) ==
  /\ Lists(g) /\ Len(h) <= Len(g) /\ SameConds(h, g)
  /\ \E z \in 0 .. Len(h), new \in SUBSET (Len(h) + 1 .. Len(g)) :
       /\ new = {} \/ z \in Reached(h, lg[i])
       /\ Conds(g, new) = C
       /\ \A a \in 0 .. Len(h) :
            Reached(g, a) = Reached(h, a) \union IF z \in Reached(h, a) THEN new ELSE {}

\* Nodes that are there keep their conditions.
LEMMA CondsKept ==
  ASSUME NEW h, NEW g, SameConds(h, g), NEW S, S \subseteq 1 .. Len(h)
  PROVE  Conds(g, S) = Conds(h, S)
BY DEF SameConds, Conds

\* This is growth.
LEMMA ExtendsGrows ==
  ASSUME NEW h, NEW g, NEW lg, NEW i \in DOMAIN lg, NEW C, \A c \in C : c[1] # "edge",
         Extends(h, g, lg, i, C)
  PROVE  Grows(h, g, lg)
<1>1. PICK z \in 0 .. Len(h), new \in SUBSET (Len(h) + 1 .. Len(g)) :
         /\ new = {} \/ z \in Reached(h, lg[i])
         /\ Conds(g, new) = C
         /\ \A a \in 0 .. Len(h) :
              Reached(g, a) = Reached(h, a) \union IF z \in Reached(h, a) THEN new ELSE {}
  BY DEF Extends
<1>2. new = {} \/ z \in Shared(h, lg)
  BY <1>1 DEF Shared
<1>3. \A a \in new : g[a].cond[1] # "edge"
  BY <1>1 DEF Conds
<1> QED
  BY <1>1, <1>2, <1>3 DEF Extends, Grows

\* New nodes ask for what they were made for.
LEMMA NewConds ==
  ASSUME NEW h, Lists(h), NEW conds, IsSequence(conds), NEW g, SameConds(Create(h, conds), g)
  PROVE  Conds(g, Len(h) + 1 .. Len(h) + Len(conds)) = Range(conds)
<1>1. PICK f : f = Create(h, conds)
  OBVIOUS
<1>2. Len(f) = Len(h) + Len(conds) /\ \A k \in 1 .. Len(conds) : f[Len(h) + k].cond = conds[k]
  BY <1>1, CreatedConds
<1>3. Len(h) \in Nat /\ Len(conds) \in Nat /\ DOMAIN conds = 1 .. Len(conds)
  BY HeapFacts, SequenceFacts
<1>4. \A k \in 1 .. Len(conds) : g[Len(h) + k].cond = conds[k]
  BY <1>1, <1>2, <1>3 DEF SameConds
<1>5. ASSUME NEW a \in Len(h) + 1 .. Len(h) + Len(conds)
      PROVE  a - Len(h) \in DOMAIN conds /\ g[a].cond = conds[a - Len(h)]
  <2>1. PICK k : k = a - Len(h)
    OBVIOUS
  <2>2. k \in 1 .. Len(conds) /\ a = Len(h) + k
    BY <1>3, <2>1
  <2> QED
    BY <1>3, <1>4, <2>1, <2>2
<1>6. \A k \in DOMAIN conds : Len(h) + k \in Len(h) + 1 .. Len(h) + Len(conds) /\ g[Len(h) + k].cond = conds[k]
  BY <1>3, <1>4
<1>7. PICK S : S = Len(h) + 1 .. Len(h) + Len(conds)
  OBVIOUS
<1>8. ASSUME NEW c \in Conds(g, S) PROVE c \in Range(conds)
  <2>1. PICK a \in S : c = g[a].cond
    BY DEF Conds
  <2> QED
    BY <1>5, <1>7, <2>1 DEF Range
<1>9. ASSUME NEW c \in Range(conds) PROVE c \in Conds(g, S)
  <2>1. PICK k \in DOMAIN conds : c = conds[k]
    BY DEF Range
  <2> QED
    BY <1>6, <1>7, <2>1 DEF Conds
<1> QED
  BY <1>7, <1>8, <1>9

\* Hanging the guard of a level behind a new list changes no condition.
LEMMA LinkConds ==
  ASSUME NEW h, Lists(h), NEW conds, IsSequence(conds), NEW guard \in 1 .. Len(h),
         NEW root, root = Fresh(h, conds)
  PROVE  SameConds(Create(h, conds), Link(Create(h, conds), root, guard))
<1>0. Len(h) \in Nat /\ Len(conds) \in Nat
  BY HeapFacts, SequenceFacts
<1>1. PICK f : f = Create(h, conds)
  OBVIOUS
<1>2. CASE root = NULL \/ guard \in Reached(f, root)
  <2>1. Link(f, root, guard) = f
    BY <1>2 DEF Link
  <2> QED
    BY <1>1, <2>1 DEF SameConds
<1>3. CASE ~(root = NULL \/ guard \in Reached(f, root))
  <2>1. /\ Lists(f) /\ Len(f) = Len(h) + Len(conds) /\ root \in 0 .. Len(f)
        /\ Reached(f, root) = Len(h) + 1 .. Len(f) /\ Reached(f, guard) = Reached(h, guard)
    <3>1. Lists(f) /\ Len(f) = Len(h) + Len(conds)
      BY <1>1, CreatedConds, CreatedLists
    <3>2. root \in 0 .. Len(f) /\ Reached(f, root) = Len(h) + 1 .. Len(f)
      BY <1>1, CreateGrows
    <3>3. guard \in 0 .. Len(h)
      BY <1>0
    <3>4. Reached(f, guard) = Reached(h, guard)
      BY <1>1, <3>3, CreatedNodes
    <3> QED
      BY <3>1, <3>2, <3>4
  <2>2. root \in 1 .. Len(f) /\ guard \in 0 .. Len(f)
    BY <1>0, <1>3, <2>1 DEF NULL
  <2>3. LastNode(f, root) \in Len(h) + 1 .. Len(f)
    BY <2>1, <2>2, LastOfList
  <2>4. Reached(f, guard) \subseteq 1 .. Len(h)
    <3>1. guard \in 0 .. Len(h)
      BY <1>0
    <3> QED
      BY <2>1, <3>1, ReachedUnfold
  <2>5. LastNode(f, root) \notin Reached(f, guard)
    BY <1>0, <2>3, <2>4
  <2>6. SameConds(f, Link(f, root, guard))
    BY <1>3, <2>1, <2>2, <2>5, LinkedReached
  <2> QED
    BY <1>1, <2>6
<1> QED
  BY <1>2, <1>3

\* The same, and then a new list behind the level guard.
LEMMA WaitingExtends ==
  ASSUME NEW h, Lists(h), NEW conds, IsSequence(conds), NEW guards, IsSequence(guards),
         NEW lg, \A i \in DOMAIN lg : lg[i] \in 1 .. Len(h), NEW i \in DOMAIN lg
  PROVE  LET linked == Link(Create(h, conds), Fresh(h, conds), lg[i])
             u == Linked(Fresh(h, conds), lg[i])
             g == Link(Create(linked, guards), u, Fresh(linked, guards))
         IN /\ Extends(h, g, lg, i, Range(guards))
            /\ u \in 1 .. Len(g)
            /\ \E own \in SUBSET (Len(h) + 1 .. Len(g)) :
                 /\ Reached(g, u) = own \union Reached(g, lg[i])
                 /\ own \intersect Shared(g, lg) = {} /\ Conds(g, own) = Range(conds)
<1> DEFINE guard == lg[i]
           linked == Link(Create(h, conds), Fresh(h, conds), guard)
           u == Linked(Fresh(h, conds), guard)
           f == Create(linked, guards)
           more == Fresh(linked, guards)
           g == Link(f, u, more)
<1>1. guard \in 1 .. Len(h) /\ guard \in 0 .. Len(h) /\ Len(h) \in Nat
  BY HeapFacts
<1>2. Len(conds) \in Nat /\ Len(guards) \in Nat
  BY SequenceFacts
<1>3. /\ Lists(linked) /\ Len(linked) = Len(h) + Len(conds)
      /\ SameConds(h, linked)
      /\ \A a \in 0 .. Len(h) : Reached(linked, a) = Reached(h, a)
      /\ u \in 1 .. Len(linked)
      /\ Reached(linked, u) = (Len(h) + 1 .. Len(linked)) \union Reached(h, guard)
  <2>1. PICK root : root = Fresh(h, conds)
    OBVIOUS
  <2>2. linked = Link(Create(h, conds), root, guard) /\ u = Linked(root, guard)
    BY <2>1
  <2> HIDE DEF linked, u, guard
  <2> QED
    BY <1>1, <2>1, <2>2, SharingGrows
<1> HIDE DEF linked, u, guard
<1>4. /\ Len(f) = Len(linked) + Len(guards) /\ Lists(f)
      /\ \A a \in 0 .. Len(linked) : Reached(f, a) = Reached(linked, a)
      /\ \A a \in 1 .. Len(linked) : f[a] = linked[a]
      /\ \A k \in 1 .. Len(guards) : f[Len(linked) + k].cond = guards[k]
      /\ more \in 0 .. Len(f)
      /\ Reached(f, more) = Len(linked) + 1 .. Len(f)
  <2> HIDE DEF f, more
  <2>1. /\ Len(f) = Len(linked) + Len(guards) /\ \A a \in 1 .. Len(linked) : f[a] = linked[a]
        /\ \A k \in 1 .. Len(guards) : f[Len(linked) + k].cond = guards[k]
    <3>1. Lists(linked) /\ IsSequence(guards)
      BY <1>3
    <3>2. /\ IsSequence(Create(linked, guards))
          /\ Len(Create(linked, guards)) = Len(linked) + Len(guards)
          /\ \A a \in 1 .. Len(linked) : Create(linked, guards)[a] = linked[a]
          /\ \A k \in 1 .. Len(guards) :
               Create(linked, guards)[Len(linked) + k] =
                 [cond |-> guards[k],
                  next |-> IF k = Len(guards) THEN NULL ELSE Len(linked) + k + 1]
      <4>1. Appends(linked, guards, Create(linked, guards))
        BY <3>1, CreatedHeap
      <4> QED
        BY <4>1 DEF Appends
    <3>3. \A k \in 1 .. Len(guards) : Create(linked, guards)[Len(linked) + k].cond = guards[k]
      <4> TAKE k \in 1 .. Len(guards)
      <4>1. PICK after : after = IF k = Len(guards) THEN NULL ELSE Len(linked) + k + 1
        OBVIOUS
      <4>2. Create(linked, guards)[Len(linked) + k] = [cond |-> guards[k], next |-> after]
        BY <3>2, <4>1
      <4> QED
        BY <4>2
    <3> QED
      BY <3>2, <3>3 DEF f
  <2>2. Lists(f)
    BY <1>3, CreatedLists DEF f
  <2>3. \A a \in 0 .. Len(linked) : Reached(f, a) = Reached(linked, a)
    BY <1>3, CreatedNodes DEF f
  <2>4. more \in 0 .. Len(f) /\ Reached(f, more) = Len(linked) + 1 .. Len(f)
    BY <1>3, CreateGrows DEF f, more
  <2> QED
    BY <2>1, <2>2, <2>3, <2>4
<1>5. more = 0 \/ more = Len(linked) + 1
  BY DEF Fresh, NULL
<1> HIDE DEF f, more
<1> DEFINE z == LastNode(f, guard)
<1>6. /\ \A a \in 0 .. Len(h) : Reached(f, a) = Reached(h, a) /\ Reached(h, a) \subseteq 1 .. Len(h)
      /\ u \in 1 .. Len(f) /\ u \in 0 .. Len(linked)
      /\ Reached(f, u) = (Len(h) + 1 .. Len(linked)) \union Reached(h, guard)
  BY <1>1, <1>2, <1>3, <1>4, ReachedUnfold
<1>7. z \in Reached(h, guard) /\ f[z].next = 0
  <2>1. guard \in 1 .. Len(f)
    BY <1>1, <1>2, <1>3, <1>4
  <2> QED
    BY <1>1, <1>4, <1>6, <2>1, LastOfList
<1>8. LastNode(f, u) = z
  BY <1>4, <1>6, <1>7, LastOfList
<1> HIDE DEF z
<1>9. z \in 1 .. Len(h) /\ z \in 0 .. Len(h)
  BY <1>1, <1>6, <1>7
<1>10. z \notin Reached(f, more) /\ more \notin Reached(f, u)
  <2>1. z \notin Reached(f, more)
    BY <1>1, <1>2, <1>3, <1>4, <1>9
  <2>2. Reached(f, u) \subseteq 1 .. Len(linked)
    BY <1>1, <1>2, <1>3, <1>6
  <2>3. more \notin 1 .. Len(linked)
    BY <1>1, <1>2, <1>3, <1>5
  <2> QED
    BY <2>1, <2>2, <2>3
<1>11. /\ Lists(g) /\ Len(g) = Len(f) /\ SameConds(f, g)
       /\ \A a \in 0 .. Len(f) :
            Reached(g, a) = Reached(f, a) \union IF z \in Reached(f, a) THEN Reached(f, more) ELSE {}
  <2>1. LastNode(f, u) \notin Reached(f, more)
    BY <1>8, <1>10
  <2>2. /\ Lists(Link(f, u, more)) /\ Len(Link(f, u, more)) = Len(f)
        /\ SameConds(f, Link(f, u, more))
        /\ \A a \in 0 .. Len(f) :
             Reached(Link(f, u, more), a) =
               Reached(f, a) \union IF LastNode(f, u) \in Reached(f, a) THEN Reached(f, more) ELSE {}
    <3>1. Lists(f) /\ u \in 1 .. Len(f) /\ more \in 0 .. Len(f) /\ more \notin Reached(f, u)
      BY <1>4, <1>6, <1>10
    <3> QED
      BY <2>1, <3>1, LinkedReached
  <2> QED
    BY <1>8, <2>2
<1> HIDE DEF g
<1> DEFINE new == Len(linked) + 1 .. Len(f)
<1>12. \A a \in 0 .. Len(h) :
         Reached(g, a) = Reached(h, a) \union IF z \in Reached(h, a) THEN new ELSE {}
  <2> TAKE a \in 0 .. Len(h)
  <2>1. Len(h) <= Len(f) /\ Len(f) \in Nat /\ Len(h) \in Nat
    BY <1>1, <1>2, <1>3, <1>4
  <2>2. a \in 0 .. Len(f)
    BY <2>1
  <2>3. Reached(g, a) = Reached(f, a) \union IF z \in Reached(f, a) THEN Reached(f, more) ELSE {}
    BY <1>11, <2>2
  <2>4. Reached(f, a) = Reached(h, a)
    BY <1>6
  <2>5. Reached(f, more) = new
    BY <1>4
  <2> HIDE DEF new
  <2> QED
    BY <2>3, <2>4, <2>5
<1>14. new \in SUBSET (Len(h) + 1 .. Len(g)) /\ Len(h) <= Len(g)
  BY <1>1, <1>2, <1>3, <1>4, <1>11
<1>19. SameConds(h, g)
  <2> SUFFICES ASSUME NEW a \in 1 .. Len(h) PROVE g[a].cond = h[a].cond
    BY DEF SameConds
  <2>1. a \in 1 .. Len(linked) /\ a \in 1 .. Len(f)
    BY <1>1, <1>2, <1>3, <1>4
  <2>2. linked[a].cond = h[a].cond
    BY <1>3 DEF SameConds
  <2>3. f[a] = linked[a]
    BY <1>4, <2>1
  <2>4. g[a].cond = f[a].cond
    BY <1>11, <2>1 DEF SameConds
  <2> QED
    BY <2>2, <2>3, <2>4
<1>13. Conds(g, new) = Range(guards)
  <2>1. SameConds(f, g)
    BY <1>11
  <2>2. SameConds(Create(linked, guards), g)
    BY <2>1 DEF f
  <2> QED
    BY <1>3, <1>4, <2>2, NewConds
<1>15. Extends(h, g, lg, i, Range(guards))
  <2>1. z \in Reached(h, lg[i])
    BY <1>7 DEF guard
  <2> HIDE DEF new
  <2> QED
    BY <1>9, <1>11, <1>12, <1>13, <1>14, <1>19, <2>1 DEF Extends
<1> DEFINE own == Len(h) + 1 .. Len(linked)
<1>16. Reached(g, u) = own \union Reached(g, guard)
  <2>1. u \in 0 .. Len(f) /\ z \in Reached(f, u)
    BY <1>6, <1>7
  <2>2. Reached(g, u) = own \union Reached(h, guard) \union new
    BY <1>4, <1>6, <1>11, <2>1
  <2>3. Reached(g, guard) = Reached(h, guard) \union new
    BY <1>1, <1>7, <1>12
  <2> QED
    BY <2>2, <2>3
<1>17. own \intersect Shared(g, lg) = {}
  <2>1. ASSUME NEW j \in DOMAIN lg PROVE own \intersect Reached(g, lg[j]) = {}
    <3>1. lg[j] \in 0 .. Len(h)
      BY <1>1
    <3>2. Reached(g, lg[j]) \subseteq (1 .. Len(h)) \union new
      BY <1>6, <1>12, <3>1
    <3>3. own \intersect 1 .. Len(h) = {} /\ own \intersect new = {}
      BY <1>1, <1>2, <1>3
    <3> HIDE DEF own, new
    <3> QED
      BY <3>2, <3>3
  <2> HIDE DEF own
  <2> QED
    BY <2>1 DEF Shared
<1>20. Conds(g, own) = Range(conds) /\ own \in SUBSET (Len(h) + 1 .. Len(g))
  <2>1. PICK made : made = Create(h, conds)
    OBVIOUS
  <2>2. SameConds(made, linked) /\ Len(made) = Len(linked)
    <3>1. PICK root : root = Fresh(h, conds)
      OBVIOUS
    <3>2. linked = Link(made, root, guard)
      BY <2>1, <3>1 DEF linked
    <3>3. Len(made) = Len(h) + Len(conds)
      BY <2>1, CreatedConds
    <3>4. SameConds(made, linked)
      BY <1>1, <2>1, <3>1, <3>2, LinkConds
    <3> QED
      BY <1>3, <3>3, <3>4
  <2>3. SameConds(made, g)
    BY <1>1, <1>2, <1>3, <1>4, <1>11, <2>2 DEF SameConds
  <2>4. SameConds(Create(h, conds), g)
    BY <2>1, <2>3
  <2>5. Conds(g, own) = Range(conds)
    BY <1>3, <2>4, NewConds
  <2> QED
    BY <1>1, <1>2, <1>3, <1>4, <1>11, <2>5
<1>18. u \in 1 .. Len(g)
  BY <1>6, <1>11
<1>21. \E own_ \in SUBSET (Len(h) + 1 .. Len(g)) :
         /\ Reached(g, u) = own_ \union Reached(g, guard)
         /\ own_ \intersect Shared(g, lg) = {} /\ Conds(g, own_) = Range(conds)
  <2> HIDE DEF own
  <2> QED
    BY <1>16, <1>17, <1>20
<1> HIDE DEF own, new
<1> QED
  BY <1>15, <1>18, <1>21 DEF g, f, more, linked, u, guard

\* So a heap grows with a copy that waits.
LEMMA WaitingGrows ==
  ASSUME NEW h, Lists(h), NEW conds, IsSequence(conds), NEW guards, IsSequence(guards),
         \A n \in DOMAIN guards : guards[n][1] # "edge",
         NEW lg, \A i \in DOMAIN lg : lg[i] \in 1 .. Len(h), NEW i \in DOMAIN lg
  PROVE  LET linked == Link(Create(h, conds), Fresh(h, conds), lg[i])
             u == Linked(Fresh(h, conds), lg[i])
             g == Link(Create(linked, guards), u, Fresh(linked, guards))
         IN /\ Grows(h, g, lg)
            /\ u \in 1 .. Len(g)
            /\ Reached(g, u) \subseteq (Len(h) + 1 .. Len(g)) \union Shared(g, lg)
<1> DEFINE linked == Link(Create(h, conds), Fresh(h, conds), lg[i])
           u == Linked(Fresh(h, conds), lg[i])
           g == Link(Create(linked, guards), u, Fresh(linked, guards))
<1>1. /\ Extends(h, g, lg, i, Range(guards))
      /\ u \in 1 .. Len(g)
      /\ \E own \in SUBSET (Len(h) + 1 .. Len(g)) : Reached(g, u) = own \union Reached(g, lg[i])
  <2>1. /\ Extends(h, g, lg, i, Range(guards))
        /\ u \in 1 .. Len(g)
        /\ \E own \in SUBSET (Len(h) + 1 .. Len(g)) :
             /\ Reached(g, u) = own \union Reached(g, lg[i])
             /\ own \intersect Shared(g, lg) = {} /\ Conds(g, own) = Range(conds)
    BY WaitingExtends
  <2> HIDE DEF linked, u, g
  <2> QED
    BY <2>1
<1> HIDE DEF linked, u, g
<1>2. \A c \in Range(guards) : c[1] # "edge"
  BY DEF Range
<1>3. Grows(h, g, lg)
  BY <1>1, <1>2, ExtendsGrows
<1>4. Reached(g, lg[i]) \subseteq Shared(g, lg)
  BY DEF Shared
<1> QED
  BY <1>1, <1>3, <1>4 DEF g, linked, u

-------------------------------------------------------------------------------
\* What is kept

\* The parts of an automaton that is good.
LEMMA Sizes ==
  ASSUME NEW b, NEW lg, Good(b, lg)
  PROVE  /\ Len(b.locs) \in Nat /\ Len(b.trans) \in Nat /\ Len(b.heap) \in Nat
         /\ DOMAIN b.locs = 1 .. Len(b.locs) /\ DOMAIN b.trans = 1 .. Len(b.trans)
         /\ DOMAIN b.heap = 1 .. Len(b.heap)
         /\ Lists(b.heap)
<1>1. IsSequence(b.locs) /\ IsSequence(b.trans) /\ Lists(b.heap)
  BY DEF Good, Shaped
<1>2. Len(b.heap) \in Nat /\ DOMAIN b.heap = 1 .. Len(b.heap)
  BY <1>1, HeapFacts
<1>3. Len(b.locs) \in Nat /\ DOMAIN b.locs = 1 .. Len(b.locs)
  BY <1>1, SequenceFacts
<1>4. Len(b.trans) \in Nat /\ DOMAIN b.trans = 1 .. Len(b.trans)
  BY <1>1, SequenceFacts
<1> QED
  BY <1>1, <1>2, <1>3, <1>4

\* Continues is reflexive ...
LEMMA ContinuesItself ==
  ASSUME NEW b, NEW lg, Good(b, lg)
  PROVE  Continues(b, b)
BY Sizes DEF Continues, SameConds

\* ... and transitive.
LEMMA ContinuesFurther ==
  ASSUME NEW b, NEW lg, Good(b, lg), NEW c, Good(c, lg), NEW d, Good(d, lg),
         Continues(b, c), Continues(c, d)
  PROVE  Continues(b, d)
<1>1. /\ Len(b.locs) \in Nat /\ Len(b.trans) \in Nat /\ Len(b.heap) \in Nat
      /\ Len(c.locs) \in Nat /\ Len(c.trans) \in Nat /\ Len(c.heap) \in Nat
      /\ Len(d.locs) \in Nat /\ Len(d.trans) \in Nat /\ Len(d.heap) \in Nat
  BY Sizes
<1>2. \A l \in 1 .. Len(b.locs) : l \in 1 .. Len(c.locs)
  BY <1>1 DEF Continues
<1>3. \A n \in 1 .. Len(b.trans) : n \in 1 .. Len(c.trans)
  BY <1>1 DEF Continues
<1>4. Len(b.locs) <= Len(d.locs) /\ Len(b.trans) <= Len(d.trans) /\ Len(b.heap) <= Len(d.heap)
  <2>1. Len(b.locs) <= Len(c.locs) /\ Len(b.trans) <= Len(c.trans) /\ Len(b.heap) <= Len(c.heap)
    BY DEF Continues
  <2>2. Len(c.locs) <= Len(d.locs) /\ Len(c.trans) <= Len(d.trans) /\ Len(c.heap) <= Len(d.heap)
    BY DEF Continues
  <2>3. \A k, m, n \in Nat : k <= m /\ m <= n => k <= n
    OBVIOUS
  <2>4. Len(b.locs) <= Len(d.locs)
    BY <1>1, <2>1, <2>2, <2>3, Zenon
  <2>5. Len(b.trans) <= Len(d.trans)
    BY <1>1, <2>1, <2>2, <2>3, Zenon
  <2>6. Len(b.heap) <= Len(d.heap)
    BY <1>1, <2>1, <2>2, <2>3, Zenon
  <2> QED
    BY <2>4, <2>5, <2>6
<1>5. \A l \in 1 .. Len(b.locs) : d.locs[l] = b.locs[l]
  BY <1>2 DEF Continues
<1>6. \A n \in 1 .. Len(b.trans) : d.trans[n] = b.trans[n]
  BY <1>3 DEF Continues
<1>7. \A a \in 0 .. Len(b.heap) : a \in 0 .. Len(c.heap)
  BY <1>1 DEF Continues
<1>8. SameConds(b.heap, d.heap)
  BY <1>1 DEF Continues, SameConds
<1>9. \A a \in 0 .. Len(b.heap) : EdgesIn(d.heap, a) = EdgesIn(b.heap, a)
  BY <1>7 DEF Continues
<1>10. \A n \in 1 .. Len(b.trans) :
         b.trans[n].original => Reached(d.heap, b.trans[n].when) = Reached(b.heap, b.trans[n].when)
  BY <1>3 DEF Continues
<1>11. ASSUME NEW l \in Len(b.locs) + 1 .. Len(d.locs) PROVE IsPause(b, d.locs[l])
  <2>1. CASE l \in Len(b.locs) + 1 .. Len(c.locs)
    <3>1. l \in 1 .. Len(c.locs) /\ d.locs[l] = c.locs[l]
      BY <1>1, <2>1 DEF Continues
    <3> QED
      BY <2>1, <3>1 DEF Continues
  <2>2. CASE l \in Len(c.locs) + 1 .. Len(d.locs)
    <3>1. IsPause(c, d.locs[l])
      BY <2>2 DEF Continues
    <3>2. \A m \in Locs : m \in 1 .. Len(b.locs)
      BY <1>1, ListsAssumption DEF Good, Shaped, Locs
    <3>3. \A m \in Locs : c.locs[m] = b.locs[m]
      BY <3>2 DEF Continues
    <3> QED
      BY <3>1, <3>3 DEF IsPause
  <2> QED
    BY <1>1, <2>1, <2>2
<1> QED
  BY <1>4, <1>5, <1>6, <1>8, <1>9, <1>10, <1>11 DEF Continues

\* Where a transition may lead stays while an automaton is continued.
LEMMA StillLeads ==
  ASSUME NEW b, NEW lg, Good(b, lg), NEW c, Continues(b, c), Good(c, lg), NEW goto, Leads(b, goto)
  PROVE  Leads(c, goto)
<1>1. Len(b.locs) \in Nat /\ Len(c.locs) \in Nat
  BY Sizes
<1>2. CASE \E e \in edges : goto = <<e.to>>
  BY <1>2 DEF Leads
<1>3. CASE \E l \in 1 .. Len(b.locs) : b.locs[l].name = goto
  <2>1. PICK l \in 1 .. Len(b.locs) : b.locs[l].name = goto
    BY <1>3
  <2>2. l \in 1 .. Len(c.locs) /\ c.locs[l].name = goto
    BY <1>1, <2>1 DEF Continues
  <2> QED
    BY <2>2 DEF Leads
<1> QED
  BY <1>2, <1>3 DEF Leads

\* Adding a transition continues an automaton ...
LEMMA AddedTransitionContinues ==
  ASSUME NEW b, NEW lg, Good(b, lg), NEW t, Pending(b, lg, t)
  PROVE  Continues(b, AddTransition(b, t))
<1> DEFINE c == AddTransition(b, t)
<1>1. /\ c.locs = b.locs /\ c.heap = b.heap /\ Len(c.trans) = Len(b.trans) + 1
      /\ c.inits = b.inits /\ c.vars = b.vars
      /\ \A n \in 1 .. Len(b.trans) : c.trans[n] = b.trans[n]
  BY TransitionAdded
<1>2. Len(b.locs) \in Nat /\ Len(b.trans) \in Nat /\ Len(b.heap) \in Nat
  BY Sizes
<1> HIDE DEF c
<1>3. Continues(b, c)
  BY <1>1, <1>2 DEF Continues, SameConds
<1> QED
  BY <1>3 DEF c

\* ... as does adding a pause location ...
LEMMA AddedLocationContinues ==
  ASSUME NEW b, NEW lg, Good(b, lg), NEW name, NEW inv,
         \A loc : IsMade(loc, name, inv) => IsPause(b, loc)
  PROVE  Continues(b, AddLocation(b, name, inv))
<1> DEFINE c == AddLocation(b, name, inv)
<1>1. /\ c.trans = b.trans /\ c.heap = b.heap /\ Len(c.locs) = Len(b.locs) + 1
      /\ c.inits = b.inits /\ c.vars = b.vars
      /\ \A l \in 1 .. Len(b.locs) : c.locs[l] = b.locs[l]
      /\ IsMade(c.locs[Len(b.locs) + 1], name, inv)
  BY LocationAdded
<1>2. Len(b.locs) \in Nat /\ Len(b.trans) \in Nat /\ Len(b.heap) \in Nat
  BY Sizes
<1> HIDE DEF c
<1>4. \A l \in Len(b.locs) + 1 .. Len(c.locs) : IsPause(b, c.locs[l])
  <2> SUFFICES ASSUME NEW l \in Len(b.locs) + 1 .. Len(c.locs) PROVE IsPause(b, c.locs[l])
    OBVIOUS
  <2>1. l = Len(b.locs) + 1
    BY <1>1, <1>2
  <2> QED
    BY <1>1, <2>1
<1>3. Continues(b, c)
  BY <1>1, <1>2, <1>4 DEF Continues, SameConds
<1> QED
  BY <1>3 DEF c

\* ... or nodes.
LEMMA GrownContinues ==
  ASSUME NEW b, NEW lg, Good(b, lg), NEW g, Grows(b.heap, g, lg)
  PROVE  Continues(b, WithHeap(b, g))
<1> DEFINE c == WithHeap(b, g)
<1>1. c.trans = b.trans /\ c.heap = g /\ c.locs = b.locs /\ c.inits = b.inits /\ c.vars = b.vars
  BY HeapGrown
<1>2. Len(b.locs) \in Nat /\ Len(b.trans) \in Nat /\ Len(b.heap) \in Nat
  BY Sizes
<1>3. Len(b.heap) <= Len(g) /\ SameConds(b.heap, g)
  BY DEF Grows
<1>5. /\ Lists(b.heap) /\ \A i \in DOMAIN lg : lg[i] \in 1 .. Len(b.heap)
      /\ \A n \in 1 .. Len(b.trans) : b.trans[n].when \in 0 .. Len(b.heap)
  BY DEF Good, Shaped, IsTransition
<1>6. /\ \A a \in 0 .. Len(b.heap) : EdgesIn(g, a) = EdgesIn(b.heap, a)
      /\ \A a \in 0 .. Len(b.heap) :
           Reached(b.heap, a) \intersect Shared(b.heap, lg) = {} => Reached(g, a) = Reached(b.heap, a)
  BY <1>5, GrownReached
<1>7. \A n \in 1 .. Len(b.trans) :
        b.trans[n].original => Reached(g, b.trans[n].when) = Reached(b.heap, b.trans[n].when)
  BY <1>5, <1>6 DEF Good, Untouched
<1> HIDE DEF c
<1>4. Continues(b, c)
  BY <1>1, <1>2, <1>3, <1>6, <1>7 DEF Continues
<1> QED
  BY <1>4 DEF c

-------------------------------------------------------------------------------
\* One transition after another

\* Transitions may lead to locations of these names that are still to be made.
LeadOr(b, names) == \A n \in 1 .. Len(b.trans) : Leads(b, b.trans[n].goto) \/ b.trans[n].goto \in names

\* A transition is added that leads to where there is a location, or will be.
LEMMA AddedLeads ==
  ASSUME NEW b, NEW lg, Good(b, lg), NEW t, Pending(b, lg, t), NEW names, LeadOr(b, names),
         Leads(b, t.goto) \/ t.goto \in names
  PROVE  LeadOr(AddTransition(b, t), names)
<1> DEFINE c == AddTransition(b, t)
<1>1. /\ Good(c, lg) /\ Len(c.trans) = Len(b.trans) + 1
      /\ \A n \in 1 .. Len(b.trans) : c.trans[n] = b.trans[n]
      /\ c.trans[Len(b.trans) + 1] = t
  BY TransitionAdded
<1>2. Continues(b, c)
  BY AddedTransitionContinues
<1>3. Len(b.trans) \in Nat
  BY Sizes
<1> HIDE DEF c
<1>4. ASSUME NEW n \in 1 .. Len(c.trans) PROVE Leads(c, c.trans[n].goto) \/ c.trans[n].goto \in names
  <2>1. CASE n \in 1 .. Len(b.trans)
    <3>1. Leads(b, b.trans[n].goto) \/ b.trans[n].goto \in names
      BY <2>1 DEF LeadOr
    <3>2. c.trans[n].goto = b.trans[n].goto
      BY <1>1, <2>1
    <3>3. Leads(b, b.trans[n].goto) => Leads(c, b.trans[n].goto)
      BY <1>1, <1>2, StillLeads
    <3> QED
      BY <3>1, <3>2, <3>3
  <2>2. CASE n = Len(b.trans) + 1
    <3>1. Leads(b, t.goto) => Leads(c, t.goto)
      BY <1>1, <1>2, StillLeads
    <3> QED
      BY <1>1, <2>2, <3>1
  <2> QED
    BY <1>1, <1>3, <2>1, <2>2
<1> QED
  BY <1>4 DEF LeadOr, c

\* What is made without transitions.
LEMMA StillLeadOr ==
  ASSUME NEW b, NEW lg, Good(b, lg), NEW c, Good(c, lg), Continues(b, c), c.trans = b.trans,
         NEW names, LeadOr(b, names)
  PROVE  LeadOr(c, names)
<1>1. ASSUME NEW n \in 1 .. Len(c.trans) PROVE Leads(c, c.trans[n].goto) \/ c.trans[n].goto \in names
  <2>1. Leads(b, b.trans[n].goto) \/ b.trans[n].goto \in names
    BY DEF LeadOr
  <2>2. Leads(b, b.trans[n].goto) => Leads(c, b.trans[n].goto)
    BY StillLeads
  <2> QED
    BY <2>1, <2>2
<1> QED
  BY <1>1 DEF LeadOr

\* The location that was to be made is there.
LEMMA NamesFulfilled ==
  ASSUME NEW b, NEW name, LeadOr(b, {name}), \E l \in 1 .. Len(b.locs) : b.locs[l].name = name
  PROVE  LeadOr(b, {})
BY DEF LeadOr, Leads

\* No location is to be made: all transitions lead somewhere.
LEMMA NothingMissing ==
  ASSUME NEW b
  PROVE  AllLead(b) <=> LeadOr(b, {})
BY DEF AllLead, LeadOr

\* A transition to be added may leave from elsewhere and reset something else.
WithReset(t, reset) == [t EXCEPT !.reset = reset]

NotLevel(x) == x # "level"

\* A reset of a variable other than level is added to a transition to be added.
LEMMA PendingReset ==
  ASSUME NEW b, NEW lg, NEW t, Pending(b, lg, t), NEW y, NotLevel(y), NEW v,
         NEW u, u = WithReset(t, Reset(t.reset, y, v))
  PROVE  Pending(b, lg, u) /\ u.goto = t.goto
<1>0. PICK reset : reset = Reset(t.reset, y, v)
  OBVIOUS
<1>1. /\ t = [from |-> t.from, goto |-> t.goto, original |-> t.original, when |-> t.when,
              reset |-> t.reset]
      /\ t.from \in 1 .. Len(b.locs) /\ t.when \in 0 .. Len(b.heap) /\ ~t.original
      /\ t.original \in BOOLEAN
  BY DEF Pending, IsTransition
<1>2. u = [from |-> t.from, goto |-> t.goto, original |-> t.original, when |-> t.when,
           reset |-> reset]
  BY <1>0, <1>1 DEF WithReset
<1>3. /\ u.from = t.from /\ u.goto = t.goto /\ u.original = t.original /\ u.when = t.when
      /\ u.reset = reset
  BY <1>2
<1>5. Settled(u)
  <2>1. Settled(t) /\ IsSequence(t.reset)
    BY DEF Pending, IsTransition, Settled
  <2>2. PICK old : old = t.reset
    OBVIOUS
  <2>3. IsSequence(Reset(old, y, v)) /\ LastReset(Reset(old, y, v), "level") = LastReset(old, "level")
    BY <2>1, <2>2, ResetElsewhere DEF NotLevel
  <2> QED
    BY <1>0, <1>3, <2>1, <2>2, <2>3 DEF Settled
<1>4. IsTransition(b, u)
  BY <1>1, <1>2, <1>3, <1>5 DEF IsTransition
<1> QED
  BY <1>1, <1>3, <1>4 DEF Pending

\* It leaves from another location.
LEMMA PendingFrom ==
  ASSUME NEW b, NEW lg, NEW t, Pending(b, lg, t), NEW from \in 1 .. Len(b.locs),
         NEW u, u = [t EXCEPT !.from = from]
  PROVE  Pending(b, lg, u) /\ u.goto = t.goto
<1>1. /\ t = [from |-> t.from, goto |-> t.goto, original |-> t.original, when |-> t.when,
              reset |-> t.reset]
      /\ t.when \in 0 .. Len(b.heap) /\ ~t.original /\ t.original \in BOOLEAN
  BY DEF Pending, IsTransition
<1>2. u = [from |-> from, goto |-> t.goto, original |-> t.original, when |-> t.when,
           reset |-> t.reset]
  BY <1>1
<1>3. /\ u.from = from /\ u.goto = t.goto /\ u.original = t.original /\ u.when = t.when
      /\ u.reset = t.reset
  BY <1>2
<1>5. Settled(u)
  BY <1>3 DEF Pending, IsTransition, Settled
<1>4. IsTransition(b, u)
  BY <1>1, <1>2, <1>3, <1>5 DEF IsTransition
<1> QED
  BY <1>1, <1>3, <1>4 DEF Pending

\* A location is made before it is added.
LEMMA PendingAtLocation ==
  ASSUME NEW b, NEW lg, Good(b, lg), NEW t, Pending(b, lg, t), NEW name, NEW inv
  PROVE  Pending(AddLocation(b, name, inv), lg, t)
<1> DEFINE c == AddLocation(b, name, inv)
<1>1. c.heap = b.heap /\ c.trans = b.trans /\ Len(c.locs) = Len(b.locs) + 1
  BY LocationAdded
<1>2. Len(b.locs) \in Nat
  BY Sizes
<1> HIDE DEF c
<1>3. IsTransition(c, t)
  BY <1>1, <1>2 DEF Pending, IsTransition
<1>4. Pending(c, lg, t)
  BY <1>1, <1>3 DEF Pending
<1> QED
  BY <1>4 DEF c

\* A transition with a guard of its own is added, another one is still to be.
LEMMA CopyAdded ==
  ASSUME NEW b, NEW lg, Good(b, lg), NEW t, Pending(b, lg, t), NEW u,
         NEW conds, IsSequence(conds),
         u = [from |-> u.from, goto |-> u.goto, original |-> FALSE, when |-> Fresh(b.heap, conds),
              reset |-> u.reset],
         u.from \in 1 .. Len(b.locs), Settled(u)
  PROVE  LET d == WithHeap(b, Create(b.heap, conds))
         IN /\ Good(d, lg) /\ Continues(b, d) /\ d.trans = b.trans
            /\ Pending(d, lg, u)
            /\ Pending(AddTransition(d, u), lg, t)
<1> DEFINE g == Create(b.heap, conds)
           d == WithHeap(b, g)
<1>1. Lists(b.heap) /\ Len(b.heap) \in Nat
  BY Sizes
<1>2. /\ Grows(b.heap, g, lg) /\ Fresh(b.heap, conds) \in 0 .. Len(g)
      /\ Reached(g, Fresh(b.heap, conds)) = Len(b.heap) + 1 .. Len(g)
  BY <1>1, CreateGrows
<1>3. u.when = Fresh(b.heap, conds) /\ u.original = FALSE
  OBVIOUS
<1> HIDE DEF g
<1>4. /\ Good(d, lg) /\ d.locs = b.locs /\ d.trans = b.trans /\ d.heap = g
      /\ Pending(d, lg, t)
      /\ IsTransition(d, u) /\ ~u.original
           /\ Reached(g, u.when) \subseteq (Len(b.heap) + 1 .. Len(g)) \union Shared(g, lg)
         => Pending(d, lg, u)
  BY <1>2, HeapGrown
<1>5. Continues(b, d)
  BY <1>2, GrownContinues
<1> HIDE DEF d
<1>6. IsTransition(d, u)
  BY <1>2, <1>3, <1>4 DEF IsTransition
<1>7. Pending(d, lg, u)
  BY <1>2, <1>3, <1>4, <1>6
<1> DEFINE c == AddTransition(d, u)
<1>8. /\ c.locs = d.locs /\ c.heap = g /\ Len(c.trans) = Len(d.trans) + 1
      /\ \A n \in 1 .. Len(d.trans) : c.trans[n] = d.trans[n]
      /\ c.trans[Len(d.trans) + 1] = u
  BY <1>4, <1>7, TransitionAdded
<1>9. Len(d.trans) \in Nat
  BY <1>4, Sizes
<1> HIDE DEF c
<1>10. IsTransition(c, t) /\ ~t.original
  BY <1>4, <1>8 DEF Pending, IsTransition
<1>11. Reached(g, t.when) \intersect Reached(g, u.when) \subseteq Shared(g, lg)
  <2>1. /\ t.when \in 0 .. Len(b.heap)
        /\ \A i \in DOMAIN lg : lg[i] \in 1 .. Len(b.heap)
    BY DEF Pending, IsTransition, Good, Shaped
  <2>2. /\ Reached(g, t.when) \subseteq Reached(b.heap, t.when) \union Shared(g, lg)
        /\ Reached(b.heap, t.when) \subseteq 1 .. Len(b.heap)
    BY <1>1, <1>2, <2>1, GrownReached
  <2>3. (Len(b.heap) + 1 .. Len(g)) \intersect 1 .. Len(b.heap) = {}
    BY <1>1
  <2> QED
    BY <1>2, <1>3, <2>2, <2>3
<1>12. ASSUME NEW n \in 1 .. Len(c.trans)
       PROVE  Reached(c.heap, t.when) \intersect Reached(c.heap, c.trans[n].when) \subseteq Shared(c.heap, lg)
  <2>1. CASE n \in 1 .. Len(d.trans)
    BY <1>4, <1>8, <2>1 DEF Pending
  <2>2. CASE n = Len(d.trans) + 1
    BY <1>8, <1>11, <2>2
  <2> QED
    BY <1>8, <1>9, <2>1, <2>2
<1>13. Pending(c, lg, t)
  BY <1>10, <1>12 DEF Pending
<1> QED
  BY <1>4, <1>5, <1>7, <1>13 DEF c, d, g

-------------------------------------------------------------------------------
\* A chain of hops

\* What the name of a pause location is made of.
LEMMA PauseNames ==
  ASSUME NEW m, NEW i, NEW nr, NEW k, NEW name, name = PauseName(m, i, nr, k)
  PROVE  /\ IsPauseName(name)
         /\ name[1] = m /\ name[2] = i /\ name[3] = nr /\ name[4] = k
<1>1. name[1] = m /\ name[2] = i /\ name[3] = nr /\ name[4] = k
  BY DEF PauseName
<1>2. name = PauseName(name[1], name[2], name[3], name[4])
  BY <1>1
<1> QED
  BY <1>1, <1>2 DEF IsPauseName

\* The location that one of them leads to and the next one leaves.
LEMMA PauseMade ==
  ASSUME NEW b, NEW lg, Good(b, lg), NEW t, Pending(b, lg, t), t.from \in Locs,
         NEW name, name = PauseName(t.from, name[2], name[3], name[4]),
         NEW inv, inv = b.locs[t.from].inv,
         LeadOr(b, {name}), Leads(b, t.goto), IsTemporal(feature)
  PROVE  LET c == AddLocation(b, name, inv)
         IN /\ Good(c, lg) /\ Continues(b, c) /\ c.heap = b.heap
            /\ Pending(c, lg, t) /\ LeadOr(c, {}) /\ Leads(c, t.goto)
            /\ Len(c.locs) \in 1 .. Len(c.locs)
<1> DEFINE c == AddLocation(b, name, inv)
<1>1. /\ Good(c, lg) /\ c.heap = b.heap /\ c.trans = b.trans
      /\ Len(c.locs) = Len(b.locs) + 1 /\ c.locs[Len(b.locs) + 1].name = name
  BY LocationAdded
<1>2. Continues(b, c)
  <2>1. ASSUME NEW loc, IsMade(loc, name, inv) PROVE IsPause(b, loc)
    <3>1. loc.name = name
      BY <2>1 DEF IsMade
    <3>2. name = PauseName(t.from, name[2], name[3], name[4])
      OBVIOUS
    <3>3. PICK m, called : m \in Locs /\ m = t.from
                             /\ called = PauseName(m, loc.name[2], loc.name[3], loc.name[4])
      OBVIOUS
    <3>4. IsMade(loc, called, b.locs[m].inv)
      BY <2>1, <3>1, <3>2, <3>3
    <3> QED
      BY <3>3, <3>4 DEF IsPause, IsMade
  <2> QED
    BY <2>1, AddedLocationContinues
<1>3. Pending(c, lg, t)
  BY PendingAtLocation
<1>4. Len(b.locs) \in Nat
  BY Sizes
<1> HIDE DEF c
<1>5. Len(c.locs) \in 1 .. Len(c.locs) /\ c.locs[Len(c.locs)].name = name
  BY <1>1, <1>4
<1>6. LeadOr(c, {name})
  BY <1>1, <1>2, StillLeadOr
<1>7. LeadOr(c, {})
  BY <1>5, <1>6, NamesFulfilled
<1>8. Leads(c, t.goto)
  BY <1>1, <1>2, StillLeads
<1> QED
  BY <1>1, <1>2, <1>3, <1>5, <1>7, <1>8 DEF c

\* The record of a hop: a copy of the match with four fields changed.
IsHopRecord(u, c, t, from, goto, reset) ==
  /\ t = [from |-> t.from, goto |-> t.goto, original |-> t.original, when |-> t.when,
          reset |-> t.reset]
  /\ u = [[Copied(c, t) EXCEPT !.goto = goto, !.original = FALSE, !.reset = reset] EXCEPT !.from = from]

LEMMA HopRecord ==
  ASSUME NEW c, NEW t, NEW from, NEW goto, NEW reset, NEW u, IsHopRecord(u, c, t, from, goto, reset)
  PROVE  u = [from |-> from, goto |-> goto, original |-> FALSE,
              when |-> Fresh(c.heap, Contents(c.heap, t.when)), reset |-> reset]
<1> DEFINE conds == Contents(c.heap, t.when)
           hop == [Copied(c, t) EXCEPT !.goto = goto, !.original = FALSE, !.reset = reset]
<1>a. Copied(c, t) = [t EXCEPT !.when = Fresh(c.heap, conds)]
  BY DEF Copied
<1>1. PICK from0, goto0, original0, when0, reset0 :
        t = [from |-> from0, goto |-> goto0, original |-> original0, when |-> when0,
             reset |-> reset0]
  BY DEF IsHopRecord
<1>0. PICK no : no = FALSE
  OBVIOUS
<1>2. PICK v : v = Copied(c, t)
  OBVIOUS
<1>3. v = [from |-> from0, goto |-> goto0, original |-> original0, when |-> Fresh(c.heap, conds),
           reset |-> reset0]
  BY <1>a, <1>1, <1>2
<1>4. hop = [v EXCEPT !.goto = goto, !.original = no, !.reset = reset]
  BY <1>0, <1>2
<1>5. PICK w : w = [v EXCEPT !.goto = goto]
  OBVIOUS
<1>6. w = [from |-> from0, goto |-> goto, original |-> original0, when |-> Fresh(c.heap, conds),
           reset |-> reset0]
  BY <1>3, <1>5
<1>7. PICK x : x = [w EXCEPT !.original = no]
  OBVIOUS
<1>8. x = [from |-> from0, goto |-> goto, original |-> no, when |-> Fresh(c.heap, conds),
           reset |-> reset0]
  BY <1>6, <1>7
<1>9. [v EXCEPT !.goto = goto, !.original = no, !.reset = reset] = [x EXCEPT !.reset = reset]
  <2>1. [v EXCEPT !.goto = goto, !.original = no, !.reset = reset]
          = [[[v EXCEPT !.goto = goto] EXCEPT !.original = no] EXCEPT !.reset = reset]
    OBVIOUS
  <2> QED
    BY <1>5, <1>7, <2>1
<1>91. u = [hop EXCEPT !.from = from]
  BY DEF IsHopRecord
<1> HIDE DEF hop
<1>10. hop = [from |-> from0, goto |-> goto, original |-> no, when |-> Fresh(c.heap, conds),
              reset |-> reset]
  <2>1. hop = [x EXCEPT !.reset = reset]
    BY <1>4, <1>9
  <2> QED
    BY <1>8, <2>1
<1>11. PICK y : y = hop
  OBVIOUS
<1>12. y = [from |-> from0, goto |-> goto, original |-> no, when |-> Fresh(c.heap, conds),
            reset |-> reset]
  BY <1>10, <1>11
<1>13. [y EXCEPT !.from = from]
         = [from |-> from, goto |-> goto, original |-> no, when |-> Fresh(c.heap, conds),
            reset |-> reset]
  BY <1>12
<1> QED
  BY <1>0, <1>91, <1>11, <1>13

\* The hop itself.
LEMMA HopAdded ==
  ASSUME NEW c, NEW lg, Good(c, lg), NEW t, Pending(c, lg, t), LeadOr(c, {}),
         NEW from \in 1 .. Len(c.locs), NEW goto, IsPauseName(goto),
         NEW reset, IsSequence(reset), NEW u,
         u = [[Copied(c, t) EXCEPT !.goto = goto, !.original = FALSE, !.reset = reset] EXCEPT !.from = from],
         NEW d, d = AddTransition(WithCopy(c, t), u)
  PROVE  Good(d, lg) /\ Continues(c, d) /\ Pending(d, lg, t) /\ LeadOr(d, {goto})
<1> DEFINE conds == Contents(c.heap, t.when)
<1>1. /\ t = [from |-> t.from, goto |-> t.goto, original |-> t.original, when |-> t.when,
              reset |-> t.reset]
      /\ t.when \in 0 .. Len(c.heap)
  BY DEF Pending, IsTransition
<1>2. IsSequence(conds)
  BY <1>1, Sizes, ContentsRead
<1>4. WithCopy(c, t) = WithHeap(c, Create(c.heap, conds))
  BY DEF WithCopy, WithHeap, Duplicate
<1>5. u = [from |-> from, goto |-> goto, original |-> FALSE, when |-> Fresh(c.heap, conds),
           reset |-> reset]
  <2>1. IsHopRecord(u, c, t, from, goto, reset)
    BY <1>1 DEF IsHopRecord
  <2> QED
    BY <2>1, HopRecord
<1> HIDE DEF conds
<1>6. /\ u = [from |-> u.from, goto |-> u.goto, original |-> FALSE, when |-> Fresh(c.heap, conds),
              reset |-> u.reset]
      /\ u.from \in 1 .. Len(c.locs) /\ u.goto = goto /\ u.reset = reset
  BY <1>5
<1>13. Settled(u)
  BY <1>6 DEF Settled
<1> DEFINE e == WithHeap(c, Create(c.heap, conds))
<1>7. /\ Good(e, lg) /\ Continues(c, e) /\ e.trans = c.trans /\ Pending(e, lg, u)
      /\ Pending(AddTransition(e, u), lg, t)
  BY <1>2, <1>6, <1>13, CopyAdded
<1>71. d = AddTransition(e, u)
  BY <1>4
<1> HIDE DEF e
<1>72. Pending(d, lg, t)
  BY <1>7, <1>71
<1>8. Good(d, lg)
  BY <1>7, <1>71, TransitionAdded
<1>9. Continues(e, d)
  BY <1>7, <1>71, AddedTransitionContinues
<1>10. Continues(c, d)
  BY <1>7, <1>8, <1>9, ContinuesFurther
<1>11. LeadOr(e, {goto})
  <2>1. LeadOr(e, {})
    BY <1>7, StillLeadOr
  <2> QED
    BY <2>1 DEF LeadOr
<1>12. LeadOr(d, {goto})
  BY <1>6, <1>7, <1>71, <1>11, AddedLeads
<1> QED
  BY <1>8, <1>72, <1>10, <1>12

\* After each hop of a chain, either the next location is the only one missing, or the
\* chain has ended and none is.
LEMMA HopStep ==
  ASSUME NEW b, NEW lg, Good(b, lg), NEW t, Pending(b, lg, t), t.from \in Locs, NEW nr,
         NEW assigned, IsSequence(assigned), \A m \in DOMAIN assigned : assigned[m] # "level",
         NEW k \in 1 .. Len(assigned), k # 1 => IsTemporal(feature),
         k = 1 => LeadOr(b, {}), k # 1 => LeadOr(b, {PauseName(t.from, id, nr, k - 1)}),
         Leads(b, t.goto), NEW d, d = Hop(b, t, k, nr, assigned)
  PROVE  /\ Good(d, lg) /\ Continues(b, d)
         /\ k < Len(assigned) => Pending(d, lg, t) /\ LeadOr(d, {PauseName(t.from, id, nr, k)})
         /\ k = Len(assigned) => LeadOr(d, {})
<1> DEFINE name == PauseName(t.from, id, nr, k - 1)
           c == IF k = 1 THEN b ELSE AddLocation(b, name, b.locs[t.from].inv)
           from == IF k = 1 THEN t.from ELSE Len(c.locs)
           goto == PauseName(t.from, id, nr, k)
           reset == Reset(Identities(b.vars), assigned[k], Holding(assigned[k]))
           n == Len(assigned)
           hop == [Copied(b, t) EXCEPT !.goto = goto, !.original = FALSE, !.reset = reset]
           u == [t EXCEPT !.from = from, !.reset = Reset(@, assigned[n], Holding(assigned[n]))]
<1>1. d = IF k < n THEN AddTransition(WithCopy(c, t), [hop EXCEPT !.from = from])
          ELSE AddTransition(c, u)
  BY DEF Hop
<1>2. /\ Good(c, lg) /\ Continues(b, c) /\ c.heap = b.heap
      /\ Pending(c, lg, t) /\ LeadOr(c, {}) /\ Leads(c, t.goto)
      /\ from \in 1 .. Len(c.locs)
  <2>1. CASE k = 1
    <3>1. c = b /\ from = t.from /\ LeadOr(b, {})
      BY <2>1
    <3>2. t.from \in 1 .. Len(b.locs)
      BY DEF Pending, IsTransition
    <3>3. Continues(b, b)
      BY ContinuesItself
    <3> HIDE DEF c, from
    <3> QED
      BY <3>1, <3>2, <3>3
  <2>2. CASE k # 1
    <3>1. PICK inv : inv = b.locs[t.from].inv
      OBVIOUS
    <3>2. c = AddLocation(b, name, inv) /\ from = Len(c.locs) /\ LeadOr(b, {name})
      BY <2>2, <3>1
    <3>3. PICK called : called = name
      OBVIOUS
    <3>4. called = PauseName(t.from, called[2], called[3], called[4])
      BY <3>3, PauseNames
    <3> HIDE DEF c, from, name
    <3> QED
      BY <2>2, <3>1, <3>2, <3>3, <3>4, PauseMade
  <2> QED
    BY <2>1, <2>2
<1>5. n \in DOMAIN assigned /\ k \in DOMAIN assigned /\ assigned[n] # "level" /\ assigned[k] # "level"
  BY SequenceFacts
<1>6. IsPauseName(goto)
  BY PauseNames
<1>7. IsSequence(reset)
  <2>1. IsSequence(Identities(b.vars))
    BY IdentitiesRead DEF Good, Shaped
  <2>2. PICK xs, y, v : xs = Identities(b.vars) /\ y = assigned[k] /\ v = Holding(assigned[k])
    OBVIOUS
  <2>3. IsSequence(Reset(xs, y, v))
    BY <1>5, <2>1, <2>2, ResetElsewhere
  <2> QED
    BY <2>2, <2>3
<1> HIDE DEF c, from, goto, reset
<1>3. CASE k < n
  <2>1. Copied(b, t) = Copied(c, t)
    BY <1>2 DEF Copied
  <2>2. d = AddTransition(WithCopy(c, t), [[Copied(c, t) EXCEPT !.goto = goto, !.original = FALSE, !.reset = reset] EXCEPT !.from = from])
    BY <1>1, <1>3, <2>1
  <2> DEFINE w == [[Copied(c, t) EXCEPT !.goto = goto, !.original = FALSE, !.reset = reset] EXCEPT !.from = from]
  <2>3. Good(d, lg) /\ Continues(c, d) /\ Pending(d, lg, t) /\ LeadOr(d, {goto})
    <3>1. PICK v : v = w
      OBVIOUS
    <3>2. d = AddTransition(WithCopy(c, t), v)
      BY <2>2, <3>1
    <3> QED
      BY <1>2, <1>6, <1>7, <3>1, <3>2, HopAdded
  <2>4. Continues(b, d)
    BY <1>2, <2>3, ContinuesFurther
  <2> QED
    BY <1>3, <2>3, <2>4 DEF goto
<1>4. CASE ~(k < n)
  <2>1. d = AddTransition(c, u)
    BY <1>1, <1>4
  <2>2. Pending(c, lg, u) /\ u.goto = t.goto
    <3>0. PICK y, hold : y = assigned[n] /\ hold = Holding(assigned[n]) /\ y # "level"
      BY <1>5
    <3>1. PICK r : r = Reset(t.reset, assigned[n], Holding(assigned[n]))
      OBVIOUS
    <3>2. u = [[t EXCEPT !.from = from] EXCEPT !.reset = r]
      BY <3>1
    <3>3. PICK v : v = [t EXCEPT !.from = from]
      OBVIOUS
    <3> HIDE DEF u
    <3>4. u = [v EXCEPT !.reset = r]
      BY <3>2, <3>3
    <3>5. Pending(c, lg, v) /\ v.goto = t.goto
      BY <1>2, <3>3, PendingFrom
    <3>6. PICK w : w = u
      OBVIOUS
    <3>7. w = [v EXCEPT !.reset = r]
      BY <3>4, <3>6
    <3>8. Pending(c, lg, v)
      BY <3>5
    <3>10. v.reset = t.reset
      <4>1. t = [from |-> t.from, goto |-> t.goto, original |-> t.original, when |-> t.when,
                 reset |-> t.reset]
        BY <1>2 DEF Pending, IsTransition
      <4> QED
        BY <3>3, <4>1
    <3>11. r = Reset(v.reset, y, hold)
      BY <3>0, <3>1, <3>10
    <3>9. Pending(c, lg, w) /\ w.goto = v.goto
      <4>1. w = WithReset(v, Reset(v.reset, y, hold)) /\ NotLevel(y)
        BY <3>0, <3>7, <3>11 DEF WithReset, NotLevel
      <4> QED
        BY <3>8, <4>1, PendingReset
    <3> QED
      BY <3>5, <3>6, <3>9
  <2> HIDE DEF u
  <2>3. Good(d, lg) /\ Continues(c, d)
    BY <1>2, <2>1, <2>2, TransitionAdded, AddedTransitionContinues
  <2>4. LeadOr(d, {})
    BY <1>2, <2>1, <2>2, AddedLeads
  <2>5. Continues(b, d)
    BY <1>2, <2>3, ContinuesFurther
  <2> QED
    BY <1>4, <2>3, <2>4, <2>5
<1> QED
  BY <1>3, <1>4

\* The hops one after another make a function.
AreHops(hops, b, t, nr, assigned, n) ==
  hops = [k \in 0 .. n |-> IF k = 0 THEN b ELSE Hop(hops[k - 1], t, k, nr, assigned)]

\* There is such a function, for any number of hops.
LEMMA HopsUnfold ==
  ASSUME NEW b, NEW t, NEW nr, NEW assigned, NEW n \in Nat
  PROVE  \E f : AreHops(f, b, t, nr, assigned, n)
<1> DEFINE Is(m, f) == AreHops(f, b, t, nr, assigned, m)
           T == {m \in 0 .. n : \E f : Is(m, f)}
<1>1. 0 \in T
  <2>1. Is(0, [k \in 0 .. 0 |-> b])
    BY DEF AreHops
  <2> HIDE DEF Is
  <2> QED
    BY <2>1
<1>2. ASSUME NEW m \in 1 .. n, m - 1 \in T PROVE m \in T
  <2>1. PICK f : Is(m - 1, f)
    BY <1>2
  <2> DEFINE g == [k \in 0 .. m |-> IF k = m THEN Hop(f[m - 1], t, m, nr, assigned) ELSE f[k]]
  <2>2. ASSUME NEW k \in 0 .. m
        PROVE  g[k] = IF k = 0 THEN b ELSE Hop(g[k - 1], t, k, nr, assigned)
    <3>1. CASE k = 0
      <4>1. f[0] = b
        BY <2>1 DEF AreHops
      <4> QED
        BY <3>1, <4>1
    <3>2. CASE k = m
      <4>1. g[k - 1] = f[m - 1]
        BY <3>2
      <4> QED
        BY <3>2, <4>1
    <3>3. CASE k # 0 /\ k # m
      <4>1. k \in 0 .. m - 1 /\ g[k] = f[k] /\ g[k - 1] = f[k - 1]
        BY <3>3
      <4>2. f[k] = Hop(f[k - 1], t, k, nr, assigned)
        BY <2>1, <3>3, <4>1 DEF AreHops
      <4> QED
        BY <3>3, <4>1, <4>2
    <3> QED
      BY <3>1, <3>2, <3>3
  <2>3. Is(m, g)
    <3>1. g = [k \in 0 .. m |-> g[k]]
      OBVIOUS
    <3> HIDE DEF g
    <3> QED
      BY <2>2, <3>1 DEF AreHops
  <2> HIDE DEF g, Is
  <2> QED
    BY <2>3
<1> HIDE DEF T
<1>3. \A m \in 0 .. n : m \in T
  BY <1>1, <1>2, Upwards
<1>4. \E f : Is(n, f)
  <2>1. n \in 0 .. n
    OBVIOUS
  <2>2. n \in T
    BY <1>3, <2>1
  <2> QED
    BY <2>2 DEF T
<1> QED
  BY <1>4

\* Whatever is stored in whatever order, the transitions that do it are fine.
LEMMA OrderedResetsFine ==
  ASSUME NEW b, NEW lg, Fine(b, lg), NEW t, Pending(b, lg, t), t.from \in Locs,
         Leads(b, t.goto), NEW nr,
         NEW assigned, IsSequence(assigned), \A m \in DOMAIN assigned : assigned[m] # "level",
         Len(assigned) > 1 => IsTemporal(feature)
  PROVE  Fine(OrderedResets(b, t, nr, assigned), lg) /\ Continues(b, OrderedResets(b, t, nr, assigned))
<1> DEFINE d == OrderedResets(b, t, nr, assigned)
           n == Len(assigned)
<1>1. Good(b, lg) /\ LeadOr(b, {})
  BY NothingMissing DEF Fine
<1>2. n \in Nat
  BY SequenceFacts
<1>3. CASE n > 1
  <2> DEFINE hops == CHOOSE f : AreHops(f, b, t, nr, assigned, n)
  <2>1. d = hops[n]
    BY <1>3 DEF OrderedResets, AreHops
  <2> HIDE DEF d
  <2>2. hops[0] = b /\ \A k \in 1 .. n : hops[k] = Hop(hops[k - 1], t, k, nr, assigned)
    <3>1. \E f : AreHops(f, b, t, nr, assigned, n)
      BY <1>2, HopsUnfold
    <3>2. AreHops(hops, b, t, nr, assigned, n)
      BY <3>1
    <3> HIDE DEF hops
    <3>3. 0 \in 0 .. n /\ \A k \in 1 .. n : k \in 0 .. n /\ k # 0
      BY <1>2
    <3>4. hops[0] = b
      BY <3>2, <3>3 DEF AreHops
    <3>5. ASSUME NEW k \in 1 .. n PROVE hops[k] = Hop(hops[k - 1], t, k, nr, assigned)
      BY <3>2, <3>3 DEF AreHops
    <3> QED
      BY <3>4, <3>5
  <2> HIDE DEF hops
  <2> DEFINE names(k) == IF k = 0 THEN {} ELSE {PauseName(t.from, id, nr, k)}
             T == {k \in 0 .. n :
                     /\ Good(hops[k], lg) /\ Continues(b, hops[k])
                     /\ k < n => Pending(hops[k], lg, t) /\ LeadOr(hops[k], names(k))
                     /\ k = n => LeadOr(hops[k], {})}
  <2>3. 0 \in T
    <3>1. Continues(b, b)
      BY <1>1, ContinuesItself
    <3> QED
      BY <1>1, <1>2, <1>3, <2>2, <3>1
  <2>4. ASSUME NEW k \in 1 .. n, k - 1 \in T PROVE k \in T
    <3> DEFINE c == hops[k - 1]
    <3>1. /\ Good(c, lg) /\ Continues(b, c) /\ Pending(c, lg, t) /\ LeadOr(c, names(k - 1))
          /\ hops[k] = Hop(c, t, k, nr, assigned)
      BY <1>2, <2>2, <2>4
    <3> HIDE DEF c
    <3>2. (k = 1 => LeadOr(c, {})) /\ (k # 1 => LeadOr(c, {PauseName(t.from, id, nr, k - 1)}))
      <4>1. CASE k = 1
        BY <3>1, <4>1
      <4>2. CASE k # 1
        <5>1. k - 1 # 0
          BY <4>2
        <5> QED
          BY <3>1, <4>2, <5>1
      <4> QED
        BY <4>1, <4>2
    <3>3. Leads(c, t.goto)
      BY <1>1, <3>1, StillLeads
    <3>7. k # 1 => IsTemporal(feature)
      BY <2>4
    <3>4. /\ Good(hops[k], lg) /\ Continues(c, hops[k])
          /\ k < n => Pending(hops[k], lg, t) /\ LeadOr(hops[k], {PauseName(t.from, id, nr, k)})
          /\ k = n => LeadOr(hops[k], {})
      BY <3>1, <3>2, <3>3, <3>7, HopStep
    <3>5. Continues(b, hops[k])
      BY <1>1, <3>1, <3>4, ContinuesFurther
    <3>6. k # 0 /\ k \in 0 .. n
      OBVIOUS
    <3> QED
      BY <3>4, <3>5, <3>6
  <2> HIDE DEF T
  <2>5. \A k \in 0 .. n : k \in T
    BY <1>2, <2>3, <2>4, Upwards
  <2>6. Good(hops[n], lg) /\ Continues(b, hops[n]) /\ LeadOr(hops[n], {})
    <3>1. n \in T
      BY <1>2, <2>5
    <3> QED
      BY <3>1 DEF T
  <2>7. AllLead(hops[n])
    BY <2>6, NothingMissing
  <2> QED
    BY <2>1, <2>6, <2>7 DEF Fine, d
<1>4. CASE ~(n > 1)
  <2> DEFINE u == IF assigned = << >> THEN t
                  ELSE [t EXCEPT !.reset = Reset(@, assigned[1], Holding(assigned[1]))]
  <2>1. d = AddTransition(b, u)
    BY <1>4 DEF OrderedResets
  <2>2. Pending(b, lg, u) /\ u.goto = t.goto
    <3>0. PICK y, hold : y = assigned[1] /\ hold = Holding(assigned[1])
      OBVIOUS
    <3>1. PICK r : r = Reset(t.reset, y, hold)
      OBVIOUS
    <3>2. u = IF assigned = << >> THEN t ELSE [t EXCEPT !.reset = r]
      BY <3>0, <3>1
    <3> HIDE DEF u
    <3>3. PICK w : w = u
      OBVIOUS
    <3>4. CASE assigned = << >>
      BY <3>2, <3>4
    <3>5. CASE assigned # << >>
      <4>1. w = WithReset(t, Reset(t.reset, y, hold))
        BY <3>1, <3>2, <3>3, <3>5 DEF WithReset
      <4>3. y # "level"
        <5>1. n # 0
          BY <3>5 DEF IsSequence
        <5>2. 1 \in DOMAIN assigned
          BY <1>2, <5>1, SequenceFacts
        <5> QED
          BY <3>0, <5>2
      <4>2. Pending(b, lg, w) /\ w.goto = t.goto
        <5>1. NotLevel(y)
          BY <4>3 DEF NotLevel
        <5> QED
          BY <4>1, <5>1, PendingReset
      <4> QED
        BY <3>3, <4>2
    <3> QED
      BY <3>4, <3>5
  <2> HIDE DEF u, d
  <2>3. Good(d, lg) /\ Continues(b, d)
    BY <1>1, <2>1, <2>2, TransitionAdded, AddedTransitionContinues
  <2>4. LeadOr(d, {})
    BY <1>1, <2>1, <2>2, AddedLeads
  <2>5. AllLead(d)
    BY <2>4, NothingMissing
  <2> QED
    BY <2>3, <2>5 DEF Fine, d
<1> QED
  BY <1>3, <1>4

-------------------------------------------------------------------------------
\* What guards are made of

\* A finite set in some order.
LEMMA ListOfSet ==
  ASSUME NEW S, IsFiniteSet(S)
  PROVE  IsSequence(SetToSeq(S)) /\ \A k \in DOMAIN SetToSeq(S) : SetToSeq(S)[k] \in S
<1> DEFINE n == Cardinality(S)
           s == SetToSeq(S)
<1>1. n \in Nat /\ ExistsBijection(1..n, S)
  BY FS_CardinalityType
<1>2. \E f \in [1..n -> S] : IsInjective(f)
  BY <1>1 DEF ExistsBijection, Bijection, Injection
<1>3. s \in [1..n -> S]
  BY <1>2 DEF SetToSeq
<1> HIDE DEF s, n
<1>4. s = [k \in 1..n |-> s[k]]
  BY <1>3
<1>5. IsSequence(s)
  BY <1>1, <1>4, SequenceMade
<1>6. \A k \in DOMAIN s : s[k] \in S
  BY <1>3
<1> QED
  BY <1>5, <1>6 DEF s

\* The guards of a conjunct are finitely many, and none of them is the one by which
\* a transition of the model is recognised.
LEMMA GuardsListed ==
  ASSUME NEW term, IsFiniteSet(term.preds)
  PROVE  /\ IsSequence(ConjunctGuards(term))
         /\ \A k \in DOMAIN ConjunctGuards(term) : ConjunctGuards(term)[k][1] # "edge"
<1> DEFINE S == term.preds
           f == [p \in S |-> <<"pred", p>>]
           T == {<<"pred", p>> : p \in S}
<1>1. f \in Surjection(S, T)
  <2>1. f \in [S -> T]
    OBVIOUS
  <2>2. \A x \in T : \E p \in S : f[p] = x
    OBVIOUS
  <2> QED
    BY <2>1, <2>2 DEF Surjection
<1>2. IsFiniteSet(T)
  <2> HIDE DEF f, T
  <2> QED
    BY <1>1, FS_Surjection
<1>3. IsSequence(SetToSeq(T)) /\ \A k \in DOMAIN SetToSeq(T) : SetToSeq(T)[k] \in T
  <2> HIDE DEF f, T
  <2> QED
    BY <1>2, ListOfSet
<1>4. \A x \in T : x[1] = "pred"
  OBVIOUS
<1>5. ConjunctGuards(term) = SetToSeq(T)
  BY DEF ConjunctGuards
<1> HIDE DEF T
<1>6. \A k \in DOMAIN SetToSeq(T) : SetToSeq(T)[k][1] = "pred"
  BY <1>3, <1>4
<1>7. "pred" # "edge"
  OBVIOUS
<1> QED
  BY <1>3, <1>5, <1>6, <1>7

\* At most one derivative is looked at.
LEMMA SignGuardShort ==
  ASSUME NEW ev, NEW l
  PROVE  IsFiniteSet(SignGuard(ev, l)) /\ \A c \in SignGuard(ev, l) : c[1] \in {"rises", "falls"}
<1>1. CASE SignGuard(ev, l) = {}
  BY <1>1, FS_EmptySet
<1>2. CASE SignGuard(ev, l) # {}
  <2>1. PICK c : SignGuard(ev, l) = {c} /\ c[1] \in {"rises", "falls"}
    BY <1>2 DEF SignGuard
  <2>2. IsFiniteSet({c})
    BY FS_Singleton
  <2> QED
    BY <2>1, <2>2
<1> QED
  BY <1>1, <1>2

\* The threshold, and what is asked of the derivative.
LEMMA EventGuardsListed ==
  ASSUME NEW i, NEW l
  PROVE  IsSequence(EventGuards(i, l))
<1>1. PICK c, s : c = <<<<"cross", Sub(i).event.of>>>> /\ s = SetToSeq(SignGuard(Sub(i).event, l))
  OBVIOUS
<1>2. IsSequence(c)
  BY <1>1, ShortSequences
<1>3. IsSequence(s)
  BY <1>1, SignGuardShort, ListOfSet
<1>4. IsSequence(c \o s)
  BY <1>2, <1>3, Concatenated
<1>5. EventGuards(i, l) = IF ~IsPorvEvent(Sub(i)) THEN << >> ELSE c \o s
  BY <1>1 DEF EventGuards
<1> QED
  BY <1>4, <1>5, ShortSequences

\* With the window and the event, they are the guards of a match.
LEMMA OwnGuardsListed ==
  ASSUME NEW i, NEW term, IsFiniteSet(term.preds)
  PROVE  /\ IsSequence(TemporalGuards(i) \o ConjunctGuards(term))
         /\ \A l : IsSequence(TemporalGuards(i) \o EventGuards(i, l) \o ConjunctGuards(term))
<1>1. IsSequence(TemporalGuards(i))
  BY ShortSequences DEF TemporalGuards
<1>2. \A l : IsSequence(EventGuards(i, l))
  BY EventGuardsListed
<1>3. IsSequence(ConjunctGuards(term))
  BY GuardsListed
<1>4. IsSequence(TemporalGuards(i) \o ConjunctGuards(term))
  BY <1>1, <1>3, Concatenated
<1>5. \A l : IsSequence(TemporalGuards(i) \o EventGuards(i, l))
  BY <1>1, <1>2, Concatenated
<1>6. \A l : IsSequence(TemporalGuards(i) \o EventGuards(i, l) \o ConjunctGuards(term))
  BY <1>3, <1>5, Concatenated
<1> QED
  BY <1>4, <1>6

\* The number of a sub-expression of the feature.
IsSub(i) == i \in 0 .. Len(feature) - 1

\* What the parser makes of a sub-expression: several assignments mean that the
\* feature keeps times.
LEMMA SubsTyped ==
  ASSUME feature \in Features, NEW i, IsSub(i)
  PROVE  /\ Len(feature) \in Nat \ {0} /\ DOMAIN feature = 1 .. Len(feature)
         /\ i + 1 \in DOMAIN feature
         /\ IsSequence(Sub(i).sets) /\ IsSequence(Sub(i).dnf)
         /\ \A n \in DOMAIN Sub(i).dnf : IsFiniteSet(Sub(i).dnf[n].preds)
         /\ IsSequence(Assigned(i)) /\ IsSequence(Terms(i))
         /\ \A n \in DOMAIN Assigned(i) : Assigned(i)[n] # "level"
         /\ Len(Assigned(i)) > 1 => IsTemporal(feature)
         /\ \A n \in DOMAIN Terms(i) : IsFiniteSet(Terms(i)[n].preds)
<1>1. /\ IsSequence(feature) /\ feature # << >>
      /\ \A k \in DOMAIN feature :
           /\ IsSequence(feature[k].sets) /\ IsSequence(feature[k].dnf)
           /\ \A n \in DOMAIN feature[k].dnf : IsFiniteSet(feature[k].dnf[n].preds)
  BY ListsAssumption
<1>2. Len(feature) \in Nat /\ DOMAIN feature = 1 .. Len(feature)
  BY <1>1, SequenceFacts
<1>3. i + 1 \in DOMAIN feature /\ Len(feature) # 0
  BY <1>2 DEF IsSub
<1>4. /\ IsSequence(Sub(i).sets) /\ IsSequence(Sub(i).dnf)
      /\ \A n \in DOMAIN Sub(i).dnf : IsFiniteSet(Sub(i).dnf[n].preds)
  BY <1>1, <1>3 DEF Sub
<1>5. /\ IsSequence(Assigned(i)) /\ \A n \in DOMAIN Assigned(i) : Assigned(i)[n] # "level"
      /\ Len(Assigned(i)) > 1 => IsTemporal(feature)
  <2> DEFINE own == IF i + 1 = Len(feature) THEN <<Value>> ELSE << >>
             sets == feature[i + 1].sets
  <2>1. IsSequence(own) /\ Len(own) <= 1
    BY ShortSequences
  <2>2. IsSequence(sets)
    BY <1>4 DEF Sub
  <2>3. \A n \in DOMAIN own : own[n] = Value
    OBVIOUS
  <2>4. \A n \in DOMAIN sets : sets[n] # "level"
    BY <1>3, NamesAssumption
  <2>5. Value # "level"
    BY NamesAssumption
  <2>6. Assigned(i) = sets \o own
    BY DEF Assigned, Assignments
  <2> HIDE DEF sets, own
  <2>7. /\ IsSequence(sets \o own) /\ Len(sets \o own) = Len(sets) + Len(own)
        /\ \A k \in 1 .. Len(sets) : (sets \o own)[k] = sets[k]
        /\ \A k \in 1 .. Len(own) : (sets \o own)[Len(sets) + k] = own[k]
    BY <2>1, <2>2, Concatenated
  <2>8. /\ Len(sets) \in Nat /\ DOMAIN sets = 1 .. Len(sets)
        /\ Len(own) \in Nat /\ DOMAIN own = 1 .. Len(own)
        /\ DOMAIN (sets \o own) = 1 .. Len(sets \o own)
    BY <2>1, <2>2, <2>7, SequenceFacts
  <2>9. ASSUME NEW n \in DOMAIN (sets \o own) PROVE (sets \o own)[n] # "level"
    <3>1. CASE n \in 1 .. Len(sets)
      BY <2>4, <2>7, <2>8, <3>1
    <3>2. CASE n > Len(sets)
      <4>1. PICK k : k = n - Len(sets)
        OBVIOUS
      <4>2. k \in 1 .. Len(own) /\ n = Len(sets) + k
        BY <2>7, <2>8, <2>9, <3>2, <4>1
      <4>3. (sets \o own)[n] = own[k] /\ k \in DOMAIN own
        BY <2>7, <2>8, <4>2
      <4> QED
        BY <2>3, <2>5, <4>3
    <3> QED
      BY <2>7, <2>8, <3>1, <3>2
  <2>10. ASSUME Len(sets \o own) > 1 PROVE IsTemporal(feature)
    <3>1. Len(sets) # 0
      BY <2>1, <2>7, <2>8, <2>10
    <3>2. sets # << >>
      BY <3>1
    <3> QED
      BY <1>3, <3>2 DEF sets, IsTemporal
  <2> QED
    BY <2>6, <2>7, <2>9, <2>10
<1>6. IsSequence(Terms(i)) /\ \A n \in DOMAIN Terms(i) : IsFiniteSet(Terms(i)[n].preds)
  <2>1. CASE Sub(i).dnf = << >>
    <3> DEFINE none == [ctx |-> None, preds |-> {}, first |-> FALSE]
    <3>1. Terms(i) = <<none>>
      BY <2>1 DEF Terms, Conjuncts, EventOnly
    <3>2. none.preds = {} /\ IsFiniteSet({})
      BY FS_EmptySet
    <3> HIDE DEF none
    <3>3. IsSequence(Terms(i))
      BY <3>1, ShortSequences
    <3>4. \A n \in DOMAIN <<none>> : <<none>>[n] = none
      OBVIOUS
    <3> QED
      BY <3>1, <3>2, <3>3, <3>4
  <2>2. CASE Sub(i).dnf # << >>
    BY <1>4, <2>2 DEF Terms, Conjuncts, EventOnly
  <2> QED
    BY <2>1, <2>2
<1> QED
  BY <1>2, <1>3, <1>4, <1>5, <1>6

-------------------------------------------------------------------------------
\* Matches

\* Fine automata whose heaps grow stay fine.
LEMMA GrownFine ==
  ASSUME NEW b, NEW lg, Fine(b, lg), NEW g, Grows(b.heap, g, lg)
  PROVE  Fine(WithHeap(b, g), lg) /\ Continues(b, WithHeap(b, g))
<1> DEFINE c == WithHeap(b, g)
<1>1. Good(b, lg) /\ LeadOr(b, {})
  BY NothingMissing DEF Fine
<1>2. Good(c, lg) /\ c.trans = b.trans
  BY <1>1, HeapGrown
<1>3. Continues(b, c)
  BY <1>1, GrownContinues
<1> HIDE DEF c
<1>4. LeadOr(c, {})
  BY <1>1, <1>2, <1>3, StillLeadOr
<1>5. AllLead(c)
  BY <1>4, NothingMissing
<1> QED
  BY <1>2, <1>3, <1>5 DEF Fine, c

\* Continues, of fine automata, is transitive.
LEMMA ContinuesFine ==
  ASSUME NEW b, NEW lg, Fine(b, lg), NEW c, Fine(c, lg), NEW d, Fine(d, lg),
         Continues(b, c), Continues(c, d)
  PROVE  Continues(b, d)
<1>1. Good(b, lg) /\ Good(c, lg) /\ Good(d, lg)
  BY DEF Fine
<1> QED
  BY <1>1, ContinuesFurther

\* What could be led to still can.
LEMMA StillFinal ==
  ASSUME NEW b, NEW lg, Fine(b, lg), NEW c, Fine(c, lg), Continues(b, c), NEW goto, Leads(b, goto)
  PROVE  Leads(c, goto)
<1>1. Good(b, lg) /\ Good(c, lg)
  BY DEF Fine
<1> QED
  BY <1>1, StillLeads

\* A transition whose guard is new, apart from what is behind level guards.
LEMMA MatchAdded ==
  ASSUME NEW b, NEW lg, Fine(b, lg), NEW g, Grows(b.heap, g, lg), NEW t,
         IsTransition(WithHeap(b, g), t), ~t.original,
         Reached(g, t.when) \subseteq (Len(b.heap) + 1 .. Len(g)) \union Shared(g, lg),
         t.from \in Locs,
         Leads(b, t.goto), NEW nr, NEW assigned, IsSequence(assigned),
         \A m \in DOMAIN assigned : assigned[m] # "level",
         Len(assigned) > 1 => IsTemporal(feature)
  PROVE  LET d == OrderedResets(WithHeap(b, g), t, nr, assigned)
         IN Fine(d, lg) /\ Continues(b, d)
<1> DEFINE c == WithHeap(b, g)
           d == OrderedResets(c, t, nr, assigned)
<1>1. Fine(c, lg) /\ Continues(b, c)
  BY GrownFine
<1>2. Pending(c, lg, t)
  BY HeapGrown DEF Fine
<1>3. Leads(c, t.goto)
  BY <1>1, StillFinal
<1> HIDE DEF c
<1>4. Fine(d, lg) /\ Continues(c, d)
  BY <1>1, <1>2, <1>3, OrderedResetsFine
<1> HIDE DEF d
<1>5. Continues(b, d)
  BY <1>1, <1>4, ContinuesFine
<1> QED
  BY <1>4, <1>5 DEF c, d

\* Every location of the model can be led to.
LEMMA PlacesLead ==
  ASSUME NEW b, NEW lg, Fine(b, lg), NEW l \in Locs
  PROVE  Leads(b, <<l>>) /\ l \in 1 .. Len(b.locs)
<1>1. Len(b.locs) \in Nat /\ LastLoc <= Len(b.locs) /\ LastLoc \in Nat
  BY Sizes, ListsAssumption DEF Fine, Good, Shaped
<1>2. l \in 1 .. Len(b.locs)
  BY <1>1 DEF Locs
<1>3. b.locs[l].name = <<l>>
  BY <1>2 DEF Fine, Good, Shaped, IsLocation
<1> QED
  BY <1>2, <1>3 DEF Leads

\* What a match does to level.
LEMMA TimesAreOthers ==
  IsSequence(TemporalResets) /\ \A n \in DOMAIN TemporalResets : ~Says(TemporalResets, n, "level")
<1> DEFINE kept == <<"time", Of("time")>>
           zero == <<"localTime", Number(0)>>
<1>1. kept[1] # "level" /\ zero[1] # "level"
  OBVIOUS
<1>2. TemporalResets = IF IsTemporal(feature) THEN <<kept, zero>> ELSE << >>
  BY DEF TemporalResets
<1> HIDE DEF kept, zero
<1>4. IsSequence(<<kept, zero>>)
  <2> DEFINE s == <<kept, zero>>
  <2>1. Len(s) = 2 /\ s = [k \in 1 .. 2 |-> s[k]]
    OBVIOUS
  <2> HIDE DEF s
  <2>2. IsSequence(s)
    BY <2>1, SequenceMade
  <2> QED
    BY <2>2 DEF s
<1>5. \A n \in DOMAIN <<kept, zero>> : <<kept, zero>>[n] = kept \/ <<kept, zero>>[n] = zero
  OBVIOUS
<1>6. CASE IsTemporal(feature)
  BY <1>1, <1>2, <1>4, <1>5, <1>6 DEF Says
<1>7. CASE ~IsTemporal(feature)
  BY <1>2, <1>7, ShortSequences DEF Says
<1> QED
  BY <1>6, <1>7

\* Nothing behind it says anything of level.
LEMMA LevelStays ==
  ASSUME NEW s, IsSequence(s), NEW more, IsSequence(more),
         \A n \in DOMAIN more : ~Says(more, n, "level"), NEW r, r = s \o more
  PROVE  IsSequence(r) /\ LastReset(r, "level") = LastReset(s, "level")
BY LastResetJoined

\* Setting the times to 0 is none of them.
LEMMA LevelZeroed ==
  ASSUME NEW s, IsSequence(s)
  PROVE  IsSequence(TimeToZero(s)) /\ LastReset(TimeToZero(s), "level") = LastReset(s, "level")
<1>1. "level" \notin TimeLike \union {"time"}
  BY NamesAssumption
<1> QED
  BY <1>1, ZeroedElsewhere

\* A self-loop that matches takes level on by one.
LEMMA LoopSettles ==
  ASSUME NEW i, NEW xs, IsSequence(xs), NEW r,
         r = <<<<"level", Number(NextId(i))>>>> \o LoopIdentities(xs) \o TemporalResets
  PROVE  IsSequence(r) /\ LastReset(r, "level") = Number(NextId(i))
<1> DEFINE s == <<<<"level", Number(NextId(i))>>>>
<1>1. IsSequence(s) /\ LastReset(s, "level") = Number(NextId(i))
  BY LastResetSingle
<1> HIDE DEF s
<1>2. PICK more, u : more = LoopIdentities(xs) /\ u = s \o more
  OBVIOUS
<1>3. IsSequence(more) /\ \A n \in DOMAIN more : ~Says(more, n, "level")
  BY <1>2, LoopKeeps
<1>4. IsSequence(u) /\ LastReset(u, "level") = LastReset(s, "level")
  BY <1>1, <1>2, <1>3, LevelStays
<1>5. PICK times : times = TemporalResets
  OBVIOUS
<1>6. IsSequence(times) /\ \A n \in DOMAIN times : ~Says(times, n, "level")
  BY <1>5, TimesAreOthers
<1>7. r = u \o times
  BY <1>2, <1>5 DEF s
<1>8. IsSequence(r) /\ LastReset(r, "level") = LastReset(u, "level")
  BY <1>4, <1>6, <1>7, LevelStays
<1> QED
  BY <1>1, <1>4, <1>8

\* So does a match on a transition, whatever the model says of level there.
LEMMA EdgeSettles ==
  ASSUME NEW i, NEW resets, IsSequence(resets), NEW r,
         r = LevelTaken(resets) \o <<<<"level", Number(NextId(i))>>>> \o TemporalResets
  PROVE  IsSequence(r) /\ LastReset(r, "level") = Number(NextId(i))
<1> DEFINE s == <<<<"level", Number(NextId(i))>>>>
<1>1. IsSequence(s) /\ LastReset(s, "level") = Number(NextId(i)) /\ Says(s, 1, "level") /\ 1 \in DOMAIN s
  BY LastResetSingle
<1> HIDE DEF s
<1>2. PICK taken, u : taken = LevelTaken(resets) /\ u = taken \o s
  OBVIOUS
<1>3. IsSequence(taken)
  BY <1>2, TakenIsSequence
<1>4. IsSequence(u) /\ LastReset(u, "level") = LastReset(s, "level")
  <2>1. \E n \in DOMAIN s : Says(s, n, "level")
    BY <1>1
  <2> QED
    BY <1>1, <1>2, <1>3, <2>1, LastResetJoined
<1>5. PICK times : times = TemporalResets
  OBVIOUS
<1>6. IsSequence(times) /\ \A n \in DOMAIN times : ~Says(times, n, "level")
  BY <1>5, TimesAreOthers
<1>7. r = u \o times
  BY <1>2, <1>5 DEF s
<1>8. IsSequence(r) /\ LastReset(r, "level") = LastReset(u, "level")
  BY <1>4, <1>6, <1>7, LevelStays
<1> QED
  BY <1>1, <1>4, <1>8

\* Only the last match sets level to 0, and only it leads to FINAL.
LEMMA MatchSettled ==
  ASSUME feature \in Features, NEW i, IsSub(i), NEW t, IsSequence(t.reset),
         LastReset(t.reset, "level") = Number(NextId(i)),
         NEW place, t.goto = IF IsLast(i) THEN Final ELSE <<place>>
  PROVE  Settled(t)
<1>1. i \in Nat /\ Len(feature) \in Nat
  BY SubsTyped DEF IsSub
<1>2. CASE IsLast(i)
  BY <1>2 DEF NextId, Settled
<1>3. CASE ~IsLast(i)
  <2>1. NextId(i) \in Nat /\ NextId(i) # 0
    BY <1>1, <1>3 DEF NextId
  <2>2. Number(NextId(i)) # Number(0)
    BY <2>1 DEF Number
  <2>3. t.goto = <<place>> /\ t.goto[1] = place
    BY <1>3
  <2> QED
    BY <2>2, <2>3 DEF Settled
<1> QED
  BY <1>2, <1>3

\* A new list in front of a level guard, as part of an automaton's heap.
LEMMA GuardShared ==
  ASSUME NEW h, Lists(h), NEW conds, IsSequence(conds),
         NEW lg, \A n \in DOMAIN lg : lg[n] \in 1 .. Len(h), NEW i \in DOMAIN lg,
         NEW guard, guard = lg[i], NEW root, root = Fresh(h, conds),
         NEW g, g = Link(Create(h, conds), root, guard), NEW u, u = Linked(root, guard)
  PROVE  /\ Grows(h, g, lg) /\ u \in 0 .. Len(g)
         /\ Reached(g, u) \subseteq (Len(h) + 1 .. Len(g)) \union Shared(g, lg)
<1>1. guard \in 1 .. Len(h) /\ guard \in 0 .. Len(h) /\ Len(h) \in Nat
  BY HeapFacts
<1>2. /\ Lists(g) /\ Len(g) = Len(h) + Len(conds) /\ SameConds(h, g)
      /\ \A a \in 0 .. Len(h) : Reached(g, a) = Reached(h, a)
      /\ u \in 1 .. Len(g)
      /\ Reached(g, u) = (Len(h) + 1 .. Len(g)) \union Reached(h, guard)
  BY <1>1, SharingGrows
<1>3. Len(conds) \in Nat
  BY SequenceFacts
<1>4. Len(h) <= Len(g) /\ 0 \in 0 .. Len(h) /\ {} \in SUBSET (Len(h) + 1 .. Len(g))
  BY <1>1, <1>2, <1>3
<1>5. \A a \in 0 .. Len(h) : Reached(g, a) = Reached(h, a) \union IF 0 \in Reached(h, a) THEN {} ELSE {}
  BY <1>2
<1>6. Grows(h, g, lg)
  <2>1. \E new \in SUBSET (Len(h) + 1 .. Len(g)) :
          /\ new = {} \/ 0 \in Shared(h, lg)
          /\ \A a \in new : g[a].cond[1] # "edge"
          /\ \A a \in 0 .. Len(h) :
               Reached(g, a) = Reached(h, a) \union IF 0 \in Reached(h, a) THEN new ELSE {}
    BY <1>4, <1>5, Zenon
  <2> QED
    BY <1>2, <1>4, <2>1 DEF Grows
<1>7. Reached(h, guard) \subseteq Shared(g, lg)
  <2>1. Reached(g, guard) = Reached(h, guard)
    BY <1>1, <1>2
  <2> QED
    BY <2>1 DEF Shared
<1>8. u \in 0 .. Len(g)
  BY <1>1, <1>2, <1>3
<1> QED
  BY <1>2, <1>6, <1>7, <1>8

\* A match by a self-loop: the guard is new, but for the level guard behind it.
LEMMA SelfLoopFine ==
  ASSUME NEW b, Fine(b, levelGuard), Leads(b, Final), NEW i \in DOMAIN levelGuard,
         feature \in Features, IsSub(i), NEW l \in Locs, NEW term, IsFiniteSet(term.preds)
  PROVE  Fine(SelfLoop(b, i, l, term), levelGuard) /\ Continues(b, SelfLoop(b, i, l, term))
<1> DEFINE own == TemporalGuards(i) \o EventGuards(i, l) \o ConjunctGuards(term)
           shares == ~EventOnly(Sub(i))
           made == own \o IF EventOnly(Sub(i)) THEN Contents(b.heap, levelGuard[i]) ELSE << >>
           root == Fresh(b.heap, made)
           heap == Create(b.heap, made)
           resets == <<<<"level", Number(NextId(i))>>>> \o LoopIdentities(b.vars) \o TemporalResets
           t == [from |-> l, goto |-> IF IsLast(i) THEN Final ELSE <<l>>, original |-> FALSE,
                 when |-> IF shares THEN Linked(root, levelGuard[i]) ELSE root,
                 reset |-> IF IsLast(i) /\ shares THEN TimeToZero(resets) ELSE resets]
           g == IF shares THEN Link(heap, root, levelGuard[i]) ELSE heap
           nr == IF shares THEN dnfID ELSE 0
           d == OrderedResets(WithHeap(b, g), t, nr, Assigned(i))
<1>1. SelfLoop(b, i, l, term) = d
  BY DEF SelfLoop, WithHeap
<1>2. /\ Lists(b.heap) /\ levelGuard[i] \in 1 .. Len(b.heap) /\ Len(b.heap) \in Nat
      /\ \A n \in DOMAIN levelGuard : levelGuard[n] \in 1 .. Len(b.heap)
  BY Sizes DEF Fine, Good, Shaped
<1>3. IsSequence(made)
  <2>1. IsSequence(own)
    BY OwnGuardsListed
  <2> HIDE DEF own
  <2>2. levelGuard[i] \in 0 .. Len(b.heap)
    BY <1>2
  <2>3. IsSequence(Contents(b.heap, levelGuard[i]))
    BY <1>2, <2>2, ContentsRead
  <2>4. IsSequence(IF EventOnly(Sub(i)) THEN Contents(b.heap, levelGuard[i]) ELSE << >>)
    BY <2>3, ShortSequences
  <2> QED
    BY <2>1, <2>4, Concatenated
<1>4. t.from = l /\ t.original = FALSE /\ t.goto = (IF IsLast(i) THEN Final ELSE <<l>>)
  OBVIOUS
<1>5. t.when = IF shares THEN Linked(root, levelGuard[i]) ELSE root
  OBVIOUS
<1>6. t = [from |-> t.from, goto |-> t.goto, original |-> t.original, when |-> t.when,
           reset |-> t.reset]
  <2> HIDE DEF resets, root, own
  <2> QED
    OBVIOUS
<1>12. Settled(t)
  <2>1. t.reset = IF IsLast(i) /\ shares THEN TimeToZero(resets) ELSE resets
    OBVIOUS
  <2>2. PICK xs : xs = b.vars
    OBVIOUS
  <2>3. IsSequence(xs)
    BY <2>2 DEF Fine, Good, Shaped
  <2>4. resets = <<<<"level", Number(NextId(i))>>>> \o LoopIdentities(xs) \o TemporalResets
    BY <2>2
  <2> HIDE DEF resets, t
  <2>5. IsSequence(resets) /\ LastReset(resets, "level") = Number(NextId(i))
    BY <2>3, <2>4, LoopSettles
  <2>6. /\ IsSequence(TimeToZero(resets))
        /\ LastReset(TimeToZero(resets), "level") = LastReset(resets, "level")
    BY <2>5, LevelZeroed
  <2>7. IsSequence(t.reset) /\ LastReset(t.reset, "level") = Number(NextId(i))
    BY <2>1, <2>5, <2>6
  <2> QED
    BY <1>4, <2>7, MatchSettled
<1>13. /\ IsSequence(Assigned(i)) /\ \A n \in DOMAIN Assigned(i) : Assigned(i)[n] # "level"
       /\ Len(Assigned(i)) > 1 => IsTemporal(feature)
  BY SubsTyped
<1> HIDE DEF own, made, t, resets
<1>7. /\ Grows(b.heap, g, levelGuard)
      /\ t.when \in 0 .. Len(g)
      /\ Reached(g, t.when) \subseteq (Len(b.heap) + 1 .. Len(g)) \union Shared(g, levelGuard)
  <2>1. CASE EventOnly(Sub(i))
    <3>1. g = heap /\ t.when = root
      BY <1>5, <2>1
    <3>2. /\ Grows(b.heap, heap, levelGuard) /\ root \in 0 .. Len(heap)
          /\ Reached(heap, root) = Len(b.heap) + 1 .. Len(heap)
      BY <1>2, <1>3, CreateGrows
    <3> HIDE DEF g, heap, root
    <3> QED
      BY <3>1, <3>2
  <2>2. CASE ~EventOnly(Sub(i))
    <3>1. PICK h, conds, guard, r, link, u :
            /\ h = b.heap /\ conds = made /\ guard = levelGuard[i]
            /\ r = Fresh(h, conds) /\ link = Link(Create(h, conds), r, guard) /\ u = Linked(r, guard)
      OBVIOUS
    <3>2. g = link /\ t.when = u
      BY <1>5, <2>2, <3>1
    <3>3. Lists(h) /\ IsSequence(conds) /\ \A n \in DOMAIN levelGuard : levelGuard[n] \in 1 .. Len(h)
      BY <1>2, <1>3, <3>1
    <3>4. /\ Grows(h, link, levelGuard) /\ u \in 0 .. Len(link)
          /\ Reached(link, u) \subseteq (Len(h) + 1 .. Len(link)) \union Shared(link, levelGuard)
      BY <3>1, <3>3, GuardShared
    <3> HIDE DEF g
    <3> QED
      BY <3>1, <3>2, <3>4
  <2> QED
    BY <2>1, <2>2
<1> HIDE DEF g, nr
<1>8. Leads(b, t.goto) /\ l \in 1 .. Len(b.locs)
  BY <1>4, PlacesLead
<1>9. WithHeap(b, g).locs = b.locs /\ WithHeap(b, g).heap = g
  BY <1>7, HeapGrown DEF Fine
<1>10. IsTransition(WithHeap(b, g), t)
  BY <1>4, <1>6, <1>7, <1>8, <1>9, <1>12 DEF IsTransition
<1>11. Fine(d, levelGuard) /\ Continues(b, d)
  BY <1>4, <1>7, <1>8, <1>10, <1>13, MatchAdded
<1> QED
  BY <1>1, <1>11

\* A match on a copy of a transition of the model: the copy has its own nodes.
LEMMA OnEdgeFine ==
  ASSUME NEW b, Fine(b, levelGuard), Leads(b, Final), NEW i \in DOMAIN levelGuard,
         feature \in Features, IsSub(i),
         NEW n \in 1 .. Len(b.trans), NEW t, t = b.trans[n], t.original, t.from \in Locs,
         NEW term, IsFiniteSet(term.preds)
  PROVE  Fine(OnEdge(b, i, t, term), levelGuard) /\ Continues(b, OnEdge(b, i, t, term))
<1> DEFINE made == Contents(b.heap, t.when) \o TemporalGuards(i) \o ConjunctGuards(term)
                     \o Contents(b.heap, levelGuard[i])
           resets == LevelTaken(t.reset) \o <<<<"level", Number(NextId(i))>>>> \o TemporalResets
           u == [from |-> t.from, goto |-> IF IsLast(i) THEN Final ELSE t.goto, original |-> FALSE,
                 when |-> Fresh(b.heap, made),
                 reset |-> IF IsLast(i) THEN TimeToZero(resets) ELSE resets]
           g == Create(b.heap, made)
           nr == IF EventOnly(Sub(i)) THEN 0 ELSE dnfID
           d == OrderedResets(WithHeap(b, g), u, nr, Assigned(i))
<1>1. OnEdge(b, i, t, term) = d
  BY DEF OnEdge, WithHeap
<1>2. /\ Lists(b.heap) /\ levelGuard[i] \in 1 .. Len(b.heap) /\ Len(b.heap) \in Nat
      /\ IsTransition(b, t)
  BY Sizes DEF Fine, Good, Shaped
<1>3. IsSequence(made)
  <2>1. levelGuard[i] \in 0 .. Len(b.heap) /\ t.when \in 0 .. Len(b.heap)
    BY <1>2 DEF IsTransition
  <2>2. IsSequence(Contents(b.heap, levelGuard[i])) /\ IsSequence(Contents(b.heap, t.when))
    BY <1>2, <2>1, ContentsRead
  <2>3. IsSequence(TemporalGuards(i)) /\ IsSequence(ConjunctGuards(term))
    BY ShortSequences, GuardsListed DEF TemporalGuards
  <2>4. IsSequence(Contents(b.heap, t.when) \o TemporalGuards(i))
    BY <2>2, <2>3, Concatenated
  <2>5. IsSequence(Contents(b.heap, t.when) \o TemporalGuards(i) \o ConjunctGuards(term))
    BY <2>3, <2>4, Concatenated
  <2> QED
    BY <2>2, <2>5, Concatenated
<1>4. /\ u.from = t.from /\ u.original = FALSE /\ u.goto = (IF IsLast(i) THEN Final ELSE t.goto)
      /\ u.when = Fresh(b.heap, made)
  OBVIOUS
<1>5. u = [from |-> u.from, goto |-> u.goto, original |-> u.original, when |-> u.when,
           reset |-> u.reset]
  <2> HIDE DEF resets, made
  <2> QED
    OBVIOUS
<1>12. Settled(u)
  <2>1. u.reset = IF IsLast(i) THEN TimeToZero(resets) ELSE resets
    OBVIOUS
  <2>2. PICK old : old = t.reset
    OBVIOUS
  <2>3. IsSequence(old)
    BY <1>2, <2>2 DEF IsTransition, Settled
  <2>4. resets = LevelTaken(old) \o <<<<"level", Number(NextId(i))>>>> \o TemporalResets
    BY <2>2
  <2> HIDE DEF resets, u
  <2>5. IsSequence(resets) /\ LastReset(resets, "level") = Number(NextId(i))
    BY <2>3, <2>4, EdgeSettles
  <2>6. /\ IsSequence(TimeToZero(resets))
        /\ LastReset(TimeToZero(resets), "level") = LastReset(resets, "level")
    BY <2>5, LevelZeroed
  <2>7. IsSequence(u.reset) /\ LastReset(u.reset, "level") = Number(NextId(i))
    BY <2>1, <2>5, <2>6
  <2>8. PICK e \in edges : t.goto = <<e.to>>
    BY DEF Fine, Good, Untouched
  <2>9. PICK place : place = e.to
    OBVIOUS
  <2>10. u.goto = IF IsLast(i) THEN Final ELSE <<place>>
    BY <1>4, <2>8, <2>9
  <2> QED
    BY <2>7, <2>10, MatchSettled
<1>13. /\ IsSequence(Assigned(i)) /\ \A m \in DOMAIN Assigned(i) : Assigned(i)[m] # "level"
       /\ Len(Assigned(i)) > 1 => IsTemporal(feature)
  BY SubsTyped
<1> HIDE DEF made, u, resets
<1>6. /\ Grows(b.heap, g, levelGuard) /\ u.when \in 0 .. Len(g)
      /\ Reached(g, u.when) = Len(b.heap) + 1 .. Len(g)
  BY <1>2, <1>3, <1>4, CreateGrows
<1> HIDE DEF g, nr
<1>7. Leads(b, u.goto) /\ u.from \in 1 .. Len(b.locs)
  <2>1. Leads(b, t.goto)
    BY DEF Fine, AllLead
  <2> QED
    BY <1>2, <1>4, <2>1 DEF IsTransition
<1>8. WithHeap(b, g).locs = b.locs /\ WithHeap(b, g).heap = g
  BY <1>6, HeapGrown DEF Fine
<1>9. IsTransition(WithHeap(b, g), u)
  BY <1>4, <1>5, <1>6, <1>7, <1>8, <1>12 DEF IsTransition
<1>10. Reached(g, u.when) \subseteq (Len(b.heap) + 1 .. Len(g)) \union Shared(g, levelGuard)
  BY <1>6
<1>11. Fine(d, levelGuard) /\ Continues(b, d)
  BY <1>4, <1>6, <1>7, <1>9, <1>10, <1>13, MatchAdded
<1> QED
  BY <1>1, <1>11

-------------------------------------------------------------------------------
\* Waiting

\* A copy that waits shares the level guard, and nothing of what is hung behind that
\* guard is a node of anything else.
LEMMA WaitFine ==
  ASSUME NEW b, Fine(b, levelGuard), NEW i \in DOMAIN levelGuard,
         NEW n \in 1 .. Len(b.trans), NEW t, t = b.trans[n],
         NEW guards, IsSequence(guards), \A m \in DOMAIN guards : guards[m][1] # "edge"
  PROVE  Fine(Wait(b, i, t, guards), levelGuard) /\ Continues(b, Wait(b, i, t, guards))
<1> DEFINE conds == Contents(b.heap, t.when)
           root == Fresh(b.heap, conds)
           linked == Link(Create(b.heap, conds), root, levelGuard[i])
           when == Linked(root, levelGuard[i])
           u == [t EXCEPT !.original = FALSE, !.when = when]
           g == Link(Create(linked, guards), when, Fresh(linked, guards))
           d == AddTransition(WithHeap(b, g), u)
<1>1. /\ Lists(b.heap) /\ Len(b.heap) \in Nat
      /\ \A m \in DOMAIN levelGuard : levelGuard[m] \in 1 .. Len(b.heap)
      /\ IsTransition(b, t)
  BY Sizes DEF Fine, Good, Shaped
<1>2. u = [from |-> t.from, goto |-> t.goto, original |-> FALSE, when |-> when, reset |-> t.reset]
  <2>1. PICK from0, goto0, original0, when0, reset0 :
          t = [from |-> from0, goto |-> goto0, original |-> original0, when |-> when0,
               reset |-> reset0]
    BY <1>1 DEF IsTransition
  <2> HIDE DEF when
  <2>2. PICK no : no = FALSE
    OBVIOUS
  <2>3. PICK w : w = [t EXCEPT !.original = no]
    OBVIOUS
  <2>4. w = [from |-> from0, goto |-> goto0, original |-> no, when |-> when0, reset |-> reset0]
    BY <2>1, <2>3
  <2>5. u = [w EXCEPT !.when = when]
    BY <2>2, <2>3
  <2>6. [w EXCEPT !.when = when]
          = [from |-> from0, goto |-> goto0, original |-> no, when |-> when, reset |-> reset0]
    BY <2>4
  <2>7. t.from = from0 /\ t.goto = goto0 /\ t.reset = reset0
    BY <2>1
  <2> QED
    BY <2>2, <2>5, <2>6, <2>7
<1>3. Wait(b, i, t, guards) = d
  <2>1. u.when = when
    <3> HIDE DEF u, when
    <3> QED
      BY <1>2
  <2> QED
    BY <2>1 DEF Wait, WithHeap, Duplicate
<1>4. IsSequence(conds)
  <2>1. t.when \in 0 .. Len(b.heap)
    BY <1>1 DEF IsTransition
  <2> QED
    BY <1>1, <2>1, ContentsRead
<1>5. /\ u.from = t.from /\ u.goto = t.goto /\ u.original = FALSE /\ u.when = when
      /\ u = [from |-> u.from, goto |-> u.goto, original |-> u.original, when |-> u.when,
              reset |-> u.reset]
  <2> HIDE DEF u, when
  <2> QED
    BY <1>2
<1>20. u.reset = t.reset
  <2> HIDE DEF u, when
  <2> QED
    BY <1>2
<1> HIDE DEF u
<1>6. /\ Grows(b.heap, g, levelGuard) /\ when \in 1 .. Len(g)
      /\ Reached(g, when) \subseteq (Len(b.heap) + 1 .. Len(g)) \union Shared(g, levelGuard)
  <2>1. PICK h, cs : h = b.heap /\ cs = conds
    OBVIOUS
  <2>2. /\ Lists(h) /\ IsSequence(cs)
        /\ \A m \in DOMAIN levelGuard : levelGuard[m] \in 1 .. Len(h)
    BY <1>1, <1>4, <2>1
  <2> HIDE DEF conds
  <2>3. LET lk == Link(Create(h, cs), Fresh(h, cs), levelGuard[i])
            v == Linked(Fresh(h, cs), levelGuard[i])
            f == Link(Create(lk, guards), v, Fresh(lk, guards))
        IN /\ Grows(h, f, levelGuard)
           /\ v \in 1 .. Len(f)
           /\ Reached(f, v) \subseteq (Len(h) + 1 .. Len(f)) \union Shared(f, levelGuard)
    BY <2>2, WaitingGrows
  <2> QED
    BY <2>1, <2>3
<1> HIDE DEF g, when, conds
<1> DEFINE c == WithHeap(b, g)
<1>7. Fine(c, levelGuard) /\ Continues(b, c)
  BY <1>6, GrownFine
<1>8. c.locs = b.locs /\ c.heap = g
  BY <1>6, HeapGrown DEF Fine
<1>9. Len(g) \in Nat
  BY <1>6, HeapFacts DEF Grows
<1>10. u.when \in 0 .. Len(c.heap) /\ u.from \in 1 .. Len(c.locs)
  BY <1>1, <1>5, <1>6, <1>8, <1>9 DEF IsTransition
<1>19. Settled(u)
  <2>1. Settled(t) /\ u.reset = t.reset
    BY <1>1, <1>20 DEF IsTransition
  <2> QED
    BY <1>5, <2>1 DEF Settled
<1>11. IsTransition(c, u) /\ ~u.original
  <2> HIDE DEF c
  <2> QED
    BY <1>5, <1>10, <1>19 DEF IsTransition
<1>12. Pending(c, levelGuard, u)
  BY <1>5, <1>6, <1>11, HeapGrown DEF Fine
<1>13. Good(c, levelGuard) /\ LeadOr(c, {}) /\ Leads(c, u.goto)
  <2>1. Leads(b, t.goto)
    BY DEF Fine, AllLead
  <2>2. Leads(c, t.goto)
    BY <1>7, <2>1, StillFinal
  <2>3. LeadOr(c, {})
    BY <1>7, NothingMissing DEF Fine
  <2> QED
    BY <1>5, <1>7, <2>2, <2>3 DEF Fine
<1> HIDE DEF c
<1>14. d = AddTransition(c, u)
  BY DEF c
<1> HIDE DEF d
<1>15. Good(d, levelGuard) /\ Continues(c, d)
  BY <1>12, <1>13, <1>14, TransitionAdded, AddedTransitionContinues
<1>16. LeadOr(d, {})
  BY <1>12, <1>13, <1>14, AddedLeads
<1>17. Fine(d, levelGuard)
  BY <1>15, <1>16, NothingMissing DEF Fine
<1>18. Continues(b, d)
  BY <1>7, <1>15, <1>17, ContinuesFine
<1> QED
  BY <1>3, <1>17, <1>18

-------------------------------------------------------------------------------
\* One original transition after another
\* Of those at the positions ns copies are made that match.
AreMatches(f, b, i, ns, term, n) ==
  f = [k \in 0 .. n |-> IF k = 0 THEN b ELSE IF k \in ns THEN OnEdge(f[k - 1], i, ha.trans[k], term) ELSE f[k - 1]]

\* There is such a function, for any number of copies ...
LEMMA MatchesUnfold ==
  ASSUME NEW b, NEW i, NEW ns, NEW term, NEW n \in Nat
  PROVE  \E f : AreMatches(f, b, i, ns, term, n)
<1> DEFINE Is(m, f) == AreMatches(f, b, i, ns, term, m)
           T == {m \in 0 .. n : \E f : Is(m, f)}
<1>1. 0 \in T
  <2>1. Is(0, [k \in 0 .. 0 |-> b])
    BY DEF AreMatches
  <2> HIDE DEF Is
  <2> QED
    BY <2>1
<1>2. ASSUME NEW m \in 1 .. n, m - 1 \in T PROVE m \in T
  <2>1. PICK f : Is(m - 1, f)
    BY <1>2
  <2> DEFINE g == [k \in 0 .. m |-> IF k = m THEN IF m \in ns THEN OnEdge(f[m - 1], i, ha.trans[m], term) ELSE f[m - 1]
                                    ELSE f[k]]
  <2>2. ASSUME NEW k \in 0 .. m
        PROVE  g[k] = IF k = 0 THEN b ELSE IF k \in ns THEN OnEdge(g[k - 1], i, ha.trans[k], term) ELSE g[k - 1]
    <3>1. CASE k = 0
      <4>1. f[0] = b
        BY <2>1 DEF AreMatches
      <4> QED
        BY <3>1, <4>1
    <3>2. CASE k = m
      <4>1. g[k - 1] = f[m - 1]
        BY <3>2
      <4> QED
        BY <3>2, <4>1
    <3>3. CASE k # 0 /\ k # m
      <4>1. k \in 0 .. m - 1 /\ g[k] = f[k] /\ g[k - 1] = f[k - 1]
        BY <3>3
      <4>2. f[k] = IF k \in ns THEN OnEdge(f[k - 1], i, ha.trans[k], term) ELSE f[k - 1]
        BY <2>1, <3>3, <4>1 DEF AreMatches
      <4> QED
        BY <3>3, <4>1, <4>2
    <3> QED
      BY <3>1, <3>2, <3>3
  <2>3. Is(m, g)
    <3>1. g = [k \in 0 .. m |-> g[k]]
      OBVIOUS
    <3> HIDE DEF g
    <3> QED
      BY <2>2, <3>1 DEF AreMatches
  <2> HIDE DEF g, Is
  <2> QED
    BY <2>3
<1> HIDE DEF T
<1>3. \A m \in 0 .. n : m \in T
  BY <1>1, <1>2, Upwards
<1>4. \E f : Is(n, f)
  <2>1. n \in 0 .. n
    OBVIOUS
  <2>2. n \in T
    BY <1>3, <2>1
  <2> QED
    BY <2>2 DEF T
<1> QED
  BY <1>4

\* Copies that wait.
AreWaits(f, guards, n) ==
  f = [k \in 0 .. n |-> IF k = 0 THEN ha ELSE IF k \in Originals(here) THEN Wait(f[k - 1], id, ha.trans[k], guards) ELSE f[k - 1]]

\* ... and here ...
LEMMA WaitsUnfold ==
  ASSUME NEW guards, NEW n \in Nat
  PROVE  \E f : AreWaits(f, guards, n)
<1> DEFINE Is(m, f) == AreWaits(f, guards, m)
           T == {m \in 0 .. n : \E f : Is(m, f)}
<1>1. 0 \in T
  <2>1. Is(0, [k \in 0 .. 0 |-> ha])
    BY DEF AreWaits
  <2> HIDE DEF Is
  <2> QED
    BY <2>1
<1>2. ASSUME NEW m \in 1 .. n, m - 1 \in T PROVE m \in T
  <2>1. PICK f : Is(m - 1, f)
    BY <1>2
  <2> DEFINE g == [k \in 0 .. m |-> IF k = m THEN IF m \in Originals(here) THEN Wait(f[m - 1], id, ha.trans[m], guards) ELSE f[m - 1]
                                    ELSE f[k]]
  <2>2. ASSUME NEW k \in 0 .. m
        PROVE  g[k] = IF k = 0 THEN ha ELSE IF k \in Originals(here) THEN Wait(g[k - 1], id, ha.trans[k], guards) ELSE g[k - 1]
    <3>1. CASE k = 0
      <4>1. f[0] = ha
        BY <2>1 DEF AreWaits
      <4> QED
        BY <3>1, <4>1
    <3>2. CASE k = m
      <4>1. g[k - 1] = f[m - 1]
        BY <3>2
      <4> QED
        BY <3>2, <4>1
    <3>3. CASE k # 0 /\ k # m
      <4>1. k \in 0 .. m - 1 /\ g[k] = f[k] /\ g[k - 1] = f[k - 1]
        BY <3>3
      <4>2. f[k] = IF k \in Originals(here) THEN Wait(f[k - 1], id, ha.trans[k], guards) ELSE f[k - 1]
        BY <2>1, <3>3, <4>1 DEF AreWaits
      <4> QED
        BY <3>3, <4>1, <4>2
    <3> QED
      BY <3>1, <3>2, <3>3
  <2>3. Is(m, g)
    <3>1. g = [k \in 0 .. m |-> g[k]]
      OBVIOUS
    <3> HIDE DEF g
    <3> QED
      BY <2>2, <3>1 DEF AreWaits
  <2> HIDE DEF g, Is
  <2> QED
    BY <2>3
<1> HIDE DEF T
<1>3. \A m \in 0 .. n : m \in T
  BY <1>1, <1>2, Upwards
<1>4. \E f : Is(n, f)
  <2>1. n \in 0 .. n
    OBVIOUS
  <2>2. n \in T
    BY <1>3, <2>1
  <2> QED
    BY <2>2 DEF T
<1> QED
  BY <1>4

\* Guards of the first level.
AreGates(f, b, n) ==
  f = [k \in 0 .. n |-> IF k = 0 THEN b ELSE GateOne(f[k - 1], k)]

\* ... and here.
LEMMA GatesUnfold ==
  ASSUME NEW b, NEW n \in Nat
  PROVE  \E f : AreGates(f, b, n)
<1> DEFINE Is(m, f) == AreGates(f, b, m)
           T == {m \in 0 .. n : \E f : Is(m, f)}
<1>1. 0 \in T
  <2>1. Is(0, [k \in 0 .. 0 |-> b])
    BY DEF AreGates
  <2> HIDE DEF Is
  <2> QED
    BY <2>1
<1>2. ASSUME NEW m \in 1 .. n, m - 1 \in T PROVE m \in T
  <2>1. PICK f : Is(m - 1, f)
    BY <1>2
  <2> DEFINE g == [k \in 0 .. m |-> IF k = m THEN GateOne(f[m - 1], m)
                                    ELSE f[k]]
  <2>2. ASSUME NEW k \in 0 .. m
        PROVE  g[k] = IF k = 0 THEN b ELSE GateOne(g[k - 1], k)
    <3>1. CASE k = 0
      <4>1. f[0] = b
        BY <2>1 DEF AreGates
      <4> QED
        BY <3>1, <4>1
    <3>2. CASE k = m
      <4>1. g[k - 1] = f[m - 1]
        BY <3>2
      <4> QED
        BY <3>2, <4>1
    <3>3. CASE k # 0 /\ k # m
      <4>1. k \in 0 .. m - 1 /\ g[k] = f[k] /\ g[k - 1] = f[k - 1]
        BY <3>3
      <4>2. f[k] = GateOne(f[k - 1], k)
        BY <2>1, <3>3, <4>1 DEF AreGates
      <4> QED
        BY <3>3, <4>1, <4>2
    <3> QED
      BY <3>1, <3>2, <3>3
  <2>3. Is(m, g)
    <3>1. g = [k \in 0 .. m |-> g[k]]
      OBVIOUS
    <3> HIDE DEF g
    <3> QED
      BY <2>2, <3>1 DEF AreGates
  <2> HIDE DEF g, Is
  <2> QED
    BY <2>3
<1> HIDE DEF T
<1>3. \A m \in 0 .. n : m \in T
  BY <1>1, <1>2, Upwards
<1>4. \E f : Is(n, f)
  <2>1. n \in 0 .. n
    OBVIOUS
  <2>2. n \in T
    BY <1>3, <2>1
  <2> QED
    BY <2>2 DEF T
<1> QED
  BY <1>4

\* All the matches of a conjunct on transitions.
LEMMA OnEdgesFine ==
  ASSUME Fine(ha, levelGuard),
         NEW b, Fine(b, levelGuard), Continues(ha, b), Leads(b, Final), NEW i \in DOMAIN levelGuard,
         feature \in Features, IsSub(i), here \in Locs, NEW ns \in SUBSET Originals(here),
         NEW term, IsFiniteSet(term.preds)
  PROVE  LET d == OnEdges(b, i, ns, term)
         IN Fine(d, levelGuard) /\ Continues(ha, d) /\ Leads(d, Final)
<1> DEFINE n == Len(ha.trans)
           f == CHOOSE f : AreMatches(f, b, i, ns, term, n)
           d == OnEdges(b, i, ns, term)
<1>1. n \in Nat /\ DOMAIN ha.trans = 1 .. n
  BY Sizes DEF Fine
<1>2. d = f[n]
  BY DEF OnEdges, AreMatches
<1>3. /\ f[0] = b
      /\ \A k \in 1 .. n : f[k] = IF k \in ns THEN OnEdge(f[k - 1], i, ha.trans[k], term) ELSE f[k - 1]
  <2>1. \E g : AreMatches(g, b, i, ns, term, n)
    BY <1>1, MatchesUnfold
  <2>2. AreMatches(f, b, i, ns, term, n)
    BY <2>1
  <2> HIDE DEF f
  <2>3. 0 \in 0 .. n /\ \A k \in 1 .. n : k \in 0 .. n /\ k # 0
    BY <1>1
  <2>4. f[0] = b
    BY <2>2, <2>3 DEF AreMatches
  <2>5. ASSUME NEW k \in 1 .. n
        PROVE f[k] = IF k \in ns THEN OnEdge(f[k - 1], i, ha.trans[k], term) ELSE f[k - 1]
    BY <2>2, <2>3 DEF AreMatches
  <2> QED
    BY <2>4, <2>5
<1> HIDE DEF f, d
<1> DEFINE T == {k \in 0 .. n : Fine(f[k], levelGuard) /\ Continues(ha, f[k]) /\ Leads(f[k], Final)}
<1>4. 0 \in T
  BY <1>1, <1>3
<1>5. ASSUME NEW k \in 1 .. n, k - 1 \in T PROVE k \in T
  <2> DEFINE c == f[k - 1]
  <2>1. /\ Fine(c, levelGuard) /\ Continues(ha, c) /\ Leads(c, Final) /\ k \in 0 .. n
        /\ f[k] = IF k \in ns THEN OnEdge(c, i, ha.trans[k], term) ELSE c
    BY <1>1, <1>3, <1>5
  <2> HIDE DEF c
  <2>2. CASE k \in ns
    <3>1. PICK t : t = ha.trans[k]
      OBVIOUS
    <3>2. k \in 1 .. Len(c.trans) /\ t = c.trans[k]
      <4>1. Len(c.trans) \in Nat
        BY <2>1, Sizes DEF Fine
      <4> QED
        BY <1>1, <2>1, <3>1, <4>1 DEF Continues
    <3>3. f[k] = OnEdge(c, i, t, term)
      BY <2>1, <2>2, <3>1
    <3>6. t.original /\ t.from \in Locs
      BY <2>2, <3>1 DEF Originals
    <3>4. Fine(f[k], levelGuard) /\ Continues(c, f[k])
      BY <2>1, <3>2, <3>3, <3>6, OnEdgeFine
    <3>5. Continues(ha, f[k]) /\ Leads(f[k], Final)
      BY <2>1, <3>4, ContinuesFine, StillFinal
    <3> QED
      BY <2>1, <3>4, <3>5
  <2>3. CASE k \notin ns
    BY <2>1, <2>3
  <2> QED
    BY <2>2, <2>3
<1> HIDE DEF T
<1>6. \A k \in 0 .. n : k \in T
  BY <1>1, <1>4, <1>5, Upwards
<1>7. n \in T
  BY <1>1, <1>6
<1> QED
  BY <1>2, <1>7 DEF T, d

\* All the copies of a location that wait.
LEMMA WaitAllFine ==
  ASSUME Fine(ha, levelGuard), Leads(ha, Final), id \in DOMAIN levelGuard,
         NEW guards, IsSequence(guards), \A m \in DOMAIN guards : guards[m][1] # "edge"
  PROVE  LET d == WaitAll(guards)
         IN Fine(d, levelGuard) /\ Continues(ha, d) /\ Leads(d, Final)
<1> DEFINE n == Len(ha.trans)
           f == CHOOSE f : AreWaits(f, guards, n)
           d == WaitAll(guards)
<1>1. n \in Nat /\ DOMAIN ha.trans = 1 .. n
  BY Sizes DEF Fine
<1>2. d = f[n]
  BY DEF WaitAll, AreWaits
<1>3. /\ f[0] = ha
      /\ \A k \in 1 .. n : f[k] = IF k \in Originals(here) THEN Wait(f[k - 1], id, ha.trans[k], guards)
                                  ELSE f[k - 1]
  <2>1. \E g : AreWaits(g, guards, n)
    BY <1>1, WaitsUnfold
  <2>2. AreWaits(f, guards, n)
    BY <2>1
  <2> HIDE DEF f
  <2>3. 0 \in 0 .. n /\ \A k \in 1 .. n : k \in 0 .. n /\ k # 0
    BY <1>1
  <2>4. f[0] = ha
    BY <2>2, <2>3 DEF AreWaits
  <2>5. ASSUME NEW k \in 1 .. n
        PROVE f[k] = IF k \in Originals(here) THEN Wait(f[k - 1], id, ha.trans[k], guards) ELSE f[k - 1]
    BY <2>2, <2>3 DEF AreWaits
  <2> QED
    BY <2>4, <2>5
<1> HIDE DEF f, d
<1> DEFINE T == {k \in 0 .. n : Fine(f[k], levelGuard) /\ Continues(ha, f[k]) /\ Leads(f[k], Final)}
<1>4. 0 \in T
  <2>1. Continues(ha, ha)
    BY ContinuesItself DEF Fine
  <2> QED
    BY <1>1, <1>3, <2>1
<1>5. ASSUME NEW k \in 1 .. n, k - 1 \in T PROVE k \in T
  <2> DEFINE c == f[k - 1]
  <2>1. /\ Fine(c, levelGuard) /\ Continues(ha, c) /\ Leads(c, Final) /\ k \in 0 .. n
        /\ f[k] = IF k \in Originals(here) THEN Wait(c, id, ha.trans[k], guards) ELSE c
    BY <1>1, <1>3, <1>5
  <2> HIDE DEF c
  <2>2. CASE k \in Originals(here)
    <3>1. PICK t : t = ha.trans[k]
      OBVIOUS
    <3>2. k \in 1 .. Len(c.trans) /\ t = c.trans[k]
      <4>1. Len(c.trans) \in Nat
        BY <2>1, Sizes DEF Fine
      <4> QED
        BY <1>1, <2>1, <3>1, <4>1 DEF Continues
    <3>3. f[k] = Wait(c, id, t, guards)
      BY <2>1, <2>2, <3>1
    <3>4. Fine(f[k], levelGuard) /\ Continues(c, f[k])
      BY <2>1, <3>2, <3>3, WaitFine
    <3>5. Continues(ha, f[k]) /\ Leads(f[k], Final)
      BY <2>1, <3>4, ContinuesFine, StillFinal
    <3> QED
      BY <2>1, <3>4, <3>5
  <2>3. CASE k \notin Originals(here)
    BY <2>1, <2>3
  <2> QED
    BY <2>2, <2>3
<1> HIDE DEF T
<1>6. \A k \in 0 .. n : k \in T
  BY <1>1, <1>4, <1>5, Upwards
<1>7. n \in T
  BY <1>1, <1>6
<1> QED
  BY <1>2, <1>7 DEF T, d


-------------------------------------------------------------------------------
\* The guards of the first level

\* Nothing is made but nodes, and what guards say of the model's transitions stays.
Gates(b, c) ==
  /\ c.locs = b.locs /\ c.inits = b.inits /\ c.vars = b.vars /\ c.trans = b.trans
  /\ Len(b.heap) <= Len(c.heap) /\ SameConds(b.heap, c.heap)
  /\ \A a \in 0 .. Len(b.heap) : EdgesIn(c.heap, a) = EdgesIn(b.heap, a)

\* A guard that asked for anything asks for the level as well.
LevelBehind(b, c, a) ==
  a # 0 =>
    \E new \in Len(b.heap) + 1 .. Len(c.heap) :
      Reached(c.heap, a) = Reached(b.heap, a) \union {new} /\ c.heap[new].cond = Level(0)

\* A list that got other nodes still names the transitions it did.
LEMMA SameEdges ==
  ASSUME NEW h, Lists(h), NEW g, SameConds(h, g), NEW a \in 0 .. Len(h), NEW new,
         Reached(g, a) = Reached(h, a) \union new, \A x \in new : g[x].cond[1] # "edge"
  PROVE  EdgesIn(g, a) = EdgesIn(h, a)
<1>1. Reached(h, a) \subseteq 1 .. Len(h)
  BY ReachedUnfold
<1>2. \A x \in Reached(h, a) : g[x].cond = h[x].cond
  BY <1>1 DEF SameConds
<1>3. {y \in Reached(g, a) : g[y].cond[1] = "edge"} = {y \in Reached(h, a) : h[y].cond[1] = "edge"}
  BY <1>2
<1> QED
  BY <1>2, <1>3 DEF EdgesIn

\* What the level guards reach stays as it is.
LevelsKept(h, g, lg) == \A i \in DOMAIN lg : Reached(g, lg[i]) = Reached(h, lg[i])

\* A new node behind the guard of an original transition, which nothing else reaches.
LEMMA GuardExtended ==
  ASSUME NEW b, NEW lg, Fine(b, lg), NEW n \in 1 .. Len(b.trans), b.trans[n].original,
         NEW conds, IsSequence(conds), Len(conds) = 1, conds[1] = Level(0), NEW g,
         g = Link(Create(b.heap, conds), b.trans[n].when, Fresh(b.heap, conds)),
         conds # << >>
  PROVE  /\ Fine(WithHeap(b, g), lg) /\ Gates(b, WithHeap(b, g)) /\ WithHeap(b, g).heap = g
         /\ LevelBehind(b, WithHeap(b, g), b.trans[n].when)
         /\ \A m \in 1 .. Len(b.trans) :
              m # n => Reached(g, b.trans[m].when) = Reached(b.heap, b.trans[m].when)
         /\ LevelsKept(b.heap, g, lg)
<1> DEFINE h == b.heap
           f == Create(h, conds)
           root == b.trans[n].when
           more == Fresh(h, conds)
           c == WithHeap(b, g)
<1>1. /\ Lists(h) /\ Len(h) \in Nat
      /\ \A i \in DOMAIN lg : lg[i] \in 1 .. Len(h)
      /\ \A m \in 1 .. Len(b.trans) : IsTransition(b, b.trans[m]) /\ b.trans[m].when \in 0 .. Len(h)
  BY Sizes DEF Fine, Good, Shaped, IsTransition
<1>2. /\ Grows(h, f, lg) /\ Lists(f) /\ Len(f) = Len(h) + Len(conds)
      /\ more \in 0 .. Len(f) /\ Reached(f, more) = Len(h) + 1 .. Len(f)
      /\ \A a \in 0 .. Len(h) : Reached(f, a) = Reached(h, a)
      /\ SameConds(h, f) /\ f[Len(h) + 1].cond = Level(0)
  <2>1. Grows(h, f, lg) /\ more \in 0 .. Len(f) /\ Reached(f, more) = Len(h) + 1 .. Len(f)
    BY <1>1, CreateGrows
  <2>2. Lists(f)
    BY <1>1, CreatedLists
  <2>3. Len(f) = Len(h) + Len(conds) /\ SameConds(h, f) /\ f[Len(h) + 1].cond = Level(0)
    <3>1. PICK e : e = h
      OBVIOUS
    <3> HIDE DEF h
    <3>2. /\ Len(Create(e, conds)) = Len(e) + Len(conds) /\ SameConds(e, Create(e, conds))
          /\ \A k \in 1 .. Len(conds) : Create(e, conds)[Len(e) + k].cond = conds[k]
      <4>1. Lists(e) /\ IsSequence(conds)
        BY <1>1, <3>1
      <4>2. /\ Len(Create(e, conds)) = Len(e) + Len(conds)
            /\ \A a \in 1 .. Len(e) : Create(e, conds)[a].cond = e[a].cond
            /\ \A k \in 1 .. Len(conds) : Create(e, conds)[Len(e) + k].cond = conds[k]
        BY <4>1, CreatedConds
      <4> QED
        BY <4>2 DEF SameConds
    <3>3. 1 \in 1 .. Len(conds)
      OBVIOUS
    <3> QED
      BY <3>1, <3>2, <3>3
  <2>4. \A a \in 0 .. Len(h) : Reached(f, a) = Reached(h, a)
    BY <1>1, CreatedNodes
  <2> QED
    BY <2>1, <2>2, <2>3, <2>4
<1>3. CASE root = 0
  <2>1. g = f
    BY <1>3 DEF Link, NULL
  <2>2. Fine(c, lg) /\ Continues(b, c)
    BY <1>2, <2>1, GrownFine
  <2>3. c.locs = b.locs /\ c.inits = b.inits /\ c.vars = b.vars /\ c.trans = b.trans /\ c.heap = g
    BY <1>2, <2>1, HeapGrown DEF Fine
  <2>4. \A m \in 1 .. Len(b.trans) : Reached(g, b.trans[m].when) = Reached(b.heap, b.trans[m].when)
    BY <1>1, <1>2, <2>1
  <2>6. LevelsKept(b.heap, g, lg)
    BY <1>1, <1>2, <2>1 DEF LevelsKept
  <2> HIDE DEF c, f
  <2>5. Gates(b, c)
    BY <2>2, <2>3 DEF Gates, Continues
  <2> QED
    BY <1>3, <2>2, <2>3, <2>4, <2>5, <2>6 DEF LevelBehind, c
<1>4. CASE root # 0
  <2> DEFINE z == LastNode(f, root)
             new == Len(h) + 1 .. Len(f)
  <2>1. Len(conds) \in Nat /\ more = Len(h) + 1
    BY SequenceFacts DEF Fresh
  <2> HIDE DEF f, more
  <2>2. root \in 1 .. Len(h) /\ root \in 1 .. Len(f)
    BY <1>1, <1>2, <1>4, <2>1
  <2>3. z \in Reached(h, root)
    <3>1. z \in Reached(f, root)
      BY <1>2, <2>2, LastOfList
    <3> QED
      BY <1>1, <1>2, <3>1
  <2>4. \A a \in 0 .. Len(h) : Reached(h, a) \subseteq 1 .. Len(h)
    BY <1>1, ReachedUnfold
  <2>5. z \notin Reached(f, more) /\ more \notin Reached(f, root)
    <3>1. z \in 1 .. Len(h) /\ Reached(f, root) \subseteq 1 .. Len(h)
      BY <1>1, <1>2, <2>3, <2>4
    <3> QED
      BY <1>1, <1>2, <2>1, <3>1
  <2>6. /\ Lists(g) /\ Len(g) = Len(f) /\ SameConds(f, g)
        /\ \A a \in 0 .. Len(f) :
             Reached(g, a) = Reached(f, a) \union IF z \in Reached(f, a) THEN Reached(f, more) ELSE {}
    <3>1. /\ Lists(Link(f, root, more)) /\ Len(Link(f, root, more)) = Len(f)
          /\ SameConds(f, Link(f, root, more))
          /\ \A a \in 0 .. Len(f) :
               Reached(Link(f, root, more), a) =
                 Reached(f, a) \union IF LastNode(f, root) \in Reached(f, a) THEN Reached(f, more) ELSE {}
      <4>1. PICK r : r = root
        OBVIOUS
      <4>2. /\ Lists(f) /\ r \in 1 .. Len(f) /\ more \in 0 .. Len(f)
            /\ LastNode(f, r) \notin Reached(f, more) /\ more \notin Reached(f, r)
        BY <1>2, <2>2, <2>5, <4>1
      <4>3. /\ Lists(Link(f, r, more)) /\ Len(Link(f, r, more)) = Len(f)
            /\ SameConds(f, Link(f, r, more))
            /\ \A a \in 0 .. Len(f) :
                 Reached(Link(f, r, more), a) =
                   Reached(f, a) \union IF LastNode(f, r) \in Reached(f, a) THEN Reached(f, more) ELSE {}
        BY <4>2, LinkedReached
      <4> QED
        BY <4>1, <4>3
    <3> QED
      BY <3>1 DEF f, more
  <2> HIDE DEF z
  <2>7. \A a \in 0 .. Len(h) :
          Reached(g, a) = Reached(h, a) \union IF z \in Reached(h, a) THEN new ELSE {}
    BY <1>1, <1>2, <2>1, <2>6
  <2>8. new \intersect 1 .. Len(h) = {}
    BY <1>1
  <2> HIDE DEF new
  <2>9. z \notin Shared(h, lg)
    BY <2>3 DEF Fine, Good, Untouched
  <2>10. Shared(g, lg) = Shared(h, lg) /\ LevelsKept(h, g, lg)
    <3>1. \A i \in DOMAIN lg : lg[i] \in 0 .. Len(h) /\ z \notin Reached(h, lg[i])
      BY <1>1, <2>9 DEF Shared
    <3>2. \A i \in DOMAIN lg : Reached(g, lg[i]) = Reached(h, lg[i])
      BY <2>7, <3>1
    <3> QED
      BY <3>2 DEF Shared, LevelsKept
  <2>11. ASSUME NEW m \in 1 .. Len(b.trans), m # n
         PROVE  Reached(g, b.trans[m].when) = Reached(h, b.trans[m].when)
    <3>1. z \notin Reached(h, b.trans[m].when)
      BY <2>3, <2>9, <2>11 DEF Fine, Good, Parted
    <3> QED
      BY <1>1, <2>7, <3>1
  <2>12. Reached(g, root) = Reached(h, root) \union new
    BY <1>1, <2>3, <2>7
  <2>13. Shared(h, lg) \subseteq 1 .. Len(h)
    <3>1. \A i \in DOMAIN lg : lg[i] \in 0 .. Len(h)
      BY <1>1
    <3> QED
      BY <2>4, <3>1 DEF Shared
  <2>14. /\ c.locs = b.locs /\ c.trans = b.trans /\ c.heap = g /\ c.inits = b.inits /\ c.vars = b.vars
         /\ c = [locs |-> b.locs, inits |-> b.inits, vars |-> b.vars, heap |-> g, trans |-> b.trans]
    BY DEF WithHeap, Fine, Good, Shaped
  <2>15. Len(h) <= Len(g) /\ Len(g) \in Nat
    BY <1>1, <1>2, <2>1, <2>6
  <2> HIDE DEF c
  <2>16. Shaped(c, lg)
    <3>1. c = [locs |-> c.locs, inits |-> c.inits, vars |-> c.vars, heap |-> c.heap, trans |-> c.trans]
      BY <2>14
    <3>2. \A m \in 1 .. Len(c.trans) : IsTransition(c, c.trans[m])
      BY <1>1, <2>14, <2>15 DEF IsTransition
    <3>3. \A l \in 1 .. Len(c.locs) : IsLocation(c, l)
      BY <2>14 DEF Fine, Good, Shaped, IsLocation
    <3>4. IsSequence(c.locs) /\ LastLoc <= Len(c.locs) /\ IsSequence(c.trans) /\ IsSequence(c.vars)
      BY <2>14 DEF Fine, Good, Shaped
    <3>5. \A i \in DOMAIN lg : lg[i] \in 1 .. Len(c.heap)
      BY <1>1, <2>14, <2>15
    <3> QED
      BY <2>6, <2>14, <3>1, <3>2, <3>3, <3>4, <3>5 DEF Shaped
  <2>17. Parted(c, lg)
    <3> SUFFICES ASSUME NEW m \in 1 .. Len(b.trans), NEW k \in 1 .. Len(b.trans), m # k
                 PROVE  Reached(g, b.trans[m].when) \intersect Reached(g, b.trans[k].when)
                          \subseteq Shared(h, lg)
      BY <2>10, <2>14 DEF Parted
    <3>1. Reached(h, b.trans[m].when) \intersect Reached(h, b.trans[k].when) \subseteq Shared(h, lg)
      BY DEF Fine, Good, Parted
    <3>2. /\ Reached(h, b.trans[m].when) \subseteq 1 .. Len(h)
          /\ Reached(h, b.trans[k].when) \subseteq 1 .. Len(h)
      BY <1>1, <2>4
    <3>3. CASE m = n
      <4>1. Reached(g, b.trans[k].when) = Reached(h, b.trans[k].when)
        BY <2>11, <3>3
      <4> QED
        BY <2>8, <2>12, <3>1, <3>2, <3>3, <4>1
    <3>4. CASE k = n
      <4>1. Reached(g, b.trans[m].when) = Reached(h, b.trans[m].when)
        BY <2>11, <3>4
      <4> QED
        BY <2>8, <2>12, <3>1, <3>2, <3>4, <4>1
    <3>5. CASE m # n /\ k # n
      BY <2>11, <3>1, <3>5
    <3> QED
      BY <3>3, <3>4, <3>5
  <2>18. Untouched(c, lg)
    <3> SUFFICES ASSUME NEW m \in 1 .. Len(b.trans), b.trans[m].original
                 PROVE  /\ Reached(g, b.trans[m].when) \intersect Shared(h, lg) = {}
                        /\ \E e \in edges : b.trans[m].goto = <<e.to>>
      BY <2>10, <2>14 DEF Untouched
    <3>1. /\ Reached(h, b.trans[m].when) \intersect Shared(h, lg) = {}
          /\ \E e \in edges : b.trans[m].goto = <<e.to>>
      BY DEF Fine, Good, Untouched
    <3>2. CASE m = n
      BY <2>8, <2>12, <2>13, <3>1, <3>2
    <3>3. CASE m # n
      BY <2>11, <3>1, <3>3
    <3> QED
      BY <3>2, <3>3
  <2>19. Good(c, lg)
    BY <2>16, <2>17, <2>18 DEF Good
  <2>20. SameConds(h, g)
    BY <1>1, <1>2, <2>1, <2>6 DEF SameConds
  <2>21. AllLead(c)
    BY <2>14 DEF Fine, AllLead, Leads
  <2>22. Len(h) + 1 \in 1 .. Len(f) /\ new = {Len(h) + 1} /\ Len(g) = Len(h) + 1
    BY <1>1, <1>2, <2>6 DEF new
  <2>23. g[Len(h) + 1].cond = Level(0)
    BY <1>2, <2>6, <2>22 DEF SameConds
  <2>24. ASSUME NEW a \in 0 .. Len(h) PROVE EdgesIn(g, a) = EdgesIn(h, a)
    <3>1. PICK more_ : more_ = IF z \in Reached(h, a) THEN new ELSE {}
      OBVIOUS
    <3>2. Reached(g, a) = Reached(h, a) \union more_
      BY <2>7, <3>1
    <3>3. Level(0)[1] # "edge"
      BY DEF Level
    <3>4. \A x \in more_ : g[x].cond[1] # "edge"
      BY <2>22, <2>23, <3>1, <3>3
    <3>5. PICK e, d : e = h /\ d = g
      OBVIOUS
    <3> HIDE DEF h
    <3>6. /\ Lists(e) /\ SameConds(e, d) /\ a \in 0 .. Len(e)
          /\ Reached(d, a) = Reached(e, a) \union more_ /\ \A x \in more_ : d[x].cond[1] # "edge"
      BY <1>1, <2>20, <3>2, <3>4, <3>5
    <3>7. EdgesIn(d, a) = EdgesIn(e, a)
      BY <3>6, SameEdges
    <3> QED
      BY <3>5, <3>7
  <2>25. Gates(b, c)
    BY <2>14, <2>15, <2>20, <2>24 DEF Gates
  <2>26. LevelBehind(b, c, root)
    <3>1. Len(h) + 1 \in Len(h) + 1 .. Len(g)
      BY <1>1, <2>22
    <3> QED
      BY <2>12, <2>14, <2>22, <2>23, <3>1 DEF LevelBehind
  <2> QED
    BY <2>10, <2>11, <2>14, <2>19, <2>21, <2>25, <2>26 DEF Fine, c
<1> QED
  BY <1>3, <1>4

\* One transition is gated: no guard but its own asks for more.
LEMMA GateOneFine ==
  ASSUME NEW b, NEW lg, Fine(b, lg), NEW n \in 1 .. Len(b.trans), NEW c, c = GateOne(b, n)
  PROVE  /\ Fine(c, lg) /\ Gates(b, c)
         /\ b.trans[n].original => LevelBehind(b, c, b.trans[n].when)
         /\ \A m \in 1 .. Len(b.trans) :
              m # n \/ ~b.trans[n].original =>
                Reached(c.heap, b.trans[m].when) = Reached(b.heap, b.trans[m].when)
         /\ LevelsKept(b.heap, c.heap, lg)
<1>1. CASE b.trans[n].original
  <2>1. PICK conds : conds = <<Level(0)>>
    OBVIOUS
  <2>2. PICK g : g = Link(Create(b.heap, conds), b.trans[n].when, Fresh(b.heap, conds))
    OBVIOUS
  <2>3. c = WithHeap(b, g)
    BY <1>1, <2>1, <2>2 DEF GateOne, WithHeap
  <2>4. IsSequence(conds) /\ conds # << >> /\ Len(conds) = 1 /\ conds[1] = Level(0)
    BY <2>1, ShortSequences
  <2>5. /\ Fine(WithHeap(b, g), lg) /\ Gates(b, WithHeap(b, g)) /\ WithHeap(b, g).heap = g
        /\ LevelBehind(b, WithHeap(b, g), b.trans[n].when)
        /\ \A m \in 1 .. Len(b.trans) :
              m # n => Reached(g, b.trans[m].when) = Reached(b.heap, b.trans[m].when)
        /\ LevelsKept(b.heap, g, lg)
    BY <1>1, <2>2, <2>4, GuardExtended
  <2> QED
    BY <1>1, <2>3, <2>5
<1>2. CASE ~b.trans[n].original
  <2>1. c = b
    BY <1>2 DEF GateOne
  <2>2. Gates(b, b)
    BY Sizes DEF Gates, SameConds, Fine
  <2> QED
    BY <1>2, <2>1, <2>2 DEF LevelsKept
<1> QED
  BY <1>1, <1>2

\* The first k transitions are gated.
GatedTo(b, c, k) ==
  \A m \in 1 .. Len(b.trans) :
    /\ b.trans[m].original /\ m <= k => LevelBehind(b, c, b.trans[m].when)
    /\ ~b.trans[m].original \/ m > k =>
         Reached(c.heap, b.trans[m].when) = Reached(b.heap, b.trans[m].when)

\* One more is gated after k - 1 were.
LEMMA GatedFurther ==
  ASSUME NEW b, NEW lg, Fine(b, lg), NEW c, Fine(c, lg), NEW d, Fine(d, lg),
         NEW k \in 1 .. Len(b.trans), Gates(b, c), Gates(c, d), GatedTo(b, c, k - 1),
         c.trans[k].original => LevelBehind(c, d, c.trans[k].when),
         \A m \in 1 .. Len(c.trans) :
           m # k \/ ~c.trans[k].original =>
             Reached(d.heap, c.trans[m].when) = Reached(c.heap, c.trans[m].when)
  PROVE  Gates(b, d) /\ GatedTo(b, d, k)
<1>1. /\ Len(b.heap) \in Nat /\ Len(c.heap) \in Nat /\ Len(d.heap) \in Nat /\ Len(b.trans) \in Nat
      /\ Len(b.heap) <= Len(c.heap) /\ Len(c.heap) <= Len(d.heap)
      /\ SameConds(b.heap, c.heap) /\ SameConds(c.heap, d.heap)
      /\ c.trans = b.trans /\ d.trans = b.trans
  BY Sizes DEF Fine, Gates
<1>2. SameConds(b.heap, d.heap)
  <2> SUFFICES ASSUME NEW a \in 1 .. Len(b.heap) PROVE d.heap[a].cond = b.heap[a].cond
    BY DEF SameConds
  <2>1. a \in 1 .. Len(c.heap)
    BY <1>1
  <2>2. c.heap[a].cond = b.heap[a].cond
    BY <1>1 DEF SameConds
  <2>3. d.heap[a].cond = c.heap[a].cond
    BY <1>1, <2>1 DEF SameConds
  <2> QED
    BY <2>2, <2>3
<1>3. ASSUME NEW a \in 0 .. Len(b.heap) PROVE EdgesIn(d.heap, a) = EdgesIn(b.heap, a)
  <2>1. a \in 0 .. Len(c.heap)
    BY <1>1
  <2> QED
    BY <2>1 DEF Gates
<1>4. Gates(b, d)
  BY <1>1, <1>2, <1>3 DEF Gates
<1>5. ASSUME NEW m \in 1 .. Len(b.trans), b.trans[m].original, m <= k
      PROVE  LevelBehind(b, d, b.trans[m].when)
  <2>1. CASE m = k
    <3>1. LevelBehind(c, d, b.trans[m].when)
      BY <1>1, <1>5, <2>1
    <3>2. Reached(c.heap, b.trans[m].when) = Reached(b.heap, b.trans[m].when)
      BY <2>1 DEF GatedTo
    <3>3. \A x \in Len(c.heap) + 1 .. Len(d.heap) : x \in Len(b.heap) + 1 .. Len(d.heap)
      BY <1>1
    <3> QED
      BY <3>1, <3>2, <3>3 DEF LevelBehind
  <2>2. CASE m # k
    <3>1. m <= k - 1
      BY <1>5, <2>2
    <3>2. LevelBehind(b, c, b.trans[m].when)
      BY <1>5, <3>1 DEF GatedTo
    <3>3. Reached(d.heap, b.trans[m].when) = Reached(c.heap, b.trans[m].when)
      BY <1>1, <2>2
    <3>4. \A x \in Len(b.heap) + 1 .. Len(c.heap) : x \in Len(b.heap) + 1 .. Len(d.heap) /\ x \in 1 .. Len(c.heap)
      BY <1>1
    <3>5. \A x \in Len(b.heap) + 1 .. Len(c.heap) : d.heap[x].cond = c.heap[x].cond
      BY <1>1, <3>4 DEF SameConds
    <3> QED
      BY <3>2, <3>3, <3>4, <3>5 DEF LevelBehind
  <2> QED
    BY <2>1, <2>2
<1>6. ASSUME NEW m \in 1 .. Len(b.trans), ~b.trans[m].original \/ m > k
      PROVE  Reached(d.heap, b.trans[m].when) = Reached(b.heap, b.trans[m].when)
  <2>1. m # k \/ ~c.trans[k].original
    BY <1>1, <1>6
  <2>2. Reached(d.heap, b.trans[m].when) = Reached(c.heap, b.trans[m].when)
    BY <1>1, <2>1
  <2>3. ~b.trans[m].original \/ m > k - 1
    BY <1>6
  <2>4. Reached(c.heap, b.trans[m].when) = Reached(b.heap, b.trans[m].when)
    BY <2>3 DEF GatedTo
  <2> QED
    BY <2>2, <2>4
<1> QED
  BY <1>4, <1>5, <1>6 DEF GatedTo

\* All of the model are gated, each once.
LEMMA GatedFine ==
  ASSUME NEW b, NEW lg, Fine(b, lg), NEW d, d = Gated(b)
  PROVE  /\ Fine(d, lg) /\ Gates(b, d) /\ GatedTo(b, d, Len(b.trans))
         /\ LevelsKept(b.heap, d.heap, lg)
<1> DEFINE n == Len(b.trans)
           f == CHOOSE f : AreGates(f, b, n)
<1>1. n \in Nat
  BY Sizes DEF Fine
<1>2. d = f[n]
  BY DEF Gated, AreGates
<1>3. f[0] = b /\ \A k \in 1 .. n : f[k] = GateOne(f[k - 1], k)
  <2>1. \E g : AreGates(g, b, n)
    BY <1>1, GatesUnfold
  <2>2. AreGates(f, b, n)
    BY <2>1
  <2> HIDE DEF f
  <2>3. 0 \in 0 .. n /\ \A k \in 1 .. n : k \in 0 .. n /\ k # 0
    BY <1>1
  <2>4. f[0] = b
    BY <2>2, <2>3 DEF AreGates
  <2>5. ASSUME NEW k \in 1 .. n PROVE f[k] = GateOne(f[k - 1], k)
    BY <2>2, <2>3 DEF AreGates
  <2> QED
    BY <2>4, <2>5
<1> HIDE DEF f
<1> DEFINE T == {k \in 0 .. n : /\ Fine(f[k], lg) /\ Gates(b, f[k]) /\ GatedTo(b, f[k], k)
                                /\ LevelsKept(b.heap, f[k].heap, lg)}
<1>4. 0 \in T
  <2>1. Gates(b, b)
    BY Sizes DEF Gates, SameConds, Fine
  <2>2. GatedTo(b, b, 0)
    BY <1>1 DEF GatedTo
  <2>3. LevelsKept(b.heap, b.heap, lg)
    BY DEF LevelsKept
  <2> QED
    BY <1>1, <1>3, <2>1, <2>2, <2>3
<1>5. ASSUME NEW k \in 1 .. n, k - 1 \in T PROVE k \in T
  <2>1. PICK c, e : c = f[k - 1] /\ e = f[k]
    OBVIOUS
  <2>2. Fine(c, lg) /\ Gates(b, c) /\ GatedTo(b, c, k - 1) /\ k \in 0 .. n /\ e = GateOne(c, k)
        /\ LevelsKept(b.heap, c.heap, lg)
    BY <1>1, <1>3, <1>5, <2>1
  <2>3. c.trans = b.trans /\ k \in 1 .. Len(c.trans)
    BY <1>1, <2>2 DEF Gates
  <2>4. /\ Fine(e, lg) /\ Gates(c, e) /\ (c.trans[k].original => LevelBehind(c, e, c.trans[k].when))
        /\ \A m \in 1 .. Len(c.trans) :
              m # k \/ ~c.trans[k].original =>
                Reached(e.heap, c.trans[m].when) = Reached(c.heap, c.trans[m].when)
    BY <2>2, <2>3, GateOneFine
  <2>6. LevelsKept(c.heap, e.heap, lg)
    BY <2>2, <2>3, GateOneFine
  <2>5. Gates(b, e) /\ GatedTo(b, e, k)
    BY <2>2, <2>4, GatedFurther
  <2>7. LevelsKept(b.heap, e.heap, lg)
    BY <2>2, <2>6 DEF LevelsKept
  <2> QED
    BY <2>1, <2>2, <2>4, <2>5, <2>7
<1> HIDE DEF T
<1>6. \A k \in 0 .. n : k \in T
  BY <1>1, <1>4, <1>5, Upwards
<1>7. n \in T
  BY <1>1, <1>6
<1> QED
  BY <1>2, <1>7 DEF T

-------------------------------------------------------------------------------
\* Changes that leave names, targets and guards as they are

\* Resets, invariants, initial sets and variables may change.
LEMMA Redecorated ==
  ASSUME NEW b, NEW lg, Fine(b, lg), NEW c,
         c = [locs |-> c.locs, inits |-> c.inits, vars |-> c.vars, heap |-> c.heap, trans |-> c.trans],
         c.heap = b.heap,
         IsSequence(c.locs), Len(c.locs) = Len(b.locs),
         \A l \in 1 .. Len(b.locs) :
           c.locs[l] = [name |-> b.locs[l].name, plain |-> b.locs[l].plain, inv |-> c.locs[l].inv],
         IsSequence(c.vars), IsSequence(c.trans), Len(c.trans) = Len(b.trans),
         \A n \in 1 .. Len(b.trans) : Settled(c.trans[n]),
         \A n \in 1 .. Len(b.trans) :
           c.trans[n] = [from |-> b.trans[n].from, goto |-> b.trans[n].goto,
                         original |-> b.trans[n].original, when |-> b.trans[n].when,
                         reset |-> c.trans[n].reset]
  PROVE  Fine(c, lg) /\ \A goto : Leads(b, goto) => Leads(c, goto)
<1>1. \A l \in 1 .. Len(b.locs) : c.locs[l].name = b.locs[l].name /\ c.locs[l].plain = b.locs[l].plain
  <2> SUFFICES ASSUME NEW l \in 1 .. Len(b.locs)
               PROVE  c.locs[l].name = b.locs[l].name /\ c.locs[l].plain = b.locs[l].plain
    OBVIOUS
  <2>1. c.locs[l] = [name |-> b.locs[l].name, plain |-> b.locs[l].plain, inv |-> c.locs[l].inv]
    OBVIOUS
  <2> QED
    BY <2>1
<1>2. ASSUME NEW n \in 1 .. Len(b.trans)
      PROVE  /\ c.trans[n].from = b.trans[n].from /\ c.trans[n].goto = b.trans[n].goto
             /\ c.trans[n].original = b.trans[n].original /\ c.trans[n].when = b.trans[n].when
  <2>1. c.trans[n] = [from |-> b.trans[n].from, goto |-> b.trans[n].goto,
                      original |-> b.trans[n].original, when |-> b.trans[n].when,
                      reset |-> c.trans[n].reset]
    OBVIOUS
  <2> QED
    BY <2>1
<1>3. \A goto : Leads(b, goto) => Leads(c, goto)
  BY <1>1 DEF Leads
<1>4. AllLead(c)
  BY <1>2, <1>3 DEF Fine, AllLead
<1>5. \A l \in 1 .. Len(b.locs) : IsLocation(c, l)
  <2> SUFFICES ASSUME NEW l \in 1 .. Len(b.locs) PROVE IsLocation(c, l)
    OBVIOUS
  <2>1. IsLocation(b, l)
    BY DEF Fine, Good, Shaped
  <2>2. c.locs[l] = [name |-> b.locs[l].name, plain |-> b.locs[l].plain, inv |-> c.locs[l].inv]
    OBVIOUS
  <2> QED
    BY <1>1, <2>1, <2>2 DEF IsLocation
<1>6. \A n \in 1 .. Len(b.trans) : IsTransition(c, c.trans[n])
  <2> SUFFICES ASSUME NEW n \in 1 .. Len(b.trans) PROVE IsTransition(c, c.trans[n])
    OBVIOUS
  <2>1. IsTransition(b, b.trans[n]) /\ Settled(c.trans[n])
    BY DEF Fine, Good, Shaped
  <2>2. c.trans[n] = [from |-> b.trans[n].from, goto |-> b.trans[n].goto,
                      original |-> b.trans[n].original, when |-> b.trans[n].when,
                      reset |-> c.trans[n].reset]
    OBVIOUS
  <2> QED
    BY <1>2, <2>1, <2>2 DEF IsTransition
<1>7. Shaped(c, lg)
  <2>1. LastLoc <= Len(c.locs) /\ Lists(c.heap) /\ \A i \in DOMAIN lg : lg[i] \in 1 .. Len(c.heap)
    BY DEF Fine, Good, Shaped
  <2> QED
    BY <1>5, <1>6, <2>1 DEF Shaped
<1>8. Parted(c, lg)
  <2> SUFFICES ASSUME NEW m \in 1 .. Len(b.trans), NEW n \in 1 .. Len(b.trans), m # n
               PROVE  Reached(b.heap, c.trans[m].when) \intersect Reached(b.heap, c.trans[n].when)
                        \subseteq Shared(b.heap, lg)
    BY DEF Parted
  <2> QED
    BY <1>2 DEF Fine, Good, Parted
<1>9. Untouched(c, lg)
  <2> SUFFICES ASSUME NEW n \in 1 .. Len(b.trans), c.trans[n].original
               PROVE  /\ Reached(b.heap, c.trans[n].when) \intersect Shared(b.heap, lg) = {}
                      /\ \E e \in edges : c.trans[n].goto = <<e.to>>
    BY DEF Untouched
  <2>1. b.trans[n].original
    BY <1>2
  <2> QED
    BY <1>2, <2>1 DEF Fine, Good, Untouched
<1> QED
  BY <1>3, <1>4, <1>7, <1>8, <1>9 DEF Fine, Good

\* The guard of another level.
LEMMA LevelGuardAdded ==
  ASSUME NEW b, NEW lg, Fine(b, lg), NEW j, j \notin DOMAIN lg, NEW more,
         DOMAIN more = DOMAIN lg \union {j}, \A i \in DOMAIN lg : more[i] = lg[i],
         more[j] = Fresh(b.heap, <<Level(j)>>)
  PROVE  /\ Fine(LevelGuardMade(b, j), more) /\ Fine(LevelGuardMade(b, j), lg)
         /\ Continues(b, LevelGuardMade(b, j))
         /\ \A goto : Leads(b, goto) => Leads(LevelGuardMade(b, j), goto)
<1> DEFINE h == b.heap
           conds == <<Level(j)>>
           g == Create(h, conds)
           c == WithHeap(b, g)
<1>1. LevelGuardMade(b, j) = c
  BY DEF LevelGuardMade, WithHeap
<1>2. IsSequence(conds) /\ Len(conds) = 1 /\ conds # << >>
  BY ShortSequences
<1>3. /\ Lists(h) /\ Len(h) \in Nat /\ \A i \in DOMAIN lg : lg[i] \in 1 .. Len(h)
      /\ \A m \in 1 .. Len(b.trans) : b.trans[m].when \in 0 .. Len(h)
  BY Sizes DEF Fine, Good, Shaped, IsTransition
<1>4. Fresh(h, conds) = Len(h) + 1
  BY <1>2 DEF Fresh
<1>5. more[j] = Len(h) + 1
  BY <1>4
<1> HIDE DEF conds
<1>6. /\ Grows(h, g, lg) /\ Len(g) = Len(h) + 1 /\ Reached(g, Len(h) + 1) = Len(h) + 1 .. Len(h) + 1
      /\ \A a \in 0 .. Len(h) : Reached(g, a) = Reached(h, a)
  <2>1. Grows(h, g, lg)
    BY <1>2, <1>3, CreateGrows
  <2>2. Reached(g, Fresh(h, conds)) = Len(h) + 1 .. Len(g)
    BY <1>2, <1>3, CreateGrows
  <2>3. Len(g) = Len(h) + Len(conds)
    BY <1>2, <1>3, CreatedHeap DEF Appends
  <2>4. \A a \in 0 .. Len(h) : Reached(g, a) = Reached(h, a)
    BY <1>2, <1>3, CreatedNodes
  <2> QED
    BY <1>2, <1>4, <2>1, <2>2, <2>3, <2>4
<1> HIDE DEF g
<1>7. Fine(c, lg) /\ Continues(b, c) /\ c.heap = g /\ c.trans = b.trans
  BY <1>6, GrownFine, HeapGrown DEF Fine
<1>8. \A goto : Leads(b, goto) => Leads(c, goto)
  BY <1>7, StillFinal
<1> HIDE DEF c
<1>9. Shared(g, more) = Shared(g, lg) \union {Len(h) + 1}
  <2>1. Shared(g, more) = Shared(g, lg) \union Reached(g, more[j])
    BY DEF Shared
  <2>2. Len(h) + 1 .. Len(h) + 1 = {Len(h) + 1}
    BY <1>3
  <2> QED
    BY <1>5, <1>6, <2>1, <2>2
<1>10. Shaped(c, more)
  <2>1. \A i \in DOMAIN more : more[i] \in 1 .. Len(c.heap)
    BY <1>3, <1>5, <1>6, <1>7
  <2> QED
    BY <1>7, <2>1 DEF Fine, Good, Shaped
<1>11. Parted(c, more)
  BY <1>7, <1>9 DEF Fine, Good, Parted
<1>12. Untouched(c, more)
  <2> SUFFICES ASSUME NEW n \in 1 .. Len(c.trans), c.trans[n].original
               PROVE  /\ Reached(g, c.trans[n].when) \intersect Shared(g, more) = {}
                      /\ \E e \in edges : c.trans[n].goto = <<e.to>>
    BY <1>7 DEF Untouched
  <2>1. /\ Reached(g, c.trans[n].when) \intersect Shared(g, lg) = {}
        /\ \E e \in edges : c.trans[n].goto = <<e.to>>
    BY <1>7 DEF Fine, Good, Untouched
  <2>2. Len(h) + 1 \notin Reached(g, c.trans[n].when)
    <3>1. c.trans[n].when \in 0 .. Len(h)
      BY <1>3, <1>7
    <3>2. Reached(h, c.trans[n].when) \subseteq 1 .. Len(h)
      BY <1>3, <3>1, ReachedUnfold
    <3>3. Len(h) + 1 \notin 1 .. Len(h)
      BY <1>3
    <3> QED
      BY <1>6, <3>1, <3>2, <3>3
  <2> QED
    BY <1>9, <2>1, <2>2
<1>13. Fine(c, more)
  BY <1>7, <1>10, <1>11, <1>12 DEF Fine, Good
<1> QED
  BY <1>1, <1>7, <1>8, <1>13

-------------------------------------------------------------------------------
\* The model as it is read

AreEdges(read, f, n) ==
  read = [k \in 0 .. n |->
            IF k = 0 THEN << >>
            ELSE LET p == f.properties[k] IN
                 IF p.kind = "trans" THEN Append(read[k - 1], p.edge) ELSE read[k - 1]]

EdgesFrom(f) ==
  {e \in EdgePool :
     e.from \in Locs /\ \E n \in DOMAIN f.properties : f.properties[n].kind = "trans" /\ f.properties[n].edge = e}

\* Reading property after property is a function, whose values are transitions.
LEMMA EdgesUnfold ==
  ASSUME NEW f \in Files, Accepted(f)
  PROVE  /\ Len(f.properties) \in Nat
         /\ \E read \in [0 .. Len(f.properties) -> Seq(EdgesFrom(f))] :
              AreEdges(read, f, Len(f.properties))
<1> DEFINE n == Len(f.properties)
           S == Seq(EdgesFrom(f))
           step == [k \in 1 .. n |-> [es \in S |->
                      IF f.properties[k].kind = "trans" THEN Append(es, f.properties[k].edge) ELSE es]]
<1>1. n \in Nat /\ DOMAIN f.properties = 1 .. n
  BY ListsAssumption, SequenceFacts
<1>2. ASSUME NEW k \in 1 .. n, f.properties[k].kind = "trans"
      PROVE  f.properties[k].edge \in EdgesFrom(f)
  <2>1. f.properties[k].edge \in EdgePool /\ Range(f.modes) \subseteq Locs
    BY <1>1, <1>2, ListsAssumption DEF Locs
  <2>2. IsMode(f, f.properties[k].edge.from)
    BY <1>1, <1>2 DEF Accepted
  <2> QED
    BY <1>1, <1>2, <2>1, <2>2 DEF IsMode, EdgesFrom
<1>3. step \in [1 .. n -> [S -> S]]
  BY <1>2
<1>4. << >> \in S
  OBVIOUS
<1>5. \E read : Stepping(read, S, << >>, n, step)
  <2> HIDE DEF S, step, n
  <2> QED
    BY <1>1, <1>3, <1>4, StepByStep
<1>6. PICK read : Stepping(read, S, << >>, n, step)
  BY <1>5
<1>7. /\ read \in [0 .. n -> S] /\ read[0] = << >>
      /\ \A k \in 1 .. n : read[k] = step[k][read[k - 1]]
  <2> HIDE DEF S, step, n
  <2> QED
    BY <1>6 DEF Stepping
<1>8. ASSUME NEW k \in 0 .. n
      PROVE  read[k] = IF k = 0 THEN << >>
                       ELSE LET p == f.properties[k] IN
                            IF p.kind = "trans" THEN Append(read[k - 1], p.edge) ELSE read[k - 1]
  <2>1. CASE k = 0
    BY <1>7, <2>1
  <2>2. CASE k # 0
    <3>1. k \in 1 .. n /\ k - 1 \in 0 .. n
      BY <1>1, <2>2
    <3>2. read[k - 1] \in S
      BY <1>7, <3>1
    <3>3. read[k] = step[k][read[k - 1]]
      BY <1>7, <3>1
    <3> HIDE DEF S, n
    <3>4. step[k][read[k - 1]]
            = IF f.properties[k].kind = "trans" THEN Append(read[k - 1], f.properties[k].edge)
              ELSE read[k - 1]
      BY <3>1, <3>2
    <3> QED
      BY <2>2, <3>3, <3>4
  <2> QED
    BY <2>1, <2>2
<1>9. AreEdges(read, f, n)
  <2>1. read = [k \in 0 .. n |-> read[k]]
    <3> HIDE DEF S, n
    <3> QED
      BY <1>7
  <2> HIDE DEF n, S
  <2> QED
    BY <1>8, <2>1 DEF AreEdges
<1> QED
  BY <1>1, <1>7, <1>9

\* There is only one such function.
LEMMA EdgesUnique ==
  ASSUME NEW f, NEW n \in Nat, NEW r, AreEdges(r, f, n), NEW s, AreEdges(s, f, n)
  PROVE  r[n] = s[n]
<1> DEFINE T == {k \in 0 .. n : r[k] = s[k]}
<1>1. 0 \in T
  <2>1. 0 \in 0 .. n
    OBVIOUS
  <2> QED
    BY <2>1 DEF AreEdges
<1>2. ASSUME NEW k \in 1 .. n, k - 1 \in T PROVE k \in T
  <2>1. k \in 0 .. n /\ k # 0 /\ r[k - 1] = s[k - 1]
    BY <1>2
  <2> QED
    BY <2>1 DEF AreEdges
<1> HIDE DEF T
<1>3. \A k \in 0 .. n : k \in T
  BY <1>1, <1>2, Upwards
<1>4. n \in T
  BY <1>3
<1> QED
  BY <1>4 DEF T

\* What is read in the end are transitions of the file.
LEMMA EdgesTyped ==
  ASSUME NEW f \in Files, Accepted(f)
  PROVE  EdgesRead(f) \in Seq(EdgesFrom(f))
<1> DEFINE n == Len(f.properties)
           r == CHOOSE read : AreEdges(read, f, n)
<1>1. EdgesRead(f) = r[n]
  BY DEF EdgesRead, AreEdges
<1>2. PICK read \in [0 .. n -> Seq(EdgesFrom(f))] : AreEdges(read, f, n)
  BY EdgesUnfold
<1>3. AreEdges(r, f, n)
  BY <1>2
<1>4. n \in Nat
  BY EdgesUnfold
<1> HIDE DEF r
<1>5. r[n] = read[n]
  BY <1>2, <1>3, <1>4, EdgesUnique
<1>6. read[n] \in Seq(EdgesFrom(f))
  BY <1>2, <1>4
<1> QED
  BY <1>1, <1>5, <1>6

-------------------------------------------------------------------------------
\* The inductive invariant

\* Where the construction stands: a level has a guard as soon as its sweep begins,
\* and a sweep goes over the locations of the model only.
AllOriginal(b) == \A n \in 1 .. Len(b.trans) : b.trans[n].original

PlacesInv ==
  /\ pc \in {"vars", "sweep", "gate", "built", "bound", "written"}
  /\ pc = "vars" => DOMAIN levelGuard = {} /\ id = 0 /\ here = 1 /\ AllOriginal(ha)
  /\ pc = "sweep" => DOMAIN levelGuard = 0 .. id /\ IsSub(id) /\ here \in Locs /\ Leads(ha, Final)

ListsInv ==
  /\ edges \subseteq EdgePool /\ feature \in Features
  /\ Fine(ha, levelGuard)
  /\ PlacesInv

\* What is fine stays so in the next state, as no transition of the model goes.
LEMMA FineNext ==
  ASSUME edges' = edges, Fine(ha', levelGuard')
  PROVE  Fine(ha, levelGuard)'
BY DEF Fine, Good, Shaped, Parted, Untouched, AllLead, Leads, IsTransition, IsLocation, Shared,
       Reached, Nodes, Lists, IsHeap, Lengths, IsNode, IsSequence, Locs,
       Settled, LastReset, Number, Final, IsPauseName, PauseName

\* FINAL can be led to in the next state if the automaton there says so.
LEMMA LeadsNext ==
  ASSUME edges' = edges, Leads(ha', Final)
  PROVE  Leads(ha, Final)'
BY DEF Leads, Final

\* The two ways in which a step keeps the invariant.
LEMMA StepNext ==
  ASSUME ListsInv, edges' = edges, feature' = feature, Fine(ha', levelGuard'),
         pc' \in {"gate", "built", "bound", "written"}
  PROVE  ListsInv'
<1>1. Fine(ha, levelGuard)'
  BY FineNext
<1>2. PlacesInv'
  BY DEF PlacesInv
<1> QED
  BY <1>1, <1>2 DEF ListsInv

\* A step within the sweep.
LEMMA SweepNext ==
  ASSUME ListsInv, edges' = edges, feature' = feature, Fine(ha', levelGuard'),
         pc' = "sweep", DOMAIN levelGuard' = 0 .. id', IsSub(id'), here' \in Locs, Leads(ha', Final)
  PROVE  ListsInv'
<1>1. Fine(ha, levelGuard)'
  BY FineNext
<1>2. Leads(ha, Final)'
  BY LeadsNext
<1>3. IsSub(id)'
  BY DEF IsSub
<1>4. (here \in Locs)'
  BY DEF Locs
<1>5. PlacesInv'
  BY <1>2, <1>3, <1>4 DEF PlacesInv
<1> QED
  BY <1>1, <1>5 DEF ListsInv

\* What the invariant says of the lists.
LEMMA TypesFollow ==
  ASSUME ListsInv
  PROVE  TypeOK
<1>1. /\ Good(ha, levelGuard) /\ AllLead(ha)
      /\ DOMAIN ha.locs = 1 .. Len(ha.locs) /\ DOMAIN ha.trans = 1 .. Len(ha.trans)
      /\ DOMAIN ha.heap = 1 .. Len(ha.heap) /\ Lists(ha.heap) /\ Len(ha.heap) \in Nat
  BY Sizes DEF ListsInv, Fine
<1>2. 0 .. Len(ha.heap) = DOMAIN ha.heap \union {NULL}
  BY <1>1 DEF NULL
<1>3. ASSUME NEW a \in DOMAIN ha.heap PROVE ha.heap[a].next \in DOMAIN ha.heap \union {NULL}
  <2>1. ha.heap[a].next \in 0 .. Len(ha.heap)
    BY <1>1, HeapFacts
  <2> QED
    BY <1>2, <2>1
<1>4. ASSUME NEW n \in DOMAIN ha.trans
      PROVE  /\ ha.trans[n].from \in DOMAIN ha.locs /\ ha.trans[n].when \in DOMAIN ha.heap \union {NULL}
             /\ \/ ha.trans[n].original
                \/ \E l \in DOMAIN ha.locs : ha.locs[l].name = ha.trans[n].goto
                \/ \E e \in edges : ha.trans[n].goto = <<e.to>>
  <2>1. IsTransition(ha, ha.trans[n])
    BY <1>1 DEF Good, Shaped
  <2>2. Leads(ha, ha.trans[n].goto)
    BY <1>1 DEF AllLead
  <2>3. ha.trans[n].from \in DOMAIN ha.locs /\ ha.trans[n].when \in DOMAIN ha.heap \union {NULL}
    BY <1>1, <1>2, <2>1 DEF IsTransition
  <2> QED
    BY <1>1, <2>2, <2>3 DEF Leads
<1>5. \A i \in DOMAIN levelGuard : levelGuard[i] \in DOMAIN ha.heap
  BY <1>1 DEF Good, Shaped
<1> QED
  BY <1>3, <1>4, <1>5 DEF TypeOK, ListsInv

\* Good automata have no shared nodes but those of level guards.
LEMMA ApartFollows ==
  ASSUME ListsInv
  PROVE  GuardsApart
<1>1. Good(ha, levelGuard) /\ DOMAIN ha.trans = 1 .. Len(ha.trans)
  BY Sizes DEF ListsInv, Fine
<1> QED
  BY <1>1 DEF GuardsApart, Good, Parted, Shared

-------------------------------------------------------------------------------
\* The automaton of the model

\* The list of one edge: nothing follows its condition.
LEMMA SingleNodes ==
  ASSUME NEW h, IsHeap(h), \A a \in 1 .. Len(h) : h[a].next = 0
  PROVE  Lists(h) /\ \A a \in 1 .. Len(h) : Reached(h, a) = {a}
<1>1. Len(h) \in Nat /\ DOMAIN h = 1 .. Len(h)
  BY SequenceFacts DEF IsHeap
<1>2. Lists(h)
  <2> DEFINE r == [a \in 0 .. Len(h) |-> IF a = 0 THEN 0 ELSE 1]
  <2>1. r \in Lengths(h, 1)
    BY <1>1 DEF Lengths
  <2> QED
    BY <2>1 DEF Lists
<1>3. ASSUME NEW a \in 1 .. Len(h) PROVE Reached(h, a) = {a}
  <2>1. a \in 0 .. Len(h) /\ a # 0 /\ h[a].next = 0 /\ 0 \in 0 .. Len(h)
    BY <1>1
  <2> QED
    BY <1>2, <2>1, ReachedUnfold
<1> QED
  BY <1>2, <1>3

\* A location, a node, and a transition of the automaton of the model.
IsModelLocation(f, loc, l) == loc = [name |-> <<l>>, plain |-> TRUE, inv |-> InvariantRead(f, l)]

IsModelNode(node, e) == node = [cond |-> <<"edge", e>>, next |-> NULL]

IsModelTransition(t, e, n) ==
  t = [from |-> e.from, goto |-> <<e.to>>, original |-> TRUE, when |-> n, reset |-> Resets[e]]

\* The automaton as haslacParser leaves it: one location per number, and one transition
\* and one node per transition of the file.
LEMMA ModelMade ==
  ASSUME Init, NEW es, es = EdgesRead(file)
  PROVE  /\ es \in Seq(EdgesFrom(file)) /\ Len(es) \in Nat /\ DOMAIN es = 1 .. Len(es)
         /\ edges = {es[n] : n \in DOMAIN es}
         /\ \A n \in 1 .. Len(es) : es[n] \in EdgePool /\ es[n].from \in Locs
         /\ DOMAIN levelGuard = {} /\ Shared(ha.heap, levelGuard) = {}
         /\ ha = [locs |-> ha.locs, inits |-> ha.inits, vars |-> ha.vars, heap |-> ha.heap,
                  trans |-> ha.trans]
         /\ IsSequence(ha.locs) /\ Len(ha.locs) = LastLoc
         /\ \A l \in 1 .. LastLoc : IsModelLocation(file, ha.locs[l], l)
         /\ IsSequence(ha.heap) /\ Len(ha.heap) = Len(es)
         /\ \A a \in 1 .. Len(es) : IsModelNode(ha.heap[a], es[a])
         /\ IsSequence(ha.trans) /\ Len(ha.trans) = Len(es)
         /\ \A n \in 1 .. Len(es) : IsModelTransition(ha.trans[n], es[n], n)
         /\ Lists(ha.heap) /\ \A a \in 1 .. Len(es) : Reached(ha.heap, a) = {a}
<1> DEFINE N == Len(es)
<1>1. /\ es \in Seq(EdgesFrom(file)) /\ edges = {es[n] : n \in DOMAIN es}
      /\ ha = [locs |-> [l \in Locs |-> [name |-> <<l>>, plain |-> TRUE, inv |-> InvariantRead(file, l)]],
               inits |-> InitialRead(file),
               vars |-> file.signature,
               heap |-> [n \in DOMAIN es |-> [cond |-> <<"edge", es[n]>>, next |-> NULL]],
               trans |-> [n \in DOMAIN es |->
                 [from |-> es[n].from, goto |-> <<es[n].to>>, original |-> TRUE,
                  when |-> n, reset |-> Resets[es[n]]]]]
      /\ levelGuard = << >>
  <2>1. file \in Files /\ Accepted(file)
    BY DEF Init
  <2>2. es \in Seq(EdgesFrom(file))
    BY <2>1, EdgesTyped
  <2>3. edges = {es[n] : n \in DOMAIN es}
    BY DEF Init, Range
  <2> QED
    BY <2>2, <2>3 DEF Init
<1>2. /\ N \in Nat /\ DOMAIN es = 1 .. N
      /\ \A n \in 1 .. N : es[n] \in EdgePool /\ es[n].from \in Locs
  BY <1>1 DEF EdgesFrom
<1>3. LastLoc \in Nat /\ Locs = 1 .. LastLoc
  BY ListsAssumption DEF Locs
<1>4. DOMAIN levelGuard = {} /\ Shared(ha.heap, levelGuard) = {}
  BY <1>1 DEF Shared
<1>5. /\ IsSequence(ha.locs) /\ Len(ha.locs) = LastLoc
      /\ \A l \in 1 .. LastLoc : IsModelLocation(file, ha.locs[l], l)
  <2>1. ha.locs = [l \in 1 .. LastLoc |-> [name |-> <<l>>, plain |-> TRUE, inv |-> InvariantRead(file, l)]]
    BY <1>1, <1>3
  <2>2. ha.locs = [l \in 1 .. LastLoc |-> ha.locs[l]]
    BY <2>1
  <2>3. IsSequence(ha.locs) /\ Len(ha.locs) = LastLoc
    BY <1>3, <2>2, SequenceMade
  <2> QED
    BY <2>1, <2>3 DEF IsModelLocation
<1>6. /\ IsSequence(ha.heap) /\ Len(ha.heap) = N
      /\ \A a \in 1 .. N : IsModelNode(ha.heap[a], es[a])
  <2>1. ha.heap = [n \in 1 .. N |-> [cond |-> <<"edge", es[n]>>, next |-> NULL]]
    BY <1>1, <1>2
  <2>2. ha.heap = [n \in 1 .. N |-> ha.heap[n]]
    BY <2>1
  <2>3. IsSequence(ha.heap) /\ Len(ha.heap) = N
    BY <1>2, <2>2, SequenceMade
  <2> QED
    BY <2>1, <2>3 DEF IsModelNode
<1>7. /\ IsSequence(ha.trans) /\ Len(ha.trans) = N
      /\ \A n \in 1 .. N : IsModelTransition(ha.trans[n], es[n], n)
  <2>1. ha.trans = [n \in 1 .. N |-> [from |-> es[n].from, goto |-> <<es[n].to>>, original |-> TRUE,
                                      when |-> n, reset |-> Resets[es[n]]]]
    BY <1>1, <1>2
  <2>2. ha.trans = [n \in 1 .. N |-> ha.trans[n]]
    BY <2>1
  <2>3. IsSequence(ha.trans) /\ Len(ha.trans) = N
    BY <1>2, <2>2, SequenceMade
  <2> QED
    BY <2>1, <2>3 DEF IsModelTransition
<1>8. ha = [locs |-> ha.locs, inits |-> ha.inits, vars |-> ha.vars, heap |-> ha.heap, trans |-> ha.trans]
  BY <1>1
<1>9. Lists(ha.heap) /\ \A a \in 1 .. N : Reached(ha.heap, a) = {a}
  <2>1. ASSUME NEW a \in 1 .. N PROVE ha.heap[a].next = 0 /\ IsNode(ha.heap, a)
    <3>1. PICK cond : cond = <<"edge", es[a]>>
      OBVIOUS
    <3>2. ha.heap[a] = [cond |-> cond, next |-> 0] /\ 0 \in 0 .. Len(ha.heap)
      BY <1>2, <1>6, <3>1 DEF NULL, IsModelNode
    <3> QED
      BY <3>2 DEF IsNode
  <2> QED
    BY <1>6, <2>1, SingleNodes DEF IsHeap
<1> QED
  BY <1>1, <1>2, <1>4, <1>5, <1>6, <1>7, <1>8, <1>9

\* Nothing is shared in it.
LEMMA ModelFine ==
  ASSUME Init
  PROVE  edges \subseteq EdgePool /\ Fine(ha, levelGuard) /\ AllOriginal(ha)
<1>1. PICK es : es = EdgesRead(file)
  OBVIOUS
<1> DEFINE N == Len(es)
<1>2. /\ N \in Nat /\ DOMAIN es = 1 .. N /\ edges = {es[n] : n \in DOMAIN es}
      /\ \A n \in 1 .. N : es[n] \in EdgePool /\ es[n].from \in Locs
      /\ DOMAIN levelGuard = {} /\ Shared(ha.heap, levelGuard) = {}
  BY <1>1, ModelMade
<1>3. LastLoc \in Nat /\ Locs = 1 .. LastLoc
  BY ListsAssumption DEF Locs
<1>4. ha = [locs |-> ha.locs, inits |-> ha.inits, vars |-> ha.vars, heap |-> ha.heap, trans |-> ha.trans]
  BY <1>1, ModelMade
<1>5. /\ IsSequence(ha.locs) /\ Len(ha.locs) = LastLoc
      /\ \A l \in 1 .. LastLoc : IsModelLocation(file, ha.locs[l], l)
  BY <1>1, ModelMade
<1>6. IsSequence(ha.heap) /\ Len(ha.heap) = N
  BY <1>1, ModelMade
<1>7. /\ IsSequence(ha.trans) /\ Len(ha.trans) = N
      /\ \A n \in 1 .. N : IsModelTransition(ha.trans[n], es[n], n)
  BY <1>1, ModelMade
<1>8. Lists(ha.heap) /\ \A a \in 1 .. N : Reached(ha.heap, a) = {a}
  BY <1>1, ModelMade
<1>9. ASSUME NEW n \in 1 .. N
       PROVE  /\ IsTransition(ha, ha.trans[n]) /\ ha.trans[n].when = n
              /\ ha.trans[n].goto = <<es[n].to>> /\ ha.trans[n].original
  <2>1. PICK yes : yes = TRUE
    OBVIOUS
  <2>2. /\ ha.trans[n] = [from |-> es[n].from, goto |-> <<es[n].to>>, original |-> yes,
                          when |-> n, reset |-> Resets[es[n]]]
        /\ es[n].from \in 1 .. Len(ha.locs) /\ n \in 0 .. Len(ha.heap)
    BY <1>2, <1>3, <1>5, <1>6, <1>7, <2>1 DEF IsModelTransition
  <2>3. PICK goto, reset : goto = <<es[n].to>> /\ reset = Resets[es[n]]
    OBVIOUS
  <2>4. /\ ha.trans[n].from = es[n].from /\ ha.trans[n].goto = goto /\ ha.trans[n].original = yes
        /\ ha.trans[n].when = n /\ ha.trans[n].reset = reset
        /\ ha.trans[n] = [from |-> es[n].from, goto |-> goto, original |-> yes,
                          when |-> n, reset |-> reset]
    BY <2>2, <2>3
  <2>5. ha.trans[n].original \in BOOLEAN /\ ha.trans[n].original
    BY <2>1, <2>4
  <2>6. Settled(ha.trans[n])
    <3>1. es[n] \in EdgePool
      BY <1>2
    <3>2. IsSequence(reset) /\ \A k \in DOMAIN reset : ~Says(reset, k, "level")
      BY <2>3, <3>1, ListsAssumption, NamesAssumption DEF Says
    <3>3. LastReset(reset, "level") # Number(0)
      BY <3>2, NeverReset, NamesAssumption DEF Number
    <3>4. goto = <<goto[1]>>
      BY <2>3
    <3> QED
      BY <2>4, <3>2, <3>3, <3>4 DEF Settled
  <2>7. IsTransition(ha, ha.trans[n])
    BY <2>2, <2>4, <2>5, <2>6 DEF IsTransition
  <2> QED
    BY <2>3, <2>4, <2>5, <2>7
<1>10. \A l \in 1 .. LastLoc : IsLocation(ha, l)
  <2> SUFFICES ASSUME NEW l \in 1 .. LastLoc PROVE IsLocation(ha, l)
    OBVIOUS
  <2>1. PICK name, inv, yes : name = <<l>> /\ inv = InvariantRead(file, l) /\ yes = TRUE
    OBVIOUS
  <2>2. ha.locs[l] = [name |-> name, plain |-> yes, inv |-> inv]
    BY <1>5, <2>1 DEF IsModelLocation
  <2>3. ha.locs[l].name = name /\ ha.locs[l].plain = yes /\ ha.locs[l].inv = inv
    BY <2>2
  <2>4. l \in Locs
    BY <1>3
  <2>5. ha.locs[l].plain <=> l \in Locs
    BY <2>1, <2>3, <2>4
  <2> QED
    BY <2>1, <2>2, <2>3, <2>5 DEF IsLocation
<1>11. Shaped(ha, levelGuard)
  <2>1. file \in Files /\ ha.vars = file.signature
    BY DEF Init
  <2>2. IsSequence(ha.vars)
    BY <2>1, ListsAssumption
  <2> QED
    BY <1>2, <1>3, <1>4, <1>5, <1>6, <1>7, <1>8, <1>9, <1>10, <2>2 DEF Shaped
<1>12. \A n \in 1 .. N : ha.trans[n].when = n /\ ha.trans[n].goto = <<es[n].to>>
  BY <1>9
<1>13. Parted(ha, levelGuard)
  BY <1>7, <1>8, <1>12 DEF Parted
<1>14. \A n \in 1 .. N : es[n] \in edges
  BY <1>2
<1>15. Untouched(ha, levelGuard)
  <2>1. \A n \in 1 .. N : \E e \in edges : ha.trans[n].goto = <<e.to>>
    BY <1>12, <1>14
  <2> QED
    BY <1>2, <1>7, <2>1 DEF Untouched
<1>16. AllLead(ha)
  BY <1>7, <1>12, <1>14 DEF AllLead, Leads
<1>17. edges \subseteq EdgePool
  BY <1>2
<1> QED
  BY <1>7, <1>9, <1>11, <1>13, <1>15, <1>16, <1>17 DEF Fine, Good, AllOriginal

\* So the construction may begin.
LEMMA ListsInitially ==
  ASSUME Init
  PROVE  ListsInv
<1>1. edges \subseteq EdgePool /\ Fine(ha, levelGuard) /\ AllOriginal(ha)
  BY ModelFine
<1>2. feature \in Features
  BY DEF Init
<1>3. PlacesInv
  BY <1>1 DEF Init, PlacesInv
<1> QED
  BY <1>1, <1>2, <1>3 DEF ListsInv

-------------------------------------------------------------------------------
\* Every step keeps it

\* A transition of the model that keeps one variable more.
LEMMA KeptSettled ==
  ASSUME NEW t, Settled(t), NEW e, t.goto = <<e>>, NEW x, NEW p, p = <<x, Of(x)>>, NEW u,
         u.goto = t.goto, u.reset = Append(t.reset, p)
  PROVE  Settled(u)
<1>1. IsSequence(t.reset)
  BY DEF Settled
<1>2. /\ IsSequence(u.reset) /\ LastReset(u.reset, x) = Of(x)
      /\ x # "level" => LastReset(u.reset, "level") = LastReset(t.reset, "level")
  <2>1. PICK s, v, y : s = t.reset /\ v = Of(x) /\ y = "level"
    OBVIOUS
  <2>2. IsSequence(s) /\ p = <<x, v>>
    BY <1>1, <2>1
  <2>3. /\ IsSequence(Append(s, p)) /\ LastReset(Append(s, p), x) = v
        /\ AgreeElsewhere(Append(s, p), s, x)
    BY <2>2, LastResetAppended
  <2>4. y # x => LastReset(Append(s, p), y) = LastReset(s, y)
    BY <2>3 DEF AgreeElsewhere
  <2> QED
    BY <2>1, <2>3, <2>4
<1>3. t.goto # Final
  BY DEF Final
<1>4. Of(x) # Number(0)
  <2>1. Of(x)[1] = "var" /\ Number(0)[1] = "num"
    BY DEF Of, Number
  <2> QED
    BY <2>1
<1> QED
  BY <1>2, <1>3, <1>4 DEF Settled

\* addLocalVariable: every transition keeps the variable, unless its own resets do more.
LEMMA VariableKeeps ==
  ASSUME ListsInv, AddVariable
  PROVE  ListsInv'
<1>1. /\ Fine(ha, levelGuard) /\ pc = "vars" /\ AllOriginal(ha)
      /\ UNCHANGED <<edges, feature, levelGuard, id, here, pc>>
  BY DEF ListsInv, AddVariable, PlacesInv
<1> DEFINE vs == Append(ha.vars, Head(added))
           is == [n \in DOMAIN ha.inits |-> Zeroed(ha.inits[n], Head(added))]
           ts == [n \in DOMAIN ha.trans |-> Kept(ha.trans[n], Head(added))]
<1>2. PICK kept : kept = <<Head(added), Of(Head(added))>>
  OBVIOUS
<1>3. \A n \in DOMAIN ha.trans : ts[n] = Kept(ha.trans[n], Head(added))
  OBVIOUS
<1>4. ha' = [ha EXCEPT !.vars = vs, !.inits = is, !.trans = ts]
  BY DEF AddVariable
<1> HIDE DEF vs, is, ts
<1>5. ha = [locs |-> ha.locs, inits |-> ha.inits, vars |-> ha.vars, heap |-> ha.heap, trans |-> ha.trans]
  BY <1>1 DEF Fine, Good, Shaped
<1>6. ha' = [locs |-> ha.locs, inits |-> is, vars |-> vs, heap |-> ha.heap, trans |-> ts]
  BY <1>4, <1>5
<1>7. /\ ha'.locs = ha.locs /\ ha'.heap = ha.heap /\ ha'.trans = ts /\ ha'.vars = vs /\ ha'.inits = is
      /\ ha' = [locs |-> ha'.locs, inits |-> ha'.inits, vars |-> ha'.vars, heap |-> ha'.heap,
                trans |-> ha'.trans]
  BY <1>6
<1>8. /\ Len(ha.trans) \in Nat /\ DOMAIN ha.trans = 1 .. Len(ha.trans)
      /\ IsSequence(ha.locs) /\ \A l \in 1 .. Len(ha.locs) : IsLocation(ha, l)
      /\ \A n \in 1 .. Len(ha.trans) : IsTransition(ha, ha.trans[n])
  BY <1>1, Sizes DEF Fine, Good, Shaped
<1>9. IsSequence(ha'.trans) /\ Len(ha'.trans) = Len(ha.trans) /\ IsSequence(ha'.vars)
  <2>1. ts = [n \in 1 .. Len(ha.trans) |-> ts[n]]
    BY <1>8 DEF ts
  <2>2. IsSequence(ts) /\ Len(ts) = Len(ha.trans)
    BY <1>8, <2>1, SequenceMade
  <2>3. IsSequence(vs)
    BY <1>1, Appended DEF vs, Fine, Good, Shaped
  <2> QED
    BY <1>7, <2>2, <2>3
<1>10. ASSUME NEW n \in 1 .. Len(ha.trans)
       PROVE  /\ ha'.trans[n] = [from |-> ha.trans[n].from, goto |-> ha.trans[n].goto,
                                 original |-> ha.trans[n].original, when |-> ha.trans[n].when,
                                 reset |-> ha'.trans[n].reset]
              /\ Settled(ha'.trans[n])
  <2>1. PICK t, reset : t = ha.trans[n] /\ reset = Append(t.reset, kept)
    OBVIOUS
  <2>2. t = [from |-> t.from, goto |-> t.goto, original |-> t.original, when |-> t.when,
             reset |-> t.reset]
    BY <1>8, <2>1 DEF IsTransition
  <2>3. ha'.trans[n] = [t EXCEPT !.reset = reset]
    BY <1>2, <1>3, <1>7, <1>8, <2>1 DEF Kept
  <2>4. ha'.trans[n] = [from |-> t.from, goto |-> t.goto, original |-> t.original, when |-> t.when,
                        reset |-> reset]
    BY <2>2, <2>3
  <2>5. ha'.trans[n].reset = reset /\ ha'.trans[n].goto = t.goto
    BY <2>4
  <2>6. PICK e \in edges : t.goto = <<e.to>>
    BY <1>1, <2>1 DEF AllOriginal, Fine, Good, Untouched
  <2>7. Settled(t)
    BY <1>8, <2>1 DEF IsTransition
  <2>8. Settled(ha'.trans[n])
    BY <1>2, <2>1, <2>5, <2>6, <2>7, KeptSettled
  <2> QED
    BY <2>1, <2>4, <2>5, <2>8
<1>11. \A l \in 1 .. Len(ha.locs) :
         ha'.locs[l] = [name |-> ha.locs[l].name, plain |-> ha.locs[l].plain, inv |-> ha'.locs[l].inv]
  BY <1>7, <1>8 DEF IsLocation
<1>12. PICK c : c = ha'
  OBVIOUS
<1>13. Fine(c, levelGuard)
  <2>1. /\ c = [locs |-> c.locs, inits |-> c.inits, vars |-> c.vars, heap |-> c.heap, trans |-> c.trans]
        /\ c.heap = ha.heap /\ IsSequence(c.locs) /\ Len(c.locs) = Len(ha.locs)
        /\ IsSequence(c.trans) /\ Len(c.trans) = Len(ha.trans) /\ IsSequence(c.vars)
        /\ \A n \in 1 .. Len(ha.trans) : Settled(c.trans[n])
    BY <1>7, <1>8, <1>9, <1>10, <1>12
  <2>2. \A l \in 1 .. Len(ha.locs) :
          c.locs[l] = [name |-> ha.locs[l].name, plain |-> ha.locs[l].plain, inv |-> c.locs[l].inv]
    BY <1>11, <1>12
  <2>3. \A n \in 1 .. Len(ha.trans) :
          c.trans[n] = [from |-> ha.trans[n].from, goto |-> ha.trans[n].goto,
                        original |-> ha.trans[n].original, when |-> ha.trans[n].when,
                        reset |-> c.trans[n].reset]
    BY <1>10, <1>12
  <2> QED
    BY <1>1, <2>1, <2>2, <2>3, Redecorated
<1>14. Fine(ha', levelGuard')
  BY <1>1, <1>12, <1>13
<1>15. Fine(ha, levelGuard)'
  BY <1>1, <1>14, FineNext
<1>16. \A n \in 1 .. Len(ha.trans) : ha'.trans[n].original
  <2> SUFFICES ASSUME NEW n \in 1 .. Len(ha.trans) PROVE ha'.trans[n].original
    OBVIOUS
  <2>1. ha'.trans[n] = [from |-> ha.trans[n].from, goto |-> ha.trans[n].goto,
                        original |-> ha.trans[n].original, when |-> ha.trans[n].when,
                        reset |-> ha'.trans[n].reset]
    BY <1>10
  <2>2. ha'.trans[n].original = ha.trans[n].original
    BY <2>1
  <2> QED
    BY <1>1, <2>2 DEF AllOriginal
<1>17. AllOriginal(ha)'
  BY <1>9, <1>16 DEF AllOriginal
<1>18. PlacesInv'
  BY <1>1, <1>17 DEF PlacesInv, ListsInv
<1> QED
  BY <1>1, <1>15, <1>18 DEF ListsInv

\* FINAL has been added, and nothing else that is a location or a transition.
HasFinal(b, c) ==
  /\ c.inits = b.inits /\ c.vars = b.vars /\ c.trans = b.trans /\ c.heap = b.heap
  /\ Len(c.locs) = Len(b.locs) + 1 /\ \A l \in 1 .. Len(b.locs) : c.locs[l] = b.locs[l]
  /\ IsMade(c.locs[Len(b.locs) + 1], Final, <<True>>)

\* The first sweep begins once FINAL is there.
LEMMA BeginKeeps ==
  ASSUME ListsInv, Begin
  PROVE  ListsInv' /\ \E c : Fine(c, levelGuard) /\ HasFinal(ha, c) /\ Continues(c, ha')
<1>1. /\ Fine(ha, levelGuard) /\ DOMAIN levelGuard = {} /\ id = 0 /\ here = 1
      /\ UNCHANGED <<edges, feature, id, here>> /\ pc' = "sweep"
      /\ feature \in Features
  BY DEF ListsInv, Begin, PlacesInv
<1> DEFINE c == AddLocation(ha, Final, <<True>>)
<1>2. Good(c, levelGuard) /\ HasFinal(ha, c) /\ c.locs[Len(ha.locs) + 1].name = Final
  <2>1. PICK b, inv, name : b = ha /\ inv = <<True>> /\ name = Final
    OBVIOUS
  <2>2. Good(b, levelGuard)
    BY <1>1, <2>1 DEF Fine
  <2>3. /\ Good(AddLocation(b, name, inv), levelGuard)
        /\ AddLocation(b, name, inv).heap = b.heap /\ AddLocation(b, name, inv).trans = b.trans
        /\ AddLocation(b, name, inv).inits = b.inits /\ AddLocation(b, name, inv).vars = b.vars
        /\ Len(AddLocation(b, name, inv).locs) = Len(b.locs) + 1
        /\ \A l \in 1 .. Len(b.locs) : AddLocation(b, name, inv).locs[l] = b.locs[l]
        /\ AddLocation(b, name, inv).locs[Len(b.locs) + 1].name = name
        /\ IsMade(AddLocation(b, name, inv).locs[Len(b.locs) + 1], name, inv)
    BY <2>2, LocationAdded
  <2> QED
    BY <2>1, <2>3 DEF HasFinal
<1>4. ha' = LevelGuardMade(c, 0) /\ levelGuard' = [i \in {0} |-> Fresh(ha.heap, <<Level(0)>>)]
  BY DEF Begin
<1>5. Len(ha.locs) \in Nat
  BY <1>1, Sizes DEF Fine
<1> HIDE DEF c
<1>6. Fine(c, levelGuard)
  <2>1. \A l \in 1 .. Len(ha.locs) : l \in 1 .. Len(c.locs) /\ c.locs[l] = ha.locs[l]
    BY <1>2, <1>5 DEF HasFinal
  <2>2. \A goto : Leads(ha, goto) => Leads(c, goto)
    BY <2>1 DEF Leads
  <2>3. c.trans = ha.trans
    BY <1>2 DEF HasFinal
  <2>4. AllLead(c)
    BY <1>1, <2>2, <2>3 DEF AllLead, Fine
  <2> QED
    BY <1>2, <2>4 DEF Fine
<1>7. Leads(c, Final)
  <2>1. Len(ha.locs) + 1 \in 1 .. Len(c.locs)
    BY <1>2, <1>5 DEF HasFinal
  <2> QED
    BY <1>2, <2>1 DEF Leads
<1>8. PICK more : more = levelGuard'
  OBVIOUS
<1>9. /\ 0 \notin DOMAIN levelGuard /\ DOMAIN more = DOMAIN levelGuard \union {0}
      /\ \A i \in DOMAIN levelGuard : more[i] = levelGuard[i]
      /\ more[0] = Fresh(c.heap, <<Level(0)>>)
  BY <1>1, <1>2, <1>4, <1>8 DEF HasFinal
<1>10. /\ Fine(LevelGuardMade(c, 0), more) /\ Leads(LevelGuardMade(c, 0), Final)
       /\ Continues(c, LevelGuardMade(c, 0))
  BY <1>6, <1>7, <1>9, LevelGuardAdded
<1>11. Fine(ha', levelGuard') /\ Leads(ha', Final) /\ Continues(c, ha')
  BY <1>4, <1>8, <1>10
<1>12. IsSub(id') /\ DOMAIN levelGuard' = 0 .. id' /\ here' \in Locs
  <2>1. Len(feature) \in Nat \ {0}
    <3>1. IsSequence(feature) /\ feature # << >>
      BY <1>1, ListsAssumption
    <3>2. PICK S : feature \in Seq(S)
      BY <3>1 DEF IsSequence
    <3> QED
      BY <3>1, <3>2
  <2>2. LastLoc \in Nat \ {0}
    BY ListsAssumption
  <2> QED
    BY <1>1, <1>4, <2>1, <2>2 DEF IsSub, Locs
<1>13. ListsInv'
  BY <1>1, <1>11, <1>12, SweepNext
<1> QED
  BY <1>2, <1>6, <1>11, <1>13

\* The sweep of a location ends with what is retained there, d.
LEMMA LocationKeeps ==
  ASSUME ListsInv, NEW d, Fine(d, levelGuard), Leads(d, Final), Continues(ha, d), NextLocation(d)
  PROVE  ListsInv' /\ Continues(ha, ha')
<1>1. /\ Fine(ha, levelGuard) /\ pc = "sweep" /\ DOMAIN levelGuard = 0 .. id /\ IsSub(id)
      /\ here \in Locs /\ feature \in Features
      /\ UNCHANGED <<edges, feature>>
  BY DEF ListsInv, PlacesInv, NextLocation
<1>2. /\ Len(feature) \in Nat /\ id \in Nat /\ id < Len(feature)
      /\ LastLoc \in Nat \ {0} /\ here \in 1 .. LastLoc
  BY <1>1, SubsTyped, ListsAssumption DEF IsSub, Locs
<1>3. CASE LastHere /\ IsLast(id)
  <2>1. pc' = "gate" /\ ha' = d /\ levelGuard' = levelGuard
    BY <1>3 DEF NextLocation
  <2> QED
    BY <1>1, <2>1, StepNext
<1>4. CASE LastHere /\ ~IsLast(id)
  <2>1. /\ pc' = "sweep" /\ here' = 1 /\ id' = id + 1
        /\ ha' = LevelGuardMade(d, id + 1)
        /\ levelGuard' = [i \in DOMAIN levelGuard \union {id + 1} |->
                            IF i = id + 1 THEN Fresh(d.heap, <<Level(i)>>) ELSE levelGuard[i]]
    BY <1>4 DEF NextLocation
  <2>2. PICK more, j : more = levelGuard' /\ j = id + 1
    OBVIOUS
  <2>3. /\ j \notin DOMAIN levelGuard /\ DOMAIN more = DOMAIN levelGuard \union {j}
        /\ more[j] = Fresh(d.heap, <<Level(j)>>)
    BY <1>1, <1>2, <2>1, <2>2
  <2>4. \A i \in DOMAIN levelGuard : more[i] = levelGuard[i]
    BY <2>1, <2>2, <2>3
  <2>5. /\ Fine(LevelGuardMade(d, j), more) /\ Leads(LevelGuardMade(d, j), Final)
        /\ Fine(LevelGuardMade(d, j), levelGuard) /\ Continues(d, LevelGuardMade(d, j))
    BY <2>3, <2>4, LevelGuardAdded
  <2>6. Fine(ha', levelGuard') /\ Leads(ha', Final)
    BY <2>1, <2>2, <2>5
  <2>10. Continues(ha, ha')
    <3>1. PICK e : e = ha'
      OBVIOUS
    <3>2. Fine(e, levelGuard) /\ Continues(d, e)
      BY <2>1, <2>2, <2>5, <3>1
    <3>3. Continues(ha, e)
      BY <1>1, <3>2, ContinuesFine
    <3> QED
      BY <3>1, <3>3
  <2>7. IsSub(id')
    BY <1>2, <1>4, <2>1 DEF IsSub, IsLast
  <2>8. DOMAIN levelGuard' = 0 .. id'
    BY <1>1, <1>2, <2>1, <2>2, <2>3
  <2>9. here' \in Locs
    BY <1>2, <2>1 DEF Locs
  <2> QED
    BY <1>1, <2>1, <2>6, <2>7, <2>8, <2>9, <2>10, SweepNext
<1>5. CASE ~LastHere
  <2>1. pc' = "sweep" /\ here' = here + 1 /\ id' = id /\ ha' = d /\ levelGuard' = levelGuard
    BY <1>5 DEF NextLocation
  <2>2. PICK l \in DOMAIN ha.locs : l > here /\ ha.locs[l].plain
    BY <1>5 DEF LastHere
  <2>3. l \in 1 .. Len(ha.locs)
    BY <1>1, <2>2, Sizes DEF Fine
  <2>4. l \in Locs
    BY <1>1, <2>2, <2>3 DEF Fine, Good, Shaped, IsLocation
  <2>5. here' \in Locs
    BY <1>2, <2>1, <2>2, <2>4 DEF Locs
  <2> QED
    BY <1>1, <2>1, <2>5, SweepNext
<1> QED
  BY <1>3, <1>4, <1>5

\* Whatever is retained at the end of a location, the sweep goes on or a new level with
\* a guard of its own begins.
LEMMA RetainingKeeps ==
  ASSUME ListsInv, RetainAll \/ RetainOpen \/ RetainNone
  PROVE  ListsInv' /\ Continues(ha, ha')
<1>1. pc = "sweep"
  BY DEF RetainAll, RetainOpen, RetainNone, NextLocation
<1>2. /\ Fine(ha, levelGuard) /\ Leads(ha, Final) /\ DOMAIN levelGuard = 0 .. id /\ IsSub(id)
      /\ feature \in Features
  BY <1>1 DEF ListsInv, PlacesInv
<1>3. id \in DOMAIN levelGuard
  BY <1>2, SubsTyped DEF IsSub
<1>4. ASSUME NEW guards, IsSequence(guards), \A m \in DOMAIN guards : guards[m][1] # "edge",
             NextLocation(WaitAll(guards))
      PROVE  ListsInv' /\ Continues(ha, ha')
  <2>1. PICK d : d = WaitAll(guards)
    OBVIOUS
  <2>2. Fine(d, levelGuard) /\ Continues(ha, d) /\ Leads(d, Final)
    BY <1>2, <1>3, <1>4, <2>1, WaitAllFine
  <2> QED
    BY <1>4, <2>1, <2>2, LocationKeeps
<1>5. CASE RetainAll
  <2>1. IsSequence(<< >>) /\ DOMAIN << >> = {}
    BY ShortSequences
  <2> QED
    BY <1>4, <1>5, <2>1 DEF RetainAll
<1>6. CASE RetainOpen
  <2>1. PICK first \in OpenTerms(id) : \A m \in OpenTerms(id) : first <= m
    <3>1. OpenTerms(id) \in SUBSET Nat
      BY <1>2, SubsTyped, SequenceFacts DEF OpenTerms
    <3> QED
      BY <1>6, <3>1, LeastOfNats DEF RetainOpen
  <2>2. (CHOOSE m \in OpenTerms(id) : \A n \in OpenTerms(id) : m <= n) \in OpenTerms(id)
    BY <2>1
  <2>3. IsFiniteSet(FirstOpen(id).preds)
    BY <1>2, <2>2, SubsTyped DEF FirstOpen, OpenTerms
  <2>4. /\ IsSequence(ConjunctGuards(FirstOpen(id)))
        /\ \A k \in DOMAIN ConjunctGuards(FirstOpen(id)) : ConjunctGuards(FirstOpen(id))[k][1] # "edge"
    BY <2>3, GuardsListed
  <2> QED
    BY <1>4, <1>6, <2>4 DEF RetainOpen
<1>7. CASE RetainNone
  <2>1. NextLocation(ha) /\ Continues(ha, ha)
    BY <1>2, <1>7, ContinuesItself DEF RetainNone, Fine
  <2> QED
    BY <1>2, <2>1, LocationKeeps
<1> QED
  BY <1>5, <1>6, <1>7

\* A conjunct is matched, or it is skipped: the sweep stays where it is.
LEMMA TermKeeps ==
  ASSUME ListsInv, SkipTerm \/ MatchByLoop \/ MatchOnEdges
  PROVE  ListsInv' /\ Continues(ha, ha')
<1>1. /\ pc = "sweep" /\ dnfID \in DOMAIN Terms(id)
      /\ UNCHANGED <<edges, feature, levelGuard, id, here, pc>>
  BY DEF SkipTerm, MatchByLoop, MatchOnEdges, InTerm, NextTerm
<1>2. /\ Fine(ha, levelGuard) /\ Leads(ha, Final) /\ DOMAIN levelGuard = 0 .. id /\ IsSub(id)
      /\ here \in Locs /\ feature \in Features
  BY <1>1 DEF ListsInv, PlacesInv
<1>3. id \in DOMAIN levelGuard
  BY <1>2, SubsTyped DEF IsSub
<1>4. IsFiniteSet(Term.preds)
  BY <1>1, <1>2, SubsTyped DEF Term
<1>5. Fine(ha', levelGuard) /\ Continues(ha, ha') /\ Leads(ha', Final)
  <2>1. CASE SkipTerm
    BY <1>2, <2>1, ContinuesItself DEF SkipTerm, Fine
  <2>2. CASE MatchByLoop
    <3>1. PICK d : d = SelfLoop(ha, id, here, Term)
      OBVIOUS
    <3>2. Fine(d, levelGuard) /\ Continues(ha, d)
      BY <1>2, <1>3, <1>4, <3>1, SelfLoopFine
    <3>3. Leads(d, Final)
      BY <1>2, <3>2, StillFinal
    <3> QED
      BY <2>2, <3>1, <3>2, <3>3 DEF MatchByLoop
  <2>3. CASE MatchOnEdges
    <3>1. /\ Entering(id, here) \in SUBSET Originals(here)
          /\ Exiting(id, here) \in SUBSET Originals(here)
      BY DEF Entering, Exiting
    <3>2. PICK c : c = OnEdges(ha, id, Entering(id, here), Term)
      OBVIOUS
    <3>3. Continues(ha, ha)
      BY <1>2, ContinuesItself DEF Fine
    <3>4. Fine(c, levelGuard) /\ Continues(ha, c) /\ Leads(c, Final)
      BY <1>2, <1>3, <1>4, <3>1, <3>2, <3>3, OnEdgesFine
    <3>5. PICK d : d = OnEdges(c, id, Exiting(id, here), Term)
      OBVIOUS
    <3>6. Fine(d, levelGuard) /\ Continues(ha, d) /\ Leads(d, Final)
      BY <1>2, <1>3, <1>4, <3>1, <3>4, <3>5, OnEdgesFine
    <3> QED
      BY <2>3, <3>2, <3>5, <3>6 DEF MatchOnEdges
  <2> QED
    BY <2>1, <2>2, <2>3
<1>6. pc' = "sweep" /\ DOMAIN levelGuard' = 0 .. id' /\ IsSub(id') /\ here' \in Locs
  BY <1>1, <1>2
<1> QED
  BY <1>1, <1>5, <1>6, SweepNext

\* The gate.
LEMMA GateKeeps ==
  ASSUME ListsInv, Gate
  PROVE  ListsInv'
<1>1. PICK d : d = Gated(ha)
  OBVIOUS
<1>2. Fine(d, levelGuard)
  BY <1>1, GatedFine DEF ListsInv
<1>3. Fine(ha', levelGuard') /\ pc' = "built" /\ UNCHANGED <<edges, feature>>
  BY <1>1, <1>2 DEF Gate
<1> QED
  BY <1>3, StepNext

\* addTimeBound touches invariants only.
LEMMA BoundKeeps ==
  ASSUME ListsInv, Bound
  PROVE  ListsInv'
<1>1. /\ Fine(ha, levelGuard) /\ UNCHANGED <<edges, feature, levelGuard>> /\ pc' = "bound"
  BY DEF ListsInv, Bound
<1> DEFINE ls == [l \in DOMAIN ha.locs |-> Bounded(ha.locs[l])]
<1>2. CASE ~IsTemporal(feature)
  <2>1. ha' = ha
    BY <1>2 DEF Bound
  <2> QED
    BY <1>1, <2>1, StepNext
<1>3. CASE IsTemporal(feature)
  <2>1. ha' = [ha EXCEPT !.locs = ls]
    BY <1>3 DEF Bound
  <2>2. \A l \in DOMAIN ha.locs : ls[l] = Bounded(ha.locs[l])
    OBVIOUS
  <2>3. /\ Len(ha.locs) \in Nat /\ DOMAIN ha.locs = 1 .. Len(ha.locs)
        /\ \A l \in 1 .. Len(ha.locs) : IsLocation(ha, l)
        /\ IsSequence(ha.trans) /\ \A n \in 1 .. Len(ha.trans) : IsTransition(ha, ha.trans[n])
        /\ IsSequence(ha.vars)
    BY <1>1, Sizes DEF Fine, Good, Shaped
  <2>4. IsSequence(ls) /\ Len(ls) = Len(ha.locs)
    <3>1. ls = [l \in 1 .. Len(ha.locs) |-> ls[l]]
      BY <2>3
    <3> HIDE DEF ls
    <3> QED
      BY <2>3, <3>1, SequenceMade
  <2>5. ha = [locs |-> ha.locs, inits |-> ha.inits, vars |-> ha.vars, heap |-> ha.heap,
              trans |-> ha.trans]
    BY <1>1 DEF Fine, Good, Shaped
  <2> HIDE DEF ls
  <2>6. PICK c : c = ha'
    OBVIOUS
  <2>7. /\ c.locs = ls /\ c.heap = ha.heap /\ c.trans = ha.trans /\ c.vars = ha.vars
        /\ c = [locs |-> c.locs, inits |-> c.inits, vars |-> c.vars, heap |-> c.heap, trans |-> c.trans]
    BY <2>1, <2>5, <2>6
  <2>8. ASSUME NEW l \in 1 .. Len(ha.locs)
        PROVE  c.locs[l] = [name |-> ha.locs[l].name, plain |-> ha.locs[l].plain, inv |-> c.locs[l].inv]
    <3>1. PICK loc, inv : loc = ha.locs[l] /\ inv = Append(loc.inv, BoundOf(loc.name))
      OBVIOUS
    <3>2. loc = [name |-> loc.name, plain |-> loc.plain, inv |-> loc.inv]
      BY <2>3, <3>1 DEF IsLocation
    <3>3. c.locs[l] = [loc EXCEPT !.inv = inv]
      BY <2>2, <2>3, <2>7, <3>1 DEF Bounded
    <3>4. c.locs[l] = [name |-> loc.name, plain |-> loc.plain, inv |-> inv]
      BY <3>2, <3>3
    <3> QED
      BY <3>1, <3>4
  <2>9. \A n \in 1 .. Len(ha.trans) :
          c.trans[n] = [from |-> ha.trans[n].from, goto |-> ha.trans[n].goto,
                        original |-> ha.trans[n].original, when |-> ha.trans[n].when,
                        reset |-> c.trans[n].reset]
    BY <2>3, <2>7 DEF IsTransition
  <2>10. \A n \in 1 .. Len(ha.trans) : Settled(c.trans[n])
    BY <2>3, <2>7 DEF IsTransition
  <2>12. Fine(c, levelGuard)
    BY <1>1, <2>3, <2>4, <2>7, <2>8, <2>9, <2>10, Redecorated
  <2>11. Fine(ha', levelGuard')
    BY <1>1, <2>6, <2>12
  <2> QED
    BY <1>1, <2>11, StepNext
<1> QED
  BY <1>2, <1>3

\* Writing, and a step that does nothing.
LEMMA StillKeeps ==
  ASSUME ListsInv, UNCHANGED vars
  PROVE  ListsInv'
<1>1. UNCHANGED <<edges, feature, ha, levelGuard, id, here, pc>>
  BY DEF vars
<1>2. Fine(ha', levelGuard')
  BY <1>1 DEF ListsInv
<1>3. Fine(ha, levelGuard)'
  BY <1>1, <1>2, FineNext
<1>4. (pc = "sweep" => Leads(ha, Final))'
  <2>1. pc = "sweep" => Leads(ha', Final)
    BY <1>1 DEF ListsInv, PlacesInv
  <2> QED
    BY <1>1, <2>1, LeadsNext
<1>5. PlacesInv'
  BY <1>1, <1>4 DEF PlacesInv, ListsInv, IsSub, Locs, AllOriginal
<1> QED
  BY <1>1, <1>3, <1>5 DEF ListsInv

\* The invariant is inductive.
LEMMA ListsKept ==
  ASSUME ListsInv, [FileNext]_xmlVars
  PROVE  ListsInv'
<1>1. CASE Build
  <2>1. CASE AddVariable
    BY <2>1, VariableKeeps
  <2>2. CASE Begin
    BY <2>2, BeginKeeps
  <2>3. CASE SkipTerm \/ MatchByLoop \/ MatchOnEdges
    BY <2>3, TermKeeps
  <2>4. CASE RetainAll \/ RetainOpen \/ RetainNone
    BY <2>4, RetainingKeeps
  <2>5. CASE Gate
    BY <2>5, GateKeeps
  <2> QED
    BY <1>1, <2>1, <2>2, <2>3, <2>4, <2>5 DEF Build
<1>2. CASE Bound
  BY <1>2, BoundKeeps
<1>3. CASE Write
  <2>1. /\ UNCHANGED <<edges, feature, ha, levelGuard>> /\ pc' = "written"
        /\ Fine(ha, levelGuard)
    BY <1>3 DEF Write, ListsInv
  <2>2. Fine(ha', levelGuard')
    BY <2>1
  <2> QED
    BY <2>1, <2>2, StepNext
<1>4. CASE UNCHANGED xmlVars
  BY <1>4, StillKeeps DEF xmlVars
<1> QED
  BY <1>1, <1>2, <1>3, <1>4 DEF FileNext

\* And so it holds throughout.
LEMMA ListsAlways == FileSpec => []ListsInv
<1>1. FileInit => ListsInv
  BY ListsInitially DEF FileInit
<1>2. ListsInv /\ [FileNext]_xmlVars => ListsInv'
  BY ListsKept
<1> QED
  BY <1>1, <1>2, PTL DEF FileSpec

-------------------------------------------------------------------------------
\* No address leaves the heap, no transition the list of locations, and none that
\* is made leads to where there is neither a location nor a target of the model's:
\* so it is from the model's file to the written one, with as many locations,
\* transitions and sub-expressions as may be (structs.c, levelSequence).
THEOREM ListsTypeCorrect == FileSpec => []TypeOK
<1>1. ListsInv => TypeOK
  BY TypesFollow
<1> QED
  BY <1>1, ListsAlways, PTL

\* The guards of two transitions have a node in common only behind the guard of a
\* level: what is appended to one guard (addConditionToList, a window, a PORV, a
\* conjunct of its own) is never asked for by another.
THEOREM GuardsStayApart == FileSpec => []GuardsApart
<1>1. ListsInv => GuardsApart
  BY ApartFollows
<1> QED
  BY <1>1, ListsAlways, PTL

-------------------------------------------------------------------------------
\* The file that is written

\* Of the positions of a name exactly one is found.
LEMMA FoundForName ==
  ASSUME NEW f \in Finds, NEW name \in Names
  PROVE  IdOf(name, f) \in Ids /\ ha.locs[IdOf(name, f)].name = name
<1>1. Cardinality(Positions(name) \intersect f) = 1
  BY DEF Finds
<1>2. Positions(name) \intersect f # {}
  BY <1>1, FS_EmptySet
<1>3. \E l \in f : ha.locs[l].name = name
  BY <1>2 DEF Positions
<1>4. IdOf(name, f) \in f /\ ha.locs[IdOf(name, f)].name = name
  BY <1>3 DEF IdOf
<1>5. f \subseteq Ids
  BY DEF Finds, Found
<1> QED
  BY <1>4, <1>5

\* Ends of the transitions that are written.
LEMMA WrittenEnds ==
  ASSUME ListsInv, Write
  PROVE  \E f \in Finds :
           \A n \in DOMAIN ha.trans :
             /\ ha.locs[ha.trans[n].from].name \in Names
             /\ xml'.trans[n].source = IdOf(ha.locs[ha.trans[n].from].name, f)
             /\ ha.trans[n].goto \in Names => xml'.trans[n].target = IdOf(ha.trans[n].goto, f)
<1>1. PICK f \in Finds, junk \in Junk :
        xml' = [locs |-> [l \in Ids |-> WrittenLocation(l)],
                trans |-> [n \in DOMAIN ha.trans |->
                  LET t == ha.trans[n] IN
                  WrittenTransition(t, f, IF t.goto \in Names THEN IdOf(t.goto, f) ELSE junk)],
                final |-> FinalId,
                initially |-> ha.inits]
  BY DEF Write
<1> SUFFICES ASSUME NEW n \in DOMAIN ha.trans
             PROVE  /\ ha.locs[ha.trans[n].from].name \in Names
                    /\ xml'.trans[n].source = IdOf(ha.locs[ha.trans[n].from].name, f)
                    /\ ha.trans[n].goto \in Names => xml'.trans[n].target = IdOf(ha.trans[n].goto, f)
  OBVIOUS
<1>2. /\ Good(ha, levelGuard)
      /\ DOMAIN ha.locs = 1 .. Len(ha.locs) /\ DOMAIN ha.trans = 1 .. Len(ha.trans)
  BY Sizes DEF ListsInv, Fine
<1>3. IsTransition(ha, ha.trans[n])
  BY <1>2 DEF Good, Shaped
<1>4. ha.locs[ha.trans[n].from].name \in Names
  BY <1>2, <1>3 DEF IsTransition, Names, Ids
<1>5. xml'.trans[n] = WrittenTransition(ha.trans[n], f,
         IF ha.trans[n].goto \in Names THEN IdOf(ha.trans[n].goto, f) ELSE junk)
  BY <1>1
<1>6. xml'.trans[n].source = IdOf(ha.locs[ha.trans[n].from].name, f)
  BY <1>5 DEF WrittenTransition
<1>7. xml'.trans[n].target = IF ha.trans[n].goto \in Names THEN IdOf(ha.trans[n].goto, f) ELSE junk
  BY <1>5 DEF WrittenTransition
<1> QED
  BY <1>4, <1>6, <1>7

\* What is written when every transition leads somewhere.
LEMMA ChainsStayWhole ==
  ASSUME ListsInv, Write
  PROVE  ChainsWritten'
<1>1. ha' = ha
  BY DEF Write
<1>2. PICK f \in Finds :
        \A n \in DOMAIN ha.trans :
          /\ ha.locs[ha.trans[n].from].name \in Names
          /\ xml'.trans[n].source = IdOf(ha.locs[ha.trans[n].from].name, f)
          /\ ha.trans[n].goto \in Names => xml'.trans[n].target = IdOf(ha.trans[n].goto, f)
  BY WrittenEnds
<1>3. \A name \in Names : IdOf(name, f) \in DOMAIN ha.locs /\ ha.locs[IdOf(name, f)].name = name
  BY FoundForName DEF Ids
<1>4. \A l : l \in DOMAIN ha.locs => NameOf(l)' = ha.locs[l].name
  BY <1>1 DEF NameOf, Ids
<1>5. Names' = Names
  BY <1>1 DEF Names, Ids
<1> QED
  BY <1>1, <1>2, <1>3, <1>4, <1>5 DEF ChainsWritten

\* Nothing is done any more once the file is written.
FileInv == ListsInv /\ (xml # None => pc = "written") /\ ChainsWritten

\* The file as written stays.
LEMMA FileKept ==
  ASSUME FileInv, [FileNext]_xmlVars
  PROVE  FileInv'
<1>1. ListsInv'
  BY ListsKept DEF FileInv
<1>2. CASE Build /\ UNCHANGED xml
  <2>1. pc # "written"
    BY <1>2 DEF Build, AddVariable, Begin, SkipTerm, MatchByLoop, MatchOnEdges, RetainAll, RetainOpen,
                RetainNone, NextLocation, InTerm, Gate
  <2>2. xml' = None
    BY <1>2, <2>1 DEF FileInv
  <2> QED
    BY <1>1, <2>2 DEF FileInv, ChainsWritten
<1>3. CASE Bound
  <2>1. xml' = None
    BY <1>3 DEF Bound, FileInv
  <2> QED
    BY <1>1, <2>1 DEF FileInv, ChainsWritten
<1>4. CASE Write
  <2>1. ChainsWritten' /\ pc' = "written"
    BY <1>4, ChainsStayWhole DEF FileInv, Write
  <2> QED
    BY <1>1, <2>1 DEF FileInv
<1>5. CASE UNCHANGED xmlVars
  <2>1. UNCHANGED <<ha, pc, xml>>
    BY <1>5 DEF xmlVars, vars
  <2>2. Names' = Names /\ \A l : NameOf(l)' = NameOf(l)
    BY <2>1 DEF Names, Ids, NameOf
  <2>3. ChainsWritten'
    BY <2>1, <2>2 DEF FileInv, ChainsWritten
  <2> QED
    BY <1>1, <2>1, <2>3 DEF FileInv
<1> QED
  BY <1>2, <1>3, <1>4, <1>5 DEF FileNext

\* So its transitions leave and enter the locations meant.
LEMMA FileAlways == FileSpec => []FileInv
<1>1. FileInit => FileInv
  BY ListsInitially DEF FileInit, FileInv, ChainsWritten
<1>2. FileInv /\ [FileNext]_xmlVars => FileInv'
  BY FileKept
<1> QED
  BY <1>1, <1>2, PTL DEF FileSpec

-------------------------------------------------------------------------------
\* What is read from the file is still there

\* The assignments that an initial set gets for the variables xs.
Zeros(xs) == [n \in DOMAIN xs |-> <<xs[n], Number(0)>>]

\* The list at a asks for these conditions and is there at all.
Asks(h, a, conds) == a # 0 /\ {h[x].cond : x \in Reached(h, a)} = conds

\* The variables told are added to the automaton, the others not yet.
Tells(told, others, f) == IsSequence(told) /\ IsSequence(others) /\ told \o others = Added(f)

\* A set that a run may start in, own in the file.
IsStart(start, own, told) ==
  start = [mode |-> own.mode, conds |-> Conjunction(own.conds) \o Zeros(told)]

Starts(f, b, told) ==
  /\ IsSequence(b.inits) /\ Len(b.inits) = Len(f.initial)
  /\ \A n \in 1 .. Len(f.initial) : IsStart(b.inits[n], f.initial[n], told)

\* The n-th transition is e of the model, whose guard asks for more since the gate.
IsCopy(b, n, e, told, more) ==
  /\ n \in 1 .. Len(b.trans)
  /\ b.trans[n].original /\ b.trans[n].from = e.from /\ b.trans[n].goto = <<e.to>>
  /\ b.trans[n].reset = Resets[e] \o Identities(told)
  /\ Asks(b.heap, b.trans[n].when, {<<"edge", e>>} \union more)

Copies(f, b, told, more) ==
  \A n \in 1 .. Len(EdgesRead(f)) : IsCopy(b, n, EdgesRead(f)[n], told, more)

\* The locations are those of the model, FINAL, and pause locations, each under the
\* invariant of its file, or of the location where the match began.
Base(f, name) == IF name = Final THEN <<True>> ELSE InvariantRead(f, name[1])

IsPlace(f, loc, l, limited, temporal) ==
  /\ l = LastLoc + 1 => loc.name = Final
  /\ l > LastLoc + 1 =>
       temporal /\ \E m \in Locs : loc.name = PauseName(m, loc.name[2], loc.name[3], loc.name[4])
  /\ ~limited => loc.inv = Base(f, loc.name)
  /\ limited => loc.inv = Append(Base(f, loc.name), BoundOf(loc.name))

ArePlaces(f, b, limited, temporal) ==
  \A l \in 1 .. Len(b.locs) : IsPlace(f, b.locs[l], l, limited, temporal)

\* Before the gate, and after it.
Behind0 == IF pc \in {"vars", "sweep", "gate"} THEN {} ELSE {Level(0)}

Limited == pc \in {"bound", "written"} /\ IsTemporal(feature)

ReadInv ==
  /\ file \in Files /\ Accepted(file)
  /\ \E told : Tells(told, added, feature) /\ Starts(file, ha, told) /\ Copies(file, ha, told, Behind0)
  /\ pc # "vars" => added = << >> /\ LastLoc < Len(ha.locs)
  /\ pc = "vars" => Len(ha.locs) = LastLoc
  /\ ArePlaces(file, ha, Limited, IsTemporal(feature))

\* The assignments, by position.
LEMMA ZerosRead ==
  ASSUME NEW xs, IsSequence(xs)
  PROVE  /\ IsSequence(Zeros(xs)) /\ Len(Zeros(xs)) = Len(xs)
         /\ \A n \in 1 .. Len(xs) : Zeros(xs)[n] = <<xs[n], Number(0)>>
<1> DEFINE r == Zeros(xs)
<1>1. Len(xs) \in Nat /\ DOMAIN xs = 1 .. Len(xs)
  BY SequenceFacts
<1>2. DOMAIN r = DOMAIN xs /\ \A n \in DOMAIN xs : r[n] = <<xs[n], Number(0)>>
  BY DEF Zeros
<1>3. r = [n \in 1 .. Len(xs) |-> r[n]]
  BY <1>1 DEF Zeros
<1> HIDE DEF r
<1>4. IsSequence(r) /\ Len(r) = Len(xs)
  BY <1>1, <1>3, SequenceMade
<1> QED
  BY <1>1, <1>2, <1>4 DEF r

\* One variable more is one assignment more.
LEMMA ZerosAppended ==
  ASSUME NEW xs, IsSequence(xs), NEW x, NEW p, p = <<x, Number(0)>>
  PROVE  Zeros(Append(xs, x)) = Append(Zeros(xs), p)
<1>1. PICK ys, r, s, t : ys = Append(xs, x) /\ r = Zeros(xs) /\ s = Zeros(ys) /\ t = Append(r, p)
  OBVIOUS
<1>2. /\ IsSequence(ys) /\ Len(ys) = Len(xs) + 1 /\ ys[Len(xs) + 1] = x
      /\ \A k \in 1 .. Len(xs) : ys[k] = xs[k]
  BY <1>1, Appended
<1>3. IsSequence(r) /\ Len(r) = Len(xs) /\ \A n \in 1 .. Len(xs) : r[n] = <<xs[n], Number(0)>>
  BY <1>1, ZerosRead
<1>4. IsSequence(s) /\ Len(s) = Len(ys) /\ \A n \in 1 .. Len(ys) : s[n] = <<ys[n], Number(0)>>
  BY <1>1, <1>2, ZerosRead
<1>5. /\ IsSequence(t) /\ Len(t) = Len(r) + 1 /\ t[Len(r) + 1] = p
      /\ \A k \in 1 .. Len(r) : t[k] = r[k]
  BY <1>1, <1>3, Appended
<1>6. Len(xs) \in Nat
  BY SequenceFacts
<1>7. ASSUME NEW k \in 1 .. Len(s) PROVE s[k] = t[k]
  <2>1. s[k] = <<ys[k], Number(0)>>
    BY <1>4
  <2>2. CASE k \in 1 .. Len(xs)
    <3>1. t[k] = <<xs[k], Number(0)>> /\ ys[k] = xs[k]
      BY <1>2, <1>3, <1>5, <2>2
    <3> QED
      BY <2>1, <3>1
  <2>3. CASE k = Len(xs) + 1
    BY <1>2, <1>3, <1>5, <2>1, <2>3
  <2> QED
    BY <1>2, <1>4, <1>6, <2>2, <2>3
<1>8. s = t
  BY <1>2, <1>3, <1>4, <1>5, <1>7, SameSequence
<1> QED
  BY <1>1, <1>8

\* The variables that a feature adds are a list.
LEMMA AddedListed ==
  ASSUME NEW f \in Features
  PROVE  IsSequence(Added(f))
<1>1. PICK a, b, c, d, e :
        /\ a = <<"level">> /\ b = Declared[f] /\ d = <<Value>>
        /\ c = IF IsTemporal(f) THEN <<"time", "localTime">> ELSE << >>
        /\ e = IF IsTemporal(f) THEN << >> ELSE <<"time">>
  OBVIOUS
<1>2. Added(f) = a \o b \o c \o d \o e
  BY <1>1 DEF Added
<1>3. IsSequence(a) /\ IsSequence(d)
  BY <1>1, ShortSequences
<1>4. IsSequence(b)
  BY <1>1, ListsAssumption
<1>5. IsSequence(e)
  BY <1>1, ShortSequences
<1>6. IsSequence(c)
  <2>1. IsSequence(<<"time", "localTime">>)
    <3>1. PICK s : s = <<"time", "localTime">>
      OBVIOUS
    <3>2. s = [k \in 1 .. 2 |-> s[k]]
      BY <3>1
    <3> QED
      BY <3>1, <3>2, SequenceMade
  <2> QED
    BY <1>1, <2>1, ShortSequences
<1>7. IsSequence(a \o b)
  BY <1>3, <1>4, Concatenated
<1>8. IsSequence((a \o b) \o c)
  BY <1>6, <1>7, Concatenated
<1>9. IsSequence(((a \o b) \o c) \o d)
  BY <1>3, <1>8, Concatenated
<1>10. IsSequence((((a \o b) \o c) \o d) \o e)
  BY <1>5, <1>9, Concatenated
<1> QED
  BY <1>2, <1>10

\* A guard that reaches what it did asks for what it did.
LEMMA AsksKept ==
  ASSUME NEW h, Lists(h), NEW g, SameConds(h, g), NEW a \in 0 .. Len(h), NEW conds, Asks(h, a, conds),
         Reached(g, a) = Reached(h, a)
  PROVE  Asks(g, a, conds)
<1>1. Reached(h, a) \subseteq 1 .. Len(h)
  BY ReachedUnfold
<1>2. \A x \in Reached(h, a) : g[x].cond = h[x].cond
  BY <1>1 DEF SameConds
<1> QED
  BY <1>2 DEF Asks

\* A guard behind which there is one node more.
LEMMA AsksMore ==
  ASSUME NEW h, Lists(h), NEW g, SameConds(h, g), NEW a \in 0 .. Len(h), NEW conds, Asks(h, a, conds),
         NEW new, Reached(g, a) = Reached(h, a) \union {new}, NEW more, more = {g[new].cond}
  PROVE  Asks(g, a, conds \union more)
<1>1. Reached(h, a) \subseteq 1 .. Len(h)
  BY ReachedUnfold
<1>2. \A x \in Reached(h, a) : g[x].cond = h[x].cond
  BY <1>1 DEF SameConds
<1> QED
  BY <1>2 DEF Asks

\* The transitions of the model survive whatever is added.
LEMMA CopiesContinue ==
  ASSUME NEW b, NEW lg, Fine(b, lg), NEW c, Continues(b, c), NEW f, NEW told, NEW more,
         Copies(f, b, told, more), Len(c.trans) \in Nat
  PROVE  Copies(f, c, told, more)
<1> SUFFICES ASSUME NEW n \in 1 .. Len(EdgesRead(f)), NEW e, e = EdgesRead(f)[n]
             PROVE  IsCopy(c, n, e, told, more)
  BY DEF Copies
<1>1. IsCopy(b, n, e, told, more)
  BY DEF Copies
<1>2. /\ Lists(b.heap) /\ Len(b.trans) \in Nat
      /\ IsTransition(b, b.trans[n])
  BY <1>1, Sizes DEF IsCopy, Fine, Good, Shaped
<1>3. n \in 1 .. Len(b.trans) /\ b.trans[n].when \in 0 .. Len(b.heap) /\ b.trans[n].original
  BY <1>1, <1>2 DEF IsCopy, IsTransition
<1>4. /\ n \in 1 .. Len(c.trans) /\ c.trans[n] = b.trans[n] /\ SameConds(b.heap, c.heap)
      /\ Reached(c.heap, b.trans[n].when) = Reached(b.heap, b.trans[n].when)
  BY <1>2, <1>3 DEF Continues
<1>5. PICK conds : conds = {<<"edge", e>>} \union more
  OBVIOUS
<1>6. Asks(b.heap, b.trans[n].when, conds)
  BY <1>1, <1>5 DEF IsCopy
<1>7. Asks(c.heap, c.trans[n].when, conds)
  BY <1>2, <1>3, <1>4, <1>6, AsksKept
<1> QED
  BY <1>1, <1>4, <1>5, <1>7 DEF IsCopy

\* So do its locations, and what is added are pause locations.
LEMMA PlacesContinue ==
  ASSUME NEW b, NEW lg, Fine(b, lg), NEW c, Continues(b, c), NEW f, LastLoc < Len(b.locs),
         NEW temporal, temporal = IsTemporal(feature), ArePlaces(f, b, FALSE, temporal),
         Len(c.locs) \in Nat
  PROVE  ArePlaces(f, c, FALSE, temporal) /\ LastLoc < Len(c.locs)
<1>1. Len(b.locs) \in Nat /\ LastLoc \in Nat
  BY Sizes, ListsAssumption DEF Fine
<1>2. Len(b.locs) <= Len(c.locs) /\ \A l \in 1 .. Len(b.locs) : c.locs[l] = b.locs[l]
  BY DEF Continues
<1>3. ASSUME NEW l \in Len(b.locs) + 1 .. Len(c.locs) PROVE IsPlace(f, c.locs[l], l, FALSE, temporal)
  <2>1. PICK loc : loc = c.locs[l]
    OBVIOUS
  <2>2. IsPause(b, loc)
    BY <2>1 DEF Continues
  <2>3. PICK m \in Locs :
          loc = [name |-> PauseName(m, loc.name[2], loc.name[3], loc.name[4]), plain |-> FALSE,
                 inv |-> b.locs[m].inv]
    BY <2>2 DEF IsPause
  <2>4. /\ temporal /\ l # LastLoc + 1 /\ m \in 1 .. Len(b.locs)
    BY <1>1, <2>2 DEF IsPause, Locs
  <2>5. loc.name = PauseName(m, loc.name[2], loc.name[3], loc.name[4]) /\ loc.inv = b.locs[m].inv
    BY <2>3
  <2>6. b.locs[m].name = <<m>> /\ IsPlace(f, b.locs[m], m, FALSE, temporal)
    BY <2>4 DEF Fine, Good, Shaped, IsLocation, ArePlaces
  <2>7. b.locs[m].inv = InvariantRead(f, m)
    <3>1. <<m>> # Final /\ <<m>>[1] = m
      BY DEF Final
    <3> QED
      BY <2>6, <3>1 DEF IsPlace, Base
  <2>8. loc.name # Final /\ loc.name[1] = m
    BY <2>5 DEF Final, PauseName
  <2>9. loc.inv = Base(f, loc.name)
    BY <2>5, <2>7, <2>8 DEF Base
  <2> QED
    BY <2>1, <2>4, <2>5, <2>9 DEF IsPlace
<1>4. \A l \in 1 .. Len(b.locs) : IsPlace(f, c.locs[l], l, FALSE, temporal)
  BY <1>2 DEF ArePlaces
<1>5. LastLoc < Len(c.locs) /\ 1 .. Len(c.locs) = (1 .. Len(b.locs)) \union (Len(b.locs) + 1 .. Len(c.locs))
  <2>1. PICK k, m, n : k = LastLoc /\ m = Len(b.locs) /\ n = Len(c.locs)
    OBVIOUS
  <2>2. k \in Nat /\ m \in Nat /\ n \in Nat /\ k < m /\ m <= n
    BY <1>1, <1>2, <2>1
  <2>3. k < n /\ 1 .. n = (1 .. m) \union (m + 1 .. n)
    BY <2>2
  <2> QED
    BY <2>1, <2>3
<1>6. \A l \in 1 .. Len(c.locs) : IsPlace(f, c.locs[l], l, FALSE, temporal)
  BY <1>3, <1>4, <1>5
<1>7. ArePlaces(f, c, FALSE, temporal)
  BY <1>6 DEF ArePlaces
<1> QED
  BY <1>5, <1>7

\* The initial sets as they are read.
LEMMA InitialsRead ==
  ASSUME NEW f \in Files
  PROVE  /\ IsSequence(InitialRead(f)) /\ Len(InitialRead(f)) = Len(f.initial)
         /\ \A n \in 1 .. Len(f.initial) : IsStart(InitialRead(f)[n], f.initial[n], << >>)
<1> DEFINE r == InitialRead(f)
<1>1. /\ IsSequence(f.initial) /\ Len(f.initial) \in Nat /\ DOMAIN f.initial = 1 .. Len(f.initial)
  BY ListsAssumption, SequenceFacts
<1>2. ASSUME NEW n \in 1 .. Len(f.initial) PROVE IsStart(r[n], f.initial[n], << >>)
  <2>1. PICK own, conds : own = f.initial[n] /\ conds = Conjunction(own.conds)
    OBVIOUS
  <2>2. own = [mode |-> own.mode, conds |-> own.conds] /\ IsSequence(own.conds)
    BY <1>1, <2>1, ListsAssumption
  <2>3. r[n] = [own EXCEPT !.conds = conds]
    BY <1>1, <2>1 DEF InitialRead
  <2>4. r[n] = [mode |-> own.mode, conds |-> conds]
    BY <2>2, <2>3
  <2>5. IsSequence(conds)
    BY <2>1, <2>2, Reversed DEF Conjunction
  <2>6. Zeros(<< >>) = << >>
    BY DEF Zeros
  <2>7. conds \o Zeros(<< >>) = conds
    BY <2>5, <2>6, EmptyJoined
  <2> QED
    BY <2>1, <2>4, <2>7 DEF IsStart
<1>3. r = [n \in 1 .. Len(f.initial) |-> r[n]]
  BY <1>1 DEF InitialRead
<1> HIDE DEF r
<1>4. IsSequence(r) /\ Len(r) = Len(f.initial)
  BY <1>1, <1>3, SequenceMade
<1> QED
  BY <1>2, <1>4 DEF r

\* What is read is there to begin with.
LEMMA ReadInitially ==
  ASSUME Init
  PROVE  ReadInv
<1>1. PICK es : es = EdgesRead(file)
  OBVIOUS
<1>2. /\ es \in Seq(EdgesFrom(file)) /\ Len(es) \in Nat
      /\ \A n \in 1 .. Len(es) : es[n] \in EdgePool
      /\ Len(ha.locs) = LastLoc /\ \A l \in 1 .. LastLoc : IsModelLocation(file, ha.locs[l], l)
      /\ Len(ha.heap) = Len(es) /\ \A a \in 1 .. Len(es) : IsModelNode(ha.heap[a], es[a])
      /\ Len(ha.trans) = Len(es) /\ \A n \in 1 .. Len(es) : IsModelTransition(ha.trans[n], es[n], n)
      /\ \A a \in 1 .. Len(es) : Reached(ha.heap, a) = {a}
  BY <1>1, ModelMade
<1>3. file \in Files /\ Accepted(file) /\ pc = "vars" /\ added = Added(feature) /\ feature \in Features
  BY DEF Init
<1>4. Tells(<< >>, added, feature)
  <2>1. IsSequence(Added(feature)) /\ IsSequence(<< >>)
    BY <1>3, AddedListed, ShortSequences
  <2> QED
    BY <1>3, <2>1, EmptyJoined DEF Tells
<1>5. Starts(file, ha, << >>)
  <2>1. ha.inits = InitialRead(file)
    BY DEF Init
  <2> QED
    BY <1>3, <2>1, InitialsRead DEF Starts
<1>6. Copies(file, ha, << >>, {})
  <2> SUFFICES ASSUME NEW n \in 1 .. Len(es), NEW e, e = es[n]
               PROVE  IsCopy(ha, n, e, << >>, {})
    BY <1>1 DEF Copies
  <2>1. PICK goto, yes, cond : goto = <<e.to>> /\ yes = TRUE /\ cond = <<"edge", e>>
    OBVIOUS
  <2>2. ha.trans[n] = [from |-> e.from, goto |-> goto, original |-> yes, when |-> n, reset |-> Resets[e]]
    BY <1>2, <2>1 DEF IsModelTransition
  <2>3. /\ ha.trans[n].from = e.from /\ ha.trans[n].goto = goto /\ ha.trans[n].original = yes
        /\ ha.trans[n].when = n /\ ha.trans[n].reset = Resets[e]
    BY <2>2
  <2>4. Resets[e] \o Identities(<< >>) = Resets[e]
    <3>1. Identities(<< >>) = << >>
      BY DEF Identities
    <3>2. IsSequence(Resets[e])
      BY <1>2, ListsAssumption
    <3> QED
      BY <3>1, <3>2, EmptyJoined
  <2>5. ha.heap[n].cond = cond
    <3>1. IsModelNode(ha.heap[n], e)
      BY <1>2
    <3>2. ha.heap[n] = [cond |-> cond, next |-> NULL]
      BY <2>1, <3>1 DEF IsModelNode
    <3> QED
      BY <3>2
  <2>6. {ha.heap[x].cond : x \in Reached(ha.heap, n)} = {cond}
    BY <1>2, <2>5
  <2>7. Asks(ha.heap, n, {cond} \union {})
    BY <1>2, <2>6 DEF Asks
  <2> QED
    BY <1>2, <2>1, <2>3, <2>4, <2>7 DEF IsCopy
<1>7. ArePlaces(file, ha, FALSE, IsTemporal(feature))
  <2> SUFFICES ASSUME NEW l \in 1 .. LastLoc PROVE IsPlace(file, ha.locs[l], l, FALSE, IsTemporal(feature))
    BY <1>2 DEF ArePlaces
  <2>1. PICK name, yes, loc : name = <<l>> /\ yes = TRUE /\ loc = ha.locs[l]
    OBVIOUS
  <2>2. loc = [name |-> name, plain |-> yes, inv |-> InvariantRead(file, l)]
    BY <1>2, <2>1 DEF IsModelLocation
  <2>3. loc.name = name /\ loc.inv = InvariantRead(file, l)
    BY <2>2
  <2>4. name # Final /\ name[1] = l
    BY <2>1 DEF Final
  <2>5. LastLoc \in Nat
    BY ListsAssumption
  <2> QED
    BY <2>1, <2>3, <2>4, <2>5 DEF IsPlace, Base
<1>8. Behind0 = {} /\ Limited = FALSE
  BY <1>3 DEF Behind0, Limited
<1>9. Copies(file, ha, << >>, Behind0)
  BY <1>6, <1>8
<1>10. ArePlaces(file, ha, Limited, IsTemporal(feature))
  BY <1>7, <1>8
<1> QED
  BY <1>2, <1>3, <1>4, <1>5, <1>9, <1>10 DEF ReadInv

\* What is read is there in the next state.
LEMMA ReadNext ==
  ASSUME ReadInv, file' = file, feature' = feature, NEW told, Tells(told, added', feature),
         Starts(file, ha', told), NEW more, more = Behind0', Copies(file, ha', told, more),
         pc' # "vars" => added' = << >> /\ LastLoc < Len(ha'.locs),
         pc' = "vars" => Len(ha'.locs) = LastLoc,
         NEW limited, limited = Limited', ArePlaces(file, ha', limited, IsTemporal(feature))
  PROVE  ReadInv'
<1>1. file' \in Files /\ Accepted(file')
  BY DEF ReadInv
<1>2. Tells(told, added', feature') /\ Starts(file', ha', told) /\ Copies(file', ha', told, Behind0')
  OBVIOUS
<1>3. ArePlaces(file', ha', Limited', IsTemporal(feature'))
  OBVIOUS
<1> QED
  BY <1>1, <1>2, <1>3 DEF ReadInv

\* A variable more: an identity in each transition, a zero in each initial set.
LEMMA ReadVariable ==
  ASSUME ListsInv, ReadInv, AddVariable
  PROVE  ReadInv'
<1>1. /\ pc = "vars" /\ pc' = "vars" /\ UNCHANGED <<file, feature>> /\ added # << >>
      /\ added' = Tail(added) /\ Len(ha.locs) = LastLoc
      /\ Behind0 = {} /\ Behind0' = {} /\ Limited = FALSE /\ Limited' = FALSE
      /\ file \in Files /\ Accepted(file) /\ feature \in Features
  BY DEF AddVariable, ReadInv, Behind0, Limited, ListsInv
<1>2. PICK told : Tells(told, added, feature) /\ Starts(file, ha, told) /\ Copies(file, ha, told, {})
  BY <1>1 DEF ReadInv
<1>3. PICK x, zero, kept : x = Head(added) /\ zero = <<x, Number(0)>> /\ kept = <<x, Of(x)>>
  OBVIOUS
<1>4. PICK now : now = Append(told, x)
  OBVIOUS
<1>5. IsSequence(told) /\ IsSequence(added) /\ told \o added = Added(feature)
  BY <1>2 DEF Tells
<1>6. Tells(now, added', feature)
  <2>1. IsSequence(Tail(added)) /\ Append(told, Head(added)) \o Tail(added) = told \o added
    BY <1>1, <1>5, HeadMoved
  <2>2. IsSequence(now)
    BY <1>4, <1>5, Appended
  <2> QED
    BY <1>1, <1>3, <1>4, <1>5, <2>1, <2>2 DEF Tells
<1> DEFINE vs == Append(ha.vars, Head(added))
           is == [n \in DOMAIN ha.inits |-> Zeroed(ha.inits[n], Head(added))]
           ts == [n \in DOMAIN ha.trans |-> Kept(ha.trans[n], Head(added))]
<1>7. /\ \A n \in DOMAIN ha.trans : ts[n] = Kept(ha.trans[n], x)
      /\ \A n \in DOMAIN ha.inits : is[n] = Zeroed(ha.inits[n], x)
      /\ is = [n \in DOMAIN ha.inits |-> is[n]] /\ ts = [n \in DOMAIN ha.trans |-> ts[n]]
  BY <1>3
<1>8. ha' = [ha EXCEPT !.vars = vs, !.inits = is, !.trans = ts]
  BY DEF AddVariable
<1> HIDE DEF vs, is, ts
<1>9. /\ ha = [locs |-> ha.locs, inits |-> ha.inits, vars |-> ha.vars, heap |-> ha.heap, trans |-> ha.trans]
      /\ IsSequence(ha.trans) /\ \A n \in 1 .. Len(ha.trans) : IsTransition(ha, ha.trans[n])
      /\ Len(ha.trans) \in Nat /\ DOMAIN ha.trans = 1 .. Len(ha.trans)
  BY Sizes DEF ListsInv, Fine, Good, Shaped
<1>10. ha'.locs = ha.locs /\ ha'.heap = ha.heap /\ ha'.trans = ts /\ ha'.inits = is
  BY <1>8, <1>9
<1>11. Starts(file, ha', now)
  <2>1. /\ IsSequence(ha.inits) /\ Len(ha.inits) = Len(file.initial)
        /\ \A n \in 1 .. Len(file.initial) : IsStart(ha.inits[n], file.initial[n], told)
    BY <1>2 DEF Starts
  <2>2. Len(ha.inits) \in Nat /\ DOMAIN ha.inits = 1 .. Len(ha.inits)
    BY <2>1, SequenceFacts
  <2>3. IsSequence(is) /\ Len(is) = Len(ha.inits)
    BY <1>7, <2>2, SequenceMade
  <2>4. ASSUME NEW n \in 1 .. Len(file.initial) PROVE IsStart(is[n], file.initial[n], now)
    <3>1. PICK own, start, conds, zeros, asked :
            /\ own = file.initial[n] /\ start = ha.inits[n] /\ conds = Conjunction(own.conds)
            /\ zeros = Zeros(told) /\ asked = conds \o zeros
      OBVIOUS
    <3>2. IsStart(start, own, told) /\ is[n] = Zeroed(start, x)
      BY <1>7, <2>1, <2>2, <3>1
    <3>3. start = [mode |-> own.mode, conds |-> asked]
      BY <3>1, <3>2 DEF IsStart
    <3>4. is[n] = [start EXCEPT !.conds = Append(start.conds, zero)]
      BY <1>3, <3>2 DEF Zeroed
    <3>5. is[n] = [mode |-> own.mode, conds |-> Append(asked, zero)]
      BY <3>3, <3>4
    <3>6. IsSequence(conds) /\ IsSequence(zeros)
      <4>1. IsSequence(file.initial) /\ DOMAIN file.initial = 1 .. Len(file.initial)
        BY <1>1, ListsAssumption, SequenceFacts
      <4>2. IsSequence(own.conds)
        BY <1>1, <3>1, <4>1, ListsAssumption
      <4> QED
        BY <1>5, <3>1, <4>2, Reversed, ZerosRead DEF Conjunction
    <3>7. Append(asked, zero) = conds \o Append(zeros, zero)
      <4>1. conds \o Append(zeros, zero) = Append(conds \o zeros, zero)
        BY <3>6, AppendJoined
      <4> QED
        BY <3>1, <4>1
    <3>8. Append(zeros, zero) = Zeros(now)
      BY <1>3, <1>4, <1>5, <3>1, ZerosAppended
    <3> QED
      BY <3>1, <3>5, <3>7, <3>8 DEF IsStart
  <2> QED
    BY <1>10, <2>1, <2>3, <2>4 DEF Starts
<1>12. Copies(file, ha', now, {})
  <2> SUFFICES ASSUME NEW n \in 1 .. Len(EdgesRead(file)), NEW e, e = EdgesRead(file)[n]
               PROVE  IsCopy(ha', n, e, now, {})
    BY DEF Copies
  <2>1. IsCopy(ha, n, e, told, {})
    BY <1>2 DEF Copies
  <2>2. PICK t, own, ids : t = ha.trans[n] /\ own = Resets[e] /\ ids = Identities(told)
    OBVIOUS
  <2>3. n \in 1 .. Len(ha.trans) /\ t.reset = own \o ids
    BY <2>1, <2>2 DEF IsCopy
  <2>4. t = [from |-> t.from, goto |-> t.goto, original |-> t.original, when |-> t.when,
             reset |-> t.reset]
    BY <1>9, <2>2, <2>3 DEF IsTransition
  <2>5. ts[n] = [t EXCEPT !.reset = Append(t.reset, kept)]
    BY <1>3, <1>7, <1>9, <2>2, <2>3 DEF Kept
  <2>6. /\ ts[n].from = t.from /\ ts[n].goto = t.goto /\ ts[n].original = t.original
        /\ ts[n].when = t.when /\ ts[n].reset = Append(t.reset, kept)
    BY <2>4, <2>5
  <2>7. IsSequence(own) /\ IsSequence(ids)
    <3>1. EdgesRead(file) \in Seq(EdgesFrom(file))
      BY <1>1, EdgesTyped
    <3>2. e \in EdgePool
      BY <3>1 DEF EdgesFrom
    <3> QED
      BY <1>5, <2>2, <3>2, ListsAssumption, IdentitiesRead
  <2>8. Append(t.reset, kept) = own \o Append(ids, kept)
    <3>1. own \o Append(ids, kept) = Append(own \o ids, kept)
      BY <2>7, AppendJoined
    <3> QED
      BY <2>3, <3>1
  <2>9. Append(ids, kept) = Identities(now)
    BY <1>3, <1>4, <1>5, <2>2, IdentitiesAppended
  <2>10. Len(ts) = Len(ha.trans)
    BY <1>7, <1>9, SequenceMade
  <2>11. n \in 1 .. Len(ha'.trans) /\ ha'.trans[n] = ts[n]
    BY <1>10, <2>3, <2>10
  <2> QED
    BY <1>10, <2>1, <2>2, <2>6, <2>8, <2>9, <2>11 DEF IsCopy
<1>13. ArePlaces(file, ha', FALSE, IsTemporal(feature))
  <2>1. ArePlaces(file, ha, FALSE, IsTemporal(feature))
    BY <1>1 DEF ReadInv
  <2> QED
    BY <1>10, <2>1 DEF ArePlaces
<1> QED
  BY <1>1, <1>6, <1>10, <1>11, <1>12, <1>13, ReadNext

\* Initial sets are not touched.
LEMMA StartsContinue ==
  ASSUME NEW f, NEW b, NEW c, NEW told, Starts(f, b, told), c.inits = b.inits
  PROVE  Starts(f, c, told)
BY DEF Starts

\* FINAL comes right behind the locations of the model.
LEMMA ReadBegin ==
  ASSUME ListsInv, ReadInv, Begin
  PROVE  ReadInv'
<1>1. /\ pc = "vars" /\ pc' = "sweep" /\ UNCHANGED <<file, feature, added>> /\ added = << >>
      /\ Len(ha.locs) = LastLoc
      /\ Behind0 = {} /\ Behind0' = {} /\ Limited = FALSE /\ Limited' = FALSE
  BY DEF Begin, ReadInv, Behind0, Limited, ListsInv
<1>2. PICK told : Tells(told, added, feature) /\ Starts(file, ha, told) /\ Copies(file, ha, told, {})
  BY <1>1 DEF ReadInv
<1>3. PICK c : Fine(c, levelGuard) /\ HasFinal(ha, c) /\ Continues(c, ha')
  BY BeginKeeps
<1>4. IsSequence(ha'.trans) /\ IsSequence(ha'.locs)
  <2>1. ListsInv'
    BY BeginKeeps
  <2> QED
    BY <2>1 DEF ListsInv, Fine, Good, Shaped
<1>5. Len(ha'.trans) \in Nat /\ Len(ha'.locs) \in Nat
  BY <1>4, SequenceFacts
<1>6. Copies(file, c, told, {}) /\ Starts(file, c, told)
  BY <1>2, <1>3 DEF Copies, IsCopy, Starts, HasFinal
<1>7. ArePlaces(file, c, FALSE, IsTemporal(feature)) /\ LastLoc < Len(c.locs)
  <2>1. ArePlaces(file, ha, FALSE, IsTemporal(feature)) /\ LastLoc \in Nat
    BY <1>1, ListsAssumption DEF ReadInv
  <2>2. Len(c.locs) = LastLoc + 1 /\ \A l \in 1 .. LastLoc : c.locs[l] = ha.locs[l]
    BY <1>1, <1>3 DEF HasFinal
  <2>3. \A l \in 1 .. LastLoc : IsPlace(file, c.locs[l], l, FALSE, IsTemporal(feature))
    BY <1>1, <2>1, <2>2 DEF ArePlaces
  <2>4. PICK last, inv : last = LastLoc + 1 /\ inv = <<True>>
    OBVIOUS
  <2>5. IsPlace(file, c.locs[last], last, FALSE, IsTemporal(feature))
    <3>1. IsMade(c.locs[last], Final, inv)
      BY <1>1, <1>3, <2>4 DEF HasFinal
    <3>2. c.locs[last].name = Final /\ c.locs[last].inv = inv
      BY <3>1 DEF IsMade
    <3> QED
      BY <2>1, <2>4, <3>2 DEF IsPlace, Base
  <2>6. \A l \in 1 .. Len(c.locs) : l \in 1 .. LastLoc \/ l = last
    BY <2>1, <2>2, <2>4
  <2>7. \A l \in 1 .. Len(c.locs) : IsPlace(file, c.locs[l], l, FALSE, IsTemporal(feature))
    BY <2>3, <2>5, <2>6
  <2>8. LastLoc < Len(c.locs)
    BY <2>1, <2>2
  <2> QED
    BY <2>7, <2>8 DEF ArePlaces
<1>8. Copies(file, ha', told, {})
  BY <1>3, <1>5, <1>6, CopiesContinue
<1>9. Starts(file, ha', told)
  BY <1>3, <1>6, StartsContinue DEF Continues
<1>10. ArePlaces(file, ha', FALSE, IsTemporal(feature)) /\ LastLoc < Len(ha'.locs)
  BY <1>3, <1>5, <1>7, PlacesContinue
<1> QED
  BY <1>1, <1>2, <1>8, <1>9, <1>10, ReadNext

\* The sweeps.
LEMMA ReadSweep ==
  ASSUME ListsInv, ReadInv, IsSequence(ha'.trans), IsSequence(ha'.locs), Continues(ha, ha'),
         pc = "sweep", pc' \in {"sweep", "gate"}, UNCHANGED <<file, feature, added>>
  PROVE  ReadInv'
<1>1. /\ Behind0 = {} /\ Behind0' = {} /\ Limited = FALSE /\ Limited' = FALSE
      /\ added = << >> /\ LastLoc < Len(ha.locs) /\ ArePlaces(file, ha, FALSE, IsTemporal(feature))
      /\ Fine(ha, levelGuard)
  BY DEF ReadInv, Behind0, Limited, ListsInv
<1>2. PICK told : Tells(told, added, feature) /\ Starts(file, ha, told) /\ Copies(file, ha, told, {})
  BY <1>1 DEF ReadInv
<1>3. Len(ha'.trans) \in Nat /\ Len(ha'.locs) \in Nat
  BY SequenceFacts
<1>4. Copies(file, ha', told, {})
  BY <1>1, <1>2, <1>3, CopiesContinue
<1>5. Starts(file, ha', told)
  BY <1>2, StartsContinue DEF Continues
<1>6. ArePlaces(file, ha', FALSE, IsTemporal(feature)) /\ LastLoc < Len(ha'.locs)
  BY <1>1, <1>3, PlacesContinue
<1> QED
  BY <1>1, <1>2, <1>4, <1>5, <1>6, ReadNext

\* From the gate on every guard of the model's asks for level 0.
LEMMA ReadGate ==
  ASSUME ListsInv, ReadInv, Gate
  PROVE  ReadInv'
<1>1. /\ pc = "gate" /\ pc' = "built" /\ UNCHANGED <<file, feature, added>>
      /\ Behind0 = {} /\ Behind0' = {Level(0)} /\ Limited = FALSE /\ Limited' = FALSE
      /\ added = << >> /\ LastLoc < Len(ha.locs) /\ ArePlaces(file, ha, FALSE, IsTemporal(feature))
      /\ Fine(ha, levelGuard)
  BY DEF Gate, ReadInv, Behind0, Limited, ListsInv
<1>2. PICK told : Tells(told, added, feature) /\ Starts(file, ha, told) /\ Copies(file, ha, told, {})
  BY <1>1 DEF ReadInv
<1>3. PICK c : c = ha'
  OBVIOUS
<1>4. Fine(c, levelGuard) /\ Gates(ha, c) /\ GatedTo(ha, c, Len(ha.trans))
  <2>1. c = Gated(ha)
    BY <1>3 DEF Gate
  <2> QED
    BY <1>1, <2>1, GatedFine
<1>5. c.locs = ha.locs /\ c.inits = ha.inits /\ c.trans = ha.trans /\ SameConds(ha.heap, c.heap)
  BY <1>4 DEF Gates
<1>6. PICK more : more = {Level(0)}
  OBVIOUS
<1>7. Copies(file, c, told, more)
  <2> SUFFICES ASSUME NEW n \in 1 .. Len(EdgesRead(file)), NEW e, e = EdgesRead(file)[n]
               PROVE  IsCopy(c, n, e, told, more)
    BY DEF Copies
  <2>1. IsCopy(ha, n, e, told, {})
    BY <1>2 DEF Copies
  <2>2. PICK conds : conds = {<<"edge", e>>}
    OBVIOUS
  <2>3. /\ Lists(ha.heap) /\ Len(ha.trans) \in Nat /\ n \in 1 .. Len(ha.trans)
        /\ ha.trans[n].original /\ ha.trans[n].when \in 0 .. Len(ha.heap)
        /\ Asks(ha.heap, ha.trans[n].when, conds)
    BY <1>1, <2>1, <2>2, Sizes DEF IsCopy, Fine, Good, Shaped, IsTransition
  <2>4. LevelBehind(ha, c, ha.trans[n].when) /\ ha.trans[n].when # 0
    BY <1>4, <2>3 DEF GatedTo, Asks
  <2>5. PICK new : /\ Reached(c.heap, ha.trans[n].when) = Reached(ha.heap, ha.trans[n].when) \union {new}
                   /\ c.heap[new].cond = Level(0)
    BY <2>4 DEF LevelBehind
  <2>6. Asks(c.heap, ha.trans[n].when, conds \union more)
    BY <1>5, <1>6, <2>3, <2>5, AsksMore
  <2> QED
    BY <1>5, <2>1, <2>2, <2>6 DEF IsCopy
<1>8. Starts(file, c, told) /\ ArePlaces(file, c, FALSE, IsTemporal(feature)) /\ LastLoc < Len(c.locs)
  BY <1>1, <1>2, <1>5 DEF Starts, ArePlaces
<1> QED
  BY <1>1, <1>2, <1>3, <1>6, <1>7, <1>8, ReadNext

\* The horizon is added to every invariant, and 1 to that of FINAL.
LEMMA ReadBound ==
  ASSUME ListsInv, ReadInv, Bound
  PROVE  ReadInv'
<1>1. /\ pc = "built" /\ pc' = "bound" /\ UNCHANGED <<file, feature, added>>
      /\ Behind0' = Behind0 /\ Limited = FALSE
      /\ added = << >> /\ LastLoc < Len(ha.locs) /\ ArePlaces(file, ha, FALSE, IsTemporal(feature))
      /\ Fine(ha, levelGuard)
  BY DEF Bound, ReadInv, Behind0, Limited, ListsInv
<1>2. PICK told : Tells(told, added, feature) /\ Starts(file, ha, told) /\ Copies(file, ha, told, Behind0)
  BY <1>1 DEF ReadInv
<1>3. CASE ~IsTemporal(feature)
  <2>1. ha' = ha /\ Limited' = FALSE
    BY <1>1, <1>3 DEF Bound, Limited
  <2> QED
    BY <1>1, <1>2, <2>1, ReadNext
<1>4. CASE IsTemporal(feature)
  <2> DEFINE ls == [l \in DOMAIN ha.locs |-> Bounded(ha.locs[l])]
  <2>1. ha' = [ha EXCEPT !.locs = ls] /\ Limited' = TRUE
    BY <1>1, <1>4 DEF Bound, Limited
  <2>2. /\ ha = [locs |-> ha.locs, inits |-> ha.inits, vars |-> ha.vars, heap |-> ha.heap,
                 trans |-> ha.trans]
        /\ DOMAIN ha.locs = 1 .. Len(ha.locs) /\ Len(ha.locs) \in Nat
        /\ \A l \in 1 .. Len(ha.locs) : IsLocation(ha, l)
    BY <1>1, Sizes DEF Fine, Good, Shaped
  <2>3. ls = [l \in 1 .. Len(ha.locs) |-> ls[l]] /\ \A l \in 1 .. Len(ha.locs) : ls[l] = Bounded(ha.locs[l])
    BY <2>2
  <2> HIDE DEF ls
  <2>4. ha'.locs = ls /\ ha'.inits = ha.inits /\ ha'.trans = ha.trans /\ ha'.heap = ha.heap
    BY <2>1, <2>2
  <2>5. Len(ls) = Len(ha.locs)
    BY <2>2, <2>3, SequenceMade
  <2>6. ASSUME NEW l \in 1 .. Len(ha.locs) PROVE IsPlace(file, ls[l], l, TRUE, IsTemporal(feature))
    <3>1. PICK loc, inv : loc = ha.locs[l] /\ inv = Append(loc.inv, BoundOf(loc.name))
      OBVIOUS
    <3>2. loc = [name |-> loc.name, plain |-> loc.plain, inv |-> loc.inv]
      BY <2>2, <3>1 DEF IsLocation
    <3>3. ls[l] = [loc EXCEPT !.inv = inv]
      BY <2>3, <3>1 DEF Bounded
    <3>4. ls[l].name = loc.name /\ ls[l].inv = inv
      BY <3>2, <3>3
    <3>5. IsPlace(file, loc, l, FALSE, IsTemporal(feature))
      BY <1>1, <3>1 DEF ArePlaces
    <3> QED
      BY <3>1, <3>4, <3>5 DEF IsPlace
  <2>7. ArePlaces(file, ha', TRUE, IsTemporal(feature)) /\ LastLoc < Len(ha'.locs)
    BY <1>1, <2>4, <2>5, <2>6 DEF ArePlaces
  <2>8. Starts(file, ha', told) /\ Copies(file, ha', told, Behind0)
    BY <1>2, <2>4 DEF Starts, Copies, IsCopy
  <2> QED
    BY <1>1, <1>2, <2>1, <2>7, <2>8, ReadNext
<1> QED
  BY <1>3, <1>4

\* Nothing of it changes.
LEMMA ReadStill ==
  ASSUME ReadInv, UNCHANGED <<file, feature, added, ha>>, Behind0' = Behind0, Limited' = Limited,
         pc' = "vars" <=> pc = "vars"
  PROVE  ReadInv'
<1>1. PICK told : Tells(told, added, feature) /\ Starts(file, ha, told) /\ Copies(file, ha, told, Behind0)
  BY DEF ReadInv
<1>2. ArePlaces(file, ha', Limited, IsTemporal(feature))
  BY DEF ReadInv
<1>3. /\ pc' # "vars" => added' = << >> /\ LastLoc < Len(ha'.locs)
      /\ pc' = "vars" => Len(ha'.locs) = LastLoc
  BY DEF ReadInv
<1>4. Tells(told, added', feature) /\ Starts(file, ha', told) /\ Copies(file, ha', told, Behind0)
  BY <1>1
<1> QED
  BY <1>2, <1>3, <1>4, ReadNext

\* With ListsInv, what is read stays.
LEMMA ReadKept ==
  ASSUME ListsInv, ReadInv, [FileNext]_xmlVars
  PROVE  ReadInv'
<1>1. CASE Build
  <2>1. CASE AddVariable
    BY <2>1, ReadVariable
  <2>2. CASE Begin
    BY <2>2, ReadBegin
  <2>3. CASE SkipTerm \/ MatchByLoop \/ MatchOnEdges \/ RetainAll \/ RetainOpen \/ RetainNone
    <3>1. ListsInv' /\ Continues(ha, ha')
      BY <2>3, TermKeeps, RetainingKeeps
    <3>2. IsSequence(ha'.trans) /\ IsSequence(ha'.locs)
      BY <3>1 DEF ListsInv, Fine, Good, Shaped
    <3>3. pc = "sweep" /\ pc' \in {"sweep", "gate"} /\ UNCHANGED <<file, feature, added>>
      BY <2>3 DEF SkipTerm, MatchByLoop, MatchOnEdges, RetainAll, RetainOpen, RetainNone, NextLocation,
                  InTerm, NextTerm
    <3> QED
      BY <3>1, <3>2, <3>3, ReadSweep
  <2>5. CASE Gate
    BY <2>5, ReadGate
  <2> QED
    BY <1>1, <2>1, <2>2, <2>3, <2>5 DEF Build
<1>2. CASE Bound
  BY <1>2, ReadBound
<1>3. CASE Write
  <2>1. UNCHANGED <<file, feature, added, ha>> /\ pc = "bound" /\ pc' = "written"
    BY <1>3 DEF Write
  <2>2. Behind0' = Behind0 /\ Limited' = Limited
    BY <2>1 DEF Behind0, Limited, Level
  <2> QED
    BY <2>1, <2>2, ReadStill
<1>4. CASE UNCHANGED xmlVars
  <2>1. UNCHANGED <<file, feature, added, ha, pc>>
    BY <1>4 DEF xmlVars, vars
  <2>2. Behind0' = Behind0 /\ Limited' = Limited
    BY <2>1 DEF Behind0, Limited, Level
  <2> QED
    BY <2>1, <2>2, ReadStill
<1> QED
  BY <1>1, <1>2, <1>3, <1>4 DEF FileNext

-------------------------------------------------------------------------------
\* What is written of it

\* The members of a longer sequence ...
LEMMA RangeAppended ==
  ASSUME NEW s, IsSequence(s), NEW x
  PROVE  Range(Append(s, x)) = Range(s) \union {x}
<1>1. PICK t : t = Append(s, x)
  OBVIOUS
<1>2. /\ IsSequence(t) /\ Len(t) = Len(s) + 1 /\ t[Len(s) + 1] = x
      /\ \A k \in 1 .. Len(s) : t[k] = s[k]
  BY <1>1, Appended
<1>3. Len(s) \in Nat /\ DOMAIN s = 1 .. Len(s) /\ DOMAIN t = 1 .. Len(s) + 1
  BY <1>2, SequenceFacts
<1>4. DOMAIN t = DOMAIN s \union {Len(s) + 1}
  BY <1>3
<1>5. ASSUME NEW y PROVE y \in Range(t) <=> y \in Range(s) \/ y = x
  <2>1. ASSUME y \in Range(t) PROVE y \in Range(s) \/ y = x
    <3>1. PICK k \in DOMAIN t : y = t[k]
      BY <2>1 DEF Range
    <3> QED
      BY <1>2, <1>3, <1>4, <3>1 DEF Range
  <2>2. ASSUME y \in Range(s) PROVE y \in Range(t)
    BY <1>2, <1>3, <1>4, <2>2 DEF Range
  <2>3. x \in Range(t)
    BY <1>2, <1>4 DEF Range
  <2> QED
    BY <2>1, <2>2, <2>3
<1> QED
  BY <1>1, <1>5

\* ... of assignments ...
LEMMA ZerosRange ==
  ASSUME NEW xs, IsSequence(xs)
  PROVE  Range(Zeros(xs)) = {<<x, Number(0)>> : x \in Range(xs)}
BY DEF Zeros, Range

\* ... and of the conditions of a list.
LEMMA ContentsRange ==
  ASSUME NEW h, NEW a
  PROVE  Range(Contents(h, a)) = {h[x].cond : x \in Reached(h, a)}
BY DEF Range, Contents, Reached

\* What is read up to line n is the conjunction of the last line for l, if any.
LinesTo(f, l, n) == {k \in 1 .. n : f.properties[k].kind = "inv" /\ f.properties[k].loc = l}

LastLine(f, l, n, m) == m \in LinesTo(f, l, n) /\ \A k \in LinesTo(f, l, n) : k <= m

AsksLast(f, l, n, inv) ==
  /\ LinesTo(f, l, n) = {} => inv = << >>
  /\ \A m \in 1 .. n : LastLine(f, l, n, m) => inv = Conjunction(f.properties[m].conds)

AreReadings(read, f, l, n) ==
  read = [k \in 0 .. n |->
            IF k = 0 THEN << >>
            ELSE LET p == f.properties[k] IN
                 IF p.kind = "inv" /\ p.loc = l THEN Conjunction(p.conds) ELSE read[k - 1]]

\* Reading the lines of a location is a function.
LEMMA ReadingsUnfold ==
  ASSUME NEW f \in Files, NEW l
  PROVE  Len(f.properties) \in Nat /\ \E read : AreReadings(read, f, l, Len(f.properties))
<1> DEFINE n == Len(f.properties)
           S == {<< >>} \union {Conjunction(f.properties[k].conds) : k \in 1 .. n}
           step == [k \in 1 .. n |-> [inv \in S |->
                      IF f.properties[k].kind = "inv" /\ f.properties[k].loc = l
                      THEN Conjunction(f.properties[k].conds) ELSE inv]]
<1>1. n \in Nat
  BY ListsAssumption, SequenceFacts
<1>2. step \in [1 .. n -> [S -> S]]
  OBVIOUS
<1>3. << >> \in S
  OBVIOUS
<1>4. \E read : Stepping(read, S, << >>, n, step)
  <2> HIDE DEF S, step, n
  <2> QED
    BY <1>1, <1>2, <1>3, StepByStep
<1>5. PICK read : Stepping(read, S, << >>, n, step)
  BY <1>4
<1>6. /\ read \in [0 .. n -> S] /\ read[0] = << >>
      /\ \A k \in 1 .. n : read[k] = step[k][read[k - 1]]
  <2> HIDE DEF S, step, n
  <2> QED
    BY <1>5 DEF Stepping
<1>7. ASSUME NEW k \in 0 .. n
      PROVE  read[k] = IF k = 0 THEN << >>
                       ELSE LET p == f.properties[k] IN
                            IF p.kind = "inv" /\ p.loc = l THEN Conjunction(p.conds) ELSE read[k - 1]
  <2>1. CASE k = 0
    BY <1>6, <2>1
  <2>2. CASE k # 0
    <3>1. k \in 1 .. n /\ k - 1 \in 0 .. n
      BY <1>1, <2>2
    <3>2. read[k - 1] \in S
      BY <1>6, <3>1
    <3>3. read[k] = step[k][read[k - 1]]
      BY <1>6, <3>1
    <3> HIDE DEF S, n
    <3>4. step[k][read[k - 1]]
            = IF f.properties[k].kind = "inv" /\ f.properties[k].loc = l
              THEN Conjunction(f.properties[k].conds) ELSE read[k - 1]
      BY <3>1, <3>2
    <3> QED
      BY <2>2, <3>3, <3>4
  <2> QED
    BY <2>1, <2>2
<1>8. AreReadings(read, f, l, n)
  <2>1. read = [k \in 0 .. n |-> read[k]]
    <3> HIDE DEF S, n
    <3> QED
      BY <1>6
  <2> HIDE DEF n, S
  <2> QED
    BY <1>7, <2>1 DEF AreReadings
<1> QED
  BY <1>1, <1>8

\* In the end the last line for a location counts, the earlier ones do not.
LEMMA InvariantAsked ==
  ASSUME NEW f \in Files, NEW l
  PROVE  AsksLast(f, l, Len(f.properties), InvariantRead(f, l))
<1> DEFINE n == Len(f.properties)
           r == CHOOSE read : AreReadings(read, f, l, n)
<1>1. InvariantRead(f, l) = r[n]
  BY DEF InvariantRead, AreReadings
<1>2. n \in Nat /\ \E read : AreReadings(read, f, l, n)
  BY ReadingsUnfold
<1>3. AreReadings(r, f, l, n)
  BY <1>2
<1> HIDE DEF r, n
<1>4. r[0] = << >>
  <2>1. 0 \in 0 .. n
    BY <1>2
  <2> QED
    BY <1>3, <2>1 DEF AreReadings
<1>5. ASSUME NEW k \in 1 .. n
      PROVE  /\ k \in LinesTo(f, l, n) => r[k] = Conjunction(f.properties[k].conds)
             /\ k \notin LinesTo(f, l, n) => r[k] = r[k - 1]
  <2>1. k \in 0 .. n /\ k # 0
    BY <1>2
  <2> QED
    BY <1>3, <2>1 DEF AreReadings, LinesTo
<1> DEFINE T == {k \in 0 .. n : AsksLast(f, l, k, r[k])}
<1>6. 0 \in T
  <2>1. 1 .. 0 = {} /\ 0 \in 0 .. n
    BY <1>2
  <2> QED
    BY <1>4, <2>1 DEF AsksLast
<1>7. ASSUME NEW k \in 1 .. n, k - 1 \in T PROVE k \in T
  <2>1. k \in Nat /\ k \in 0 .. n /\ 1 .. k = (1 .. k - 1) \union {k}
    BY <1>2
  <2>2. AsksLast(f, l, k - 1, r[k - 1])
    BY <1>7
  <2>3. CASE k \in LinesTo(f, l, n)
    <3>1. k \in LinesTo(f, l, k)
      BY <2>1, <2>3 DEF LinesTo
    <3>2. \A m \in 1 .. k : LastLine(f, l, k, m) => m = k
      <4>1. \A m \in 1 .. k : k <= m => m = k
        BY <2>1
      <4> QED
        BY <3>1, <4>1 DEF LastLine
    <3>3. r[k] = Conjunction(f.properties[k].conds)
      BY <1>5, <2>3
    <3>4. AsksLast(f, l, k, r[k])
      BY <3>1, <3>2, <3>3 DEF AsksLast
    <3> QED
      BY <2>1, <3>4
  <2>4. CASE k \notin LinesTo(f, l, n)
    <3>1. LinesTo(f, l, k) = LinesTo(f, l, k - 1)
      BY <2>1, <2>4 DEF LinesTo
    <3>2. \A m \in 1 .. k : LastLine(f, l, k, m) => m \in 1 .. k - 1 /\ LastLine(f, l, k - 1, m)
      BY <3>1 DEF LastLine, LinesTo
    <3>3. AsksLast(f, l, k, r[k])
      BY <1>5, <2>2, <2>4, <3>1, <3>2 DEF AsksLast
    <3> QED
      BY <2>1, <3>3
  <2> QED
    BY <2>3, <2>4
<1> HIDE DEF T
<1>8. \A k \in 0 .. n : k \in T
  BY <1>2, <1>6, <1>7, Upwards
<1>9. n \in T
  BY <1>2, <1>8
<1>10. AsksLast(f, l, n, r[n])
  BY <1>9 DEF T
<1> QED
  BY <1>1, <1>10 DEF n

\* The invariant of a location in memory is that in its file.
LEMMA AskedRead ==
  ASSUME file \in Files, NEW l
  PROVE  /\ IsSequence(InvariantRead(file, l)) /\ Range(InvariantRead(file, l)) = Asked(l)
         /\ InvariantRead(file, l) = << >> <=> Lines(l) = {}
<1>1. PICK n, inv : n = Len(file.properties) /\ inv = InvariantRead(file, l)
  OBVIOUS
<1>2. AsksLast(file, l, n, inv)
  BY <1>1, InvariantAsked
<1>3. n \in Nat /\ DOMAIN file.properties = 1 .. n
  BY <1>1, ListsAssumption, SequenceFacts
<1>4. Lines(l) = LinesTo(file, l, n)
  BY <1>3 DEF Lines, LinesTo
<1>5. CASE Lines(l) = {}
  <2>1. inv = << >> /\ Asked(l) = {}
    BY <1>2, <1>4, <1>5 DEF AsksLast, Asked
  <2>2. Range(<< >>) = {} /\ IsSequence(<< >>)
    BY ShortSequences DEF Range
  <2> QED
    BY <1>1, <1>5, <2>1, <2>2
<1>6. CASE Lines(l) # {}
  <2> DEFINE last == CHOOSE k \in Lines(l) : \A m \in Lines(l) : m <= k
  <2>1. Lines(l) \in SUBSET (1 .. n)
    BY <1>4 DEF LinesTo
  <2>2. \E k \in Lines(l) : \A m \in Lines(l) : m <= k
    BY <1>3, <1>6, <2>1, GreatestOfNats
  <2>3. last \in Lines(l) /\ \A m \in Lines(l) : m <= last
    BY <2>2
  <2>4. Asked(l) = Range(file.properties[last].conds)
    BY <1>6 DEF Asked
  <2> HIDE DEF last
  <2>5. last \in 1 .. n /\ LastLine(file, l, n, last)
    BY <1>4, <2>1, <2>3 DEF LastLine
  <2>6. PICK conds : conds = file.properties[last].conds
    OBVIOUS
  <2>7. inv = Conjunction(conds)
    BY <1>2, <2>5, <2>6 DEF AsksLast
  <2>8. IsSequence(conds) /\ conds # << >>
    BY <1>3, <1>4, <2>3, <2>5, <2>6, ListsAssumption DEF LinesTo
  <2>9. IsSequence(inv) /\ Len(inv) = Len(conds) /\ Range(inv) = Range(conds)
    BY <2>7, <2>8, Reversed DEF Conjunction
  <2>10. inv # << >>
    <3>1. Len(conds) # 0
      BY <2>8 DEF IsSequence
    <3> QED
      BY <2>9, <3>1
  <2> QED
    BY <1>1, <1>6, <2>4, <2>6, <2>9, <2>10
<1> QED
  BY <1>5, <1>6

\* Every transition of the file is read.
LEMMA EdgesComplete ==
  ASSUME NEW f \in Files, Accepted(f), NEW j \in DOMAIN f.properties, f.properties[j].kind = "trans"
  PROVE  \E m \in 1 .. Len(EdgesRead(f)) : EdgesRead(f)[m] = f.properties[j].edge
<1> DEFINE n == Len(f.properties)
           r == CHOOSE read : AreEdges(read, f, n)
<1>1. EdgesRead(f) = r[n]
  BY DEF EdgesRead, AreEdges
<1>2. PICK read \in [0 .. n -> Seq(EdgesFrom(f))] : AreEdges(read, f, n)
  BY EdgesUnfold
<1>3. AreEdges(r, f, n)
  BY <1>2
<1>4. n \in Nat /\ j \in 1 .. n
  BY EdgesUnfold, ListsAssumption, SequenceFacts
<1> HIDE DEF r, n
<1>5. r[n] = read[n]
  BY <1>2, <1>3, <1>4, EdgesUnique
<1>6. ASSUME NEW k \in 1 .. n
      PROVE  /\ f.properties[k].kind = "trans" => read[k] = Append(read[k - 1], f.properties[k].edge)
             /\ f.properties[k].kind # "trans" => read[k] = read[k - 1]
  <2>1. k \in 0 .. n /\ k # 0
    BY <1>4
  <2> QED
    BY <1>2, <2>1 DEF AreEdges
<1> DEFINE T == {k \in 0 .. n :
                   \A i \in 1 .. k : f.properties[i].kind = "trans" =>
                     \E m \in 1 .. Len(read[k]) : read[k][m] = f.properties[i].edge}
<1>7. 0 \in T
  BY <1>4
<1>8. ASSUME NEW k \in 1 .. n, k - 1 \in T PROVE k \in T
  <2>1. k \in 0 .. n /\ k - 1 \in 0 .. n /\ \A i \in 1 .. k : i \in 1 .. k - 1 \/ i = k
    BY <1>4
  <2>2. \A i \in 1 .. k - 1 : f.properties[i].kind = "trans" =>
          \E m \in 1 .. Len(read[k - 1]) : read[k - 1][m] = f.properties[i].edge
    BY <1>8
  <2>3. ASSUME NEW i \in 1 .. k, f.properties[i].kind = "trans"
        PROVE  \E m \in 1 .. Len(read[k]) : read[k][m] = f.properties[i].edge
    <3>1. PICK s, e : s = read[k - 1] /\ e = f.properties[k].edge
      OBVIOUS
    <3>2. s \in Seq(EdgesFrom(f)) /\ Len(s) \in Nat
      BY <1>2, <2>1, <3>1
    <3>3. CASE f.properties[k].kind = "trans"
      <4>1. read[k] = Append(s, e)
        BY <1>6, <3>1, <3>3
      <4>2. IsSequence(s)
        <5>1. s = [x \in 1 .. Len(s) |-> s[x]]
          BY <3>2, SequenceIsFunction
        <5> QED
          BY <3>2, <5>1, SequenceMade
      <4>3. /\ Len(Append(s, e)) = Len(s) + 1 /\ Append(s, e)[Len(s) + 1] = e
            /\ \A m \in 1 .. Len(s) : Append(s, e)[m] = s[m]
        BY <4>2, Appended
      <4>4. PICK t : t = read[k]
        OBVIOUS
      <4>5. Len(t) = Len(s) + 1 /\ t[Len(s) + 1] = e /\ \A m \in 1 .. Len(s) : t[m] = s[m]
        BY <4>1, <4>3, <4>4
      <4>6. CASE i = k
        <5>1. Len(s) + 1 \in 1 .. Len(t)
          BY <3>2, <4>5
        <5> QED
          BY <3>1, <4>4, <4>5, <4>6, <5>1
      <4>7. CASE i \in 1 .. k - 1
        <5>1. PICK m \in 1 .. Len(s) : s[m] = f.properties[i].edge
          BY <2>2, <2>3, <3>1, <4>7
        <5>2. m \in 1 .. Len(t) /\ t[m] = s[m]
          BY <3>2, <4>5, <5>1
        <5> QED
          BY <4>4, <5>1, <5>2
      <4> QED
        BY <2>1, <4>6, <4>7
    <3>4. CASE f.properties[k].kind # "trans"
      <4>1. read[k] = s /\ i \in 1 .. k - 1
        BY <1>6, <2>1, <2>3, <3>1, <3>4
      <4> QED
        BY <2>2, <2>3, <3>1, <4>1
    <3> QED
      BY <3>3, <3>4
  <2> QED
    BY <2>1, <2>3
<1> HIDE DEF T
<1>9. \A k \in 0 .. n : k \in T
  BY <1>4, <1>7, <1>8, Upwards
<1>10. n \in T
  BY <1>4, <1>9
<1>11. \E m \in 1 .. Len(read[n]) : read[n][m] = f.properties[j].edge
  BY <1>4, <1>10 DEF T
<1> QED
  BY <1>1, <1>5, <1>11

\* What is written of the lists.
IsWritten(w, h, t) == w.guard = Contents(h, t.when) /\ w.assignment = t.reset

WrittenInv ==
  xml # None =>
    /\ pc = "written" /\ xml.initially = ha.inits /\ xml.final = LastLoc + 1
    /\ DOMAIN xml.trans = DOMAIN ha.trans
    /\ \A n \in DOMAIN ha.trans :
         /\ IsWritten(xml.trans[n], ha.heap, ha.trans[n])
         /\ ha.trans[n].goto \in Names => xml.trans[n].target \in DOMAIN ha.locs
    /\ \A l \in DOMAIN ha.locs :
         /\ xml.locs[l].name = ha.locs[l].name /\ xml.locs[l].inv = ha.locs[l].inv
         /\ xml.locs[l].closed <=> ha.locs[l].inv # << >>

\* Where the locations of each kind stand.
LEMMA PlacesNamed ==
  ASSUME ListsInv, ReadInv, NEW l \in DOMAIN ha.locs
  PROVE  /\ l \in 1 .. Len(ha.locs) /\ LastLoc \in Nat
         /\ l <= LastLoc => l \in Locs /\ ha.locs[l].name = <<l>>
         /\ l = LastLoc + 1 => ha.locs[l].name = Final
         /\ l > LastLoc + 1 =>
              /\ IsTemporal(feature) /\ IsPauseName(ha.locs[l].name)
              /\ ha.locs[l].name[1] \in Locs
<1>1. l \in 1 .. Len(ha.locs) /\ LastLoc \in Nat
  BY Sizes, ListsAssumption DEF ListsInv, Fine
<1>2. IsLocation(ha, l) /\ IsPlace(file, ha.locs[l], l, Limited, IsTemporal(feature))
  BY <1>1 DEF ListsInv, Fine, Good, Shaped, ReadInv, ArePlaces
<1>3. ASSUME l <= LastLoc PROVE l \in Locs /\ ha.locs[l].name = <<l>>
  BY <1>1, <1>2, <1>3 DEF Locs, IsLocation
<1>4. l = LastLoc + 1 => ha.locs[l].name = Final
  BY <1>2 DEF IsPlace
<1>5. ASSUME l > LastLoc + 1
      PROVE  IsTemporal(feature) /\ IsPauseName(ha.locs[l].name) /\ ha.locs[l].name[1] \in Locs
  <2>1. PICK name : name = ha.locs[l].name
    OBVIOUS
  <2>2. IsTemporal(feature) /\ \E m \in Locs : name = PauseName(m, name[2], name[3], name[4])
    BY <1>2, <1>5, <2>1 DEF IsPlace
  <2>3. PICK m \in Locs : name = PauseName(m, name[2], name[3], name[4])
    BY <2>2
  <2>4. IsPauseName(name) /\ name[1] = m
    BY <2>3, PauseNames
  <2> QED
    BY <2>1, <2>2, <2>4
<1> QED
  BY <1>1, <1>3, <1>4, <1>5

\* Locations of the model are found by their numbers, FINAL by its own.
LEMMA CalledWhere ==
  ASSUME ListsInv, ReadInv, NEW l \in DOMAIN ha.locs
  PROVE  /\ CalledFinal(ha.locs[l].name) <=> l = LastLoc + 1 \/ l \in FinalLike
         /\ ha.locs[l].name = Final <=> l = LastLoc + 1
<1>1. PICK name : name = ha.locs[l].name
  OBVIOUS
<1>2. /\ l \in Nat /\ LastLoc \in Nat
      /\ l <= LastLoc => l \in Locs /\ name = <<l>>
      /\ l = LastLoc + 1 => name = Final
      /\ l > LastLoc + 1 => IsPauseName(name)
  BY <1>1, PlacesNamed
<1>3. CASE l <= LastLoc
  <2>1. name = <<l>> /\ l # LastLoc + 1
    BY <1>2, <1>3
  <2>2. name # Final /\ \A k : name = <<k>> => k = l
    <3>1. ASSUME NEW k, name = <<k>> PROVE k = l
      <4>1. name[1] = k /\ name[1] = l
        BY <2>1, <3>1
      <4> QED
        BY <4>1
    <3> QED
      BY <2>1, <3>1 DEF Final
  <2> QED
    BY <1>1, <2>1, <2>2 DEF CalledFinal
<1>4. CASE l = LastLoc + 1
  BY <1>1, <1>2, <1>4 DEF CalledFinal
<1>5. CASE l > LastLoc + 1
  <2>1. PICK a, b, c, d : name = <<a, b, c, d>>
    BY <1>2, <1>5 DEF IsPauseName, PauseName
  <2>2. name # Final /\ \A k : name # <<k>>
    BY <2>1 DEF Final
  <2>3. l \notin FinalLike /\ l # LastLoc + 1
    BY <1>2, <1>5, FinalAssumption
  <2> QED
    BY <1>1, <2>2, <2>3 DEF CalledFinal
<1> QED
  BY <1>2, <1>3, <1>4, <1>5

\* FINAL stands behind the locations of the model.
LEMMA FinalIsFinal ==
  ASSUME ListsInv, ReadInv, pc # "vars"
  PROVE  FinalId = LastLoc + 1
<1> DEFINE called == {l \in Ids : CalledFinal(ha.locs[l].name)}
           last == LastLoc + 1
<1>1. DOMAIN ha.locs = 1 .. Len(ha.locs) /\ LastLoc \in Nat /\ Len(ha.locs) \in Nat /\ LastLoc < Len(ha.locs)
  BY Sizes, ListsAssumption DEF ListsInv, Fine, ReadInv
<1>2. last \in called
  <2>1. last \in DOMAIN ha.locs
    BY <1>1
  <2> QED
    BY <2>1, CalledWhere DEF Ids
<1>3. \A l \in called : l \in Nat /\ l <= last
  <2> SUFFICES ASSUME NEW l \in Ids, CalledFinal(ha.locs[l].name) PROVE l \in Nat /\ l <= last
    OBVIOUS
  <2>1. l = last \/ l \in FinalLike
    BY CalledWhere DEF Ids
  <2>2. CASE l = last
    BY <1>1, <2>2
  <2>3. CASE l \in FinalLike
    <3>1. l \in 1 .. LastLoc
      BY <2>3, FinalAssumption
    <3> QED
      BY <1>1, <3>1
  <2> QED
    BY <2>1, <2>2, <2>3
<1>4. FinalId = CHOOSE l \in called : \A k \in called : k <= l
  BY DEF FinalId
<1> HIDE DEF called
<1>5. \A m \in called : (\A k \in called : k <= m) => m = last
  <2> SUFFICES ASSUME NEW m \in called, \A k \in called : k <= m PROVE m = last
    OBVIOUS
  <2>1. last <= m /\ m <= last /\ m \in Nat /\ last \in Nat
    BY <1>1, <1>2, <1>3
  <2> HIDE DEF last
  <2> QED
    BY <2>1
<1>6. \E m \in called : \A k \in called : k <= m
  BY <1>2, <1>3
<1>7. (CHOOSE l \in called : \A k \in called : k <= l) \in called
      /\ \A k \in called : k <= (CHOOSE l \in called : \A m \in called : m <= l)
  BY <1>6
<1> QED
  BY <1>4, <1>5, <1>7

\* Write makes what WrittenInv says.
LEMMA WrittenMade ==
  ASSUME ListsInv, ReadInv, Write
  PROVE  WrittenInv'
<1>1. UNCHANGED <<ha, feature, file>> /\ pc' = "written" /\ pc # "vars"
  BY DEF Write
<1>2. PICK f \in Finds, junk \in Junk :
        xml' = [locs |-> [l \in Ids |-> WrittenLocation(l)],
                trans |-> [n \in DOMAIN ha.trans |->
                  LET t == ha.trans[n] IN
                  WrittenTransition(t, f, IF t.goto \in Names THEN IdOf(t.goto, f) ELSE junk)],
                final |-> FinalId,
                initially |-> ha.inits]
  BY DEF Write
<1>3. xml'.initially = ha.inits /\ xml'.final = FinalId /\ DOMAIN xml'.trans = DOMAIN ha.trans
  BY <1>2
<1>4. FinalId = LastLoc + 1
  BY <1>1, FinalIsFinal
<1>5. ASSUME NEW n \in DOMAIN ha.trans
      PROVE  /\ IsWritten(xml'.trans[n], ha.heap, ha.trans[n])
             /\ ha.trans[n].goto \in Names => xml'.trans[n].target \in DOMAIN ha.locs
  <2>1. PICK t, target : t = ha.trans[n] /\ target = IF t.goto \in Names THEN IdOf(t.goto, f) ELSE junk
    OBVIOUS
  <2>2. xml'.trans[n] = WrittenTransition(t, f, target)
    BY <1>2, <2>1
  <2>3. /\ xml'.trans[n].target = target /\ xml'.trans[n].assignment = t.reset
        /\ xml'.trans[n].guard = Contents(ha.heap, t.when)
    BY <2>2 DEF WrittenTransition
  <2>4. t.goto \in Names => target \in DOMAIN ha.locs
    BY <2>1, FoundForName DEF Ids
  <2> QED
    BY <2>1, <2>3, <2>4 DEF IsWritten
<1>6. ASSUME NEW l \in DOMAIN ha.locs
      PROVE  /\ xml'.locs[l].name = ha.locs[l].name /\ xml'.locs[l].inv = ha.locs[l].inv
             /\ xml'.locs[l].closed <=> ha.locs[l].inv # << >>
  <2>1. xml'.locs[l] = WrittenLocation(l)
    BY <1>2 DEF Ids
  <2>2. PICK w, name, inv, closed :
          w = xml'.locs[l] /\ name = ha.locs[l].name /\ inv = ha.locs[l].inv /\ closed = (inv # << >>)
    OBVIOUS
  <2>3. w = [id |-> l, name |-> name, inv |-> inv, closed |-> closed]
    BY <2>1, <2>2 DEF WrittenLocation
  <2>4. w.name = name /\ w.inv = inv /\ w.closed = closed
    BY <2>3
  <2> QED
    BY <2>2, <2>4
<1>7. Names' = Names
  BY <1>1 DEF Names, Ids
<1> QED
  BY <1>1, <1>3, <1>4, <1>5, <1>6, <1>7 DEF WrittenInv

\* What is read, and what is written of it.
ModelInv == FileInv /\ ReadInv /\ WrittenInv

\* The three invariants together are inductive.
LEMMA ModelKept ==
  ASSUME ModelInv, [FileNext]_xmlVars
  PROVE  ModelInv'
<1>1. FileInv' /\ ReadInv'
  BY FileKept, ReadKept DEF ModelInv, FileInv
<1>2. CASE Build /\ UNCHANGED xml
  <2>1. pc # "written"
    BY <1>2 DEF Build, AddVariable, Begin, SkipTerm, MatchByLoop, MatchOnEdges, RetainAll, RetainOpen,
                RetainNone, NextLocation, InTerm, Gate
  <2>2. xml' = None
    BY <1>2, <2>1 DEF ModelInv, WrittenInv
  <2> QED
    BY <1>1, <2>2 DEF ModelInv, WrittenInv
<1>3. CASE Bound
  <2>1. xml' = None
    BY <1>3 DEF Bound, ModelInv, WrittenInv
  <2> QED
    BY <1>1, <2>1 DEF ModelInv, WrittenInv
<1>4. CASE Write
  <2>1. WrittenInv'
    BY <1>4, WrittenMade DEF ModelInv, FileInv
  <2> QED
    BY <1>1, <2>1 DEF ModelInv
<1>5. CASE UNCHANGED xmlVars
  <2>1. UNCHANGED <<ha, pc, xml>>
    BY <1>5 DEF xmlVars, vars
  <2>2. Names' = Names
    BY <2>1 DEF Names, Ids
  <2>3. WrittenInv'
    BY <2>1, <2>2 DEF ModelInv, WrittenInv
  <2> QED
    BY <1>1, <2>3 DEF ModelInv
<1> QED
  BY <1>2, <1>3, <1>4, <1>5 DEF FileNext

\* So they hold throughout.
LEMMA ModelAlways == FileSpec => []ModelInv
<1>1. FileInit => ModelInv
  BY ListsInitially, ReadInitially DEF FileInit, ModelInv, FileInv, ChainsWritten, WrittenInv
<1>2. ModelInv /\ [FileNext]_xmlVars => ModelInv'
  BY ModelKept
<1> QED
  BY <1>1, <1>2, PTL DEF FileSpec

\* The condition of addTimeBound, and what an invariant is without it.
LEMMA LimitOf ==
  ASSUME ListsInv, ReadInv, NEW l \in DOMAIN ha.locs
  PROVE  BoundOf(ha.locs[l].name)
           = <<"time", IF ha.locs[l].name = Final \/ l \in FinalLike THEN 1 ELSE Horizon>>
BY CalledWhere DEF BoundOf

\* The invariant without a horizon: that of the file, or true for FINAL.
LEMMA BaseAsked ==
  ASSUME file \in Files, NEW name
  PROVE  /\ IsSequence(Base(file, name))
         /\ Range(Base(file, name)) = IF name = Final THEN {True} ELSE Asked(name[1])
         /\ name = Final => Base(file, name) # << >>
         /\ name # Final => (Base(file, name) = << >> <=> Lines(name[1]) = {})
<1>1. CASE name = Final
  <2>1. PICK s : s = <<True>>
    OBVIOUS
  <2>2. Base(file, name) = s
    BY <1>1, <2>1 DEF Base
  <2>3. IsSequence(s) /\ s # << >>
    BY <2>1, ShortSequences
  <2>4. Range(s) = {True}
    BY <2>1 DEF Range
  <2> QED
    BY <1>1, <2>2, <2>3, <2>4
<1>2. CASE name # Final
  <2>1. Base(file, name) = InvariantRead(file, name[1])
    BY <1>2 DEF Base
  <2> QED
    BY <1>2, <2>1, AskedRead
<1> QED
  BY <1>1, <1>2

\* The invariant of one location in the file that is written.
LEMMA InvariantFollows ==
  ASSUME ModelInv, xml # None, NEW l \in Ids, NEW name, name = xml.locs[l].name,
         NEW asked, asked = IF name = Final THEN {True} ELSE Asked(name[1]),
         NEW limit, limit = IF name = Final \/ l \in FinalLike THEN 1 ELSE Horizon
  PROVE  /\ Range(xml.locs[l].inv) = asked \union IF IsTemporal(feature) THEN {<<"time", limit>>} ELSE {}
         /\ xml.locs[l].closed <=> ~Unclosed(l)
<1>1. /\ l \in DOMAIN ha.locs /\ name = ha.locs[l].name /\ xml.locs[l].inv = ha.locs[l].inv
      /\ xml.locs[l].closed <=> ha.locs[l].inv # << >>
      /\ pc = "written" /\ ListsInv /\ ReadInv /\ file \in Files
  BY DEF Ids, ModelInv, WrittenInv, FileInv, ReadInv
<1>2. PICK inv, base, bound : inv = ha.locs[l].inv /\ base = Base(file, name) /\ bound = <<"time", limit>>
  OBVIOUS
<1>3. BoundOf(name) = bound
  BY <1>1, <1>2, LimitOf
<1>4. /\ IsSequence(base) /\ Range(base) = asked
      /\ name = Final => base # << >>
      /\ name # Final => (base = << >> <=> Lines(name[1]) = {})
  BY <1>1, <1>2, BaseAsked
<1>5. IsPlace(file, ha.locs[l], l, Limited, IsTemporal(feature))
  BY <1>1, PlacesNamed DEF ReadInv, ArePlaces
<1>6. CASE IsTemporal(feature)
  <2>1. Limited
    BY <1>1, <1>6 DEF Limited
  <2>2. inv = Append(base, bound)
    BY <1>1, <1>2, <1>3, <1>5, <2>1 DEF IsPlace
  <2>3. Range(inv) = Range(base) \union {bound}
    BY <1>4, <2>2, RangeAppended
  <2>4. inv # << >>
    <3>1. Len(inv) = Len(base) + 1 /\ Len(base) \in Nat
      BY <1>4, <2>2, Appended, SequenceFacts
    <3> QED
      BY <3>1
  <2>5. ~Unclosed(l)
    BY <1>6 DEF Unclosed
  <2> QED
    BY <1>1, <1>2, <1>4, <1>6, <2>3, <2>4, <2>5
<1>7. CASE ~IsTemporal(feature)
  <2>1. ~Limited
    BY <1>7 DEF Limited
  <2>2. inv = base
    BY <1>1, <1>2, <1>5, <2>1 DEF IsPlace
  <2>3. /\ LastLoc \in Nat /\ l \in Nat
        /\ l <= LastLoc => l \in Locs /\ name = <<l>>
        /\ l = LastLoc + 1 => name = Final
        /\ ~(l > LastLoc + 1)
    BY <1>1, <1>7, PlacesNamed
  <2>4. inv # << >> <=> ~Unclosed(l)
    <3>1. CASE l <= LastLoc
      <4>1. name # Final /\ name[1] = l /\ l \in Locs
        BY <2>3, <3>1 DEF Final
      <4> QED
        BY <1>4, <1>7, <2>2, <4>1 DEF Unclosed
    <3>2. CASE l = LastLoc + 1
      <4>1. l \notin Locs /\ name = Final
        BY <2>3, <3>2 DEF Locs
      <4> QED
        BY <1>4, <2>2, <4>1 DEF Unclosed
    <3> QED
      BY <2>3, <3>1, <3>2
  <2> QED
    BY <1>1, <1>2, <1>4, <1>7, <2>2, <2>4
<1> QED
  BY <1>6, <1>7

\* Those of all.
LEMMA InvariantsFollow ==
  ASSUME ModelInv
  PROVE  InvariantsWritten
<1> SUFFICES ASSUME xml # None, NEW l \in Ids
             PROVE  LET loc == xml.locs[l]
                        asked == IF loc.name = Final THEN {True} ELSE Asked(loc.name[1])
                        limit == IF loc.name = Final \/ l \in FinalLike THEN 1 ELSE Horizon
                    IN /\ Range(loc.inv)
                            = asked \union IF IsTemporal(feature) THEN {<<"time", limit>>} ELSE {}
                       /\ loc.closed <=> ~Unclosed(l)
  BY DEF InvariantsWritten
<1>1. PICK name, asked, limit :
        /\ name = xml.locs[l].name
        /\ asked = IF name = Final THEN {True} ELSE Asked(name[1])
        /\ limit = IF name = Final \/ l \in FinalLike THEN 1 ELSE Horizon
  OBVIOUS
<1>2. /\ Range(xml.locs[l].inv) = asked \union IF IsTemporal(feature) THEN {<<"time", limit>>} ELSE {}
      /\ xml.locs[l].closed <=> ~Unclosed(l)
  BY <1>1, InvariantFollows
<1> QED
  BY <1>1, <1>2

\* All variables are added when the file is written.
LEMMA AllTold ==
  ASSUME ModelInv, xml # None
  PROVE  LET told == Added(feature) IN
           IsSequence(told) /\ Starts(file, ha, told) /\ Copies(file, ha, told, {Level(0)})
<1>1. pc = "written" /\ added = << >>
  BY DEF ModelInv, WrittenInv, ReadInv
<1>2. PICK told : Tells(told, added, feature) /\ Starts(file, ha, told) /\ Copies(file, ha, told, Behind0)
  BY DEF ModelInv, ReadInv
<1>3. Behind0 = {Level(0)}
  BY <1>1 DEF Behind0
<1>4. IsSequence(told) /\ told = Added(feature)
  BY <1>1, <1>2, EmptyJoined DEF Tells
<1> QED
  BY <1>2, <1>3, <1>4

\* One initial set in the file that is written.
LEMMA StartFollows ==
  ASSUME ModelInv, xml # None, NEW n \in DOMAIN file.initial, NEW start, start = xml.initially[n],
         NEW own, own = file.initial[n]
  PROVE  /\ start.mode = own.mode
         /\ Range(start.conds) = Range(own.conds) \union {<<x, Number(0)>> : x \in Range(Added(feature))}
         /\ Len(start.conds) = Len(own.conds) + Len(Added(feature))
<1>1. PICK told : told = Added(feature)
  OBVIOUS
<1>2. IsSequence(told) /\ Starts(file, ha, told) /\ xml.initially = ha.inits /\ file \in Files
  BY <1>1, AllTold DEF ModelInv, WrittenInv, ReadInv
<1>3. n \in 1 .. Len(file.initial) /\ IsSequence(own.conds)
  BY <1>2, ListsAssumption, SequenceFacts
<1>4. PICK conds, zeros, asked :
        conds = Conjunction(own.conds) /\ zeros = Zeros(told) /\ asked = conds \o zeros
  OBVIOUS
<1>5. start = [mode |-> own.mode, conds |-> asked]
  BY <1>2, <1>3, <1>4 DEF Starts, IsStart
<1>6. start.mode = own.mode /\ start.conds = asked
  BY <1>5
<1>7. IsSequence(conds) /\ Len(conds) = Len(own.conds) /\ Range(conds) = Range(own.conds)
  BY <1>3, <1>4, Reversed DEF Conjunction
<1>8. IsSequence(zeros) /\ Len(zeros) = Len(told) /\ Range(zeros) = {<<x, Number(0)>> : x \in Range(told)}
  BY <1>2, <1>4, ZerosRead, ZerosRange
<1>9. Len(conds \o zeros) = Len(conds) + Len(zeros)
  BY <1>7, <1>8, Concatenated
<1>10. Range(conds \o zeros) = Range(conds) \union Range(zeros)
  BY <1>7, <1>8, RangeJoined
<1> QED
  BY <1>1, <1>4, <1>6, <1>7, <1>8, <1>9, <1>10

\* All of them.
LEMMA StartsFollow ==
  ASSUME ModelInv
  PROVE  Started
<1> SUFFICES ASSUME xml # None
             PROVE  /\ Len(xml.initially) = Len(file.initial)
                    /\ \A n \in DOMAIN file.initial :
                         LET start == xml.initially[n]
                             own == Range(file.initial[n].conds)
                         IN /\ start.mode = file.initial[n].mode
                            /\ Range(start.conds) = own \union {<<x, Number(0)>> : x \in Range(Added(feature))}
                            /\ Len(start.conds) = Len(file.initial[n].conds) + Len(Added(feature))
  BY DEF Started
<1>1. Len(xml.initially) = Len(file.initial)
  BY AllTold DEF ModelInv, WrittenInv, Starts
<1>2. ASSUME NEW n \in DOMAIN file.initial, NEW start, start = xml.initially[n]
      PROVE  /\ start.mode = file.initial[n].mode
             /\ Range(start.conds)
                  = Range(file.initial[n].conds) \union {<<x, Number(0)>> : x \in Range(Added(feature))}
             /\ Len(start.conds) = Len(file.initial[n].conds) + Len(Added(feature))
  BY <1>2, StartFollows
<1> QED
  BY <1>1, <1>2

\* The transition written for e.
LEMMA EdgeFollows ==
  ASSUME ModelInv, xml # None, NEW j \in DOMAIN file.properties, file.properties[j].kind = "trans",
         NEW e, e = file.properties[j].edge
  PROVE  \E k \in DOMAIN xml.trans :
           /\ NameOf(xml.trans[k].source) = <<e.from>>
           /\ <<e.to>> \in Names => NameOf(xml.trans[k].target) = <<e.to>>
           /\ Range(xml.trans[k].guard) = {<<"edge", e>>, Level(0)}
           /\ Range(xml.trans[k].assignment) = Range(Resets[e]) \union Range(Identities(Added(feature)))
<1>1. file \in Files /\ Accepted(file) /\ ListsInv /\ ChainsWritten
  BY DEF ModelInv, ReadInv, FileInv
<1>2. PICK n \in 1 .. Len(EdgesRead(file)) : EdgesRead(file)[n] = e
  BY <1>1, EdgesComplete
<1>3. PICK told, conds, goto, ids, own :
        /\ told = Added(feature) /\ conds = {<<"edge", e>>, Level(0)} /\ goto = <<e.to>>
        /\ ids = Identities(told) /\ own = Resets[e]
  OBVIOUS
<1>4. IsSequence(told) /\ IsCopy(ha, n, e, told, {Level(0)})
  BY <1>2, <1>3, AllTold DEF Copies
<1>5. e \in EdgePool /\ e.from \in Locs
  <2>1. EdgesRead(file) \in Seq(EdgesFrom(file))
    BY <1>1, EdgesTyped
  <2> QED
    BY <1>2, <2>1 DEF EdgesFrom
<1>6. /\ n \in DOMAIN ha.trans /\ DOMAIN xml.trans = DOMAIN ha.trans
      /\ IsWritten(xml.trans[n], ha.heap, ha.trans[n])
  BY <1>1, <1>4, Sizes DEF IsCopy, ListsInv, Fine, ModelInv, WrittenInv
<1>7. NameOf(xml.trans[n].source) = <<e.from>>
  <2>1. NameOf(xml.trans[n].source) = ha.locs[ha.trans[n].from].name
    BY <1>1, <1>6 DEF ChainsWritten
  <2>2. e.from \in 1 .. Len(ha.locs)
    <3>1. LastLoc <= Len(ha.locs) /\ Len(ha.locs) \in Nat /\ LastLoc \in Nat
      BY <1>1, Sizes, ListsAssumption DEF ListsInv, Fine, Good, Shaped
    <3> QED
      BY <1>5, <3>1 DEF Locs
  <2>3. IsLocation(ha, e.from)
    BY <1>1, <2>2 DEF ListsInv, Fine, Good, Shaped
  <2> QED
    BY <1>4, <1>5, <2>1, <2>3 DEF IsLocation, IsCopy
<1>8. goto \in Names => NameOf(xml.trans[n].target) = goto
  BY <1>1, <1>3, <1>4, <1>6 DEF ChainsWritten, IsCopy
<1>9. Range(xml.trans[n].guard) = conds
  <2>1. xml.trans[n].guard = Contents(ha.heap, ha.trans[n].when)
    BY <1>6 DEF IsWritten
  <2>2. {ha.heap[x].cond : x \in Reached(ha.heap, ha.trans[n].when)} = conds
    BY <1>3, <1>4 DEF IsCopy, Asks
  <2> QED
    BY <2>1, <2>2, ContentsRange
<1>10. Range(xml.trans[n].assignment) = Range(own) \union Range(ids)
  <2>1. xml.trans[n].assignment = own \o ids
    BY <1>3, <1>4, <1>6 DEF IsWritten, IsCopy
  <2>2. IsSequence(own) /\ IsSequence(ids)
    BY <1>3, <1>4, <1>5, ListsAssumption, IdentitiesRead
  <2> QED
    BY <2>1, <2>2, RangeJoined
<1> QED
  BY <1>3, <1>6, <1>7, <1>8, <1>9, <1>10

\* All the transitions of the model.
LEMMA ModelFollows ==
  ASSUME ModelInv
  PROVE  ModelWritten
<1> SUFFICES ASSUME xml # None, NEW p \in Range(file.properties), p.kind = "trans", NEW e, e = p.edge
             PROVE  \E k \in DOMAIN xml.trans :
                      /\ NameOf(xml.trans[k].source) = <<e.from>>
                      /\ <<e.to>> \in Names => NameOf(xml.trans[k].target) = <<e.to>>
                      /\ Range(xml.trans[k].guard) = {<<"edge", e>>, Level(0)}
                      /\ Range(xml.trans[k].assignment)
                           = Range(Resets[e]) \union Range(Identities(Added(feature)))
  BY DEF ModelWritten
<1>1. PICK j \in DOMAIN file.properties : p = file.properties[j]
  BY DEF Range
<1> QED
  BY <1>1, EdgeFollows

\* What leads to FINAL are the last matches: others set level to something else.
LEMMA FinalFollows ==
  ASSUME ModelInv
  PROVE  FinalFound
<1> SUFFICES ASSUME xml # None, NEW n \in DOMAIN ha.trans, ha.trans[n].goto \in Names
             PROVE  xml.trans[n].target = xml.final <=>
                      LastReset(xml.trans[n].assignment, "level") = Number(0) /\ ~IsHop(ha.trans[n])
  BY DEF FinalFound
<1>1. ListsInv /\ ReadInv /\ ChainsWritten /\ xml.final = LastLoc + 1
  BY DEF ModelInv, WrittenInv, FileInv
<1>2. PICK t, l : t = ha.trans[n] /\ l = xml.trans[n].target
  OBVIOUS
<1>3. l \in DOMAIN ha.locs /\ xml.trans[n].assignment = t.reset
  BY <1>2 DEF ModelInv, WrittenInv, IsWritten
<1>4. ha.locs[l].name = t.goto
  BY <1>1, <1>2, <1>3 DEF ChainsWritten, NameOf, Ids
<1>5. l = xml.final <=> t.goto = Final
  BY <1>1, <1>3, <1>4, CalledWhere
<1>6. Settled(t)
  BY <1>1, <1>2, Sizes DEF ListsInv, Fine, Good, Shaped, IsTransition
<1>7. CASE t.goto = Final /\ LastReset(t.reset, "level") = Number(0)
  <2>1. Len(t.goto) # 4
    BY <1>7 DEF Final
  <2> QED
    BY <1>2, <1>3, <1>5, <1>7, <2>1 DEF IsHop
<1>8. CASE t.goto = <<t.goto[1]>> /\ LastReset(t.reset, "level") # Number(0)
  <2>1. t.goto # Final
    BY <1>8 DEF Final
  <2> QED
    BY <1>2, <1>3, <1>5, <1>8, <2>1
<1>9. CASE IsPauseName(t.goto)
  <2>1. PICK a, b, c, d : t.goto = <<a, b, c, d>>
    BY <1>9 DEF IsPauseName, PauseName
  <2>2. t.goto # Final /\ Len(t.goto) = 4
    BY <2>1 DEF Final
  <2> QED
    BY <1>2, <1>5, <2>2 DEF IsHop
<1> QED
  BY <1>6, <1>7, <1>8, <1>9 DEF Settled

-------------------------------------------------------------------------------
\* Theorems about the file

\* Transitions leave and enter locations of the names they have in memory, and all
\* that go by one name use one location, although names are looked up by their
\* addresses and several locations may have the same name: no chain of hops is cut
\* (structs.c, writeSpaceEx).
THEOREM ChainsStayWritten == FileSpec => []ChainsWritten
<1>1. ModelInv => ChainsWritten
  BY DEF ModelInv, FileInv
<1> QED
  BY <1>1, ModelAlways, PTL

\* The location handed on as FINAL is entered by the last matches and by no other
\* transition, though a location of the model may be called final too: the last one
\* counts, and pause locations, which come behind it, are not called so
\* (structs.c, writeSpaceEx).
THEOREM FinalAlwaysFound == FileSpec => []FinalFound
<1>1. ModelInv => FinalFound
  BY FinalFollows
<1> QED
  BY <1>1, ModelAlways, PTL

\* Every location asks for the invariant of the last line of its file, or of the
\* location where the match began, and for the horizon; it is closed if it asks for
\* anything (haslacParser.y; structs.c, addTimeBound, writeSpaceEx).
THEOREM InvariantsStayWritten == FileSpec => []InvariantsWritten
<1>1. ModelInv => InvariantsWritten
  BY InvariantsFollow
<1> QED
  BY <1>1, ModelAlways, PTL

\* The sets a run may start in are those of the file, with each added variable at 0
\* once, whatever is matched (structs.c, addLocalVariable; writeSpaceExConfig).
THEOREM AlwaysStarted == FileSpec => []Started
<1>1. ModelInv => Started
  BY StartsFollow
<1> QED
  BY <1>1, ModelAlways, PTL

\* Every transition of the file is written with its own guard, at level 0, and with
\* its own resets, in spite of all the copies of its guard that are made and linked
\* before (structs.c, levelSequence).
THEOREM ModelStaysWritten == FileSpec => []ModelWritten
<1>1. ModelInv => ModelWritten
  BY ModelFollows
<1> QED
  BY <1>1, ModelAlways, PTL

===============================================================================
